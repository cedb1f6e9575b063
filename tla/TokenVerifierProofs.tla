------------------------ MODULE TokenVerifierProofs ------------------------
(***************************************************************************)
(* Proofs about TokenVerifier, for every number of requests, every set of  *)
(* keys and tokens and every lifetime, floor and delay.                    *)
(***************************************************************************)
EXTENDS TokenVerifier, QueueLemmas

LEMMA InitInv == Init => Inv
<1> SUFFICES ASSUME Init PROVE Inv
  OBVIOUS
<1> USE VerifierAssumption
<1>1. TypeOK
  <2>1. 0 \in Time /\ 0 \in 0..Never /\ Never \in 0..Never
    BY DEF Time, Never
  <2>2. /\ since \in [Kids -> 0..Never] /\ withdrawn \in [Kids -> 0..Never]
        /\ pc \in [Requests -> {"idle", "fill", "force"}]
        /\ token \in [Requests -> Tokens \cup {Unusable}]
        /\ arrived \in [Requests -> Time]
    BY <2>1 DEF Init
  <2>3. queue \in Seq(Requests) /\ keys \in SUBSET Kids
    BY DEF Init
  <2>4. last \in [answer: Answers, token: Tokens \cup {Unusable}, arrived: Time]
    BY <2>1 DEF Init, Answers
  <2> QED BY <2>1, <2>2, <2>3, <2>4 DEF Init, TypeOK
<1>2. Queued /\ Served /\ Cached /\ Forced /\ NoNeedlessRefresh
  BY DEF Init, Queued, Served, Cached, Forced, NoNeedlessRefresh
<1>3. Clock /\ Admitted /\ NoStaleKey
  BY DEF Init, Clock, Admitted, NoStaleKey
<1> QED BY <1>1, <1>2, <1>3 DEF Inv

(* Only a token in order is worth a principal. *)
LEMMA VerdictFacts ==
  ASSUME NEW t \in Tokens
  PROVE  /\ t.kid \in Kids /\ t # Unusable
         /\ Verdict(t) \in Answers \ {"none", "unknown_key"}
         /\ Verdict(t) = "principal" => t.claims = "good"
<1>1. t \in TokenForms /\ Unusable \notin TokenForms
  BY VerifierAssumption
<1> QED BY <1>1 DEF TokenForms, Verdict, Answers

(* What answering a request does to it, and to no other. *)
LEMMA AnswerKeeps ==
  ASSUME Inv, UNCHANGED <<now, tenantVars>>,
         NEW r \in Requests, NEW t \in Tokens \cup {Unusable}, NEW at \in Time,
         at <= now, NEW a \in Answers, Answer(r, t, at, a),
         a = "principal" =>
           /\ t \in Tokens /\ t.claims = "good"
           /\ since[t.kid] <= now
           /\ withdrawn[t.kid] >= at - CacheTTL - Lag
  PROVE  /\ pc' \in [Requests -> {"idle", "fill", "force"}]
         /\ token' \in [Requests -> Tokens \cup {Unusable}]
         /\ arrived' \in [Requests -> Time]
         /\ last' \in [answer: Answers, token: Tokens \cup {Unusable}, arrived: Time]
         /\ pc'[r] = "idle" /\ arrived'[r] = 0
         /\ \A s \in Requests : s # r => /\ pc'[s] = pc[s]
                                         /\ token'[s] = token[s]
                                         /\ arrived'[s] = arrived[s]
         /\ Admitted' /\ NoStaleKey'
<1> USE VerifierAssumption
<1>1. /\ pc' = [pc EXCEPT ![r] = "idle"]
      /\ token' = [token EXCEPT ![r] = Unusable]
      /\ arrived' = [arrived EXCEPT ![r] = 0]
  BY DEF Answer
<1>2. /\ pc' \in [Requests -> {"idle", "fill", "force"}]
      /\ token' \in [Requests -> Tokens \cup {Unusable}]
      /\ arrived' \in [Requests -> Time]
      /\ pc'[r] = "idle" /\ arrived'[r] = 0
      /\ \A s \in Requests : s # r => /\ pc'[s] = pc[s]
                                      /\ token'[s] = token[s]
                                      /\ arrived'[s] = arrived[s]
  BY <1>1 DEF Inv, TypeOK, Time
<1>3. CASE a = "principal"
  <2>1. last' = [answer |-> a, token |-> t, arrived |-> at]
    BY <1>3 DEF Answer
  <2>2. last'.answer = a /\ last'.token = t /\ last'.arrived = at
    BY <2>1
  <2>3. last' \in [answer: Answers, token: Tokens \cup {Unusable}, arrived: Time]
    BY <2>1
  <2>4. now' = now /\ since' = since /\ withdrawn' = withdrawn
    BY DEF tenantVars
  <2>5. Admitted' /\ NoStaleKey'
    BY <1>3, <2>2, <2>4 DEF Admitted, NoStaleKey
  <2> QED BY <1>2, <2>3, <2>5
<1>4. CASE a # "principal"
  <2>1. last' = [answer |-> a, token |-> Unusable, arrived |-> 0]
    BY <1>4 DEF Answer
  <2>2. last'.answer = a /\ last'.arrived = 0 /\ 0 <= now /\ 0 \in Time
    BY <2>1 DEF Inv, TypeOK, Time
  <2>3. last' \in [answer: Answers, token: Tokens \cup {Unusable}, arrived: Time]
    BY <2>1, <2>2
  <2>4. Admitted' /\ NoStaleKey'
    BY <1>4, <2>2 DEF Admitted, NoStaleKey
  <2> QED BY <1>2, <2>3, <2>4
<1> QED BY <1>3, <1>4

(* The head of the queue waits with a token that can be read. *)
LEMMA HeadWaits ==
  ASSUME Inv, NEW r \in Requests, queue # <<>>, Head(queue) = r
  PROVE  /\ pc[r] \in {"fill", "force"}
         /\ token[r] \in Tokens /\ token[r].kid \in Kids
         /\ arrived[r] \in Time /\ arrived[r] <= now
         /\ queue[1] = r /\ Len(queue) \in Nat \ {0} /\ queue \in Seq(Requests)
<1>1. queue \in Seq(Requests)
  BY DEF Inv, TypeOK
<1>2. queue[1] = r /\ 1 \in 1..Len(queue) /\ Len(queue) \in Nat \ {0}
  BY <1>1, TailFacts
<1>3. pc[r] \in {"fill", "force"} /\ token[r] \in Tokens
  BY <1>2 DEF Inv, Queued
<1> QED BY <1>1, <1>2, <1>3, VerdictFacts DEF Inv, TypeOK, Clock

(* What is common to the steps that leave the lock with an answer. *)
LEMMA LeaveKeeps ==
  ASSUME Inv, NEW r \in Requests, queue # <<>>, Head(queue) = r,
         UNCHANGED <<now, tenantVars, configured>>, get' = "none",
         NEW a \in Answers, Leave(r, a),
         a = "principal" =>
           /\ token[r].claims = "good"
           /\ since[token[r].kid] <= now
           /\ withdrawn[token[r].kid] >= arrived[r] - CacheTTL - Lag
  PROVE  /\ queue' \in Seq(Requests)
         /\ pc' \in [Requests -> {"idle", "fill", "force"}]
         /\ token' \in [Requests -> Tokens \cup {Unusable}]
         /\ arrived' \in [Requests -> Time]
         /\ last' \in [answer: Answers, token: Tokens \cup {Unusable}, arrived: Time]
         /\ pc'[r] = "idle" /\ arrived'[r] = 0
         /\ \A s \in Requests : s # r => /\ pc'[s] = pc[s]
                                         /\ token'[s] = token[s]
                                         /\ arrived'[s] = arrived[s]
         /\ Queued' /\ Admitted' /\ NoStaleKey'
<1>1. /\ token[r] \in Tokens /\ arrived[r] \in Time /\ arrived[r] <= now
      /\ queue \in Seq(Requests)
  BY HeadWaits
<1>2. Answer(r, token[r], arrived[r], a) /\ queue' = Tail(queue)
  BY DEF Leave
<1>3. /\ pc' \in [Requests -> {"idle", "fill", "force"}]
      /\ token' \in [Requests -> Tokens \cup {Unusable}]
      /\ arrived' \in [Requests -> Time]
      /\ last' \in [answer: Answers, token: Tokens \cup {Unusable}, arrived: Time]
      /\ pc'[r] = "idle" /\ arrived'[r] = 0
      /\ \A s \in Requests : s # r => /\ pc'[s] = pc[s]
                                      /\ token'[s] = token[s]
                                      /\ arrived'[s] = arrived[s]
      /\ Admitted' /\ NoStaleKey'
  BY <1>1, <1>2, AnswerKeeps
<1>4. Distinct(queue)
  BY DEF Inv, Queued, Distinct
<1>5. /\ queue' \in Seq(Requests)
      /\ \A i \in 1..Len(queue') : /\ i + 1 \in 1..Len(queue)
                                   /\ queue'[i] = queue[i + 1]
                                   /\ queue'[i] \in Requests
  BY <1>1, <1>2, TailFacts
<1>6. Distinct(queue') /\ \A i \in 1..Len(queue') : queue'[i] # r
  BY <1>1, <1>2, <1>4, TailDistinct
<1>7. \A i \in 1..Len(queue') : /\ pc'[queue'[i]] \in {"fill", "force"}
                                /\ token'[queue'[i]] \in Tokens
  BY <1>3, <1>5, <1>6 DEF Inv, Queued
<1>8. Queued'
  BY <1>6, <1>7 DEF Queued, Distinct
<1> QED BY <1>3, <1>5, <1>8

(* What is common to the steps after which a request queues again. *)
LEMMA RequeueKeeps ==
  ASSUME Inv, NEW r \in Requests, queue # <<>>, Head(queue) = r,
         get' = "none", UNCHANGED token, pc' = [pc EXCEPT ![r] = "force"],
         queue' = Append(Tail(queue), r)
  PROVE  /\ queue' \in Seq(Requests)
         /\ pc' \in [Requests -> {"idle", "fill", "force"}]
         /\ pc'[r] = "force"
         /\ \A s \in Requests : s # r => pc'[s] = pc[s]
         /\ Queued'
<1>1. queue \in Seq(Requests) /\ token[r] \in Tokens
  BY HeadWaits
<1>2. /\ pc' \in [Requests -> {"idle", "fill", "force"}]
      /\ pc'[r] = "force"
      /\ \A s \in Requests : s # r => pc'[s] = pc[s]
  BY DEF Inv, TypeOK
<1>3. Distinct(queue)
  BY DEF Inv, Queued, Distinct
<1>4. /\ Tail(queue) \in Seq(Requests)
      /\ \A i \in 1..Len(Tail(queue)) : /\ i + 1 \in 1..Len(queue)
                                        /\ Tail(queue)[i] = queue[i + 1]
                                        /\ Tail(queue)[i] \in Requests
  BY <1>1, TailFacts
<1>5. Distinct(Tail(queue)) /\ \A i \in 1..Len(Tail(queue)) : Tail(queue)[i] # r
  BY <1>1, <1>3, TailDistinct
<1>6. Distinct(queue')
  BY <1>4, <1>5, AppendDistinct
<1>7. /\ queue' \in Seq(Requests)
      /\ \A i \in 1..Len(queue') : \/ /\ i \in 1..Len(Tail(queue))
                                      /\ queue'[i] = Tail(queue)[i]
                                   \/ queue'[i] = r
  BY <1>4, AppendFacts
<1>8. \A i \in 1..Len(Tail(queue)) : /\ pc'[Tail(queue)[i]] \in {"fill", "force"}
                                     /\ token'[Tail(queue)[i]] \in Tokens
  BY <1>2, <1>4, <1>5 DEF Inv, Queued
<1>9. \A i \in 1..Len(queue') : /\ pc'[queue'[i]] \in {"fill", "force"}
                                /\ token'[queue'[i]] \in Tokens
  BY <1>1, <1>2, <1>7, <1>8
<1>10. Queued'
  BY <1>6, <1>9 DEF Queued, Distinct
<1> QED BY <1>2, <1>7, <1>10

(* A key of the cached set is no older than the set and a GET. *)
LEMMA CachedKey ==
  ASSUME Inv, NEW k \in keys
  PROVE  /\ k \in Kids
         /\ since[k] \in Int /\ withdrawn[k] \in Int
         /\ since[k] <= now
         /\ withdrawn[k] >= fetched - Lag
         /\ fetched \in Int /\ now \in Int
<1>1. k \in Kids /\ keys # {}
  BY DEF Inv, TypeOK
<1>2. since[k] \in Int /\ withdrawn[k] \in Int /\ fetched \in Int /\ now \in Int
  BY <1>1, VerifierAssumption DEF Inv, TypeOK, Time, Never
<1>3. since[k] <= fetched /\ withdrawn[k] >= fetched - Lag /\ fetched <= now
  BY <1>1 DEF Inv, Cached, Clock
<1> QED BY <1>1, <1>2, <1>3

LEMMA PresentInv ==
  ASSUME Inv, NEW r \in Requests, NEW t \in Tokens \cup {Unusable}, Present(r, t)
  PROVE  Inv'
<1> USE VerifierAssumption
<1>0. /\ pc[r] = "idle"
      /\ UNCHANGED <<now, tenantVars, configured, cacheVars, fetchVars>>
      /\ now \in Time /\ now \in Int /\ now <= now
  BY DEF Present, Inv, TypeOK, Time
<1>1. \A i \in 1..Len(queue) : queue[i] # r /\ queue[i] \in Requests
  BY <1>0 DEF Inv, TypeOK, Queued
<1>2. Served' /\ Cached'
  BY <1>0 DEF Inv, Served, Cached, tenantVars, cacheVars, fetchVars
<1>3. ASSUME NEW a \in Answers, Answer(r, t, now, a), queue' = queue,
             a = "principal" =>
               /\ t \in Tokens /\ t.claims = "good"
               /\ since[t.kid] <= now
               /\ withdrawn[t.kid] >= now - CacheTTL - Lag
      PROVE  Inv'
  <2>1. /\ pc' \in [Requests -> {"idle", "fill", "force"}]
        /\ token' \in [Requests -> Tokens \cup {Unusable}]
        /\ arrived' \in [Requests -> Time]
        /\ last' \in [answer: Answers, token: Tokens \cup {Unusable}, arrived: Time]
        /\ pc'[r] = "idle" /\ arrived'[r] = 0
        /\ \A s \in Requests : s # r => /\ pc'[s] = pc[s]
                                        /\ token'[s] = token[s]
                                        /\ arrived'[s] = arrived[s]
        /\ Admitted' /\ NoStaleKey'
    BY <1>0, <1>3, AnswerKeeps
  <2>2. TypeOK'
    BY <1>0, <1>3, <2>1 DEF Inv, TypeOK, tenantVars, cacheVars, fetchVars
  <2>3. Queued'
    BY <1>0, <1>1, <1>3, <2>1 DEF Inv, Queued, fetchVars
  <2>4. Clock'
    BY <1>0, <2>1 DEF Inv, Clock, Time, tenantVars, cacheVars, fetchVars
  <2>5. Forced'
    BY <1>0, <2>1 DEF Inv, Forced, cacheVars
  <2>6. NoNeedlessRefresh'
    <3>1. queue # <<>> => Head(queue) \in Requests /\ Head(queue) # r
      <4> SUFFICES ASSUME queue # <<>> PROVE Head(queue) \in Requests /\ Head(queue) # r
        OBVIOUS
      <4>1. queue \in Seq(Requests)
        BY DEF Inv, TypeOK
      <4>2. Head(queue) = queue[1] /\ Len(queue) \in Nat \ {0}
        BY <4>1, TailFacts
      <4> QED BY <1>1, <4>2
    <3> QED BY <1>0, <1>3, <2>1, <3>1
            DEF Inv, NoNeedlessRefresh, Fresh, cacheVars, fetchVars
  <2> QED BY <1>2, <2>1, <2>2, <2>3, <2>4, <2>5, <2>6 DEF Inv
<1>4. CASE ~configured
  BY <1>3, <1>4 DEF Present, Answers
<1>5. CASE configured /\ t = Unusable
  BY <1>3, <1>5 DEF Present, Answers
<1>6. CASE configured /\ t # Unusable /\ Fresh /\ t.kid \in keys
  <2>1. Answer(r, t, now, Verdict(t)) /\ queue' = queue
    BY <1>6 DEF Present
  <2>2. /\ t \in Tokens /\ Verdict(t) \in Answers
        /\ Verdict(t) = "principal" => t.claims = "good"
    BY <1>6, VerdictFacts
  <2>3. since[t.kid] <= now /\ withdrawn[t.kid] >= now - CacheTTL - Lag
    BY <1>6, CachedKey DEF Fresh
  <2> QED BY <1>3, <2>1, <2>2, <2>3
<1>7. CASE configured /\ t # Unusable /\ (Fresh => t.kid \notin keys)
  <2>0. t \in Tokens
    BY <1>7
  <2>1. /\ pc' = [pc EXCEPT ![r] = IF Fresh THEN "force" ELSE "fill"]
        /\ token' = [token EXCEPT ![r] = t]
        /\ arrived' = [arrived EXCEPT ![r] = now]
        /\ queue' = Append(queue, r)
        /\ last' = last
    BY <1>7 DEF Present
  <2>2. /\ queue' \in Seq(Requests) /\ queue' # <<>>
        /\ Len(queue') = Len(queue) + 1 /\ Len(queue) \in Nat
        /\ \A i \in 1..Len(queue) : queue'[i] = queue[i]
        /\ queue'[Len(queue) + 1] = r
        /\ \A i \in 1..Len(queue') : i \in 1..Len(queue) \/ i = Len(queue) + 1
    <3>1. queue \in Seq(Requests)
      BY DEF Inv, TypeOK
    <3>2. /\ Append(queue, r) \in Seq(Requests) /\ Append(queue, r) # <<>>
          /\ Len(Append(queue, r)) = Len(queue) + 1 /\ Len(queue) \in Nat
          /\ \A i \in 1..Len(queue) : Append(queue, r)[i] = queue[i]
          /\ Append(queue, r)[Len(queue) + 1] = r
          /\ \A i \in 1..Len(Append(queue, r)) : i \in 1..Len(queue) \/ i = Len(queue) + 1
      BY <3>1, AppendFacts
    <3> QED BY <2>1, <3>2
  <2>3. Distinct(queue')
    <3>1. Distinct(queue) /\ queue \in Seq(Requests)
      BY DEF Inv, TypeOK, Queued, Distinct
    <3> QED BY <1>1, <2>1, <3>1, AppendDistinct
  <2>4. /\ pc' \in [Requests -> {"idle", "fill", "force"}]
        /\ token' \in [Requests -> Tokens \cup {Unusable}]
        /\ arrived' \in [Requests -> Time]
        /\ pc'[r] \in {"fill", "force"} /\ token'[r] = t /\ arrived'[r] = now
        /\ pc'[r] = "force" => Fresh
        /\ \A s \in Requests : s # r => /\ pc'[s] = pc[s]
                                        /\ token'[s] = token[s]
                                        /\ arrived'[s] = arrived[s]
    BY <1>0, <2>1 DEF Inv, TypeOK
  <2>5. TypeOK'
    BY <1>0, <2>1, <2>2, <2>4 DEF Inv, TypeOK, tenantVars, cacheVars, fetchVars
  <2>6. \A i \in 1..Len(queue') : /\ pc'[queue'[i]] \in {"fill", "force"}
                                  /\ token'[queue'[i]] \in Tokens
    BY <1>1, <2>0, <2>2, <2>4 DEF Inv, Queued
  <2>7. Queued'
    BY <2>2, <2>3, <2>6 DEF Queued, Distinct
  <2>8. Clock'
    BY <1>0, <2>4 DEF Inv, Clock, tenantVars, cacheVars, fetchVars
  <2>9. Forced'
    BY <1>0, <1>7, <2>4 DEF Inv, Forced, Fresh, cacheVars
  <2>10. Admitted' /\ NoStaleKey'
    BY <1>0, <2>1 DEF Inv, Admitted, NoStaleKey, tenantVars
  <2>11. NoNeedlessRefresh'
    <3> SUFFICES ASSUME get' # "none" PROVE NoNeedlessRefresh'
      BY DEF NoNeedlessRefresh
    <3>1. get # "none" /\ queue # <<>> /\ queue \in Seq(Requests)
      BY <1>0 DEF Inv, TypeOK, NoNeedlessRefresh, fetchVars
    <3>2. Head(queue) = queue[1] /\ 1 \in 1..Len(queue) /\ Head(queue') = queue'[1]
      BY <2>2, <3>1, TailFacts
    <3>3. Head(queue') = Head(queue) /\ Head(queue) # r /\ Head(queue) \in Requests
      BY <1>1, <2>2, <3>2
    <3> QED BY <1>0, <2>2, <2>4, <3>1, <3>3
            DEF Inv, NoNeedlessRefresh, Fresh, cacheVars, fetchVars
  <2> QED BY <1>2, <2>5, <2>7, <2>8, <2>9, <2>10, <2>11 DEF Inv
<1> QED BY <1>4, <1>5, <1>6, <1>7 DEF Present

(* The cached set stays, or is replaced by one that is fetched now. *)
Refreshed ==
  \/ UNCHANGED <<keys, fetched>>
  \/ keys' \in SUBSET Kids /\ keys' # {} /\ fetched' = now

(* A request leaves the lock with its answer; no GET is under way then. *)
LEMMA LeaveInv ==
  ASSUME Inv, NEW r \in Requests, queue # <<>>, Head(queue) = r,
         UNCHANGED <<now, tenantVars, configured, configuration>>,
         get' = "none", began' \in Time, doc' = NoDoc,
         Refreshed, Cached', NEW a \in Answers, Leave(r, a),
         a = "principal" =>
           /\ token[r].claims = "good"
           /\ since[token[r].kid] <= now
           /\ withdrawn[token[r].kid] >= arrived[r] - CacheTTL - Lag
  PROVE  Inv'
<1> USE VerifierAssumption
<1>1. /\ queue' \in Seq(Requests)
      /\ pc' \in [Requests -> {"idle", "fill", "force"}]
      /\ token' \in [Requests -> Tokens \cup {Unusable}]
      /\ arrived' \in [Requests -> Time]
      /\ last' \in [answer: Answers, token: Tokens \cup {Unusable}, arrived: Time]
      /\ pc'[r] = "idle" /\ arrived'[r] = 0
      /\ \A s \in Requests : s # r => /\ pc'[s] = pc[s]
                                      /\ token'[s] = token[s]
                                      /\ arrived'[s] = arrived[s]
      /\ Queued' /\ Admitted' /\ NoStaleKey'
  BY LeaveKeeps
<1>2. now \in Time /\ now \in Int /\ fetched' \in Time /\ fetched' <= now
  BY DEF Inv, TypeOK, Time, Clock, Refreshed
<1>3. TypeOK'
  BY <1>1, <1>2 DEF Inv, TypeOK, Refreshed, tenantVars
<1>4. Clock'
  BY <1>1, <1>2 DEF Inv, Clock, Time, tenantVars
<1>5. Served' /\ NoNeedlessRefresh'
  BY DEF Served, NoNeedlessRefresh
<1>6. Forced'
  <2> SUFFICES ASSUME NEW s \in Requests, pc'[s] = "force"
               PROVE  keys' # {} /\ (token'[s].kid \in keys' => fetched' >= arrived'[s])
    BY DEF Forced
  <2>1. s # r /\ pc[s] = "force" /\ token'[s] = token[s] /\ arrived'[s] = arrived[s]
    BY <1>1
  <2>2. CASE UNCHANGED <<keys, fetched>>
    BY <2>1, <2>2 DEF Inv, Forced
  <2>3. CASE keys' # {} /\ fetched' = now
    BY <2>1, <2>3 DEF Inv, Clock
  <2> QED BY <2>2, <2>3 DEF Refreshed
<1> QED BY <1>1, <1>3, <1>4, <1>5, <1>6 DEF Inv

(* A request that did not find its key in the cached set queues again. *)
LEMMA RequeueInv ==
  ASSUME Inv, NEW r \in Requests, queue # <<>>, Head(queue) = r,
         UNCHANGED <<now, tenantVars, configured, configuration, token, arrived, last>>,
         get' = "none", began' \in Time, doc' = NoDoc,
         Refreshed, Cached', keys' # {}, token[r].kid \notin keys',
         pc' = [pc EXCEPT ![r] = "force"], queue' = Append(Tail(queue), r)
  PROVE  Inv'
<1> USE VerifierAssumption
<1>1. /\ queue' \in Seq(Requests)
      /\ pc' \in [Requests -> {"idle", "fill", "force"}]
      /\ pc'[r] = "force"
      /\ \A s \in Requests : s # r => pc'[s] = pc[s]
      /\ Queued'
  BY RequeueKeeps
<1>2. now \in Time /\ now \in Int /\ fetched' \in Time /\ fetched' <= now
  BY DEF Inv, TypeOK, Time, Clock, Refreshed
<1>3. TypeOK'
  BY <1>1, <1>2 DEF Inv, TypeOK, Refreshed, tenantVars
<1>4. Clock' /\ Admitted' /\ NoStaleKey'
  BY <1>1, <1>2 DEF Inv, Clock, Admitted, NoStaleKey, tenantVars
<1>5. Served' /\ NoNeedlessRefresh'
  BY DEF Served, NoNeedlessRefresh
<1>6. Forced'
  <2> SUFFICES ASSUME NEW s \in Requests, pc'[s] = "force"
               PROVE  token[s].kid \in keys' => fetched' >= arrived[s]
    BY DEF Forced
  <2>1. CASE s = r
    BY <2>1
  <2>2. CASE s # r /\ UNCHANGED <<keys, fetched>>
    BY <1>1, <2>2 DEF Inv, Forced
  <2>3. CASE fetched' = now
    BY <2>3 DEF Inv, Clock
  <2> QED BY <2>1, <2>2, <2>3 DEF Refreshed
<1> QED BY <1>1, <1>3, <1>4, <1>5, <1>6 DEF Inv

(* The request at the head sends a GET, because the cached set cannot serve *)
(* it.                                                                      *)
LEMMA AskInv ==
  ASSUME Inv, NEW r \in Requests, queue # <<>>, Head(queue) = r,
         UNCHANGED <<now, tenantVars, configured, keys, fetched, queue, requestVars>>,
         configuration' \in BOOLEAN,
         get' \in {"configuration", "keys"}, began' = now, doc = NoDoc, doc' = NoDoc,
         \/ pc[r] = "fill" /\ ~Fresh
         \/ /\ pc[r] = "force" /\ token[r].kid \notin keys
            /\ now - fetched >= MinRefresh
  PROVE  Inv'
<1> USE VerifierAssumption
<1>1. now \in Time /\ now \in Int /\ now <= now /\ now <= now + Lag
  BY DEF Inv, TypeOK, Time
<1>2. TypeOK'
  BY <1>1 DEF Inv, TypeOK, tenantVars, requestVars
<1>3. Queued' /\ Served' /\ Cached' /\ Forced' /\ Admitted' /\ NoStaleKey'
  BY DEF Inv, Queued, Served, Cached, Forced, Admitted, NoStaleKey, tenantVars,
         requestVars
<1>4. Clock'
  BY <1>1 DEF Inv, Clock, tenantVars, requestVars
<1>5. NoNeedlessRefresh'
  BY DEF NoNeedlessRefresh, Fresh, requestVars
<1> QED BY <1>2, <1>3, <1>4, <1>5 DEF Inv

LEMMA EnterFillInv ==
  ASSUME Inv, NEW r \in Requests, EnterFill(r)
  PROVE  Inv'
<1> USE VerifierAssumption
<1>0. /\ queue # <<>> /\ Head(queue) = r /\ pc[r] = "fill" /\ get = "none"
      /\ UNCHANGED <<now, tenantVars, configured, configuration, keys, fetched>>
  BY DEF EnterFill, AtHead, cacheVars
<1>1. doc = NoDoc /\ began \in Time /\ Refreshed /\ Cached'
  BY <1>0 DEF Inv, TypeOK, Served, Cached, Refreshed, tenantVars
<1>2. CASE Fresh
  <2>0. Found(r, keys) /\ UNCHANGED fetchVars
    BY <1>2 DEF EnterFill
  <2>1. CASE token[r].kid \in keys
    <3>1. Leave(r, Verdict(token[r]))
      BY <2>0, <2>1 DEF Found
    <3>2. /\ token[r] \in Tokens /\ arrived[r] \in Int /\ arrived[r] <= now
          /\ Verdict(token[r]) \in Answers
          /\ Verdict(token[r]) = "principal" => token[r].claims = "good"
      BY <1>0, HeadWaits, VerdictFacts DEF Time
    <3>3. /\ since[token[r].kid] <= now
          /\ withdrawn[token[r].kid] >= arrived[r] - CacheTTL - Lag
      BY <1>2, <2>1, <3>2, CachedKey DEF Fresh
    <3> QED BY <1>0, <1>1, <2>0, <3>1, <3>2, <3>3, LeaveInv DEF fetchVars
  <2>2. CASE token[r].kid \notin keys
    <3>1. /\ pc' = [pc EXCEPT ![r] = "force"]
          /\ UNCHANGED <<token, arrived, last>>
          /\ queue' = Append(Tail(queue), r)
      BY <2>0, <2>2 DEF Found
    <3> QED BY <1>0, <1>1, <1>2, <2>0, <2>2, <3>1, RequeueInv DEF Fresh, fetchVars
  <2> QED BY <2>1, <2>2
<1>3. CASE ~Fresh
  <2>1. /\ get' \in {"configuration", "keys"} /\ began' = now /\ doc' = doc
        /\ UNCHANGED <<queue, requestVars>>
    BY <1>3 DEF EnterFill, Ask
  <2>2. configuration' \in BOOLEAN
    BY <1>0 DEF Inv, TypeOK
  <2> QED BY <1>0, <1>1, <1>3, <2>1, <2>2, AskInv
<1> QED BY <1>2, <1>3

LEMMA EnterForceInv ==
  ASSUME Inv, NEW r \in Requests, EnterForce(r)
  PROVE  Inv'
<1> USE VerifierAssumption
<1>0. /\ queue # <<>> /\ Head(queue) = r /\ pc[r] = "force" /\ get = "none"
      /\ UNCHANGED <<now, tenantVars, configured, configuration, keys, fetched>>
  BY DEF EnterForce, AtHead, cacheVars
<1>1. doc = NoDoc /\ began \in Time /\ Refreshed /\ Cached'
  BY <1>0 DEF Inv, TypeOK, Served, Cached, Refreshed, tenantVars
<1>2. CASE token[r].kid \in keys
  <2>1. Leave(r, Verdict(token[r])) /\ UNCHANGED fetchVars
    BY <1>2 DEF EnterForce
  <2>2. /\ token[r] \in Tokens /\ arrived[r] \in Int
        /\ Verdict(token[r]) \in Answers
        /\ Verdict(token[r]) = "principal" => token[r].claims = "good"
    BY <1>0, HeadWaits, VerdictFacts DEF Time
  <2>3. fetched >= arrived[r]
    BY <1>0, <1>2 DEF Inv, Forced
  <2>4. /\ since[token[r].kid] <= now
        /\ withdrawn[token[r].kid] >= arrived[r] - CacheTTL - Lag
    BY <1>2, <2>2, <2>3, CachedKey
  <2> QED BY <1>0, <1>1, <2>1, <2>2, <2>4, LeaveInv DEF fetchVars
<1>3. CASE Leave(r, "unknown_key") /\ UNCHANGED fetchVars
  <2>1. "unknown_key" \in Answers
    BY DEF Answers
  <2> QED BY <1>0, <1>1, <1>3, <2>1, LeaveInv DEF fetchVars
<1>4. CASE token[r].kid \notin keys /\ now - fetched >= MinRefresh /\ Ask
           /\ UNCHANGED <<queue, requestVars>>
  <2>1. get' \in {"configuration", "keys"} /\ began' = now /\ doc' = doc
    BY <1>4 DEF Ask
  <2>2. configuration' \in BOOLEAN
    BY <1>0 DEF Inv, TypeOK
  <2> QED BY <1>0, <1>1, <1>4, <2>1, <2>2, AskInv
<1> QED BY <1>2, <1>3, <1>4 DEF EnterForce

LEMMA DiscoverInv ==
  ASSUME Inv, NEW r \in Requests, Discover(r)
  PROVE  Inv'
<1>1. /\ queue # <<>> /\ Head(queue) = r /\ get = "configuration"
      /\ get' = "keys" /\ began' = now /\ doc' = doc /\ configuration' \in BOOLEAN
      /\ UNCHANGED <<now, tenantVars, configured, keys, fetched, queue, requestVars>>
  BY DEF Discover
<1>2. doc = NoDoc
  BY <1>1 DEF Inv, Served
<1>3. \/ pc[r] = "fill" /\ ~Fresh
      \/ pc[r] = "force" /\ token[r].kid \notin keys /\ now - fetched >= MinRefresh
  BY <1>1 DEF Inv, NoNeedlessRefresh
<1> QED BY <1>1, <1>2, <1>3, AskInv

(* A key set that has come is the tenant's within the time of its GET. *)
LEMMA DocFacts ==
  ASSUME Inv, doc # NoDoc
  PROVE  /\ doc \in SUBSET Kids /\ get = "keys"
         /\ began \in Int /\ now \in Int
         /\ now - Lag <= began /\ began <= now
         /\ \A k \in doc : /\ since[k] \in Int /\ withdrawn[k] \in Int
                            /\ since[k] <= now /\ withdrawn[k] >= now - Lag
         /\ \A k \in Kids \ doc : since[k] >= now - Lag \/ withdrawn[k] <= now
<1> USE VerifierAssumption
<1>1. doc \in SUBSET Kids /\ get = "keys" /\ began \in Int /\ now \in Int
  BY DEF Inv, TypeOK, Time, Served
<1>2. now - Lag <= began /\ began <= now
  BY <1>1 DEF Inv, Clock
<1>3. \A k \in Kids : since[k] \in Int /\ withdrawn[k] \in Int
  BY DEF Inv, TypeOK, Never
<1>4. \A k \in doc : since[k] <= now /\ withdrawn[k] >= now - Lag
  BY <1>1, <1>2, <1>3 DEF Inv, Served
<1>5. \A k \in Kids \ doc : since[k] >= now - Lag \/ withdrawn[k] <= now
  BY <1>1, <1>2, <1>3 DEF Inv, Served
<1> QED BY <1>1, <1>2, <1>3, <1>4, <1>5

LEMMA CacheInv ==
  ASSUME Inv, NEW r \in Requests, Cache(r)
  PROVE  Inv'
<1> USE VerifierAssumption
<1>0. /\ queue # <<>> /\ Head(queue) = r /\ doc # NoDoc /\ doc # {}
      /\ keys' = doc /\ fetched' = now
      /\ get' = "none" /\ began' = 0 /\ doc' = NoDoc
      /\ UNCHANGED <<now, tenantVars, configured, configuration>>
  BY DEF Cache
<1>1. /\ doc \in SUBSET Kids /\ now \in Int /\ 0 \in Time
      /\ \A k \in doc : /\ since[k] \in Int /\ withdrawn[k] \in Int
                         /\ since[k] <= now /\ withdrawn[k] >= now - Lag
  BY <1>0, DocFacts DEF Time
<1>2. Refreshed /\ Cached'
  BY <1>0, DocFacts DEF Refreshed, Cached, tenantVars
<1>3. CASE Leave(r, Verdict(token[r])) /\ token[r].kid \in doc
  <2>1. /\ arrived[r] \in Int /\ arrived[r] <= now
        /\ Verdict(token[r]) \in Answers
        /\ Verdict(token[r]) = "principal" => token[r].claims = "good"
    BY <1>0, HeadWaits, VerdictFacts DEF Time
  <2>2. /\ since[token[r].kid] <= now
        /\ withdrawn[token[r].kid] >= arrived[r] - CacheTTL - Lag
    BY <1>1, <1>3, <2>1
  <2> QED BY <1>0, <1>1, <1>2, <1>3, <2>1, <2>2, LeaveInv
<1>4. CASE Leave(r, "unknown_key")
  <2>1. "unknown_key" \in Answers
    BY DEF Answers
  <2> QED BY <1>0, <1>1, <1>2, <1>4, <2>1, LeaveInv
<1>5. CASE /\ token[r].kid \notin doc
           /\ pc' = [pc EXCEPT ![r] = "force"]
           /\ UNCHANGED <<token, arrived, last>>
           /\ queue' = Append(Tail(queue), r)
  BY <1>0, <1>1, <1>2, <1>5, RequeueInv
<1> QED BY <1>3, <1>4, <1>5 DEF Cache, Found

LEMMA RefreshFailsInv ==
  ASSUME Inv, NEW r \in Requests, RefreshFails(r)
  PROVE  Inv'
<1>1. /\ queue # <<>> /\ Head(queue) = r /\ get' = "none" /\ began' = 0
      /\ doc' = NoDoc /\ Leave(r, "no_provider")
      /\ UNCHANGED <<now, tenantVars, configured, configuration, keys, fetched>>
  BY DEF RefreshFails, cacheVars
<1>2. Refreshed /\ Cached' /\ 0 \in Time /\ "no_provider" \in Answers
  BY <1>1, VerifierAssumption DEF Inv, Cached, Refreshed, Answers, Time, tenantVars
<1> QED BY <1>1, <1>2, LeaveInv

(* The tenant's steps change what was published when only as time goes on. *)
LEMMA TenantInv ==
  ASSUME Inv, NEW k \in Kids, Publish(k) \/ Withdraw(k)
  PROVE  Inv'
<1> USE VerifierAssumption
<1>0. /\ UNCHANGED <<now, configured, cacheVars, queue, fetchVars, requestVars>>
      /\ now \in Int /\ now \in 0..Never /\ now < Never /\ Never \in Int
      /\ fetched \in Int /\ fetched <= now /\ began \in Int
      /\ \A j \in Kids : since[j] \in Int /\ withdrawn[j] \in Int
  BY DEF Publish, Withdraw, Inv, TypeOK, Time, Never, Clock
<1>1. CASE Publish(k)
  <2>1. /\ since[k] = Never /\ withdrawn' = withdrawn
        /\ since' \in [Kids -> 0..Never] /\ since'[k] = now
        /\ \A j \in Kids : j # k => since'[j] = since[j]
    BY <1>0, <1>1 DEF Publish, Inv, TypeOK
  <2>2. TypeOK' /\ Queued' /\ Forced' /\ Admitted' /\ NoNeedlessRefresh'
    BY <1>0, <2>1 DEF Inv, TypeOK, Queued, Forced, Admitted, NoNeedlessRefresh, Fresh,
                      cacheVars, fetchVars, requestVars
  <2>3. Clock'
    BY <1>0, <2>1 DEF Inv, Clock, cacheVars, fetchVars, requestVars
  <2>4. Served'
    <3> SUFFICES ASSUME doc # NoDoc PROVE Served'
      BY <1>0 DEF Served, fetchVars
    <3>1. k \notin doc /\ began <= now /\ doc \in SUBSET Kids
      BY <1>0, <2>1, DocFacts
    <3> QED BY <1>0, <2>1, <3>1 DEF Inv, Served, fetchVars
  <2>5. Cached'
    <3> SUFFICES ASSUME keys # {} PROVE Cached'
      BY <1>0 DEF Cached, cacheVars
    <3>1. k \notin keys /\ keys \in SUBSET Kids
      BY <1>0, <2>1, CachedKey DEF Inv, TypeOK
    <3> QED BY <1>0, <2>1, <3>1 DEF Inv, Cached, cacheVars
  <2>6. NoStaleKey'
    <3> SUFFICES ASSUME last.answer = "principal" PROVE NoStaleKey'
      BY <1>0 DEF NoStaleKey, requestVars
    <3>1. last.token.kid \in Kids /\ since[last.token.kid] <= now
      BY VerdictFacts DEF Inv, Admitted, NoStaleKey
    <3>2. last.token.kid # k
      BY <1>0, <2>1, <3>1
    <3> QED BY <1>0, <2>1, <3>1, <3>2 DEF Inv, NoStaleKey, requestVars
  <2> QED BY <2>2, <2>3, <2>4, <2>5, <2>6 DEF Inv
<1>2. CASE Withdraw(k)
  <2>1. /\ withdrawn[k] = Never /\ since' = since
        /\ withdrawn' \in [Kids -> 0..Never] /\ withdrawn'[k] = now
        /\ \A j \in Kids : j # k => withdrawn'[j] = withdrawn[j]
    BY <1>0, <1>2 DEF Withdraw, Published, Inv, TypeOK
  <2>2. TypeOK' /\ Queued' /\ Forced' /\ Admitted' /\ NoNeedlessRefresh'
    BY <1>0, <2>1 DEF Inv, TypeOK, Queued, Forced, Admitted, NoNeedlessRefresh, Fresh,
                      cacheVars, fetchVars, requestVars
  <2>3. Clock'
    BY <1>0, <2>1 DEF Inv, Clock, cacheVars, fetchVars, requestVars
  <2>4. Served'
    <3> SUFFICES ASSUME doc # NoDoc PROVE Served'
      BY <1>0 DEF Served, fetchVars
    <3>1. began <= now /\ now <= now /\ doc \in SUBSET Kids
      BY <1>0, DocFacts
    <3> QED BY <1>0, <2>1, <3>1 DEF Inv, Served, fetchVars
  <2>5. Cached'
    <3> SUFFICES ASSUME keys # {} PROVE Cached'
      BY <1>0 DEF Cached, cacheVars
    <3>1. keys \in SUBSET Kids /\ now >= fetched - Lag
      BY <1>0 DEF Inv, TypeOK
    <3>2. k \notin keys => since[k] >= fetched - Lag
      BY <1>0, <2>1 DEF Inv, Cached
    <3> QED BY <1>0, <2>1, <3>1, <3>2 DEF Inv, Cached, cacheVars
  <2>6. NoStaleKey'
    <3> SUFFICES ASSUME last.answer = "principal" PROVE NoStaleKey'
      BY <1>0 DEF NoStaleKey, requestVars
    <3>1. last.token.kid \in Kids /\ last.arrived <= now /\ last.arrived \in Int
      BY VerdictFacts DEF Inv, Admitted, TypeOK, Time
    <3>2. now >= last.arrived - CacheTTL - Lag
      BY <1>0, <3>1
    <3> QED BY <1>0, <2>1, <3>1, <3>2 DEF Inv, NoStaleKey, requestVars
  <2> QED BY <2>2, <2>3, <2>4, <2>5, <2>6 DEF Inv
<1> QED BY <1>1, <1>2

LEMMA ServeInv ==
  ASSUME Inv, Serve
  PROVE  Inv'
<1> USE VerifierAssumption
<1>1. /\ get = "keys" /\ doc' = Published
      /\ UNCHANGED <<now, tenantVars, configured, cacheVars, queue, get, began,
                     requestVars>>
  BY DEF Serve
<1>2. TypeOK'
  BY <1>1 DEF Inv, TypeOK, Published, tenantVars, cacheVars, requestVars
<1>3. Queued' /\ Clock' /\ Cached' /\ Forced' /\ Admitted' /\ NoStaleKey'
  BY <1>1 DEF Inv, Queued, Clock, Cached, Forced, Admitted, NoStaleKey, tenantVars,
              cacheVars, requestVars
<1>4. NoNeedlessRefresh'
  BY <1>1 DEF Inv, NoNeedlessRefresh, Fresh, cacheVars, requestVars
<1>5. Served'
  <2>1. /\ began \in Int /\ now \in Int /\ began <= now /\ now < Never
        /\ Never \in Int
    BY <1>1 DEF Inv, TypeOK, Clock, Time, Never
  <2>2. \A k \in Published : since[k] <= now /\ withdrawn[k] >= began
    BY <2>1 DEF Inv, Clock, Published
  <2>3. \A k \in Kids \ Published : since[k] >= began \/ withdrawn[k] <= now
    BY <2>1 DEF Inv, Clock, Published
  <2> QED BY <1>1, <2>2, <2>3 DEF Served, tenantVars
<1> QED BY <1>2, <1>3, <1>4, <1>5 DEF Inv

LEMMA TickInv ==
  ASSUME Inv, Tick
  PROVE  Inv'
<1> USE VerifierAssumption
<1>1. /\ now' = now + 1 /\ now < MaxTime /\ now \in Int /\ now >= 0
      /\ get # "none" => now < began + Lag /\ began \in Int
      /\ UNCHANGED <<tenantVars, configured, cacheVars, queue, fetchVars, requestVars>>
  BY DEF Tick, Inv, TypeOK, Time, Queued
<1>2. TypeOK'
  <2>1. now' \in Time
    BY <1>1 DEF Time
  <2> QED BY <1>1, <2>1 DEF Inv, TypeOK, tenantVars, cacheVars, fetchVars, requestVars
<1>3. Queued' /\ Cached' /\ Forced'
  BY <1>1 DEF Inv, Queued, Cached, Forced, tenantVars, cacheVars, fetchVars, requestVars
<1>4. Clock'
  <2>1. /\ fetched \in Int
        /\ \A r \in Requests : arrived[r] \in Int
        /\ \A k \in Kids : since[k] \in Int /\ withdrawn[k] \in Int
    BY DEF Inv, TypeOK, Time, Never
  <2> QED BY <1>1, <2>1 DEF Inv, Clock, tenantVars, cacheVars, fetchVars, requestVars
<1>5. Served'
  <2> SUFFICES ASSUME doc # NoDoc PROVE Served'
    BY <1>1 DEF Served, fetchVars
  <2>1. doc \in SUBSET Kids
    BY DocFacts
  <2>2. \A k \in Kids : since[k] \in Int /\ withdrawn[k] \in Int
    BY DEF Inv, TypeOK, Never
  <2> QED BY <1>1, <2>1, <2>2 DEF Inv, Served, tenantVars, fetchVars
<1>6. Admitted' /\ NoStaleKey'
  <2>1. last.arrived \in Int
    BY DEF Inv, TypeOK, Time
  <2>2. last.answer = "principal" => since[last.token.kid] \in Int
    BY VerdictFacts DEF Inv, TypeOK, Admitted, Never
  <2> QED BY <1>1, <2>1, <2>2 DEF Inv, Admitted, NoStaleKey, tenantVars, requestVars
<1>7. NoNeedlessRefresh'
  <2>1. fetched \in Int
    BY DEF Inv, TypeOK, Time
  <2> QED BY <1>1, <2>1 DEF Inv, NoNeedlessRefresh, Fresh, cacheVars, fetchVars,
                            requestVars
<1> QED BY <1>2, <1>3, <1>4, <1>5, <1>6, <1>7 DEF Inv

LEMMA StutterInv ==
  ASSUME Inv, UNCHANGED vars
  PROVE  Inv'
<1>1. TypeOK' /\ Queued' /\ Clock'
  BY DEF vars, Inv, TypeOK, Queued, Clock, tenantVars, cacheVars, fetchVars, requestVars
<1>2. Served' /\ Cached' /\ Forced' /\ Admitted'
  BY DEF vars, Inv, Served, Cached, Forced, Admitted, tenantVars, cacheVars, fetchVars,
         requestVars
<1>3. NoStaleKey' /\ NoNeedlessRefresh'
  BY DEF vars, Inv, NoStaleKey, NoNeedlessRefresh, Fresh, tenantVars, cacheVars,
         fetchVars, requestVars
<1> QED BY <1>1, <1>2, <1>3 DEF Inv

LEMMA NextInv == Inv /\ [Next]_vars => Inv'
<1> SUFFICES ASSUME Inv, [Next]_vars PROVE Inv'
  OBVIOUS
<1>1. CASE UNCHANGED vars
  BY <1>1, StutterInv
<1>2. CASE Tick
  BY <1>2, TickInv
<1>3. CASE Serve
  BY <1>3, ServeInv
<1>4. ASSUME NEW k \in Kids, Publish(k) \/ Withdraw(k) PROVE Inv'
  BY <1>4, TenantInv
<1>5. ASSUME NEW r \in Requests, NEW t \in Tokens \cup {Unusable}, Present(r, t)
      PROVE  Inv'
  BY <1>5, PresentInv
<1>6. ASSUME NEW r \in Requests, Step(r) PROVE Inv'
  BY <1>6, EnterFillInv, EnterForceInv, DiscoverInv, CacheInv, RefreshFailsInv DEF Step
<1> QED BY <1>1, <1>2, <1>3, <1>4, <1>5, <1>6 DEF Next

(* KeySource and its callers keep their invariant whatever the tenant, the  *)
(* network and the other requests do meanwhile.                             *)
THEOREM Invariance == Spec => []Inv
<1>1. Init => Inv
  BY InitInv
<1>2. Inv /\ [Next]_vars => Inv'
  BY NextInv
<1> QED BY <1>1, <1>2, PTL DEF Spec

(* The cache, its lock and the requests keep their types. *)
THEOREM TypeCorrect == Spec => []TypeOK
<1>1. Inv => TypeOK
  BY DEF Inv
<1> QED BY <1>1, Invariance, PTL

(* verify accepts no token whose key was withdrawn more than a cache        *)
(* lifetime and a GET before the request came.                              *)
THEOREM StaleKeysRefused == Spec => []NoStaleKey
<1>1. Inv => NoStaleKey
  BY DEF Inv
<1> QED BY <1>1, Invariance, PTL

(* _refresh_keys runs only for a request that the cached set cannot serve.  *)
THEOREM RefreshesNeeded == Spec => []NoNeedlessRefresh
<1>1. Inv => NoNeedlessRefresh
  BY DEF Inv
<1> QED BY <1>1, Invariance, PTL

(* A request that leaves the lock without its key was told so rightly. *)
LEMMA NextNotices ==
  Inv /\ [Next]_vars =>
    \A r \in Requests :
      pc[r] # "idle" /\ pc'[r] = "idle" /\ last'.answer = "unknown_key" =>
        \/ since[token[r].kid] > now - MinRefresh - Lag
        \/ withdrawn[token[r].kid] <= now
<1> SUFFICES ASSUME Inv, [Next]_vars, NEW r \in Requests,
                    pc[r] # "idle", pc'[r] = "idle", last'.answer = "unknown_key"
             PROVE  \/ since[token[r].kid] > now - MinRefresh - Lag
                    \/ withdrawn[token[r].kid] <= now
  OBVIOUS
<1> USE VerifierAssumption
<1>0. /\ pc \in [Requests -> {"idle", "fill", "force"}]
      /\ now \in Int /\ fetched \in Int /\ fetched <= now
      /\ \A k \in Kids : since[k] \in Int /\ withdrawn[k] \in Int
  BY DEF Inv, TypeOK, Time, Never, Clock
<1>1. ASSUME NEW s \in Requests, NEW a, Leave(s, a)
      PROVE  a = "unknown_key" /\ s = r
  <2>1. last'.answer = a /\ pc' = [pc EXCEPT ![s] = "idle"]
    BY <1>1 DEF Leave, Answer
  <2> QED BY <1>0, <2>1
<1>2. ASSUME NEW s \in Requests, EnterFill(s) PROVE FALSE
  <2>1. token[s] \in Tokens
    BY <1>2, HeadWaits DEF EnterFill, AtHead
  <2>2. Verdict(token[s]) # "unknown_key"
    BY <2>1, VerdictFacts
  <2>3. ~ (pc' = pc) /\ ~ (pc' = [pc EXCEPT ![s] = "force"])
    BY <1>0
  <2> QED BY <1>1, <1>2, <2>2, <2>3 DEF EnterFill, Found, requestVars
<1>3. ASSUME NEW s \in Requests, EnterForce(s)
      PROVE  \/ since[token[r].kid] > now - MinRefresh - Lag
             \/ withdrawn[token[r].kid] <= now
  <2>1. token[s] \in Tokens /\ token[s].kid \in Kids /\ pc[s] = "force"
    BY <1>3, HeadWaits DEF EnterForce, AtHead
  <2>2. Verdict(token[s]) # "unknown_key"
    BY <2>1, VerdictFacts
  <2>3. ~ (pc' = pc)
    BY <1>0
  <2>4. s = r /\ token[r].kid \notin keys /\ now - fetched < MinRefresh
    BY <1>1, <1>3, <2>2, <2>3 DEF EnterForce, requestVars
  <2>5. \/ since[token[r].kid] >= fetched - Lag
        \/ withdrawn[token[r].kid] <= fetched
    BY <2>1, <2>4 DEF Inv, Forced, Cached
  <2> QED BY <1>0, <2>1, <2>4, <2>5
<1>4. ASSUME NEW s \in Requests, Cache(s)
      PROVE  \/ since[token[r].kid] > now - MinRefresh - Lag
             \/ withdrawn[token[r].kid] <= now
  <2>1. token[s] \in Tokens /\ token[s].kid \in Kids /\ doc # NoDoc
    BY <1>4, HeadWaits DEF Cache
  <2>2. Verdict(token[s]) # "unknown_key"
    BY <2>1, VerdictFacts
  <2>3. ~ (pc' = [pc EXCEPT ![s] = "force"])
    BY <1>0
  <2>4. s = r /\ token[r].kid \notin doc
    BY <1>1, <1>4, <2>2, <2>3 DEF Cache, Found
  <2>5. \/ since[token[r].kid] >= now - Lag
        \/ withdrawn[token[r].kid] <= now
    BY <2>1, <2>4, DocFacts
  <2> QED BY <1>0, <2>1, <2>4, <2>5
<1>5. ASSUME NEW s \in Requests, RefreshFails(s) PROVE FALSE
  BY <1>1, <1>5 DEF RefreshFails
<1>6. ASSUME NEW s \in Requests, NEW t \in Tokens \cup {Unusable}, Present(s, t)
      PROVE  FALSE
  <2>1. pc[s] = "idle" /\ s # r
    BY <1>6 DEF Present
  <2>2. pc'[r] = pc[r]
    BY <1>0, <1>6, <2>1 DEF Present, Answer
  <2> QED BY <2>2
<1>7. CASE pc' = pc
  BY <1>7
<1>8. CASE \/ UNCHANGED vars \/ Tick \/ Serve
           \/ \E k \in Kids : Publish(k) \/ Withdraw(k)
           \/ \E s \in Requests : Discover(s)
  BY <1>7, <1>8 DEF vars, Tick, Serve, Publish, Withdraw, Discover, requestVars
<1> QED BY <1>2, <1>3, <1>4, <1>5, <1>6, <1>8 DEF Next, Step

(* A key that has been published for the floor and the time of a GET is     *)
(* never turned away as unknown (signing_key).                              *)
THEOREM RotationsNoticed == Spec => RotationNoticed
<1>1. Inv /\ [Next]_vars =>
        [\A r \in Requests :
           pc[r] # "idle" /\ pc'[r] = "idle" /\ last'.answer = "unknown_key" =>
             \/ since[token[r].kid] > now - MinRefresh - Lag
             \/ withdrawn[token[r].kid] <= now]_vars
  BY NextNotices
<1> QED BY <1>1, Invariance, PTL DEF Spec, RotationNoticed

-----------------------------------------------------------------------------
(* The refinement. *)

LEMMA FillerFacts ==
  ASSUME Inv
  PROVE  /\ get = "none" <=> Filler = Nobody
         /\ get # "none" => Filler \in Requests
<1>1. get # "none" => Head(queue) \in Requests
  BY TailFacts DEF Inv, TypeOK, Queued
<1> QED BY <1>1, VerifierAssumption DEF Filler

(* Every step of the verifier begins a fill, lands it, gives it up, or      *)
(* leaves the cache alone.                                                  *)
LEMMA StepRefines ==
  ASSUME Inv, Inv', [Next]_vars
  PROVE  \/ \E c \in Requests : Filler = Nobody /\ Filler' = c /\ keys' = keys
         \/ Filler # Nobody /\ Filler' = Nobody /\ keys' # {}
         \/ Filler # Nobody /\ Filler' = Nobody /\ keys' = keys
         \/ UNCHANGED <<Filler, keys>>
<1>0. /\ get = "none" <=> Filler = Nobody
      /\ get' = "none" <=> Filler' = Nobody
      /\ get' # "none" => Filler' \in Requests
  <2>1. get' = "none" \/ Head(queue') \in Requests
    BY TailFacts DEF Inv, TypeOK, Queued
  <2> QED BY <2>1, FillerFacts, VerifierAssumption DEF Filler
<1>1. ASSUME UNCHANGED <<get, queue, keys>> PROVE UNCHANGED <<Filler, keys>>
  BY <1>1 DEF Filler
<1>2. ASSUME NEW r \in Requests, NEW t \in Tokens \cup {Unusable}, Present(r, t)
      PROVE  UNCHANGED <<Filler, keys>>
  <2>1. UNCHANGED <<get, keys>>
    BY <1>2 DEF Present, fetchVars, cacheVars
  <2>2. CASE queue' = queue
    BY <1>1, <2>1, <2>2
  <2>3. CASE queue' = Append(queue, r) /\ get # "none"
    <3>1. queue \in Seq(Requests) /\ queue # <<>>
      BY <2>3 DEF Inv, TypeOK, Queued
    <3>2. /\ Head(queue) = queue[1] /\ 1 \in 1..Len(queue)
          /\ queue' \in Seq(Requests) /\ queue' # <<>>
          /\ \A i \in 1..Len(queue) : queue'[i] = queue[i]
      BY <2>3, <3>1, TailFacts, AppendFacts
    <3>3. Head(queue') = queue'[1]
      BY <3>2, TailFacts
    <3> QED BY <2>1, <3>2, <3>3 DEF Filler
  <2>4. CASE get = "none"
    BY <2>1, <2>4 DEF Filler
  <2> QED BY <1>2, <2>2, <2>3, <2>4 DEF Present
<1>3. ASSUME NEW r \in Requests, EnterFill(r) \/ EnterForce(r)
      PROVE  \/ \E c \in Requests : Filler = Nobody /\ Filler' = c /\ keys' = keys
             \/ UNCHANGED <<Filler, keys>>
  <2>1. get = "none" /\ keys' = keys
    BY <1>3 DEF EnterFill, EnterForce, cacheVars
  <2> QED BY <1>0, <2>1
<1>4. ASSUME NEW r \in Requests, Discover(r) PROVE UNCHANGED <<Filler, keys>>
  BY <1>4 DEF Discover, Filler
<1>5. ASSUME NEW r \in Requests, Cache(r)
      PROVE  Filler # Nobody /\ Filler' = Nobody /\ keys' # {}
  BY <1>0, <1>5 DEF Cache
<1>6. ASSUME NEW r \in Requests, RefreshFails(r)
      PROVE  Filler # Nobody /\ Filler' = Nobody /\ keys' = keys
  BY <1>0, <1>6 DEF RefreshFails, cacheVars
<1>7. CASE \/ UNCHANGED vars \/ Tick \/ Serve
           \/ \E k \in Kids : Publish(k) \/ Withdraw(k)
  BY <1>1, <1>7 DEF vars, Tick, Serve, Publish, Withdraw, cacheVars, fetchVars
<1> QED BY <1>2, <1>3, <1>4, <1>5, <1>6, <1>7 DEF Next, Step

(* KeySource implements the single-flight cache: refreshes do not overlap,  *)
(* and one that fails leaves the keys where they were.                      *)
THEOREM KeySourceIsSingleFlight == Spec => SingleRefresh
<1>1. Init => Flight!Init
  BY DEF Init, Flight!Init, Filler
<1>2. Inv /\ Inv' /\ [Next]_vars => [Flight!Next]_(Flight!flight)
  BY StepRefines DEF Flight!Next, Flight!Begin, Flight!Land, Flight!GiveUp,
                     Flight!flight
<1> QED BY <1>1, <1>2, Invariance, PTL DEF Spec, SingleRefresh, Flight!Spec
=============================================================================
