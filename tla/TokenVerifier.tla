---------------------------- MODULE TokenVerifier ----------------------------
(***************************************************************************)
(* How a replica decides about a bearer token: get_principal and           *)
(* TokenVerifier.verify, and KeySource, the cache of the tenant's signing  *)
(* keys they consult, with the identity provider that rotates its keys     *)
(* behind the cache's back.                                                *)
(*                                                                         *)
(* The coroutines of a replica interleave where they await: at KeySource's *)
(* lock and at its two GETs.  asyncio.Lock serves its waiters in the order *)
(* they came, so the lock is a queue whose head holds it or is about to.   *)
(* Whatever follows the key, the signature and the claims included, is     *)
(* local and belongs to the step that finds the key.                       *)
(***************************************************************************)
EXTENDS Integers, Sequences

CONSTANTS
  Requests,     \* the requests to protected endpoints a replica has at a time
  Kids,         \* key ids: the tenant's, present or future, and invented ones
  FirstKids,    \* those the tenant publishes when the replica starts
  Tokens,       \* the tokens presented; see TokenForms
  Unusable,     \* any token refused unread: absent, no JWT, not RS256, no kid
  CacheTTL,     \* jwks_cache_seconds
  MinRefresh,   \* jwks_min_refresh_seconds
  Lag,          \* the longest a GET takes to be answered or given up
  NoDoc,        \* the GET has not been answered
  Nobody,       \* no request
  MaxTime       \* bound on the clock

(* A readable token names a key, and decoding it with that key finds its    *)
(* signature and claims in order, or not, or in order but without the scope.*)
TokenForms == [kid: Kids, claims: {"good", "bad", "unscoped"}]

Time == 0..MaxTime
Never == MaxTime + 1

ASSUME VerifierAssumption ==
  /\ FirstKids \subseteq Kids /\ Tokens \subseteq TokenForms
  /\ Unusable \notin TokenForms
  /\ CacheTTL \in Nat \ {0} /\ MinRefresh \in Nat \ {0} /\ Lag \in Nat
  /\ MaxTime \in Nat
  /\ \A ks \in SUBSET Kids : NoDoc # ks
  /\ Nobody \notin Requests

VARIABLES
  now,          \* time.monotonic()
  since,        \* when the tenant began to publish each key
  withdrawn,    \* when it stopped
  configured,   \* the deployment names a tenant, a client and an audience
  configuration,\* _configuration has been discovered
  keys,         \* the key ids in _keys
  fetched,      \* _keys_fetched_at
  queue,        \* _lock: the requests inside it and before it
  get,          \* the GET its holder awaits: "none", "configuration", "keys"
  began,        \* when that GET was sent; 0 when there is none
  doc,          \* the key set on its way, once the tenant has answered
  pc,           \* where each request is
  token,        \* what it presented
  arrived,      \* when
  last          \* history: the answer last given, to which token, come when

tenantVars == <<since, withdrawn>>
cacheVars == <<configuration, keys, fetched>>
fetchVars == <<get, began, doc>>
requestVars == <<pc, token, arrived, last>>
vars == <<now, tenantVars, configured, cacheVars, queue, fetchVars, requestVars>>

Init ==
  /\ now = 0
  /\ since = [k \in Kids |-> IF k \in FirstKids THEN 0 ELSE Never]
  /\ withdrawn = [k \in Kids |-> Never]
  /\ configured \in BOOLEAN
  /\ configuration = FALSE
  /\ keys = {}
  /\ fetched = 0
  /\ queue = <<>>
  /\ get = "none"
  /\ began = 0
  /\ doc = NoDoc
  /\ pc = [r \in Requests |-> "idle"]
  /\ token = [r \in Requests |-> Unusable]
  /\ arrived = [r \in Requests |-> 0]
  /\ last = [answer |-> "none", token |-> Unusable, arrived |-> 0]

-----------------------------------------------------------------------------
(* The tenant. *)

Published == {k \in Kids : since[k] # Never /\ withdrawn[k] = Never}

Publish(k) ==
  /\ since[k] = Never
  /\ since' = [since EXCEPT ![k] = now]
  /\ UNCHANGED <<now, withdrawn, configured, cacheVars, queue, fetchVars,
                 requestVars>>

Withdraw(k) ==
  /\ k \in Published
  /\ withdrawn' = [withdrawn EXCEPT ![k] = now]
  /\ UNCHANGED <<now, since, configured, cacheVars, queue, fetchVars,
                 requestVars>>

(* It answers the GET of its key set with the keys of that moment. *)
Serve ==
  /\ get = "keys"
  /\ doc = NoDoc
  /\ doc' = Published
  /\ UNCHANGED <<now, tenantVars, configured, cacheVars, queue, get, began,
                 requestVars>>

-----------------------------------------------------------------------------
(* Mutant: the age of the set is not looked at. *)
Fresh_whatever_age == keys # {}

(* self._keys and not expired *)
Fresh == keys # {} /\ now - fetched < CacheTTL

(* A request that came at time at with token t ends and makes room. *)
Answer(r, t, at, a) ==
  /\ pc' = [pc EXCEPT ![r] = "idle"]
  /\ token' = [token EXCEPT ![r] = Unusable]
  /\ arrived' = [arrived EXCEPT ![r] = 0]
  /\ last' = IF a = "principal"
             THEN [answer |-> a, token |-> t, arrived |-> at]
             ELSE [answer |-> a, token |-> Unusable, arrived |-> 0]

(* The request at the head of the lock's queue leaves it with an answer. *)
Leave(r, a) ==
  /\ Answer(r, token[r], arrived[r], a)
  /\ queue' = Tail(queue)

(* The rest of verify once the key is found: configuration() returns at     *)
(* once, because there are no keys without it; then jwt.decode and the      *)
(* scope.                                                                   *)
Verdict(t) == CASE t.claims = "good"     -> "principal"
                [] t.claims = "bad"      -> "invalid_token"
                [] t.claims = "unscoped" -> "insufficient_scope"

(* get_principal and verify up to their first await: no tenant is a 503, an *)
(* unusable token a 401; a key of a fresh set decides at once.  An unknown  *)
(* key queues to force a refresh, a set that is empty or old to be filled.  *)
Present(r, t) ==
  /\ pc[r] = "idle"
  /\ \/ /\ ~configured
        /\ Answer(r, t, now, "unconfigured")
        /\ UNCHANGED queue
     \/ /\ configured /\ t = Unusable
        /\ Answer(r, t, now, "invalid_token")
        /\ UNCHANGED queue
     \/ /\ configured /\ t # Unusable /\ Fresh /\ t.kid \in keys
        /\ Answer(r, t, now, Verdict(t))
        /\ UNCHANGED queue
     \/ /\ configured /\ t # Unusable /\ (Fresh => t.kid \notin keys)
        /\ pc' = [pc EXCEPT ![r] = IF Fresh THEN "force" ELSE "fill"]
        /\ token' = [token EXCEPT ![r] = t]
        /\ arrived' = [arrived EXCEPT ![r] = now]
        /\ queue' = Append(queue, r)
        /\ UNCHANGED last
  /\ UNCHANGED <<now, tenantVars, configured, cacheVars, fetchVars>>

AtHead(r, label) == queue # <<>> /\ Head(queue) = r /\ pc[r] = label

(* _refresh_keys up to its GET. *)
Ask ==
  /\ get' = IF configuration THEN "keys" ELSE "configuration"
  /\ began' = now
  /\ UNCHANGED doc

(* What _cached_key does with a usable set before it leaves the lock: the   *)
(* key, or another wait for the lock at the end of its queue.               *)
Found(r, ks) ==
  \/ /\ token[r].kid \in ks
     /\ Leave(r, Verdict(token[r]))
  \/ /\ token[r].kid \notin ks
     /\ pc' = [pc EXCEPT ![r] = "force"]
     /\ UNCHANGED <<token, arrived, last>>
     /\ queue' = Append(Tail(queue), r)

(* Mutant: no second look inside the lock. *)
EnterFill_blindly(r) ==
  /\ AtHead(r, "fill")
  /\ get = "none"
  /\ Ask
  /\ UNCHANGED <<now, tenantVars, configured, cacheVars, queue, requestVars>>

(* async with self._lock in _cached_key. *)
EnterFill(r) ==
  /\ AtHead(r, "fill")
  /\ get = "none"
  /\ \/ /\ Fresh
        /\ Found(r, keys)
        /\ UNCHANGED fetchVars
     \/ /\ ~Fresh
        /\ Ask
        /\ UNCHANGED <<queue, requestVars>>
  /\ UNCHANGED <<now, tenantVars, configured, cacheVars>>

(* Mutant: the cache lifetime where the floor between refreshes belongs. *)
EnterForce_wrong_floor(r) ==
  /\ AtHead(r, "force")
  /\ get = "none"
  /\ \/ /\ token[r].kid \in keys
        /\ Leave(r, Verdict(token[r]))
        /\ UNCHANGED fetchVars
     \/ /\ token[r].kid \notin keys /\ now - fetched < CacheTTL
        /\ Leave(r, "unknown_key")
        /\ UNCHANGED fetchVars
     \/ /\ token[r].kid \notin keys /\ now - fetched >= CacheTTL
        /\ Ask
        /\ UNCHANGED <<queue, requestVars>>
  /\ UNCHANGED <<now, tenantVars, configured, cacheVars>>

(* async with self._lock in signing_key. *)
EnterForce(r) ==
  /\ AtHead(r, "force")
  /\ get = "none"
  /\ \/ /\ token[r].kid \in keys
        /\ Leave(r, Verdict(token[r]))
        /\ UNCHANGED fetchVars
     \/ /\ token[r].kid \notin keys
        /\ now - fetched < MinRefresh
        /\ Leave(r, "unknown_key")
        /\ UNCHANGED fetchVars
     \/ /\ token[r].kid \notin keys
        /\ now - fetched >= MinRefresh
        /\ Ask
        /\ UNCHANGED <<queue, requestVars>>
  /\ UNCHANGED <<now, tenantVars, configured, cacheVars>>

(* The OpenID configuration arrives; the key set is asked for. *)
Discover(r) ==
  /\ queue # <<>> /\ Head(queue) = r
  /\ get = "configuration"
  /\ configuration' = TRUE
  /\ get' = "keys"
  /\ began' = now
  /\ UNCHANGED <<now, tenantVars, configured, keys, fetched, queue, doc,
                 requestVars>>

(* Mutant: the set's expiry is kept where the time of the fetch belongs. *)
Cache_keeps_expiry(r) ==
  /\ queue # <<>> /\ Head(queue) = r
  /\ get = "keys" /\ doc \notin {NoDoc, {}}
  /\ keys' = doc
  /\ fetched' = now + CacheTTL
  /\ get' = "none" /\ began' = 0 /\ doc' = NoDoc
  /\ pc[r] = "fill" /\ Found(r, doc)
  /\ UNCHANGED <<now, tenantVars, configured, configuration>>

(* The key set arrives with at least one usable key: it replaces the cached *)
(* one, and the request that asked goes on with it.                         *)
Cache(r) ==
  /\ queue # <<>> /\ Head(queue) = r
  /\ get = "keys" /\ doc \notin {NoDoc, {}}
  /\ keys' = doc
  /\ fetched' = now
  /\ get' = "none" /\ began' = 0 /\ doc' = NoDoc
  /\ \/ pc[r] = "fill" /\ Found(r, doc)
     \/ /\ pc[r] = "force" /\ token[r].kid \in doc
        /\ Leave(r, Verdict(token[r]))
     \/ /\ pc[r] = "force" /\ token[r].kid \notin doc
        /\ Leave(r, "unknown_key")
  /\ UNCHANGED <<now, tenantVars, configured, configuration>>

(* Mutant: the old keys are gone before the new ones are there. *)
RefreshFails_forgets(r) ==
  /\ queue # <<>> /\ Head(queue) = r
  /\ get # "none"
  /\ get' = "none" /\ began' = 0 /\ doc' = NoDoc
  /\ keys' = {}
  /\ Leave(r, "no_provider")
  /\ UNCHANGED <<now, tenantVars, configured, configuration, fetched>>

(* Mutant: a refresh that fails is tried again. *)
RefreshFails_retried(r) ==
  /\ queue # <<>> /\ Head(queue) = r
  /\ get # "none"
  /\ get' = "none" /\ began' = 0 /\ doc' = NoDoc
  /\ UNCHANGED <<now, tenantVars, configured, cacheVars, queue, requestVars>>

(* A GET fails or times out, or what it brings is of no use: the token is   *)
(* refused, and what was cached before stays, the configuration included.   *)
RefreshFails(r) ==
  /\ queue # <<>> /\ Head(queue) = r
  /\ get # "none"
  /\ get' = "none" /\ began' = 0 /\ doc' = NoDoc
  /\ Leave(r, "no_provider")
  /\ UNCHANGED <<now, tenantVars, configured, cacheVars>>

(* Time passes, but not while the lock is free for the request at its head, *)
(* nor past the end of a GET.                                               *)
Tick ==
  /\ now < MaxTime
  /\ queue # <<>> => get # "none" /\ now < began + Lag
  /\ now' = now + 1
  /\ UNCHANGED <<tenantVars, configured, cacheVars, queue, fetchVars,
                 requestVars>>

Step(r) ==
  EnterFill(r) \/ EnterForce(r) \/ Discover(r) \/ Cache(r) \/ RefreshFails(r)

Next ==
  \/ Tick
  \/ Serve
  \/ \E k \in Kids : Publish(k) \/ Withdraw(k)
  \/ \E r \in Requests : \/ \E t \in Tokens \cup {Unusable} : Present(r, t)
                         \/ Step(r)

Spec == Init /\ [][Next]_vars

(* A coroutine that can go on does, and every GET ends. *)
FairSpec == Spec /\ \A r \in Requests : WF_vars(Step(r))

-----------------------------------------------------------------------------
Answers == {"none", "principal", "invalid_token", "insufficient_scope",
            "unconfigured", "unknown_key", "no_provider"}

TypeOK ==
  /\ now \in Time
  /\ since \in [Kids -> 0..Never] /\ withdrawn \in [Kids -> 0..Never]
  /\ configured \in BOOLEAN /\ configuration \in BOOLEAN
  /\ keys \in SUBSET Kids
  /\ fetched \in Time
  /\ queue \in Seq(Requests)
  /\ get \in {"none", "configuration", "keys"}
  /\ began \in Time
  /\ doc = NoDoc \/ doc \subseteq Kids
  /\ pc \in [Requests -> {"idle", "fill", "force"}]
  /\ token \in [Requests -> Tokens \cup {Unusable}]
  /\ arrived \in [Requests -> Time]
  /\ last \in [answer: Answers, token: Tokens \cup {Unusable}, arrived: Time]

(* A principal exists only for a token in order whose key the tenant was    *)
(* still publishing at most a cache lifetime, and the time a GET takes,     *)
(* before the request came: however long the request queued, whoever's      *)
(* refresh it profits from and whatever failed meanwhile, a key that was    *)
(* withdrawn earlier is not accepted.                                       *)
NoStaleKey ==
  last.answer = "principal" =>
    /\ last.token.claims = "good"
    /\ since[last.token.kid] <= now
    /\ withdrawn[last.token.kid] >= last.arrived - CacheTTL - Lag

(* A rotation is noticed: a key that the tenant has been publishing for     *)
(* longer than the floor between refreshes and the time a GET takes is      *)
(* never turned away as unknown.                                            *)
RotationNoticed ==
  [][\A r \in Requests :
       pc[r] # "idle" /\ pc'[r] = "idle" /\ last'.answer = "unknown_key" =>
         \/ since[token[r].kid] > now - MinRefresh - Lag
         \/ withdrawn[token[r].kid] <= now]_vars

(* One request asks the tenant at a time, and only when the cached set      *)
(* cannot serve it: there is none, it is old, or it lacks the key and was   *)
(* fetched no less than the floor between refreshes ago.                    *)
NoNeedlessRefresh ==
  get # "none" =>
    /\ queue # <<>>
    /\ \/ pc[Head(queue)] = "fill" /\ ~Fresh
       \/ /\ pc[Head(queue)] = "force"
          /\ token[Head(queue)].kid \notin keys
          /\ now - fetched >= MinRefresh

(* Every request is answered, also behind refreshes that fail and after a   *)
(* second wait for the lock.                                                *)
VerificationsEnd ==
  \A r \in Requests : pc[r] # "idle" ~> pc[r] = "idle"

(* Whose GET is under way. *)
Filler == IF get = "none" THEN Nobody ELSE Head(queue)

(* KeySource is a single-flight cache of key sets. *)
Flight == INSTANCE SingleFlight
            WITH Callers <- Requests, Empty <- {}, value <- keys, filler <- Filler

(* Refreshes do not overlap, and one that fails leaves the keys in place.   *)
SingleRefresh == Flight!Spec

-----------------------------------------------------------------------------
(* The inductive invariant behind the safety properties. *)

(* The requests in the queue are waiting, each once and with a token that   *)
(* can be read, and a GET is that of its head.                              *)
Queued ==
  /\ \A i \in 1..Len(queue) : /\ pc[queue[i]] \in {"fill", "force"}
                              /\ token[queue[i]] \in Tokens
  /\ \A i, j \in 1..Len(queue) : i < j => queue[i] # queue[j]
  /\ get # "none" => queue # <<>>

(* Nothing recorded lies ahead of the clock, and a GET is within its time. *)
Clock ==
  /\ fetched <= now
  /\ \A r \in Requests : arrived[r] <= now
  /\ \A k \in Kids : /\ since[k] <= now \/ since[k] = Never
                     /\ withdrawn[k] <= now \/ withdrawn[k] = Never
  /\ get # "none" => began <= now /\ now <= began + Lag

(* The key set on its way was the tenant's at some moment since its GET. *)
Served ==
  doc # NoDoc =>
    /\ get = "keys"
    /\ \A k \in doc : since[k] <= now /\ withdrawn[k] >= began
    /\ \A k \in Kids \ doc : since[k] >= began \/ withdrawn[k] <= now

(* The cached key set was the tenant's within the time of a GET. *)
Cached ==
  keys # {} =>
    /\ \A k \in keys : since[k] <= fetched /\ withdrawn[k] >= fetched - Lag
    /\ \A k \in Kids \ keys : since[k] >= fetched - Lag \/ withdrawn[k] <= fetched

(* A request that waits to force a refresh did not find its key; if the key *)
(* is there now, it came after the request.                                 *)
Forced ==
  \A r \in Requests : pc[r] = "force" =>
    /\ keys # {}
    /\ token[r].kid \in keys => fetched >= arrived[r]

Admitted ==
  /\ last.arrived <= now
  /\ last.answer = "principal" => last.token \in Tokens

Inv ==
  /\ TypeOK
  /\ Queued
  /\ Clock
  /\ Served
  /\ Cached
  /\ Forced
  /\ Admitted
  /\ NoStaleKey
  /\ NoNeedlessRefresh
=============================================================================
