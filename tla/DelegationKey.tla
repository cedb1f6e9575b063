---------------------------- MODULE DelegationKey ----------------------------
(***************************************************************************)
(* ReceiptBlobStore of one replica: the cache of the user delegation key   *)
(* that signs upload URLs, its lock, and the fetch that fills it.          *)
(*                                                                         *)
(* The coroutines of a replica interleave where they await: at the lock    *)
(* and at the fetch, which runs in a thread under a timeout.  A fetch that *)
(* is given up goes on in its thread, but nobody reads its answer.         *)
(* asyncio.Lock serves its waiters in the order they came, so the lock is  *)
(* a queue: the request at its head holds it, or is about to.  Signing is  *)
(* local, with no await after the key is in hand, so the step that obtains *)
(* a key is the one that issues the URL.                                   *)
(***************************************************************************)
EXTENDS Integers, Sequences

CONSTANTS
  Uploads,      \* requests for an upload URL
  SasTTL,       \* upload_sas_ttl_seconds
  KeyTTL,       \* delegation_key_ttl_seconds
  Allowance,    \* storage_clock_skew_seconds
  Timeout,      \* storage_timeout_seconds
  NoKey,        \* no key, or no URL
  MaxTime       \* bound on the replica's clock

Keys == [start: Int, expiry: Int]
Tickets == [start: Int, expiry: Int, signed: Keys]

(* Nothing in config.py checks SasTTL <= KeyTTL; the defaults (300, 3600)   *)
(* satisfy it, and a cache of keys makes no sense without it.               *)
ASSUME KeyAssumption ==
  /\ SasTTL \in Nat \ {0} /\ KeyTTL \in Nat /\ Allowance \in Nat
  /\ SasTTL <= KeyTTL
  /\ Timeout \in Nat \ {0} /\ MaxTime \in Nat
  /\ NoKey \notin Keys /\ NoKey \notin Tickets /\ NoKey \notin Uploads

VARIABLES
  now,          \* the replica's clock
  configured,   \* the deployment has a storage account
  key,          \* _key
  usable,       \* _key_usable_until
  queue,        \* _lock: the requests inside it and before it
  began,        \* when the fetch under way began
  pc,           \* where each request is
  requested,    \* its requested_at
  ticket        \* the URL it was handed: its SAS, and the key that signed it

vars == <<now, configured, key, usable, queue, began, pc, requested, ticket>>

Init ==
  /\ now = 0
  /\ configured \in BOOLEAN
  /\ key = NoKey
  /\ usable = -1
  /\ queue = <<>>
  /\ began = 0
  /\ pc = [u \in Uploads |-> "idle"]
  /\ requested = [u \in Uploads |-> 0]
  /\ ticket = [u \in Uploads |-> NoKey]

Goto(u, label) == pc' = [pc EXCEPT ![u] = label]

(* Mutant: the key is used to its own last moment. *)
CanSign_to_expiry(t) == key # NoKey /\ t < key.expiry

(* self._key is not None and now < self._key_usable_until *)
CanSign(t) == key # NoKey /\ t < usable

(* The rest of upload_ticket once it has a key: a SAS from the request's    *)
(* own time, signed with it.                                                *)
Issue(u, t, k) ==
  /\ ticket' = [ticket EXCEPT ![u] = [start |-> t - Allowance,
                                      expiry |-> t + SasTTL,
                                      signed |-> k]]
  /\ Goto(u, "issued")

(* The key asked for by a request of time t. *)
Fetched(t) == [start |-> t - Allowance, expiry |-> t + KeyTTL]

-----------------------------------------------------------------------------
(* upload_ticket up to its first await: an unconfigured store refuses, a    *)
(* cached key signs, otherwise the request queues for the lock.             *)
Ask(u) ==
  /\ pc[u] = "idle"
  /\ requested' = [requested EXCEPT ![u] = now]
  /\ \/ /\ ~configured
        /\ Goto(u, "refused")
        /\ UNCHANGED <<queue, ticket>>
     \/ /\ configured /\ CanSign(now)
        /\ Issue(u, now, key)
        /\ UNCHANGED queue
     \/ /\ configured /\ ~CanSign(now)
        /\ queue' = Append(queue, u)
        /\ Goto(u, "wait")
        /\ UNCHANGED ticket
  /\ UNCHANGED <<now, configured, key, usable, began>>

AtHead(u, label) == queue # <<>> /\ Head(queue) = u /\ pc[u] = label

(* Mutant: no second look inside the lock. *)
Enter_blindly(u) ==
  /\ AtHead(u, "wait")
  /\ began' = now
  /\ Goto(u, "fetch")
  /\ UNCHANGED <<now, configured, key, usable, queue, requested, ticket>>

(* async with self._lock, and the second look at the cache. *)
Enter(u) ==
  /\ AtHead(u, "wait")
  /\ \/ /\ CanSign(requested[u])
        /\ Issue(u, requested[u], key)
        /\ queue' = Tail(queue)
        /\ UNCHANGED began
     \/ /\ ~CanSign(requested[u])
        /\ began' = now
        /\ Goto(u, "fetch")
        /\ UNCHANGED <<queue, ticket>>
  /\ UNCHANGED <<now, configured, key, usable, requested>>

(* Mutant: the retirement forgets the key's lifetime. *)
FetchOk_retired_early(u) ==
  /\ AtHead(u, "fetch")
  /\ now < began + Timeout
  /\ key' = Fetched(requested[u])
  /\ usable' = requested[u] - SasTTL
  /\ Issue(u, requested[u], Fetched(requested[u]))
  /\ queue' = Tail(queue)
  /\ UNCHANGED <<now, configured, began, requested>>

(* The fetch answers in time: the key is cached and the lock released. *)
FetchOk(u) ==
  /\ AtHead(u, "fetch")
  /\ now < began + Timeout
  /\ key' = Fetched(requested[u])
  /\ usable' = requested[u] + KeyTTL - SasTTL
  /\ Issue(u, requested[u], Fetched(requested[u]))
  /\ queue' = Tail(queue)
  /\ UNCHANGED <<now, configured, began, requested>>

(* Mutant: the lock is not released on the error path. *)
FetchFail_locked(u) ==
  /\ AtHead(u, "fetch")
  /\ Goto(u, "refused")
  /\ UNCHANGED <<now, configured, key, usable, queue, began, requested, ticket>>

(* Mutant: the failure costs the key that was there. *)
FetchFail_forgets(u) ==
  /\ AtHead(u, "fetch")
  /\ queue' = Tail(queue)
  /\ key' = NoKey
  /\ Goto(u, "refused")
  /\ UNCHANGED <<now, configured, usable, began, requested, ticket>>

(* It fails, or the timeout gives it up: StorageUnavailableError, a 503. *)
FetchFail(u) ==
  /\ AtHead(u, "fetch")
  /\ queue' = Tail(queue)
  /\ Goto(u, "refused")
  /\ UNCHANGED <<now, configured, key, usable, began, requested, ticket>>

(* Time passes, but not while the lock is free for the request at its head, *)
(* nor past the timeout of a fetch.                                         *)
Tick ==
  /\ now < MaxTime
  /\ queue # <<>> => pc[Head(queue)] = "fetch" /\ now < began + Timeout
  /\ now' = now + 1
  /\ UNCHANGED <<configured, key, usable, queue, began, pc, requested, ticket>>

(* The instance has no more requests to send. *)
Quiet ==
  /\ \A u \in Uploads : pc[u] \in {"issued", "refused"}
  /\ UNCHANGED vars

Step(u) == Enter(u) \/ FetchOk(u) \/ FetchFail(u)

Next ==
  \/ Tick
  \/ Quiet
  \/ \E u \in Uploads : Ask(u) \/ Step(u)

Spec == Init /\ [][Next]_vars

(* A coroutine that can go on does, and wait_for ends every fetch. *)
FairSpec == Spec /\ \A u \in Uploads : WF_vars(Step(u))

-----------------------------------------------------------------------------
TypeOK ==
  /\ now \in 0..MaxTime
  /\ configured \in BOOLEAN
  /\ key \in Keys \cup {NoKey}
  /\ usable \in Int
  /\ queue \in Seq(Uploads)
  /\ began \in 0..MaxTime
  /\ pc \in [Uploads -> {"idle", "wait", "fetch", "issued", "refused"}]
  /\ requested \in [Uploads -> 0..MaxTime]
  /\ ticket \in [Uploads -> Tickets \cup {NoKey}]

(* Every URL lives within the life of the key that signed it, at both ends, *)
(* whether that key was cached or fetched and however long the request      *)
(* queued meanwhile.                                                        *)
TicketWithinKey ==
  \A u \in Uploads : ticket[u] # NoKey =>
    /\ ticket[u].signed.start <= ticket[u].start
    /\ ticket[u].expiry <= ticket[u].signed.expiry

(* A key is fetched only when the cached one cannot serve the request, and  *)
(* one fetch is under way at a time: of several requests on a cold replica  *)
(* one goes and asks.                                                       *)
NoNeedlessFetch ==
  \A u \in Uploads : pc[u] = "fetch" =>
    /\ ~CanSign(requested[u])
    /\ \A v \in Uploads \ {u} : pc[v] # "fetch"

(* A request that queued long and fetches late never replaces a key by one  *)
(* that retires sooner.                                                     *)
UsableGrows == [][usable' >= usable]_vars

(* Every request for a URL is answered: the lock comes free even when a     *)
(* fetch fails.                                                             *)
UploadsEnd ==
  \A u \in Uploads : pc[u] \in {"wait", "fetch"} ~>
                       pc[u] \in {"issued", "refused"}

(* Whose fetch is under way. *)
Filler == IF queue # <<>> /\ pc[Head(queue)] = "fetch" THEN Head(queue) ELSE NoKey

(* ReceiptBlobStore is a single-flight cache of one key. *)
Flight == INSTANCE SingleFlight
            WITH Callers <- Uploads, Nobody <- NoKey, Empty <- NoKey,
                 value <- key, filler <- Filler

(* Fetches do not overlap, and one that fails or times out leaves the key   *)
(* that was cached in place.                                                *)
SingleFetch == Flight!Spec

-----------------------------------------------------------------------------
(* The inductive invariant behind the safety properties. *)

(* Those in the queue came in the order they stand in, and only its head is *)
(* ever inside the lock.                                                    *)
Queued ==
  /\ \A i \in 1..Len(queue) : /\ pc[queue[i]] \in {"wait", "fetch"}
                              /\ requested[queue[i]] <= now
  /\ \A i, j \in 1..Len(queue) : i < j => /\ requested[queue[i]] <= requested[queue[j]]
                                          /\ queue[i] # queue[j]
  /\ \A u \in Uploads : pc[u] = "fetch" => queue # <<>> /\ queue[1] = u

(* The cached key was asked for no later than any request that may use it,  *)
(* and lives a SAS lifetime longer than it is used.                         *)
Cached ==
  key # NoKey =>
    /\ key.start <= now - Allowance
    /\ \A i \in 1..Len(queue) : key.start <= requested[queue[i]] - Allowance
    /\ usable = key.expiry - SasTTL

(* Before there is a key, no request is late for it. *)
Cold == key = NoKey => usable = -1

Inv ==
  /\ TypeOK
  /\ Queued
  /\ Cached
  /\ Cold
  /\ TicketWithinKey
  /\ NoNeedlessFetch
=============================================================================
