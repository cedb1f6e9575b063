-------------------------- MODULE DatabaseProvider --------------------------
(***************************************************************************)
(* How a replica finds its database: Database in db/provider.py, the       *)
(* lifespan that warms it up and disposes of it, and its two callers while *)
(* the replica serves, get_session for a request and check for             *)
(* /health/deep.                                                           *)
(*                                                                         *)
(* The connection string comes from the environment or else from Key       *)
(* Vault, by a call in a worker thread that is given up after a timeout    *)
(* while its thread goes on.  The coroutines interleave at the lock and at *)
(* that call; asyncio.Lock serves its waiters in the order they came, so   *)
(* the lock is a queue whose head holds it or is about to.                 *)
(***************************************************************************)
EXTENDS Integers, Sequences

CONSTANTS
  Requests,     \* the requests that need a session a replica has at a time
  Probes,       \* the calls of /health/deep it has at a time
  Warm,         \* the startup's own call
  Timeout,      \* key_vault_timeout_seconds
  Cooldown,     \* key_vault_retry_cooldown_seconds
  MaxTime       \* bound on the clock

Tasks == Requests \cup Probes \cup {Warm}
Time == 0..MaxTime

ASSUME DatabaseAssumption ==
  /\ Requests \cap Probes = {} /\ Warm \notin Requests \cup Probes
  /\ Timeout \in Nat \ {0} /\ Cooldown \in Nat \ {0} /\ MaxTime \in Nat

VARIABLES
  now,          \* time.monotonic()
  phase,        \* of the replica: starting, serving, stopping, stopped, failed
  environment,  \* what the environment says: nothing, a usable URL, another
  engine,       \* which engine _engine and _sessionmaker are; 0 for None
  built,        \* how many engines have been built
  source,       \* _source
  retry,        \* _retry_not_before
  failed,       \* history: when a lookup last failed
  queue,        \* _lock: the tasks inside it and before it
  looking,      \* its holder awaits Key Vault
  began,        \* since when; 0 when it does not
  abandoned,    \* worker threads of lookups that were given up
  pc,           \* where each task is
  handed,       \* the engine it was handed
  last          \* history: the outcome of the last task to end

vaultVars == <<source, retry, failed>>
lookupVars == <<looking, began>>
taskVars == <<pc, handed, last>>
vars == <<now, phase, environment, engine, built, vaultVars, queue, lookupVars,
          abandoned, taskVars>>

Init ==
  /\ now = 0
  /\ phase = "starting"
  /\ environment \in {"unset", "usable", "unusable"}
  /\ engine = 0 /\ built = 0
  /\ source = "unresolved"
  /\ retry = 0
  /\ failed = 0 - Cooldown
  /\ queue = <<>>
  /\ looking = FALSE /\ began = 0
  /\ abandoned = 0
  /\ pc = [t \in Tasks |-> "idle"]
  /\ handed = [t \in Tasks |-> 0]
  /\ last = "none"

-----------------------------------------------------------------------------
(* What becomes of DatabaseUnavailableError: get_session answers 503, check *)
(* reports it, warm logs it.                                                *)
Unavailable(t) == CASE t \in Requests -> "unavailable"
                    [] t \in Probes -> "not_configured"
                    [] t = Warm -> "warned"

(* And of any other exception: a 500 for a request; check and warm let it   *)
(* through.                                                                 *)
Raised(t) == IF t \in Requests THEN "error" ELSE "raised"

(* The task ends.  The startup goes on to serve once warm returns, and      *)
(* fails if it raises.                                                      *)
End(t, outcome) ==
  /\ pc' = [pc EXCEPT ![t] = "idle"]
  /\ handed' = [handed EXCEPT ![t] = 0]
  /\ last' = outcome
  /\ phase' = CASE t # Warm -> phase
                [] t = Warm /\ outcome = "raised" -> "failed"
                [] t = Warm /\ outcome # "raised" -> "serving"

(* sessionmaker returns the factory of engine e. *)
Hand(t, e) ==
  \/ t = Warm /\ End(t, "warmed")
  \/ /\ t # Warm
     /\ pc' = [pc EXCEPT ![t] = "using"]
     /\ handed' = [handed EXCEPT ![t] = e]
     /\ UNCHANGED <<last, phase>>

(* create_engine and create_sessionmaker, on the way out of the lock. *)
Build(t) ==
  /\ engine' = built + 1 /\ built' = built + 1
  /\ Hand(t, built + 1)

-----------------------------------------------------------------------------
(* The startup, a request or a probe comes for a session factory: there is  *)
(* one, or it queues for the lock.                                          *)
Call(t) ==
  /\ pc[t] = "idle"
  /\ phase = IF t = Warm THEN "starting" ELSE "serving"
  /\ \/ /\ engine # 0
        /\ Hand(t, engine)
        /\ UNCHANGED queue
     \/ /\ engine = 0
        /\ pc' = [pc EXCEPT ![t] = "wait"]
        /\ queue' = Append(queue, t)
        /\ UNCHANGED <<phase, handed, last>>
  /\ UNCHANGED <<now, environment, engine, built, vaultVars, lookupVars, abandoned>>

AtHead(t) == queue # <<>> /\ Head(queue) = t

(* Mutant: no second look inside the lock. *)
Enter_blindly(t) ==
  /\ AtHead(t) /\ ~looking
  /\ \/ /\ now < retry
        /\ End(t, Unavailable(t))
        /\ queue' = Tail(queue)
        /\ UNCHANGED lookupVars
     \/ /\ now >= retry
        /\ looking' = TRUE /\ began' = now
        /\ UNCHANGED <<phase, queue, taskVars>>
  /\ UNCHANGED <<now, environment, engine, built, vaultVars, abandoned>>

(* Mutant: the cooldown still refuses when it is over. *)
Enter_late(t) ==
  /\ AtHead(t) /\ ~looking
  /\ engine = 0 /\ environment = "unset"
  /\ \/ /\ now <= retry
        /\ End(t, Unavailable(t))
        /\ queue' = Tail(queue)
        /\ UNCHANGED lookupVars
     \/ /\ now > retry
        /\ looking' = TRUE /\ began' = now
        /\ UNCHANGED <<phase, queue, taskVars>>
  /\ UNCHANGED <<now, environment, engine, built, vaultVars, abandoned>>

(* async with self._lock, the second look, and _resolve_url up to its       *)
(* await: the environment decides, the cooldown refuses, or Key Vault is    *)
(* asked.  A URL that does not parse is refused before _source is set, one  *)
(* with no async driver after it.                                           *)
Enter(t) ==
  /\ AtHead(t) /\ ~looking
  /\ \/ /\ engine # 0
        /\ Hand(t, engine)
        /\ queue' = Tail(queue)
        /\ UNCHANGED <<engine, built, source, lookupVars>>
     \/ /\ engine = 0 /\ environment = "usable"
        /\ source' = "environment"
        /\ Build(t)
        /\ queue' = Tail(queue)
        /\ UNCHANGED lookupVars
     \/ /\ engine = 0 /\ environment = "unusable"
        /\ source' \in {source, "environment"}
        /\ End(t, Raised(t))
        /\ queue' = Tail(queue)
        /\ UNCHANGED <<engine, built, lookupVars>>
     \/ /\ engine = 0 /\ environment = "unset" /\ now < retry
        /\ End(t, Unavailable(t))
        /\ queue' = Tail(queue)
        /\ UNCHANGED <<engine, built, source, lookupVars>>
     \/ /\ engine = 0 /\ environment = "unset" /\ now >= retry
        /\ looking' = TRUE /\ began' = now
        /\ UNCHANGED <<phase, engine, built, source, queue, taskVars>>
  /\ UNCHANGED <<now, environment, retry, failed, abandoned>>

(* The secret is there: the cooldown is over, and the URL is usable or not. *)
LookupOk(t) ==
  /\ AtHead(t) /\ looking
  /\ source' = "key_vault"
  /\ retry' = 0
  /\ looking' = FALSE /\ began' = 0
  /\ queue' = Tail(queue)
  /\ \/ Build(t)
     \/ End(t, Raised(t)) /\ UNCHANGED <<engine, built>>
  /\ UNCHANGED <<now, environment, failed, abandoned>>

(* Mutant: the cooldown counts backwards. *)
VaultFailed_sign(t) ==
  /\ retry' = now - Cooldown
  /\ failed' = now
  /\ looking' = FALSE /\ began' = 0
  /\ queue' = Tail(queue)
  /\ End(t, Unavailable(t))

(* Mutant: the cooldown is forgotten. *)
VaultFailed_no_cooldown(t) ==
  /\ failed' = now
  /\ looking' = FALSE /\ began' = 0
  /\ queue' = Tail(queue)
  /\ End(t, Unavailable(t))
  /\ UNCHANGED retry

(* Mutant: the lock moves on, and the task that held it is not told. *)
VaultFailed_silent(t) ==
  /\ retry' = now + Cooldown
  /\ failed' = now
  /\ looking' = FALSE /\ began' = 0
  /\ queue' = Tail(queue)
  /\ UNCHANGED <<phase, taskVars>>

(* _vault_failed *)
VaultFailed(t) ==
  /\ retry' = now + Cooldown
  /\ failed' = now
  /\ looking' = FALSE /\ began' = 0
  /\ queue' = Tail(queue)
  /\ End(t, Unavailable(t))

(* Key Vault refuses, or the secret is empty. *)
LookupFail(t) ==
  /\ AtHead(t) /\ looking
  /\ VaultFailed(t)
  /\ UNCHANGED <<now, environment, engine, built, source, abandoned>>

(* Mutant: a lookup that is given up is started again. *)
LookupTimeout_again(t) ==
  /\ AtHead(t) /\ looking
  /\ now >= began + Timeout
  /\ began' = now
  /\ abandoned' = abandoned + 1
  /\ UNCHANGED <<now, phase, environment, engine, built, vaultVars, queue,
                 looking, taskVars>>

(* wait_for gives the lookup up; its thread goes on. *)
LookupTimeout(t) ==
  /\ AtHead(t) /\ looking
  /\ now >= began + Timeout
  /\ VaultFailed(t)
  /\ abandoned' = abandoned + 1
  /\ UNCHANGED <<now, environment, engine, built, source>>

(* A lookup that was given up ends after all, to no effect. *)
ThreadEnds ==
  /\ abandoned > 0
  /\ abandoned' = abandoned - 1
  /\ UNCHANGED <<now, phase, environment, engine, built, vaultVars, queue,
                 lookupVars, taskVars>>

(* The handler is done with its session, or the probe's SELECT 1 with its   *)
(* own: it answers, or it fails or times out, and check reports either.     *)
Use(t) ==
  /\ pc[t] = "using"
  /\ \/ t \in Requests /\ End(t, "answered")
     \/ t \in Probes /\ \E o \in {"reachable", "unreachable"} : End(t, o)
  /\ UNCHANGED <<now, environment, engine, built, vaultVars, queue, lookupVars,
                 abandoned>>

(* The server stops accepting requests, waits for those it has, and only    *)
(* then lets the lifespan go on to dispose of the engine.                   *)
Shutdown ==
  /\ phase = "serving"
  /\ phase' = "stopping"
  /\ UNCHANGED <<now, environment, engine, built, vaultVars, queue, lookupVars,
                 abandoned, taskVars>>

Dispose ==
  /\ phase = "stopping"
  /\ \A t \in Tasks : pc[t] = "idle"
  /\ phase' = "stopped"
  /\ engine' = 0
  /\ UNCHANGED <<now, environment, built, vaultVars, queue, lookupVars, abandoned,
                 taskVars>>

(* Time passes, but not while the lock is free for the task at its head,    *)
(* nor past the timeout of a lookup.                                        *)
Tick ==
  /\ now < MaxTime
  /\ queue # <<>> => looking /\ now < began + Timeout
  /\ now' = now + 1
  /\ UNCHANGED <<phase, environment, engine, built, vaultVars, queue, lookupVars,
                 abandoned, taskVars>>

(* Nothing follows a shutdown or a failed startup. *)
Quiet == phase \in {"stopped", "failed"} /\ UNCHANGED vars

Step(t) == Enter(t) \/ LookupOk(t) \/ LookupFail(t) \/ LookupTimeout(t) \/ Use(t)

Next ==
  \/ Tick \/ ThreadEnds \/ Shutdown \/ Dispose \/ Quiet
  \/ \E t \in Tasks : Call(t) \/ Step(t)

Spec == Init /\ [][Next]_vars

(* A coroutine that can go on does, wait_for ends every lookup and probe,   *)
(* and a shutdown goes on once it can.                                      *)
FairSpec == Spec /\ WF_vars(Dispose) /\ \A t \in Tasks : WF_vars(Step(t))

-----------------------------------------------------------------------------
Outcomes == {"none", "warmed", "warned", "raised", "unavailable", "error",
             "answered", "not_configured", "reachable", "unreachable"}

TypeOK ==
  /\ now \in Time
  /\ phase \in {"starting", "serving", "stopping", "stopped", "failed"}
  /\ environment \in {"unset", "usable", "unusable"}
  /\ engine \in Nat /\ built \in Nat
  /\ source \in {"unresolved", "environment", "key_vault"}
  /\ retry \in 0..(MaxTime + Cooldown)
  /\ failed \in Int
  /\ queue \in Seq(Tasks)
  /\ looking \in BOOLEAN /\ began \in Time
  /\ abandoned \in Nat
  /\ pc \in [Tasks -> {"idle", "wait", "using"}]
  /\ handed \in [Tasks -> Nat]
  /\ last \in Outcomes

(* The tasks that queue behind a lookup that fails do not each repeat it:   *)
(* Key Vault is asked only where there is no other way to an engine, and    *)
(* not within the cooldown of a failure, whoever met it.                    *)
NoNeedlessLookup ==
  looking => /\ queue # <<>>
             /\ engine = 0 /\ environment = "unset"
             /\ began >= failed + Cooldown

(* However many tasks call, and if no thread that was given up ever ends,   *)
(* there is one such thread at most for every timeout and cooldown that     *)
(* have passed.                                                             *)
ThreadsBounded == abandoned * (Timeout + Cooldown) <= now + Cooldown

(* One engine is ever built; whoever holds a session factory holds that of  *)
(* the engine in place, so none is disposed of under its holder, and a      *)
(* replica that stopped has none.                                           *)
OneEngine ==
  /\ built <= 1
  /\ \A t \in Tasks : pc[t] = "using" => handed[t] # 0 /\ handed[t] = engine
  /\ phase = "stopped" => engine = 0

Told ==
  \A t \in Tasks : pc[t] # "idle" /\ pc'[t] = "idle" =>
    /\ last' \in {"unavailable", "not_configured", "warned"} =>
         engine = 0 /\ environment = "unset" /\ now < failed' + Cooldown
    /\ last' \in {"reachable", "unreachable"} =>
         source = IF environment = "unset" THEN "key_vault" ELSE "environment"

(* What a task is told is so: the database counts as not configured only    *)
(* where there is no engine and a lookup has failed within the cooldown,    *)
(* which no cooldown outlives, and /health/deep names the true source of    *)
(* the URL it probed.                                                       *)
ToldTruth == [][Told]_vars

(* Every caller is answered, also behind lookups that fail, and a shutdown  *)
(* ends.                                                                    *)
CallersEnd ==
  /\ \A t \in Tasks : pc[t] # "idle" ~> pc[t] = "idle"
  /\ phase = "stopping" ~> phase = "stopped"

(* The docstrings of warm and check: neither raises. *)
NeverRaises == last # "raised"

-----------------------------------------------------------------------------
(* The inductive invariant behind the safety properties. *)

(* The tasks in the queue are those that wait, each once. *)
Queued ==
  /\ \A i \in 1..Len(queue) : pc[queue[i]] = "wait"
  /\ \A i, j \in 1..Len(queue) : i < j => queue[i] # queue[j]
  /\ looking => queue # <<>>

(* The startup's call is the startup's only, and a stopped replica is idle. *)
Lifecycle ==
  /\ pc[Warm] # "idle" => phase = "starting" /\ pc[Warm] = "wait"
  /\ phase = "stopped" => \A t \in Tasks : pc[t] = "idle"
  /\ phase # "stopped" => engine = built

Sourced ==
  engine # 0 =>
    source = IF environment = "unset" THEN "key_vault" ELSE "environment"

(* A cooldown is that of the last failure, or was lifted by a lookup that   *)
(* came after it.                                                           *)
Backoff ==
  /\ failed <= now
  /\ retry = failed + Cooldown \/ (retry = 0 /\ failed + Cooldown <= now)
  /\ looking => began <= now

(* The threads given up so far have taken their time. *)
Paced ==
  LET taken == abandoned * (Timeout + Cooldown)
  IN  /\ taken <= now \/ taken <= retry
      /\ looking => taken <= began

Inv ==
  /\ TypeOK
  /\ Queued
  /\ Lifecycle
  /\ Sourced
  /\ Backoff
  /\ Paced
  /\ NoNeedlessLookup
  /\ OneEngine
=============================================================================
