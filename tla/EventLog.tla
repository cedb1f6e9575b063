------------------------------ MODULE EventLog ------------------------------
(***************************************************************************)
(* The inventory endpoints over Postgres.  Every request runs get_session  *)
(* and get_household_id (which creates the tenant on first sight), then    *)
(* its handler: append_event, current_snapshot or snapshot_as_of.          *)
(*                                                                         *)
(* An action is one SQL statement, one commit, or the last step of a       *)
(* request; requests of any replica interleave between statements.  The    *)
(* engine runs Postgres at its default isolation, READ COMMITTED, so each  *)
(* statement sees what is committed when it runs.  A row inserted and not  *)
(* yet committed is the program counter of its request ("ensured" for a    *)
(* household, "inserted" for an event); an INSERT of the same unique key   *)
(* waits for that transaction to end.                                      *)
(***************************************************************************)
EXTENDS LogStore

CONSTANTS
  Requests,     \* HTTP requests; a client's retry is a request of its own
  Listed,       \* the lots whose product is in canonical_products
  Skew          \* how far a replica's clock may be from the database's

(* What a request asks for.  A retry repeats an input. *)
AppendInputs == [op: {"append_event"}, household: Households, key: Keys,
                 lot: Lots, occurred: Time]
AsOfInputs == [op: {"snapshot_as_of"}, household: Households, timestamp: Time]
CurrentInputs == [op: {"current_snapshot"}, household: Households]
Inputs == AppendInputs \cup AsOfInputs \cup CurrentInputs

ASSUME EventLogAssumption ==
  /\ Listed \subseteq Lots
  /\ Skew \in Nat
  /\ None \notin Inputs

VARIABLES
  households,   \* committed rows of the table households
  pc,           \* where each request is
  input,        \* what it asks for
  stamp,        \* when the transaction it has open began
  event,        \* the event append_if_new returned to it
  at,           \* the as_of its read uses
  answer,       \* the events its read was folded from
  status,       \* the HTTP status it answered with, 0 before, 500 if failed
  acked         \* history: keys acknowledged to its tenant when it arrived

reqVars == <<pc, input, stamp, event, at, answer, status, acked>>
vars == <<now, log, households, reqVars>>

InFlight == {"ensure", "ensured", "begin", "append", "lookup", "inserted",
             "existing", "created", "repeated", "read", "query"}

IsAppend(r) == input[r] \in AppendInputs

(* Another request's transaction holds an uncommitted row with the same     *)
(* primary key of households, or the same idempotency key.                  *)
HouseholdLocked(r) ==
  \E q \in Requests \ {r} : /\ pc[q] = "ensured"
                            /\ input[q].household = input[r].household
KeyLocked(r) ==
  \E q \in Requests \ {r} : /\ pc[q] = "inserted"
                            /\ input[q].key = input[r].key

(* The first statement of the handler once the tenant is known. *)
Handler(i) == IF i \in AppendInputs THEN "append" ELSE "read"

(* What the INSERT of request r writes: recorded_at is left to the server. *)
RowOf(r) == [household |-> input[r].household, lot |-> input[r].lot,
             occurred |-> input[r].occurred, recorded |-> stamp[r]]

Init ==
  /\ LogInit
  /\ households = {}
  /\ pc = [r \in Requests |-> "idle"]
  /\ input = [r \in Requests |-> None]
  /\ stamp = [r \in Requests |-> 0]
  /\ event = [r \in Requests |-> None]
  /\ at = [r \in Requests |-> 0]
  /\ answer = [r \in Requests |-> {}]
  /\ status = [r \in Requests |-> 0]
  /\ acked = [r \in Requests |-> {}]

Goto(r, label) == pc' = [pc EXCEPT ![r] = label]

Answer(r, code) ==
  /\ Goto(r, "done")
  /\ status' = [status EXCEPT ![r] = code]

-----------------------------------------------------------------------------
(* HouseholdRepository.exists: the request's first statement begins its     *)
(* transaction, and with it fixes the stamp of a row inserted in it.        *)
Arrive(r, i) ==
  /\ pc[r] = "idle"
  /\ input' = [input EXCEPT ![r] = i]
  /\ stamp' = [stamp EXCEPT ![r] = now]
  /\ acked' = [acked EXCEPT ![r] =
       {k \in Keys : \E q \in Requests : /\ IsAppend(q)
                                         /\ input[q].key = k
                                         /\ input[q].household = i.household
                                         /\ status[q] \in {200, 201}}]
  /\ Goto(r, IF i.household \in households THEN Handler(i) ELSE "ensure")
  /\ UNCHANGED <<now, log, households, event, at, answer, status>>

(* Mutant: the INSERT proceeds although exists() said no long ago. *)
EnsureHousehold_unguarded(r) ==
  /\ pc[r] = "ensure"
  /\ Goto(r, Handler(input[r]))
  /\ UNCHANGED <<now, log, households, input, stamp, event, at, answer,
                 status, acked>>

(* HouseholdRepository.ensure: INSERT ... ON CONFLICT (id) DO NOTHING.  On  *)
(* a conflict get_household_id does not commit, so the transaction goes on  *)
(* under its old stamp.                                                     *)
EnsureHousehold(r) ==
  /\ pc[r] = "ensure"
  /\ ~HouseholdLocked(r)
  /\ Goto(r, IF input[r].household \in households THEN Handler(input[r])
             ELSE "ensured")
  /\ UNCHANGED <<now, log, households, input, stamp, event, at, answer,
                 status, acked>>

(* get_household_id commits the household it created at once. *)
CommitHousehold(r) ==
  /\ pc[r] = "ensured"
  /\ households' = households \cup {input[r].household}
  /\ Goto(r, IF IsAppend(r) THEN "begin" ELSE "read")
  /\ UNCHANGED <<now, log, input, stamp, event, at, answer, status, acked>>

(* After that commit the event's INSERT begins a transaction of its own. *)
BeginAppend(r) ==
  /\ pc[r] = "begin"
  /\ stamp' = [stamp EXCEPT ![r] = now]
  /\ Goto(r, "append")
  /\ UNCHANGED <<now, log, households, input, event, at, answer, status,
                 acked>>

(* Mutant: no unique index on idempotency_key. *)
AppendIfNew_unguarded(r) ==
  /\ pc[r] = "append"
  /\ Goto(r, "inserted")
  /\ event' = [event EXCEPT ![r] = RowOf(r)]
  /\ UNCHANGED <<now, log, households, input, stamp, at, answer, status,
                 acked>>

(* Mutant: the INSERT is tried until the key is free. *)
AppendIfNew_until_free(r) ==
  /\ pc[r] = "append"
  /\ ~KeyLocked(r)
  /\ log[input[r].key] = None
  /\ Goto(r, "inserted")
  /\ event' = [event EXCEPT ![r] = RowOf(r)]
  /\ UNCHANGED <<now, log, households, input, stamp, at, answer, status,
                 acked>>

(* append_if_new: INSERT ... ON CONFLICT (idempotency_key) DO NOTHING       *)
(* RETURNING.  A product that does not exist fails the foreign key, which   *)
(* is checked only for a row that is inserted; append_event answers 422.    *)
AppendIfNew(r) ==
  /\ pc[r] = "append"
  /\ ~KeyLocked(r)
  /\ \/ /\ log[input[r].key] # None
        /\ Goto(r, "lookup")
        /\ UNCHANGED <<event, status>>
     \/ /\ log[input[r].key] = None
        /\ input[r].lot \in Listed
        /\ Goto(r, "inserted")
        /\ event' = [event EXCEPT ![r] = RowOf(r)]
        /\ UNCHANGED status
     \/ /\ log[input[r].key] = None
        /\ input[r].lot \notin Listed
        /\ Answer(r, 422)
        /\ UNCHANGED event
  /\ UNCHANGED <<now, log, households, input, stamp, at, answer, acked>>

(* Mutant: the conflict is reported without looking whose key it is. *)
LookupKey_refuse(r) ==
  /\ pc[r] = "lookup"
  /\ Answer(r, 409)
  /\ UNCHANGED <<now, log, households, input, stamp, event, at, answer, acked>>

(* Mutant: the conflict is reported as something not found. *)
LookupKey_not_found(r) ==
  /\ pc[r] = "lookup"
  /\ Answer(r, 404)
  /\ UNCHANGED <<now, log, households, input, stamp, event, at, answer, acked>>

(* get_by_idempotency_key, scoped to the tenant; nothing found is an        *)
(* IdempotencyKeyConflictError and a 409.                                   *)
LookupKey(r) ==
  /\ pc[r] = "lookup"
  /\ \/ /\ log[input[r].key].household = input[r].household
        /\ Goto(r, "existing")
        /\ event' = [event EXCEPT ![r] = log[input[r].key]]
        /\ UNCHANGED status
     \/ /\ log[input[r].key].household # input[r].household
        /\ Answer(r, 409)
        /\ UNCHANGED event
  /\ UNCHANGED <<now, log, households, input, stamp, at, answer, acked>>

(* Mutant: the response is sent and the commit forgotten. *)
CommitAppend_forgotten(r) ==
  /\ pc[r] \in {"inserted", "existing"}
  /\ Goto(r, IF pc[r] = "inserted" THEN "created" ELSE "repeated")
  /\ UNCHANGED <<now, log, households, input, stamp, event, at, answer,
                 status, acked>>

(* session.commit() in append_event. *)
CommitAppend(r) ==
  /\ \/ /\ pc[r] = "inserted"
        /\ log' = [log EXCEPT ![input[r].key] = event[r]]
        /\ Goto(r, "created")
     \/ /\ pc[r] = "existing"
        /\ Goto(r, "repeated")
        /\ UNCHANGED log
  /\ UNCHANGED <<now, households, input, stamp, event, at, answer, status,
                 acked>>

(* Mutant: every stored answer is a 201. *)
Respond_always_created(r) ==
  /\ pc[r] \in {"created", "repeated"}
  /\ Answer(r, 201)
  /\ UNCHANGED <<now, log, households, input, stamp, event, at, answer, acked>>

Respond(r) ==
  /\ \/ pc[r] = "created"  /\ Answer(r, 201)
     \/ pc[r] = "repeated" /\ Answer(r, 200)
  /\ UNCHANGED <<now, log, households, input, stamp, event, at, answer, acked>>

(* The as_of of a read: the timestamp asked for, or the replica's clock. *)
ChooseAsOf(r) ==
  /\ pc[r] = "read"
  /\ \E t \in Time :
       /\ IF input[r] \in AsOfInputs THEN t = input[r].timestamp
          ELSE t \in (now - Skew)..(now + Skew)
       /\ at' = [at EXCEPT ![r] = t]
  /\ Goto(r, "query")
  /\ UNCHANGED <<now, log, households, input, stamp, event, answer, status,
                 acked>>

(* project_known_as_of: one SELECT, folded into the response. *)
ProjectKnownAsOf(r) ==
  /\ pc[r] = "query"
  /\ answer' = [answer EXCEPT ![r] =
       events_known_as_of(input[r].household, at[r])]
  /\ Answer(r, 200)
  /\ UNCHANGED <<now, log, households, input, stamp, event, at, acked>>

(* An exception, a lost connection or a crash of the replica: what is       *)
(* uncommitted is rolled back, and the caller sees no answer.               *)
Fail(r) ==
  /\ pc[r] \in InFlight
  /\ Answer(r, 500)
  /\ UNCHANGED <<now, log, households, input, stamp, event, at, answer, acked>>

Step(r) ==
  \/ EnsureHousehold(r) \/ CommitHousehold(r) \/ BeginAppend(r)
  \/ AppendIfNew(r) \/ LookupKey(r) \/ CommitAppend(r) \/ Respond(r)
  \/ ChooseAsOf(r) \/ ProjectKnownAsOf(r)

(* The instance has no more requests to send. *)
Quiet ==
  /\ \A r \in Requests : pc[r] = "done"
  /\ UNCHANGED vars

Next ==
  \/ Tick /\ UNCHANGED <<households, reqVars>>
  \/ Quiet
  \/ \E r \in Requests :
       \/ \E i \in Inputs : Arrive(r, i)
       \/ Step(r)
       \/ Fail(r)

Spec == Init /\ [][Next]_vars

(* The event loop runs every coroutine that can go on, and a statement that *)
(* waits for no lock ends.  Nothing makes a client send a request.          *)
FairSpec == Spec /\ \A r \in Requests : WF_vars(Step(r))

-----------------------------------------------------------------------------
Rows == EventRow \cup {None}

TypeOK ==
  /\ LogTypeOK
  /\ households \in SUBSET Households
  /\ pc \in [Requests -> InFlight \cup {"idle", "done"}]
  /\ input \in [Requests -> Inputs \cup {None}]
  /\ stamp \in [Requests -> Time]
  /\ event \in [Requests -> Rows]
  /\ at \in [Requests -> Time]
  /\ answer \in [Requests -> SUBSET Keys]
  /\ status \in [Requests -> {0, 200, 201, 409, 422, 500}]
  /\ acked \in [Requests -> SUBSET Keys]

(* A 200 or 201 from append_event names a row that is in the log, that is   *)
(* the caller's own, and, for a 201, that says what the caller posted: an   *)
(* acknowledged event survives whatever other requests, failures and        *)
(* retries come between.                                                    *)
AckDurable ==
  \A r \in Requests :
    IsAppend(r) /\ status[r] \in {200, 201} =>
      /\ event[r] # None
      /\ log[input[r].key] = event[r]
      /\ event[r].household = input[r].household
      /\ status[r] = 201 => event[r] = RowOf(r)

(* However often a key is posted, retried or raced, at most one caller is   *)
(* told 201: a redelivered receipt is not a doubled purchase.               *)
CreatedOnce ==
  \A r, q \in Requests :
    /\ IsAppend(r) /\ IsAppend(q)
    /\ status[r] = 201 /\ status[q] = 201
    /\ input[r].key = input[q].key
    => r = q

(* A 409 is given only when another household owns the key, so a retry by   *)
(* the key's owner is never refused; a 422 only for an unlisted product.    *)
RefusalsJustified ==
  \A r \in Requests :
    /\ status[r] = 409 => /\ log[input[r].key] # None
                          /\ log[input[r].key].household # input[r].household
    /\ status[r] = 422 => input[r].lot \notin Listed

(* The tenant's row is committed before any row that refers to it is even   *)
(* inserted: the foreign key of inventory_events cannot fail on the tenant, *)
(* although exists, INSERT and commit are three steps other requests of the *)
(* same new user interleave with.                                           *)
TenantFirst ==
  /\ \A k \in Committed : log[k].household \in households
  /\ \A r \in Requests : pc[r] \in {"append", "inserted", "existing", "read"}
       => input[r].household \in households

-----------------------------------------------------------------------------
(* The inductive invariant behind the four properties above: what a request *)
(* holds at each of its steps.                                              *)

(* The stages of append_event once the tenant is known, and of its answer.  *)
AppendStages == {"begin", "append", "lookup", "inserted", "existing",
                 "created", "repeated"}
Stages ==
  \A r \in Requests :
    /\ pc[r] = "idle" <=> input[r] = None
    /\ pc[r] \in AppendStages => IsAppend(r)
    /\ pc[r] \in {"read", "query"} => ~IsAppend(r)
    /\ status[r] # 0 <=> pc[r] = "done"
    /\ status[r] \in {201, 409, 422} => IsAppend(r)

(* The request has been told, or is about to be told, 201 or 200. *)
Creator(r) == pc[r] = "created" \/ (IsAppend(r) /\ status[r] = 201)
Repeater(r) ==
  pc[r] \in {"existing", "repeated"} \/ (IsAppend(r) /\ status[r] = 200)

(* An uncommitted row is the only one with its key, and the key is free. *)
RowsHeld ==
  \A r \in Requests :
    /\ pc[r] = "inserted" =>
         /\ event[r] = RowOf(r)
         /\ log[input[r].key] = None
         /\ \A q \in Requests \ {r} :
              pc[q] = "inserted" => input[q].key # input[r].key
    /\ pc[r] = "lookup" => log[input[r].key] # None

(* What creators and repeaters were handed is what the log has. *)
Acks ==
  \A r \in Requests :
    /\ Creator(r) => /\ event[r] = RowOf(r)
                     /\ log[input[r].key] = event[r]
                     /\ \A q \in Requests \ {r} :
                          Creator(q) => input[q].key # input[r].key
    /\ Repeater(r) => /\ event[r] # None
                      /\ log[input[r].key] = event[r]
                      /\ event[r].household = input[r].household

(* The tenant is committed from the handler's first statement on. *)
Tenants ==
  \A r \in Requests :
    pc[r] \in AppendStages \cup {"read", "query"} =>
      input[r].household \in households

(* No transaction and no row is stamped in the future. *)
Clocks == StampsPast /\ \A r \in Requests : stamp[r] <= now

Inv == /\ TypeOK /\ Stages /\ RowsHeld /\ Acks /\ Tenants /\ Clocks
       /\ RefusalsJustified /\ TenantFirst

-----------------------------------------------------------------------------
(* A past moment is settled when no transaction that could still stamp a    *)
(* row at or before it is open.                                             *)
Settled(t) ==
  /\ t < now
  /\ \A r \in Requests :
       IsAppend(r) /\ pc[r] \in {"ensure", "append", "inserted"}
         => stamp[r] > t

(* What the log knew at a settled moment never changes again, in whatever   *)
(* order the later transactions begin and commit.                           *)
SettledIsFinal ==
  [][\A h \in Households, t \in Time :
       Settled(t) => /\ events_known_as_of(h, t)' = events_known_as_of(h, t)
                     /\ Settled(t)']_vars

(* A read answered by GET /inventory shows every event the tenant had been  *)
(* acknowledged before it asked, unless the event lies in the reader's      *)
(* future or was stamped by a database clock ahead of the replica's by no   *)
(* more than the skew between them.                                         *)
ReadYourWrites ==
  \A r \in Requests :
    input[r] \in CurrentInputs /\ status[r] = 200 =>
      \A k \in acked[r] :
        \/ k \in answer[r]
        \/ log[k].occurred > at[r]
        \/ log[k].recorded \in (at[r] + 1)..(at[r] + Skew)

(* Behind ReadYourWrites, what request r is owed: what was acknowledged is  *)
(* in the log, and a read whose as_of is chosen trails its stamps by no     *)
(* more than the skew.                                                      *)
ReadKept(r) ==
  /\ \A k \in acked[r] : log[k] # None /\ log[k].household = input[r].household
  /\ pc[r] = "query" /\ input[r] \in CurrentInputs =>
       \A k \in acked[r] : log[k].recorded <= at[r] + Skew
  /\ input[r] \in CurrentInputs /\ status[r] = 200 =>
       \A k \in acked[r] : \/ k \in answer[r]
                           \/ log[k].occurred > at[r]
                           \/ log[k].recorded \in (at[r] + 1)..(at[r] + Skew)

(* Every request that arrives is answered or fails: no ring of requests     *)
(* waits for each other's uncommitted households and keys.                  *)
RequestsEnd == \A r \in Requests : pc[r] \in InFlight ~> pc[r] = "done"

(* "what we knew then": every answer about one past moment, whenever it is  *)
(* asked for, is the same.                                                  *)
AnswersStable ==
  \A r, q \in Requests :
    /\ input[r] \in AsOfInputs /\ input[q] \in AsOfInputs
    /\ status[r] = 200 /\ status[q] = 200
    /\ input[r].household = input[q].household
    /\ at[r] = at[q] /\ at[r] < stamp[r] /\ at[q] < stamp[q]
    => answer[r] = answer[q]
=============================================================================
