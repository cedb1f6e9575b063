------------------------------ MODULE LogStore ------------------------------
(***************************************************************************)
(* The table inventory_events as the rest of KitchenSense relies on it: a  *)
(* log of rows, at most one for an idempotency key, to which committed     *)
(* rows are added and from which nothing is taken away, together with the  *)
(* two queries that read it by both of its clocks.                         *)
(*                                                                         *)
(* A row's recorded_at is stamped by the database when the transaction     *)
(* that inserts it BEGINS (the column default is now(), which Postgres     *)
(* evaluates to the start of the transaction), and the row is visible only *)
(* when that transaction COMMITS.  Append is therefore the commit, and the *)
(* stamp it carries is any moment up to the present.                       *)
(***************************************************************************)
EXTENDS Integers

CONSTANTS
  Keys,         \* idempotency keys; a committed row is named by its key
  Households,   \* tenants
  Lots,         \* lot keys: product, location, unit, printed date, label
  None,         \* "no row"
  MaxTime       \* bound on the clock

(* A moment of either clock. *)
Time == 0..MaxTime

(* The columns of a row that the queries and the fold tell apart. *)
EventRow == [household: Households, lot: Lots, occurred: Time, recorded: Time]

ASSUME LogStoreAssumption ==
  /\ MaxTime \in Nat
  /\ None \notin EventRow

VARIABLES
  now,          \* the database clock
  log           \* the committed rows, by idempotency key

logVars == <<now, log>>

(* The keys of the rows visible to a new statement. *)
Committed == {k \in Keys : log[k] # None}

-----------------------------------------------------------------------------
(* The reads.  Both are scoped to one household. *)

(* Mutant: the filter on occurred_at alone that the docstring warns of. *)
events_known_as_of_by_occurrence(h, t) ==
  {k \in Committed : /\ log[k].household = h
                     /\ log[k].occurred <= t}

(* Mutant: a half-open comparison that loses the instant as_of itself. *)
events_known_as_of_strictly(h, t) ==
  {k \in Committed : /\ log[k].household = h
                     /\ log[k].occurred <= t
                     /\ log[k].recorded < t}

events_known_as_of(h, t) ==
  {k \in Committed : /\ log[k].household = h
                     /\ log[k].occurred <= t
                     /\ log[k].recorded <= t}

(* Mutant: a window on recorded_at alone, which loses an event that was    *)
(* recorded early with an occurred_at in the future.                       *)
events_known_between_by_record(h, after, t) ==
  {k \in events_known_as_of(h, t) : log[k].recorded > after}

(* Mutant: a window closed at both ends. *)
events_known_between_closed(h, after, t) ==
  {k \in events_known_as_of(h, t) : \/ log[k].occurred >= after
                                    \/ log[k].recorded >= after}

events_known_between(h, after, t) ==
  {k \in Committed : /\ log[k].household = h
                     /\ log[k].occurred <= t
                     /\ log[k].recorded <= t
                     /\ \/ log[k].occurred > after
                        \/ log[k].recorded > after}

-----------------------------------------------------------------------------
LogInit ==
  /\ now = 0
  /\ log = [k \in Keys |-> None]

(* A transaction that inserted row under key k commits. *)
Append(k, row) ==
  /\ log[k] = None
  /\ row.recorded <= now
  /\ log' = [log EXCEPT ![k] = row]
  /\ UNCHANGED now

Tick ==
  /\ now < MaxTime
  /\ now' = now + 1
  /\ UNCHANGED log

LogNext ==
  \/ Tick
  \/ \E k \in Keys, row \in EventRow : Append(k, row)

LogSpec == LogInit /\ [][LogNext]_logVars

LogTypeOK ==
  /\ now \in Time
  /\ log \in [Keys -> EventRow \cup {None}]

(* The log never holds a row stamped in the future. *)
StampsPast == \A k \in Committed : log[k].recorded <= now
=============================================================================
