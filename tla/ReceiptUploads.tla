--------------------------- MODULE ReceiptUploads ---------------------------
(***************************************************************************)
(* The table receipt_uploads and the two endpoints over it: request_upload *)
(* hands out a URL and commits the row that records it, confirm_upload     *)
(* fills in confirmed_at.                                                  *)
(*                                                                         *)
(* An action is one SQL statement, one commit or one response.  Postgres   *)
(* runs at READ COMMITTED: a SELECT sees what is committed, and an UPDATE  *)
(* waits for the transaction that holds its row.  Every timestamp here is  *)
(* the application's, read from the clock of the replica that serves the   *)
(* request, and there may be two replicas.                                 *)
(***************************************************************************)
EXTENDS Integers

CONSTANTS
  Households,   \* tenants; get_household_id has created them
  Uploads,      \* upload ids: each is drawn afresh by one request_upload
  Confirms,     \* calls of confirm_upload; a retry is a call of its own
  SasTTL,       \* upload_sas_ttl_seconds
  Skew,         \* how far the clock of a replica may be from true time
  None,         \* no row, no timestamp
  MaxTime       \* bound on time

Time == 0..MaxTime
Timestamps == (0 - Skew)..(MaxTime + Skew)

Row == [household: Households, requested_at: Timestamps, expires_at: Int,
        confirmed_at: Timestamps \cup {None}]

ASSUME UploadsAssumption ==
  /\ SasTTL \in Nat \ {0} /\ Skew \in Nat /\ MaxTime \in Nat
  /\ None \notin Int
  /\ None \notin Households
  /\ None \notin Row

VARIABLES
  now,          \* true time
  rows,         \* the committed rows of receipt_uploads, by id
  stage,        \* where the request_upload that draws each id is
  asked,        \* the row it is going to insert
  held,         \* the uploads whose URL reached its client
  pc,           \* where each confirm_upload is
  call,         \* its household, its upload and its clock
  answer,       \* the confirmed_at it is going to return
  status,       \* its HTTP status, 0 before it answers
  knew          \* history: its household held that URL when it called

requestVars == <<stage, asked, held>>
confirmVars == <<pc, call, answer, status, knew>>
vars == <<now, rows, requestVars, confirmVars>>

NoCall == [household |-> None, upload |-> None, at |-> 0]

Init ==
  /\ now = 0
  /\ rows = [u \in Uploads |-> None]
  /\ stage = [u \in Uploads |-> "idle"]
  /\ asked = [u \in Uploads |-> None]
  /\ held = {}
  /\ pc = [c \in Confirms |-> "idle"]
  /\ call = [c \in Confirms |-> NoCall]
  /\ answer = [c \in Confirms |-> None]
  /\ status = [c \in Confirms |-> 0]
  /\ knew = [c \in Confirms |-> FALSE]

(* datetime.now(UTC) on some replica. *)
Clock == {t \in Timestamps : now - Skew <= t /\ t <= now + Skew}

(* _scoped and _row: the row of an upload, if it is this household's. *)
ScopedRow(h, u) == IF rows[u] # None /\ rows[u].household = h THEN rows[u] ELSE None

(* What a sweep of the household reads at time t. *)
unconfirmed(h, t) ==
  {u \in Uploads : /\ ScopedRow(h, u) # None
                   /\ rows[u].confirmed_at = None
                   /\ rows[u].expires_at < t}

-----------------------------------------------------------------------------
(* request_upload draws the id and the time, and has the URL signed first;  *)
(* if storage refuses, nothing has been written.                            *)
Sign(u, h) ==
  /\ stage[u] = "idle"
  /\ \/ /\ stage' = [stage EXCEPT ![u] = "signed"]
        /\ \E t \in Clock :
             asked' = [asked EXCEPT ![u] =
                         [household |-> h, requested_at |-> t,
                          expires_at |-> t + SasTTL, confirmed_at |-> None]]
     \/ /\ stage' = [stage EXCEPT ![u] = "failed"]
        /\ UNCHANGED asked
  /\ UNCHANGED <<now, rows, held, confirmVars>>

(* record_request: INSERT, flushed but not committed.  The id is fresh, so  *)
(* no constraint on it can fail and nobody waits for it.                    *)
RecordRequest(u) ==
  /\ stage[u] = "signed"
  /\ stage' = [stage EXCEPT ![u] = "recorded"]
  /\ UNCHANGED <<now, rows, asked, held, confirmVars>>

(* session.commit() in request_upload. *)
CommitRequest(u) ==
  /\ stage[u] = "recorded"
  /\ rows' = [rows EXCEPT ![u] = asked[u]]
  /\ stage' = [stage EXCEPT ![u] = "committed"]
  /\ UNCHANGED <<now, asked, held, confirmVars>>

(* Mutant: the response leaves before the commit. *)
Deliver_early(u) ==
  /\ stage[u] \in {"recorded", "committed"}
  /\ held' = held \cup {u}
  /\ stage' = [stage EXCEPT ![u] = IF @ = "committed" THEN "delivered" ELSE @]
  /\ UNCHANGED <<now, rows, asked, confirmVars>>

(* The response, with the URL in it, reaches the client. *)
Deliver(u) ==
  /\ stage[u] = "committed"
  /\ held' = held \cup {u}
  /\ stage' = [stage EXCEPT ![u] = "delivered"]
  /\ UNCHANGED <<now, rows, asked, confirmVars>>

(* The request fails or its response is lost: get_session rolls back what   *)
(* is not committed.                                                        *)
FailRequest(u) ==
  /\ stage[u] \in {"signed", "recorded", "committed"}
  /\ stage' = [stage EXCEPT ![u] = "failed"]
  /\ UNCHANGED <<now, rows, asked, held, confirmVars>>

-----------------------------------------------------------------------------
Goto(c, label) == pc' = [pc EXCEPT ![c] = label]

Answer(c, code) ==
  /\ Goto(c, "done")
  /\ status' = [status EXCEPT ![c] = code]

(* Mutant: a confirmed upload is no longer found. *)
Load_unconfirmed_only(c, h, u) ==
  /\ pc[c] = "idle"
  /\ \E t \in Clock :
       call' = [call EXCEPT ![c] = [household |-> h, upload |-> u, at |-> t]]
  /\ knew' = [knew EXCEPT ![c] = u \in held /\ asked[u].household = h]
  /\ \/ /\ ScopedRow(h, u) # None => rows[u].confirmed_at # None
        /\ Answer(c, 404)
     \/ /\ ScopedRow(h, u) # None
        /\ rows[u].confirmed_at = None
        /\ Goto(c, "assigned")
        /\ UNCHANGED status
  /\ UNCHANGED <<now, rows, requestVars, answer>>

(* Mutant: a confirmed row is confirmed again. *)
Load_again(c, h, u) ==
  /\ pc[c] = "idle"
  /\ \E t \in Clock :
       call' = [call EXCEPT ![c] = [household |-> h, upload |-> u, at |-> t]]
  /\ knew' = [knew EXCEPT ![c] = u \in held /\ asked[u].household = h]
  /\ \/ /\ ScopedRow(h, u) = None
        /\ Answer(c, 404)
        /\ UNCHANGED answer
     \/ /\ ScopedRow(h, u) # None
        /\ answer' = [answer EXCEPT ![c] = rows[u].confirmed_at]
        /\ Goto(c, "assigned")
        /\ UNCHANGED status
  /\ UNCHANGED <<now, rows, requestVars>>

(* confirm reads the clock and selects the row of the token's household; a  *)
(* household without such a row gets the 404.  If the row it read is not    *)
(* confirmed, it will write; otherwise it returns what it read.             *)
Load(c, h, u) ==
  /\ pc[c] = "idle"
  /\ \E t \in Clock :
       call' = [call EXCEPT ![c] = [household |-> h, upload |-> u, at |-> t]]
  /\ knew' = [knew EXCEPT ![c] = u \in held /\ asked[u].household = h]
  /\ \/ /\ ScopedRow(h, u) = None
        /\ Answer(c, 404)
        /\ UNCHANGED answer
     \/ /\ ScopedRow(h, u) # None
        /\ answer' = [answer EXCEPT ![c] = rows[u].confirmed_at]
        /\ Goto(c, IF rows[u].confirmed_at = None THEN "assigned" ELSE "loaded")
        /\ UNCHANGED status
  /\ UNCHANGED <<now, rows, requestVars>>

(* Another confirmation's UPDATE of the same row is not committed yet. *)
RowLocked(c) ==
  \E d \in Confirms \ {c} : /\ pc[d] = "flushed"
                            /\ call[d].upload = call[c].upload

(* Mutant: the constraint is put on the wrong timestamp. *)
Flush_after_expiry(c) ==
  /\ pc[c] = "assigned"
  /\ ~RowLocked(c)
  /\ \/ /\ call[c].at >= rows[call[c].upload].expires_at
        /\ answer' = [answer EXCEPT ![c] = call[c].at]
        /\ Goto(c, "flushed")
        /\ UNCHANGED status
     \/ /\ call[c].at < rows[call[c].upload].expires_at
        /\ Answer(c, 500)
        /\ UNCHANGED answer
  /\ UNCHANGED <<now, rows, requestVars, call, knew>>

(* flush: UPDATE ... SET confirmed_at WHERE id, whatever the row holds by   *)
(* now.  The CHECK confirmation_after_request may refuse it: an unhandled   *)
(* IntegrityError, a 500.                                                   *)
Flush(c) ==
  /\ pc[c] = "assigned"
  /\ ~RowLocked(c)
  /\ \/ /\ call[c].at >= rows[call[c].upload].requested_at
        /\ answer' = [answer EXCEPT ![c] = call[c].at]
        /\ Goto(c, "flushed")
        /\ UNCHANGED status
     \/ /\ call[c].at < rows[call[c].upload].requested_at
        /\ Answer(c, 500)
        /\ UNCHANGED answer
  /\ UNCHANGED <<now, rows, requestVars, call, knew>>

(* Mutant: the endpoint forgets to commit. *)
CommitConfirm_forgotten(c) ==
  /\ pc[c] \in {"flushed", "loaded"}
  /\ Goto(c, "committed")
  /\ UNCHANGED <<now, rows, requestVars, call, answer, status, knew>>

(* session.commit() in confirm_upload. *)
CommitConfirm(c) ==
  /\ \/ /\ pc[c] = "flushed"
        /\ rows' = [rows EXCEPT ![call[c].upload].confirmed_at = call[c].at]
     \/ /\ pc[c] = "loaded"
        /\ UNCHANGED rows
  /\ Goto(c, "committed")
  /\ UNCHANGED <<now, requestVars, call, answer, status, knew>>

Respond(c) ==
  /\ pc[c] = "committed"
  /\ Answer(c, 200)
  /\ UNCHANGED <<now, rows, requestVars, call, answer, knew>>

(* The call fails or its response is lost. *)
FailConfirm(c) ==
  /\ pc[c] \in {"assigned", "flushed", "loaded", "committed"}
  /\ Goto(c, "done")
  /\ UNCHANGED <<now, rows, requestVars, call, answer, status, knew>>

Tick ==
  /\ now < MaxTime
  /\ now' = now + 1
  /\ UNCHANGED <<rows, requestVars, confirmVars>>

(* The instance has no more requests to send. *)
Quiet ==
  /\ \A u \in Uploads : stage[u] \in {"delivered", "failed"}
  /\ \A c \in Confirms : pc[c] = "done"
  /\ UNCHANGED vars

Next ==
  \/ \E u \in Uploads : \/ \E h \in Households : Sign(u, h)
                        \/ RecordRequest(u) \/ CommitRequest(u)
                        \/ Deliver(u) \/ FailRequest(u)
  \/ \E c \in Confirms : \/ \E h \in Households, u \in Uploads : Load(c, h, u)
                         \/ Flush(c) \/ CommitConfirm(c)
                         \/ Respond(c) \/ FailConfirm(c)
  \/ Tick
  \/ Quiet

Spec == Init /\ [][Next]_vars

-----------------------------------------------------------------------------
Stages == {"idle", "signed", "recorded", "committed", "delivered", "failed"}
Labels == {"idle", "assigned", "loaded", "flushed", "committed", "done"}
Calls == [household: Households, upload: Uploads, at: Timestamps]

TypeOK ==
  /\ now \in Time
  /\ rows \in [Uploads -> Row \cup {None}]
  /\ stage \in [Uploads -> Stages]
  /\ asked \in [Uploads -> Row \cup {None}]
  /\ held \subseteq Uploads
  /\ pc \in [Confirms -> Labels]
  /\ call \in [Confirms -> Calls \cup {NoCall}]
  /\ answer \in [Confirms -> Timestamps \cup {None}]
  /\ status \in [Confirms -> {0, 200, 404, 500}]
  /\ knew \in [Confirms -> BOOLEAN]

(* An upload that was promised can be found: its URL is in a client's hands *)
(* only once the table records it for that client's household, and until it *)
(* is confirmed the household's sweep, and no other's, finds it after its   *)
(* URL expires.                                                             *)
PromisedIsFound ==
  \A u \in held :
    /\ rows[u] # None
    /\ rows[u].household = asked[u].household
    /\ rows[u].confirmed_at = None =>
         \A t \in Time, h \in Households :
           u \in unconfirmed(h, t) <=> /\ h = rows[u].household
                                       /\ rows[u].expires_at < t

(* A confirmation that was acknowledged is the caller's own, is stored, and *)
(* takes the upload out of every later sweep.                               *)
AckIsFinal ==
  \A c \in Confirms : status[c] = 200 =>
    /\ rows[call[c].upload] # None
    /\ rows[call[c].upload].household = call[c].household
    /\ answer[c] # None
    /\ \A t \in Time : call[c].upload \notin unconfirmed(call[c].household, t)

(* The 404 never meets a household that held the URL when it called, also   *)
(* when the confirmation is a retry of one that was committed.              *)
NotFoundJustified ==
  \A c \in Confirms : status[c] = 404 => ~knew[c]

(* What a confirmation stored is never stored over: "exactly one thing that *)
(* changes -- confirmed_at, once, from NULL".                               *)
ConfirmedOnce ==
  [][\A u \in Uploads : rows[u] # None /\ rows[u].confirmed_at # None =>
       rows'[u] = rows[u]]_vars

(* A confirmation is settled when every call that read the row before it    *)
(* was confirmed has ended.                                                 *)
Settled(u) ==
  /\ rows[u] # None /\ rows[u].confirmed_at # None
  /\ \A c \in Confirms : pc[c] \in {"assigned", "flushed"} => call[c].upload # u

(* "Confirming twice is not an error -- it returns the original timestamp": *)
(* once the first confirmations have ended, however many raced, no retry    *)
(* changes the timestamp and each one that finds the row returns it.        *)
SettledStands ==
  [][\A u \in Uploads : Settled(u) =>
       /\ rows'[u] = rows[u] /\ Settled(u)'
       /\ \A c \in Confirms : pc[c] = "idle" /\ pc'[c] # "idle"
                                /\ call'[c].upload = u /\ status'[c] # 404 =>
            answer'[c] = rows[u].confirmed_at]_vars

(* The CHECK confirmation_after_request compares the clocks of two replicas *)
(* and its refusal is a 500.  A confirmation meets it only while its clock  *)
(* is behind the request's, and so never more than twice the skew after the *)
(* URL was issued: a client that goes on retrying gets through.             *)
TripsOnlyBySkew ==
  \A c \in Confirms : status[c] = 500 =>
    LET requested_at == rows[call[c].upload].requested_at
    IN  call[c].at < requested_at /\ requested_at <= call[c].at + 2 * Skew

-----------------------------------------------------------------------------
(* The inductive invariant behind PromisedIsFound, AckIsFinal and           *)
(* NotFoundJustified.                                                       *)

(* A row appears with its request's commit, not before, and is the row that *)
(* request asked for; a URL is out only after it.                           *)
RequestsKept ==
  \A u \in Uploads :
    /\ stage[u] \in {"signed", "recorded"} => asked[u] # None
    /\ stage[u] \in {"idle", "signed", "recorded"} => rows[u] = None
    /\ stage[u] \in {"committed", "delivered"} => rows[u] # None
    /\ rows[u] # None => /\ asked[u] # None
                        /\ rows[u].household = asked[u].household
    /\ u \in held => rows[u] # None

(* A call that has loaded a row goes on with a row of its own household,    *)
(* and one that is about to answer 200 knows that the row is confirmed.     *)
Loaded(c) == \/ pc[c] \in {"assigned", "loaded", "flushed", "committed"}
             \/ status[c] = 200
Confirmed(c) == pc[c] \in {"loaded", "committed"} \/ status[c] = 200

CallsKept ==
  \A c \in Confirms :
    /\ pc[c] # "done" => status[c] = 0
    /\ Loaded(c) => /\ call[c] \in Calls
                    /\ rows[call[c].upload] # None
                    /\ rows[call[c].upload].household = call[c].household
    /\ Confirmed(c) => /\ answer[c] # None
                       /\ rows[call[c].upload].confirmed_at # None
    /\ pc[c] = "flushed" => answer[c] # None

Inv == TypeOK /\ RequestsKept /\ CallsKept /\ NotFoundJustified

(* Behind TripsOnlyBySkew: a request's clock was at most Skew ahead when it *)
(* was read, and a confirmation that found the row read its own later.      *)
Clocks ==
  /\ \A u \in Uploads :
       /\ asked[u] # None => asked[u].requested_at <= now + Skew
       /\ rows[u] # None => rows[u].requested_at = asked[u].requested_at
  /\ \A c \in Confirms : Loaded(c) \/ status[c] = 500 =>
       /\ call[c] \in Calls
       /\ rows[call[c].upload] # None
       /\ rows[call[c].upload].requested_at <= call[c].at + 2 * Skew
  /\ \A c \in Confirms : status[c] = 500 =>
       call[c].at < rows[call[c].upload].requested_at
=============================================================================
