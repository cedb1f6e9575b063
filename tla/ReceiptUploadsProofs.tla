------------------------- MODULE ReceiptUploadsProofs -------------------------
(***************************************************************************)
(* Proofs about ReceiptUploads, for any number of households, uploads and  *)
(* confirmations and any skew between the clocks.                          *)
(***************************************************************************)
EXTENDS ReceiptUploads, TLAPS

(* Nothing has been asked for yet. *)
LEMMA InitInv == Init => Inv
  BY UploadsAssumption DEF Init, Inv, TypeOK, Time, Timestamps, Row, Stages,
     Labels, Calls, NoCall, RequestsKept, CallsKept, Loaded, Confirmed,
     NotFoundJustified

(* Signing an upload touches no committed row. *)
LEMMA SignInv ==
  ASSUME Inv, NEW u \in Uploads, NEW h \in Households, Sign(u, h)
  PROVE  Inv'
<1> USE UploadsAssumption
<1>1. \A t \in Clock : [household |-> h, requested_at |-> t,
                        expires_at |-> t + SasTTL, confirmed_at |-> None] \in Row
  BY DEF Clock, Row, Timestamps
<1>2. TypeOK'
  BY <1>1 DEF Sign, Inv, TypeOK, Stages, confirmVars
<1>3. RequestsKept'
  BY <1>1 DEF Sign, Inv, TypeOK, RequestsKept
<1>4. CallsKept' /\ NotFoundJustified'
  BY DEF Sign, Inv, CallsKept, NotFoundJustified, Loaded, Confirmed, confirmVars
<1> QED BY <1>2, <1>3, <1>4 DEF Inv

LEMMA RecordInv ==
  ASSUME Inv, NEW u \in Uploads, RecordRequest(u)
  PROVE  Inv'
<1>1. TypeOK'
  BY DEF RecordRequest, Inv, TypeOK, Stages, confirmVars
<1>2. RequestsKept'
  BY DEF RecordRequest, Inv, TypeOK, RequestsKept
<1>3. CallsKept' /\ NotFoundJustified'
  BY DEF RecordRequest, Inv, CallsKept, NotFoundJustified, Loaded, Confirmed, confirmVars
<1> QED BY <1>1, <1>2, <1>3 DEF Inv

(* A commit fills an empty place, so no confirmation is lost under it. *)
LEMMA CommitRequestInv ==
  ASSUME Inv, NEW u \in Uploads, CommitRequest(u)
  PROVE  Inv'
<1>1. /\ rows[u] = None /\ asked[u] # None /\ asked[u] \in Row
      /\ rows' = [rows EXCEPT ![u] = asked[u]]
      /\ UNCHANGED confirmVars /\ UNCHANGED <<now, asked, held>>
      /\ stage' = [stage EXCEPT ![u] = "committed"]
  BY DEF CommitRequest, Inv, TypeOK, RequestsKept
<1>2. TypeOK'
  BY <1>1 DEF Inv, TypeOK, Stages, confirmVars
<1>3. RequestsKept'
  BY <1>1 DEF Inv, TypeOK, RequestsKept
<1>4. CallsKept'
  <2> SUFFICES ASSUME NEW c \in Confirms
               PROVE  /\ pc[c] # "done" => status[c] = 0
                      /\ Loaded(c) => /\ call[c] \in Calls
                                      /\ rows'[call[c].upload] # None
                                      /\ rows'[call[c].upload].household = call[c].household
                      /\ Confirmed(c) => /\ answer[c] # None
                                         /\ rows'[call[c].upload].confirmed_at # None
                      /\ pc[c] = "flushed" => answer[c] # None
    BY <1>1 DEF CallsKept, Loaded, Confirmed, confirmVars
  <2>1. Loaded(c) => call[c].upload \in Uploads /\ call[c].upload # u
    BY <1>1 DEF Inv, CallsKept, Calls
  <2>2. Loaded(c) => rows'[call[c].upload] = rows[call[c].upload]
    BY <1>1, <2>1 DEF Inv, TypeOK
  <2>3. Confirmed(c) => Loaded(c)
    BY DEF Confirmed, Loaded
  <2> QED BY <2>2, <2>3 DEF Inv, CallsKept
<1>5. NotFoundJustified'
  BY <1>1 DEF Inv, NotFoundJustified, confirmVars
<1> QED BY <1>2, <1>3, <1>4, <1>5 DEF Inv

LEMMA DeliverInv ==
  ASSUME Inv, NEW u \in Uploads, Deliver(u) \/ FailRequest(u)
  PROVE  Inv'
<1>1. TypeOK'
  BY DEF Deliver, FailRequest, Inv, TypeOK, Stages, confirmVars
<1>2. RequestsKept'
  BY DEF Deliver, FailRequest, Inv, TypeOK, RequestsKept
<1>3. CallsKept' /\ NotFoundJustified'
  BY DEF Deliver, FailRequest, Inv, CallsKept, NotFoundJustified, Loaded,
     Confirmed, confirmVars
<1> QED BY <1>1, <1>2, <1>3 DEF Inv

(* The lookup: a household that holds the URL has a row of its own, so a    *)
(* 404 is never for it.                                                     *)
LEMMA LoadInv ==
  ASSUME Inv, NEW c \in Confirms, NEW h \in Households, NEW u \in Uploads,
         Load(c, h, u)
  PROVE  Inv'
<1> USE UploadsAssumption
<1>1. PICK t \in Clock :
        call' = [call EXCEPT ![c] = [household |-> h, upload |-> u, at |-> t]]
  BY DEF Load
<1>2. /\ pc[c] = "idle" /\ status[c] = 0
      /\ UNCHANGED <<now, rows, stage, asked, held>>
      /\ knew' = [knew EXCEPT ![c] = u \in held /\ asked[u].household = h]
      /\ [household |-> h, upload |-> u, at |-> t] \in Calls
  BY DEF Load, Inv, CallsKept, requestVars, Clock, Calls
<1>3. RequestsKept'
  BY <1>2 DEF Inv, RequestsKept
<1>4. knew' \in [Confirms -> BOOLEAN] /\ call' \in [Confirms -> Calls \cup {NoCall}]
  BY <1>1, <1>2 DEF Inv, TypeOK
<1>5. \A d \in Confirms \ {c} : knew'[d] = knew[d] /\ call'[d] = call[d]
  BY <1>1, <1>2 DEF Inv, TypeOK
<1>6. CASE ScopedRow(h, u) = None
  <2>1. /\ pc' = [pc EXCEPT ![c] = "done"]
        /\ status' = [status EXCEPT ![c] = 404]
        /\ answer' = answer
    BY <1>6 DEF Load, Answer, Goto
  <2>2. ~(u \in held /\ asked[u].household = h)
    <3>1. rows[u] # None => rows[u] # None /\ rows[u].household # h
      BY <1>6 DEF ScopedRow
    <3> QED BY <3>1 DEF Inv, RequestsKept
  <2>3. knew'[c] = FALSE
    <3>1. knew'[c] = (u \in held /\ asked[u].household = h)
      BY <1>2 DEF Inv, TypeOK
    <3> QED BY <2>2, <3>1, Zenon
  <2>4. TypeOK'
    BY <1>2, <1>4, <2>1 DEF Inv, TypeOK, Labels
  <2>5. CallsKept'
    <3>1. ~Loaded(c)' /\ ~Confirmed(c)' /\ pc'[c] = "done"
      BY <2>1 DEF Loaded, Confirmed, Inv, TypeOK
    <3>2. \A d \in Confirms \ {c} : /\ pc'[d] = pc[d] /\ status'[d] = status[d]
                                    /\ answer'[d] = answer[d]
      BY <2>1 DEF Inv, TypeOK
    <3> QED BY <1>2, <1>5, <3>1, <3>2 DEF Inv, CallsKept, Loaded, Confirmed
  <2>6. NotFoundJustified'
    BY <1>5, <2>1, <2>3 DEF Inv, TypeOK, NotFoundJustified
  <2> QED BY <1>3, <2>4, <2>5, <2>6 DEF Inv
<1>7. CASE ScopedRow(h, u) # None
  <2>0. rows[u] # None /\ rows[u].household = h /\ rows[u] \in Row
    BY <1>7 DEF ScopedRow, Inv, TypeOK
  <2>1. /\ answer' = [answer EXCEPT ![c] = rows[u].confirmed_at]
        /\ pc' = [pc EXCEPT ![c] = IF rows[u].confirmed_at = None
                                   THEN "assigned" ELSE "loaded"]
        /\ status' = status
    BY <1>7 DEF Load, Goto
  <2>2. TypeOK'
    BY <1>2, <1>4, <2>0, <2>1 DEF Inv, TypeOK, Labels, Row
  <2>3. CallsKept'
    <3>1. /\ call'[c] = [household |-> h, upload |-> u, at |-> t]
          /\ answer'[c] = rows[u].confirmed_at
          /\ pc'[c] = IF rows[u].confirmed_at = None THEN "assigned" ELSE "loaded"
          /\ status'[c] = 0
      BY <1>1, <1>2, <2>1 DEF Inv, TypeOK
    <3>2. \A d \in Confirms \ {c} : /\ pc'[d] = pc[d] /\ status'[d] = status[d]
                                    /\ answer'[d] = answer[d]
      BY <2>1 DEF Inv, TypeOK
    <3> QED BY <1>2, <1>5, <2>0, <3>1, <3>2 DEF Inv, CallsKept, Loaded, Confirmed
  <2>4. NotFoundJustified'
    BY <1>2, <1>5, <2>1 DEF Inv, TypeOK, NotFoundJustified
  <2> QED BY <1>3, <2>2, <2>3, <2>4 DEF Inv
<1> QED BY <1>6, <1>7

LEMMA FlushInv ==
  ASSUME Inv, NEW c \in Confirms, Flush(c)
  PROVE  Inv'
<1> USE UploadsAssumption
<1>1. /\ pc[c] = "assigned" /\ status[c] = 0
      /\ UNCHANGED <<now, rows, stage, asked, held, call, knew>>
      /\ call[c] \in Calls /\ call[c].at \in Timestamps
      /\ rows[call[c].upload] # None
      /\ rows[call[c].upload].household = call[c].household
  BY DEF Flush, Inv, CallsKept, Loaded, requestVars, Calls
<1>2. RequestsKept'
  BY <1>1 DEF Inv, RequestsKept
<1>3. CASE Goto(c, "flushed") /\ status' = status
           /\ answer' = [answer EXCEPT ![c] = call[c].at]
  <2>1. TypeOK'
    BY <1>1, <1>3 DEF Inv, TypeOK, Labels, Goto
  <2>2. CallsKept'
    BY <1>1, <1>3 DEF Inv, TypeOK, CallsKept, Loaded, Confirmed, Goto, Timestamps
  <2>3. NotFoundJustified'
    BY <1>1, <1>3 DEF Inv, NotFoundJustified
  <2> QED BY <1>2, <2>1, <2>2, <2>3 DEF Inv
<1>4. CASE Answer(c, 500) /\ answer' = answer
  <2>1. TypeOK'
    BY <1>1, <1>4 DEF Inv, TypeOK, Labels, Answer, Goto
  <2>2. CallsKept'
    BY <1>1, <1>4 DEF Inv, TypeOK, CallsKept, Loaded, Confirmed, Answer, Goto
  <2>3. NotFoundJustified'
    BY <1>1, <1>4 DEF Inv, TypeOK, NotFoundJustified, Answer
  <2> QED BY <1>2, <2>1, <2>2, <2>3 DEF Inv
<1> QED BY <1>3, <1>4 DEF Flush

(* A confirmation may be stored over another, but never taken back. *)
LEMMA CommitConfirmInv ==
  ASSUME Inv, NEW c \in Confirms, CommitConfirm(c)
  PROVE  Inv'
<1> USE UploadsAssumption
<1> DEFINE u == call[c].upload
<1>1. /\ pc[c] \in {"flushed", "loaded"} /\ status[c] = 0 /\ answer[c] # None
      /\ pc' = [pc EXCEPT ![c] = "committed"]
      /\ UNCHANGED <<now, stage, asked, held, call, answer, status, knew>>
      /\ call[c].at \in Timestamps /\ u \in Uploads
      /\ rows[u] # None /\ rows[u] \in Row
      /\ rows[u].household = call[c].household
  BY DEF CommitConfirm, Goto, Inv, TypeOK, CallsKept, Loaded, Confirmed,
     requestVars, Calls
<1>2. /\ rows' \in [Uploads -> Row \cup {None}]
      /\ \A v \in Uploads : rows[v] = None => rows'[v] = None
      /\ \A v \in Uploads : rows[v] # None =>
           /\ rows'[v] # None
           /\ rows'[v].household = rows[v].household
           /\ rows[v].confirmed_at # None => rows'[v].confirmed_at # None
      /\ rows'[u].confirmed_at # None
  <2>1. CASE pc[c] = "flushed"
    <3>1. rows' = [rows EXCEPT ![u] = [rows[u] EXCEPT !.confirmed_at = call[c].at]]
      BY <2>1 DEF CommitConfirm
    <3>2. /\ [rows[u] EXCEPT !.confirmed_at = call[c].at] \in Row
          /\ [rows[u] EXCEPT !.confirmed_at = call[c].at].household = rows[u].household
          /\ [rows[u] EXCEPT !.confirmed_at = call[c].at].confirmed_at = call[c].at
          /\ call[c].at # None
      BY <1>1 DEF Row, Timestamps
    <3>3. rows'[u] = [rows[u] EXCEPT !.confirmed_at = call[c].at]
      BY <1>1, <3>1 DEF Inv, TypeOK
    <3>4. \A v \in Uploads \ {u} : rows'[v] = rows[v]
      BY <3>1 DEF Inv, TypeOK
    <3>5. rows' \in [Uploads -> Row \cup {None}]
      BY <1>1, <3>1, <3>2 DEF Inv, TypeOK
    <3> HIDE DEF u
    <3> QED BY <1>1, <3>2, <3>3, <3>4, <3>5
  <2>2. CASE pc[c] = "loaded"
    BY <1>1, <2>2 DEF CommitConfirm, Inv, TypeOK, CallsKept, Confirmed
  <2> QED BY <1>1, <2>1, <2>2
<1>3. TypeOK'
  BY <1>1, <1>2 DEF Inv, TypeOK, Labels
<1>4. RequestsKept'
  BY <1>1, <1>2 DEF Inv, RequestsKept
<1>5. CallsKept'
  <2> SUFFICES ASSUME NEW d \in Confirms
               PROVE  /\ pc'[d] # "done" => status[d] = 0
                      /\ Loaded(d)' => /\ call[d] \in Calls
                                       /\ rows'[call[d].upload] # None
                                       /\ rows'[call[d].upload].household = call[d].household
                      /\ Confirmed(d)' => /\ answer[d] # None
                                          /\ rows'[call[d].upload].confirmed_at # None
                      /\ pc'[d] = "flushed" => answer[d] # None
    BY <1>1 DEF CallsKept
  <2>1. Loaded(d)' => Loaded(d) /\ call[d] \in Calls /\ call[d].upload \in Uploads
    BY <1>1 DEF Loaded, Inv, TypeOK, CallsKept, Calls
  <2>2. CASE d = c
    BY <1>1, <1>2, <2>1, <2>2 DEF Inv, TypeOK, CallsKept, Loaded
  <2>3. CASE d # c
    <3>1. pc'[d] = pc[d] /\ status'[d] = status[d]
      BY <1>1, <2>3 DEF Inv, TypeOK
    <3>2. Confirmed(d)' => Confirmed(d) /\ Loaded(d)
      BY <3>1 DEF Confirmed, Loaded
    <3>3. Loaded(d) => call[d].upload \in Uploads
      BY DEF Inv, CallsKept, Calls
    <3> HIDE DEF u
    <3> QED BY <1>2, <2>1, <3>1, <3>2, <3>3 DEF Inv, CallsKept
  <2> QED BY <2>2, <2>3
<1>6. NotFoundJustified'
  BY <1>1 DEF Inv, NotFoundJustified
<1> QED BY <1>3, <1>4, <1>5, <1>6 DEF Inv

LEMMA RespondInv ==
  ASSUME Inv, NEW c \in Confirms, Respond(c) \/ FailConfirm(c)
  PROVE  Inv'
<1>1. UNCHANGED <<now, rows, stage, asked, held, call, answer, knew>>
  BY DEF Respond, FailConfirm, requestVars
<1>2. RequestsKept'
  BY <1>1 DEF Inv, RequestsKept
<1>3. TypeOK'
  BY <1>1 DEF Respond, FailConfirm, Inv, TypeOK, Labels, Answer, Goto
<1>4. CallsKept'
  BY <1>1 DEF Respond, FailConfirm, Inv, TypeOK, CallsKept, Loaded, Confirmed,
     Answer, Goto
<1>5. NotFoundJustified'
  BY <1>1 DEF Respond, FailConfirm, Inv, TypeOK, NotFoundJustified, Answer
<1> QED BY <1>2, <1>3, <1>4, <1>5 DEF Inv

(* Every step keeps the invariant. *)
LEMMA NextInv == Inv /\ [Next]_vars => Inv'
<1> SUFFICES ASSUME Inv, [Next]_vars PROVE Inv'
  OBVIOUS
<1>1. CASE UNCHANGED vars
  BY <1>1 DEF vars, requestVars, confirmVars, Inv, TypeOK, RequestsKept,
     CallsKept, Loaded, Confirmed, NotFoundJustified
<1>2. CASE Tick
  <2>1. TypeOK'
    BY <1>2, UploadsAssumption DEF Tick, requestVars, confirmVars, Inv, TypeOK, Time
  <2>2. RequestsKept' /\ CallsKept' /\ NotFoundJustified'
    BY <1>2 DEF Tick, requestVars, confirmVars, Inv, RequestsKept, CallsKept,
       Loaded, Confirmed, NotFoundJustified
  <2> QED BY <2>1, <2>2 DEF Inv
<1>3. ASSUME NEW u \in Uploads, NEW h \in Households, Sign(u, h)
      PROVE  Inv'
  BY <1>3, SignInv
<1>4. ASSUME NEW u \in Uploads,
             RecordRequest(u) \/ CommitRequest(u) \/ Deliver(u) \/ FailRequest(u)
      PROVE  Inv'
  BY <1>4, RecordInv, CommitRequestInv, DeliverInv
<1>5. ASSUME NEW c \in Confirms, NEW h \in Households, NEW u \in Uploads,
             Load(c, h, u)
      PROVE  Inv'
  BY <1>5, LoadInv
<1>6. ASSUME NEW c \in Confirms,
             Flush(c) \/ CommitConfirm(c) \/ Respond(c) \/ FailConfirm(c)
      PROVE  Inv'
  BY <1>6, FlushInv, CommitConfirmInv, RespondInv
<1> QED BY <1>1, <1>2, <1>3, <1>4, <1>5, <1>6 DEF Next, Quiet

(* What the invariant says of an upload that was promised. *)
LEMMA InvPromised == Inv => PromisedIsFound
<1> SUFFICES ASSUME Inv, NEW u \in held
             PROVE  /\ rows[u] # None
                    /\ rows[u].household = asked[u].household
                    /\ rows[u].confirmed_at = None =>
                         \A t \in Time, h \in Households :
                           u \in unconfirmed(h, t) <=> /\ h = rows[u].household
                                                       /\ rows[u].expires_at < t
  BY DEF PromisedIsFound
<1>1. u \in Uploads
  BY DEF Inv, TypeOK
<1>2. rows[u] # None /\ rows[u].household = asked[u].household
  BY <1>1 DEF Inv, RequestsKept
<1>3. \A h \in Households : ScopedRow(h, u) # None <=> h = rows[u].household
  BY <1>2 DEF ScopedRow
<1> QED BY <1>1, <1>2, <1>3 DEF unconfirmed

(* What it says of a confirmation that was acknowledged. *)
LEMMA InvAck == Inv => AckIsFinal
  BY DEF Inv, CallsKept, Loaded, Confirmed, AckIsFinal, unconfirmed

(* The uploads keep their invariant through every interleaving of requests, *)
(* confirmations and failures.                                              *)
THEOREM Invariance == Spec => []Inv
  BY InitInv, NextInv, PTL DEF Spec

(* Clocks is preserved: asked rows and calls keep the time they were given, *)
(* and a confirmation finds only rows whose time was read before its own.   *)
LEMMA ClocksStep == Inv /\ Clocks /\ [Next]_vars => Clocks'
<1> SUFFICES ASSUME Inv, Clocks, [Next]_vars PROVE Clocks'
  OBVIOUS
<1> USE UploadsAssumption
<1>t. /\ now \in Int /\ Skew \in Int
      /\ \A u \in Uploads : asked[u] # None => asked[u].requested_at \in Int
  BY DEF Inv, TypeOK, Time, Row, Timestamps
<1>c. \A c \in Calls : c.upload \in Uploads /\ c.at \in Int
  BY DEF Calls, Timestamps
<1>1. ASSUME UNCHANGED <<rows, asked, pc, call, status>>, now <= now', now' \in Int
      PROVE  Clocks'
  BY <1>1, <1>t DEF Clocks, Loaded
<1>2. ASSUME NEW u \in Uploads, NEW h \in Households, Sign(u, h)
      PROVE  Clocks'
  <2>1. /\ rows[u] = None /\ UNCHANGED <<now, rows, pc, call, status>>
        /\ \A v \in Uploads \ {u} : asked'[v] = asked[v]
        /\ \/ asked' = asked
           \/ asked'[u].requested_at <= now + Skew
    BY <1>2 DEF Sign, Clock, Inv, TypeOK, RequestsKept, confirmVars
  <2> QED BY <2>1 DEF Clocks, Loaded
<1>3. ASSUME NEW u \in Uploads, RecordRequest(u) \/ Deliver(u) \/ FailRequest(u)
      PROVE  Clocks'
  BY <1>1, <1>3, <1>t DEF RecordRequest, Deliver, FailRequest, confirmVars
<1>4. ASSUME NEW u \in Uploads, CommitRequest(u) PROVE Clocks'
  <2>1. /\ rows[u] = None /\ UNCHANGED <<now, asked, pc, call, status>>
        /\ rows'[u] = asked[u]
        /\ \A v \in Uploads \ {u} : rows'[v] = rows[v]
    BY <1>4 DEF CommitRequest, Inv, TypeOK, RequestsKept, confirmVars
  <2> QED BY <1>c, <2>1 DEF Clocks, Loaded
<1>5. ASSUME NEW c \in Confirms, NEW h \in Households, NEW u \in Uploads,
             Load(c, h, u)
      PROVE  Clocks'
  <2>1. PICK t \in Clock :
          call' = [call EXCEPT ![c] = [household |-> h, upload |-> u, at |-> t]]
    BY <1>5 DEF Load
  <2>2. t \in Timestamps /\ t \in Int /\ now - Skew <= t
    BY DEF Clock, Timestamps
  <2>3. UNCHANGED <<now, rows, asked>>
    BY <1>5 DEF Load, requestVars
  <2>4. \A d \in Confirms \ {c} : /\ pc'[d] = pc[d] /\ status'[d] = status[d]
                                  /\ call'[d] = call[d]
    BY <1>5, <2>1 DEF Load, Answer, Goto, Inv, TypeOK
  <2>5. /\ call'[c] \in Calls /\ call'[c].upload = u /\ call'[c].at = t
        /\ status'[c] # 500
        /\ Loaded(c)' => rows[u] # None
    BY <1>5, <2>1, <2>2
    DEF Load, Answer, Goto, ScopedRow, Loaded, Inv, TypeOK, CallsKept, Calls
  <2>6. rows[u] # None => /\ rows[u].requested_at = asked[u].requested_at
                          /\ asked[u] # None
                          /\ asked[u].requested_at <= now + Skew
    BY DEF Clocks, Inv, RequestsKept
  <2>7. rows[u] # None => rows[u].requested_at <= t + 2 * Skew
    BY <1>t, <2>2, <2>6
  <2> QED BY <2>3, <2>4, <2>5, <2>7 DEF Clocks, Loaded
<1>6. ASSUME NEW c \in Confirms, Flush(c) PROVE Clocks'
  <2>1. UNCHANGED <<now, rows, asked, call>> /\ Loaded(c)
    BY <1>6 DEF Flush, requestVars, Loaded
  <2>2. \A d \in Confirms \ {c} : pc'[d] = pc[d] /\ status'[d] = status[d]
    BY <1>6 DEF Flush, Answer, Goto, Inv, TypeOK
  <2>3. status'[c] = 500 => call[c].at < rows[call[c].upload].requested_at
    BY <1>6 DEF Flush, Answer, Goto, Inv, TypeOK, CallsKept
  <2> QED BY <2>1, <2>2, <2>3 DEF Clocks, Loaded
<1>7. ASSUME NEW c \in Confirms, CommitConfirm(c) PROVE Clocks'
  <2>1. UNCHANGED <<now, asked, call, status>>
    BY <1>7 DEF CommitConfirm, requestVars
  <2>2. \A d \in Confirms : Loaded(d)' => Loaded(d)
    BY <1>7 DEF CommitConfirm, Goto, Loaded, Inv, TypeOK
  <2>3. \A v \in Uploads : rows[v] \in Row \cup {None}
    BY DEF Inv, TypeOK
  <2>4. \A v \in Uploads : /\ rows'[v] = None <=> rows[v] = None
                           /\ rows[v] # None =>
                                rows'[v].requested_at = rows[v].requested_at
    <3> DEFINE u == call[c].upload
               new == [rows[u] EXCEPT !.confirmed_at = call[c].at]
    <3>1. CASE pc[c] = "flushed"
      <4>1. call[c] \in Calls /\ u \in Uploads /\ rows[u] # None
        BY <1>c, <3>1 DEF Inv, CallsKept, Loaded
      <4>2. /\ new \in Row /\ new # None
            /\ new.requested_at = rows[u].requested_at
        BY <2>3, <4>1 DEF Row, Calls
      <4>3. rows' = [rows EXCEPT ![u] = new]
        BY <1>7, <3>1 DEF CommitConfirm
      <4>4. rows'[u] = new /\ \A v \in Uploads \ {u} : rows'[v] = rows[v]
        BY <4>1, <4>3 DEF Inv, TypeOK
      <4> HIDE DEF u, new
      <4> QED BY <4>1, <4>2, <4>4
    <3>2. CASE pc[c] = "loaded"
      BY <1>7, <3>2 DEF CommitConfirm
    <3> QED BY <1>7, <3>1, <3>2 DEF CommitConfirm
  <2> QED BY <1>c, <2>1, <2>2, <2>4 DEF Clocks
<1>8. ASSUME NEW c \in Confirms, Respond(c) \/ FailConfirm(c) PROVE Clocks'
  <2>1. UNCHANGED <<now, rows, asked, call>>
    BY <1>8 DEF Respond, FailConfirm, requestVars
  <2>2. \A d \in Confirms : /\ Loaded(d)' => Loaded(d)
                            /\ status'[d] = 500 => status[d] = 500
    BY <1>8 DEF Respond, FailConfirm, Answer, Goto, Loaded, Inv, TypeOK
  <2> QED BY <2>1, <2>2 DEF Clocks
<1>9. CASE Tick
  BY <1>1, <1>9, <1>t DEF Tick, requestVars, confirmVars
<1>10. CASE UNCHANGED vars
  BY <1>1, <1>10, <1>t DEF vars, requestVars, confirmVars
<1> QED BY <1>2, <1>3, <1>4, <1>5, <1>6, <1>7, <1>8, <1>9, <1>10 DEF Next, Quiet

(* Every state of request_upload and confirm_upload is well typed: no       *)
(* answer and no row is ever half filled in.                                *)
THEOREM TypeCorrect == Spec => []TypeOK
  BY Invariance, PTL DEF Inv

(* A promised upload can be found by the sweep of its household until it is *)
(* confirmed (request_upload, unconfirmed).                                 *)
THEOREM PromisesKept == Spec => []PromisedIsFound
  BY InvPromised, Invariance, PTL

(* An acknowledged confirmation is stored and never taken back, whatever    *)
(* other confirmations write over it (confirm_upload).                      *)
THEOREM AcksFinal == Spec => []AckIsFinal
  BY InvAck, Invariance, PTL

(* The household that holds a URL meets no 404, on any retry.               *)
THEOREM NotFoundOnlyToOthers == Spec => []NotFoundJustified
  BY Invariance, PTL DEF Inv

(* A confirmation trips over confirmation_after_request only while clocks   *)
(* disagree, and only within twice the skew of the request.                 *)
THEOREM TripsBySkew == Spec => []TripsOnlyBySkew
<1>1. Init => Clocks
  BY DEF Init, Clocks, Loaded
<1>2. Inv /\ Clocks => TripsOnlyBySkew
  BY DEF Clocks, TripsOnlyBySkew
<1> QED BY <1>1, <1>2, ClocksStep, Invariance, PTL DEF Spec

(* What no step does to a settled confirmation. *)
LEMMA SettledStep ==
  ASSUME Inv, [Next]_vars, NEW u \in Uploads, Settled(u)
  PROVE  /\ rows'[u] = rows[u] /\ Settled(u)'
         /\ \A c \in Confirms : pc[c] = "idle" /\ pc'[c] # "idle"
                                  /\ call'[c].upload = u /\ status'[c] # 404 =>
              answer'[c] = rows[u].confirmed_at
<1> DEFINE Kept == /\ rows'[u] = rows[u] /\ Settled(u)'
                   /\ \A c \in Confirms : pc[c] = "idle" /\ pc'[c] # "idle"
                                /\ call'[c].upload = u /\ status'[c] # 404 =>
                        answer'[c] = rows[u].confirmed_at
           Writes(c) == pc[c] \in {"assigned", "flushed"}
<1>t. TypeOK
  BY DEF Inv
<1>s. /\ rows[u] # None /\ rows[u].confirmed_at # None
      /\ \A c \in Confirms : Writes(c) => call[c].upload # u
  BY DEF Settled
<1>a. ASSUME rows'[u] = rows[u],
             \A c \in Confirms : pc'[c] \in {"assigned", "flushed"} =>
               call'[c].upload # u,
             \A c \in Confirms : pc[c] = "idle" => pc'[c] = "idle"
      PROVE  Kept
  BY <1>a, <1>s DEF Settled
<1>1. ASSUME UNCHANGED <<pc, call, rows>> PROVE Kept
  BY <1>1, <1>a, <1>s
<1>2. ASSUME NEW v \in Uploads, CommitRequest(v) PROVE Kept
  <2>1. stage[v] = "recorded" /\ rows' = [rows EXCEPT ![v] = asked[v]]
        /\ UNCHANGED <<pc, call>>
    BY <1>2 DEF CommitRequest, confirmVars
  <2>2. rows[v] = None
    BY <2>1 DEF Inv, RequestsKept
  <2>3. rows'[u] = rows[u]
    BY <1>s, <1>t, <2>1, <2>2 DEF TypeOK
  <2> QED BY <1>a, <1>s, <2>1, <2>3
<1>3. ASSUME NEW c \in Confirms, NEW h \in Households, NEW v \in Uploads,
             Load(c, h, v)
      PROVE  Kept
  <2>1. /\ rows' = rows /\ pc[c] = "idle"
        /\ \A d \in Confirms \ {c} : pc'[d] = pc[d] /\ call'[d] = call[d]
        /\ call'[c].upload = v
    BY <1>3, <1>t DEF Load, Answer, Goto, TypeOK
  <2>2. \/ status'[c] = 404 /\ pc'[c] = "done"
        \/ /\ answer'[c] = rows[v].confirmed_at
           /\ pc'[c] = IF rows[v].confirmed_at = None THEN "assigned" ELSE "loaded"
    BY <1>3, <1>t DEF Load, Answer, Goto, TypeOK
  <2>3. Settled(u)'
    BY <1>s, <2>1, <2>2 DEF Settled
  <2> QED BY <2>1, <2>2, <2>3
<1>4. ASSUME NEW c \in Confirms, Flush(c) PROVE Kept
  <2>1. /\ rows' = rows /\ call' = call /\ pc[c] = "assigned"
        /\ \A d \in Confirms \ {c} : pc'[d] = pc[d]
    BY <1>4, <1>t DEF Flush, Answer, Goto, TypeOK
  <2> QED BY <1>a, <1>s, <2>1
<1>5. ASSUME NEW c \in Confirms, CommitConfirm(c) PROVE Kept
  <2>1. /\ call' = call /\ pc'[c] = "committed" /\ pc[c] # "idle"
        /\ \A d \in Confirms \ {c} : pc'[d] = pc[d]
    BY <1>5, <1>t DEF CommitConfirm, Goto, TypeOK
  <2>2. rows'[u] = rows[u]
    <3>1. CASE pc[c] = "flushed"
      BY <1>5, <1>s, <1>t, <3>1 DEF CommitConfirm, TypeOK
    <3>2. CASE pc[c] = "loaded"
      BY <1>5, <3>2 DEF CommitConfirm
    <3> QED BY <1>5, <3>1, <3>2 DEF CommitConfirm
  <2> QED BY <1>a, <1>s, <2>1, <2>2
<1>6. ASSUME NEW c \in Confirms, Respond(c) \/ FailConfirm(c) PROVE Kept
  <2>1. /\ rows' = rows /\ call' = call /\ pc[c] # "idle" /\ pc'[c] = "done"
        /\ \A d \in Confirms \ {c} : pc'[d] = pc[d]
    BY <1>6, <1>t DEF Respond, FailConfirm, Answer, Goto, TypeOK
  <2> QED BY <1>a, <1>s, <2>1
<1>7. ASSUME \/ \E v \in Uploads : \/ \E h \in Households : Sign(v, h)
                                   \/ RecordRequest(v) \/ Deliver(v)
                                   \/ FailRequest(v)
             \/ Tick \/ Quiet \/ UNCHANGED vars
      PROVE  UNCHANGED <<pc, call, rows>>
  BY <1>7 DEF Sign, RecordRequest, Deliver, FailRequest, Tick, Quiet, vars,
              confirmVars
<1> HIDE DEF Kept
<1>8. Kept
  BY <1>1, <1>2, <1>3, <1>4, <1>5, <1>6, <1>7 DEF Next
<1> QED BY <1>8 DEF Kept

(* Once the confirmations that overlapped the first have ended, the stored  *)
(* timestamp never changes and every retry returns it, for any number of    *)
(* confirmations and households (confirm_upload, confirm).                  *)
THEOREM SettledTimestamp == Spec => SettledStands
<1> DEFINE A == \A u \in Uploads : Settled(u) =>
              /\ rows'[u] = rows[u] /\ Settled(u)'
              /\ \A c \in Confirms : pc[c] = "idle" /\ pc'[c] # "idle"
                                /\ call'[c].upload = u /\ status'[c] # 404 =>
                   answer'[c] = rows[u].confirmed_at
<1>1. Inv /\ [Next]_vars => [A]_vars
  BY SettledStep
<1> HIDE DEF A
<1>2. Spec => [][A]_vars
  BY <1>1, Invariance, PTL DEF Spec
<1> QED BY <1>2 DEF SettledStands, A
=============================================================================
