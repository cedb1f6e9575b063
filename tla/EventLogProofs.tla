--------------------------- MODULE EventLogProofs ---------------------------
(* What is proved of EventLog for any numbers of requests, keys, households *)
(* and lots, and for any bound on the clock.                                *)
EXTENDS EventLog, TLAPS

USE LogStoreAssumption, EventLogAssumption

-----------------------------------------------------------------------------
(* Inv holds before the first request. *)
LEMMA InitInv == Init => Inv
<1> SUFFICES ASSUME Init PROVE Inv
  OBVIOUS
<1> USE DEF Init, LogInit
<1>1. TypeOK
  BY DEF TypeOK, LogTypeOK, Time, Rows
<1>2. Committed = {}
  BY DEF Committed
<1>3. \A r \in Requests : ~IsAppend(r)
  BY DEF IsAppend, Inputs
<1>4. Stages
  BY <1>3 DEF Stages, AppendStages
<1>5. RowsHeld /\ Acks /\ Tenants
  BY <1>3 DEF RowsHeld, Acks, Creator, Repeater, Tenants, AppendStages
<1>6. Clocks /\ RefusalsJustified /\ TenantFirst
  BY <1>2 DEF Clocks, StampsPast, RefusalsJustified, TenantFirst, Time
<1> QED
  BY <1>1, <1>4, <1>5, <1>6 DEF Inv

(* Every step keeps the variables in their types; an append carries a key,  *)
(* which is what Stages is for.                                             *)
LEMMA TypeStep == Inv /\ [Next]_vars => TypeOK'
<1> SUFFICES ASSUME Inv, [Next]_vars PROVE TypeOK'
  OBVIOUS
<1> USE DEF TypeOK, LogTypeOK, Rows, InFlight
<1>t. TypeOK /\ Stages
  BY DEF Inv
<1>1. ASSUME Tick /\ UNCHANGED <<households, reqVars>> PROVE TypeOK'
  BY <1>t, <1>1 DEF Tick, reqVars, Time
<1>2. ASSUME NEW r \in Requests, NEW i \in Inputs, Arrive(r, i) PROVE TypeOK'
  <2>1. Handler(i) \in {"append", "read"}
    BY DEF Handler
  <2> QED BY <1>t, <1>2, <2>1 DEF Arrive, Goto
<1>3. ASSUME NEW r \in Requests, EnsureHousehold(r) PROVE TypeOK'
  <2>1. Handler(input[r]) \in {"append", "read"}
    BY DEF Handler
  <2> QED BY <1>t, <1>3, <2>1 DEF EnsureHousehold, Goto
<1>4. ASSUME NEW r \in Requests, CommitHousehold(r) PROVE TypeOK'
  <2>1. input[r] \in Inputs
    BY <1>t, <1>4 DEF CommitHousehold, Stages
  <2>2. input[r].household \in Households
    BY <2>1 DEF Inputs, AppendInputs, AsOfInputs, CurrentInputs
  <2> QED BY <1>t, <1>4, <2>2 DEF CommitHousehold, Goto
<1>5. ASSUME NEW r \in Requests, BeginAppend(r) PROVE TypeOK'
  BY <1>t, <1>5 DEF BeginAppend, Goto
<1>6. ASSUME NEW r \in Requests, AppendIfNew(r) PROVE TypeOK'
  <2>1. input[r] \in AppendInputs
    BY <1>t, <1>6 DEF AppendIfNew, Stages, AppendStages, IsAppend
  <2>2. RowOf(r) \in EventRow
    BY <1>t, <2>1 DEF RowOf, EventRow, AppendInputs
  <2> QED BY <1>t, <1>6, <2>2 DEF AppendIfNew, Goto, Answer
<1>7. ASSUME NEW r \in Requests, LookupKey(r) PROVE TypeOK'
  <2>1. input[r].key \in Keys
    BY <1>t, <1>7 DEF LookupKey, Stages, AppendStages, IsAppend, AppendInputs
  <2> QED BY <1>t, <1>7, <2>1 DEF LookupKey, Goto, Answer
<1>8. ASSUME NEW r \in Requests, CommitAppend(r) PROVE TypeOK'
  <2>1. input[r].key \in Keys
    BY <1>t, <1>8 DEF CommitAppend, Stages, AppendStages, IsAppend, AppendInputs
  <2> QED BY <1>t, <1>8, <2>1 DEF CommitAppend, Goto
<1>9. ASSUME NEW r \in Requests, Respond(r) PROVE TypeOK'
  BY <1>t, <1>9 DEF Respond, Goto, Answer
<1>10. ASSUME NEW r \in Requests, ChooseAsOf(r) PROVE TypeOK'
  BY <1>t, <1>10 DEF ChooseAsOf, Goto
<1>11. ASSUME NEW r \in Requests, ProjectKnownAsOf(r) PROVE TypeOK'
  <2>1. events_known_as_of(input[r].household, at[r]) \in SUBSET Keys
    BY DEF events_known_as_of, Committed
  <2> QED BY <1>t, <1>11, <2>1 DEF ProjectKnownAsOf, Goto, Answer
<1>12. ASSUME NEW r \in Requests, Fail(r) PROVE TypeOK'
  BY <1>t, <1>12 DEF Fail, Goto, Answer
<1>13. ASSUME UNCHANGED vars PROVE TypeOK'
  BY <1>t, <1>13 DEF vars, reqVars
<1> QED
  BY <1>1, <1>2, <1>3, <1>4, <1>5, <1>6, <1>7, <1>8, <1>9, <1>10, <1>11,
     <1>12, <1>13 DEF Next, Step, Quiet

(* An append's input names a key, and its row is a row. *)
LEMMA AppendRow ==
  ASSUME TypeOK, NEW r \in Requests, IsAppend(r)
  PROVE  /\ input[r].key \in Keys
         /\ RowOf(r) \in EventRow
         /\ RowOf(r) # None
BY DEF TypeOK, IsAppend, AppendInputs, RowOf, EventRow

(* Inv is inductive. *)
LEMMA InvStep == Inv /\ [Next]_vars => Inv'
<1> SUFFICES ASSUME Inv, [Next]_vars PROVE Inv'
  OBVIOUS
<1>t. TypeOK'
  BY TypeStep
<1>i. TypeOK /\ Stages /\ RowsHeld /\ Acks /\ Tenants /\ Clocks
      /\ RefusalsJustified /\ TenantFirst
  BY DEF Inv
<1> USE DEF TypeOK, LogTypeOK, Goto, Answer
<1>1. ASSUME Tick /\ UNCHANGED <<households, reqVars>> PROVE Inv'
  <2>1. UNCHANGED <<log, households, pc, input, stamp, event, status>>
    BY <1>1 DEF Tick, reqVars
  <2>2. Stages' /\ RowsHeld' /\ Acks' /\ Tenants'
    BY <1>i, <2>1 DEF Stages, RowsHeld, Acks, Creator, Repeater, Tenants,
       RowOf, IsAppend
  <2>3. RefusalsJustified' /\ TenantFirst'
    BY <1>i, <2>1 DEF RefusalsJustified, TenantFirst, Committed
  <2>4. Clocks'
    BY <1>i, <1>1, <2>1 DEF Clocks, StampsPast, Committed, Tick, Time, EventRow
  <2> QED BY <1>t, <2>2, <2>3, <2>4 DEF Inv
<1>2. ASSUME NEW r \in Requests, NEW i \in Inputs, Arrive(r, i) PROVE Inv'
  <2>1. Stages'
    BY <1>i, <1>2 DEF Arrive, Handler, Stages, AppendStages, IsAppend
  <2>2. RowsHeld'
    BY <1>i, <1>2 DEF Arrive, Handler, Stages, RowsHeld, AppendStages, RowOf, IsAppend
  <2>3. Acks'
    BY <1>i, <1>2 DEF Arrive, Handler, Stages, RowsHeld, Acks, AppendStages,
       Creator, Repeater, RowOf, IsAppend
  <2>4. Tenants'
    BY <1>i, <1>2 DEF Arrive, Handler, Tenants, AppendStages
  <2>5. Clocks'
    BY <1>i, <1>2 DEF Arrive, Handler, Clocks, StampsPast, Committed, Time
  <2>6. RefusalsJustified'
    BY <1>i, <1>2 DEF Arrive, Handler, Stages, RefusalsJustified, IsAppend
  <2>7. TenantFirst'
    BY <1>i, <1>2 DEF Arrive, Handler, Tenants, TenantFirst, AppendStages, Committed
  <2> QED BY <1>t, <2>1, <2>2, <2>3, <2>4, <2>5, <2>6, <2>7 DEF Inv
<1>3. ASSUME NEW r \in Requests, EnsureHousehold(r) PROVE Inv'
  <2>1. Stages'
    BY <1>i, <1>3 DEF EnsureHousehold, Handler, Stages, AppendStages, IsAppend
  <2>2. RowsHeld'
    BY <1>i, <1>3 DEF EnsureHousehold, Handler, Stages, RowsHeld, AppendStages, RowOf, IsAppend
  <2>3. Acks'
    BY <1>i, <1>3 DEF EnsureHousehold, Handler, Stages, RowsHeld, Acks, AppendStages,
       Creator, Repeater, RowOf, IsAppend
  <2>4. Tenants'
    BY <1>i, <1>3 DEF EnsureHousehold, Handler, Tenants, AppendStages
  <2>5. Clocks'
    BY <1>i, <1>3 DEF EnsureHousehold, Handler, Clocks, StampsPast, Committed
  <2>6. RefusalsJustified'
    BY <1>i, <1>3 DEF EnsureHousehold, Handler, Stages, RefusalsJustified, IsAppend
  <2>7. TenantFirst'
    BY <1>i, <1>3 DEF EnsureHousehold, Handler, Tenants, TenantFirst, AppendStages, Committed
  <2> QED BY <1>t, <2>1, <2>2, <2>3, <2>4, <2>5, <2>6, <2>7 DEF Inv
<1>4. ASSUME NEW r \in Requests, CommitHousehold(r) PROVE Inv'
  <2>1. Stages'
    BY <1>i, <1>4 DEF CommitHousehold, Stages, AppendStages, IsAppend
  <2>2. RowsHeld'
    BY <1>i, <1>4 DEF CommitHousehold, Stages, RowsHeld, AppendStages, RowOf, IsAppend
  <2>3. Acks'
    BY <1>i, <1>4 DEF CommitHousehold, Stages, RowsHeld, Acks, AppendStages,
       Creator, Repeater, RowOf, IsAppend
  <2>4. Tenants'
    BY <1>i, <1>4 DEF CommitHousehold, Tenants, AppendStages
  <2>5. Clocks'
    BY <1>i, <1>4 DEF CommitHousehold, Clocks, StampsPast, Committed
  <2>6. RefusalsJustified'
    BY <1>i, <1>4 DEF CommitHousehold, Stages, RefusalsJustified, IsAppend
  <2>7. TenantFirst'
    BY <1>i, <1>4 DEF CommitHousehold, Tenants, TenantFirst, AppendStages, Committed
  <2> QED BY <1>t, <2>1, <2>2, <2>3, <2>4, <2>5, <2>6, <2>7 DEF Inv
<1>5. ASSUME NEW r \in Requests, BeginAppend(r) PROVE Inv'
  <2>1. Stages'
    BY <1>i, <1>5 DEF BeginAppend, Stages, AppendStages, IsAppend
  <2>2. RowsHeld'
    BY <1>i, <1>5 DEF BeginAppend, Stages, RowsHeld, AppendStages, RowOf, IsAppend
  <2>3. Acks'
    BY <1>i, <1>5 DEF BeginAppend, Stages, RowsHeld, Acks, AppendStages,
       Creator, Repeater, RowOf, IsAppend
  <2>4. Tenants'
    BY <1>i, <1>5 DEF BeginAppend, Tenants, AppendStages
  <2>5. Clocks'
    BY <1>i, <1>5 DEF BeginAppend, Clocks, StampsPast, Committed, Time
  <2>6. RefusalsJustified'
    BY <1>i, <1>5 DEF BeginAppend, Stages, RefusalsJustified, IsAppend
  <2>7. TenantFirst'
    BY <1>i, <1>5 DEF BeginAppend, Tenants, TenantFirst, AppendStages, Committed
  <2> QED BY <1>t, <2>1, <2>2, <2>3, <2>4, <2>5, <2>6, <2>7 DEF Inv
<1>6. ASSUME NEW r \in Requests, AppendIfNew(r) PROVE Inv'
  <2>1. Stages'
    BY <1>i, <1>6 DEF AppendIfNew, KeyLocked, Stages, AppendStages, IsAppend
  <2>2. RowsHeld'
    BY <1>i, <1>6 DEF AppendIfNew, KeyLocked, Stages, RowsHeld, AppendStages, RowOf, IsAppend
  <2>3. Acks'
    BY <1>i, <1>6 DEF AppendIfNew, KeyLocked, Stages, RowsHeld, Acks, AppendStages,
       Creator, Repeater, RowOf, IsAppend
  <2>4. Tenants'
    BY <1>i, <1>6 DEF AppendIfNew, KeyLocked, Tenants, AppendStages
  <2>5. Clocks'
    BY <1>i, <1>6 DEF AppendIfNew, KeyLocked, Clocks, StampsPast, Committed
  <2>6. RefusalsJustified'
    BY <1>i, <1>6 DEF AppendIfNew, KeyLocked, Stages, RefusalsJustified, IsAppend
  <2>7. TenantFirst'
    BY <1>i, <1>6 DEF AppendIfNew, KeyLocked, Tenants, TenantFirst, AppendStages, Committed
  <2> QED BY <1>t, <2>1, <2>2, <2>3, <2>4, <2>5, <2>6, <2>7 DEF Inv
<1>7. ASSUME NEW r \in Requests, LookupKey(r) PROVE Inv'
  <2>1. Stages'
    BY <1>i, <1>7 DEF LookupKey, Stages, AppendStages, IsAppend
  <2>2. RowsHeld'
    BY <1>i, <1>7 DEF LookupKey, Stages, RowsHeld, AppendStages, RowOf, IsAppend
  <2>3. Acks'
    BY <1>i, <1>7 DEF LookupKey, Stages, RowsHeld, Acks, AppendStages,
       Creator, Repeater, RowOf, IsAppend
  <2>4. Tenants'
    BY <1>i, <1>7 DEF LookupKey, Tenants, AppendStages
  <2>5. Clocks'
    BY <1>i, <1>7 DEF LookupKey, Clocks, StampsPast, Committed
  <2>6. RefusalsJustified'
    BY <1>i, <1>7 DEF LookupKey, Stages, RowsHeld, RefusalsJustified, IsAppend
  <2>7. TenantFirst'
    BY <1>i, <1>7 DEF LookupKey, Tenants, TenantFirst, AppendStages, Committed
  <2> QED BY <1>t, <2>1, <2>2, <2>3, <2>4, <2>5, <2>6, <2>7 DEF Inv
<1>8. ASSUME NEW r \in Requests, CommitAppend(r) PROVE Inv'
  <2>a. IsAppend(r)
    BY <1>i, <1>8 DEF CommitAppend, Stages, AppendStages
  <2>1. Stages'
    BY <1>i, <1>8 DEF CommitAppend, Stages, AppendStages, IsAppend
  <2>2. CASE pc[r] = "existing"
    BY <1>t, <1>i, <1>8, <2>1, <2>2 DEF CommitAppend, Inv, Stages, RowsHeld,
       Acks, Creator, Repeater, RowOf, IsAppend, Tenants, AppendStages, Clocks,
       StampsPast, Committed, RefusalsJustified, TenantFirst
  <2>3. CASE pc[r] = "inserted"
    <3>1. /\ log' = [log EXCEPT ![input[r].key] = event[r]]
          /\ pc' = [pc EXCEPT ![r] = "created"]
          /\ UNCHANGED <<now, households, input, stamp, event, status>>
      BY <1>8, <2>3 DEF CommitAppend
    <3>2. /\ event[r] = RowOf(r) /\ event[r] # None
          /\ log[input[r].key] = None /\ input[r].key \in Keys
      BY <1>i, <2>a, <2>3, AppendRow DEF RowsHeld
    <3>3. \A k \in Keys : log[k] # None => log'[k] = log[k]
      BY <1>i, <3>1, <3>2
    <3>4. \A q \in Requests : IsAppend(q) => input[q].key \in Keys
      BY <1>i, AppendRow
    <3>5. RowsHeld'
      BY <1>i, <2>3, <3>1, <3>2, <3>3, <3>4
      DEF Stages, RowsHeld, AppendStages, RowOf, IsAppend
    <3>6. Acks'
      <4>1. \A q \in Requests : (Creator(q) \/ Repeater(q)) =>
              IsAppend(q) /\ event[q] # None /\ log[input[q].key] = event[q]
        BY <1>i, AppendRow DEF Acks, Stages, Creator, Repeater, AppendStages
      <4>2. \A q \in Requests : (Creator(q)' <=> (Creator(q) \/ q = r))
                               /\ (Repeater(q)' <=> Repeater(q))
        BY <1>i, <2>3, <3>1 DEF Creator, Repeater, IsAppend, Stages
      <4>3. \A q \in Requests : RowOf(q)' = RowOf(q)
        BY <3>1 DEF RowOf
      <4> QED BY <1>i, <3>1, <3>2, <3>3, <3>4, <4>1, <4>2, <4>3 DEF Acks
    <3>7. Tenants'
      BY <1>i, <2>3, <3>1 DEF Tenants, AppendStages
    <3>8. Clocks'
      BY <1>i, <3>1, <3>2 DEF Clocks, StampsPast, Committed, RowOf
    <3>9. RefusalsJustified'
      <4>1. \A q \in Requests : status[q] = 409 =>
              /\ input[q].key \in Keys
              /\ log[input[q].key] # None
              /\ log'[input[q].key] = log[input[q].key]
        <5> SUFFICES ASSUME NEW q \in Requests, status[q] = 409
                     PROVE  /\ input[q].key \in Keys
                            /\ log[input[q].key] # None
                            /\ log'[input[q].key] = log[input[q].key]
          OBVIOUS
        <5>1. IsAppend(q)
          BY <1>i DEF Stages
        <5>2. log[input[q].key] # None
          BY <1>i DEF RefusalsJustified
        <5>3. input[q].key \in Keys
          BY <1>i, <5>1, AppendRow
        <5>4. log'[input[q].key] = log[input[q].key]
          BY <3>3, <5>2, <5>3
        <5> QED BY <5>2, <5>3, <5>4
      <4> QED BY <1>i, <3>1, <4>1 DEF RefusalsJustified
    <3>10. TenantFirst'
      BY <1>i, <2>3, <3>1, <3>2
      DEF Tenants, TenantFirst, AppendStages, Committed, RowOf
    <3> QED BY <1>t, <2>1, <3>5, <3>6, <3>7, <3>8, <3>9, <3>10 DEF Inv
  <2> QED BY <1>8, <2>2, <2>3 DEF CommitAppend
<1>9. ASSUME NEW r \in Requests, Respond(r) PROVE Inv'
  <2>1. Stages'
    BY <1>i, <1>9 DEF Respond, Stages, AppendStages, IsAppend
  <2>2. RowsHeld'
    BY <1>i, <1>9 DEF Respond, Stages, RowsHeld, AppendStages, RowOf, IsAppend
  <2>3. Acks'
    BY <1>i, <1>9 DEF Respond, Stages, RowsHeld, Acks, AppendStages,
       Creator, Repeater, RowOf, IsAppend
  <2>4. Tenants'
    BY <1>i, <1>9 DEF Respond, Tenants, AppendStages
  <2>5. Clocks'
    BY <1>i, <1>9 DEF Respond, Clocks, StampsPast, Committed
  <2>6. RefusalsJustified'
    BY <1>i, <1>9 DEF Respond, Stages, RefusalsJustified, IsAppend
  <2>7. TenantFirst'
    BY <1>i, <1>9 DEF Respond, Tenants, TenantFirst, AppendStages, Committed
  <2> QED BY <1>t, <2>1, <2>2, <2>3, <2>4, <2>5, <2>6, <2>7 DEF Inv
<1>10. ASSUME NEW r \in Requests, ChooseAsOf(r) PROVE Inv'
  <2>1. Stages'
    BY <1>i, <1>10 DEF ChooseAsOf, Stages, AppendStages, IsAppend
  <2>2. RowsHeld'
    BY <1>i, <1>10 DEF ChooseAsOf, Stages, RowsHeld, AppendStages, RowOf, IsAppend
  <2>3. Acks'
    BY <1>i, <1>10 DEF ChooseAsOf, Stages, RowsHeld, Acks, AppendStages,
       Creator, Repeater, RowOf, IsAppend
  <2>4. Tenants'
    BY <1>i, <1>10 DEF ChooseAsOf, Tenants, AppendStages
  <2>5. Clocks'
    BY <1>i, <1>10 DEF ChooseAsOf, Clocks, StampsPast, Committed
  <2>6. RefusalsJustified'
    BY <1>i, <1>10 DEF ChooseAsOf, Stages, RefusalsJustified, IsAppend
  <2>7. TenantFirst'
    BY <1>i, <1>10 DEF ChooseAsOf, Tenants, TenantFirst, AppendStages, Committed
  <2> QED BY <1>t, <2>1, <2>2, <2>3, <2>4, <2>5, <2>6, <2>7 DEF Inv
<1>11. ASSUME NEW r \in Requests, ProjectKnownAsOf(r) PROVE Inv'
  <2>1. Stages'
    BY <1>i, <1>11 DEF ProjectKnownAsOf, Stages, AppendStages, IsAppend
  <2>2. RowsHeld'
    BY <1>i, <1>11 DEF ProjectKnownAsOf, Stages, RowsHeld, AppendStages, RowOf, IsAppend
  <2>3. Acks'
    BY <1>i, <1>11 DEF ProjectKnownAsOf, Stages, RowsHeld, Acks, AppendStages,
       Creator, Repeater, RowOf, IsAppend
  <2>4. Tenants'
    BY <1>i, <1>11 DEF ProjectKnownAsOf, Tenants, AppendStages
  <2>5. Clocks'
    BY <1>i, <1>11 DEF ProjectKnownAsOf, Clocks, StampsPast, Committed
  <2>6. RefusalsJustified'
    BY <1>i, <1>11 DEF ProjectKnownAsOf, Stages, RefusalsJustified, IsAppend
  <2>7. TenantFirst'
    BY <1>i, <1>11 DEF ProjectKnownAsOf, Tenants, TenantFirst, AppendStages, Committed
  <2> QED BY <1>t, <2>1, <2>2, <2>3, <2>4, <2>5, <2>6, <2>7 DEF Inv
<1>12. ASSUME NEW r \in Requests, Fail(r) PROVE Inv'
  <2>1. Stages'
    BY <1>i, <1>12 DEF Fail, InFlight, Stages, AppendStages, IsAppend
  <2>2. RowsHeld'
    BY <1>i, <1>12 DEF Fail, InFlight, Stages, RowsHeld, AppendStages, RowOf, IsAppend
  <2>3. Acks'
    BY <1>i, <1>12 DEF Fail, InFlight, Stages, RowsHeld, Acks, AppendStages,
       Creator, Repeater, RowOf, IsAppend
  <2>4. Tenants'
    BY <1>i, <1>12 DEF Fail, InFlight, Tenants, AppendStages
  <2>5. Clocks'
    BY <1>i, <1>12 DEF Fail, InFlight, Clocks, StampsPast, Committed
  <2>6. RefusalsJustified'
    BY <1>i, <1>12 DEF Fail, InFlight, Stages, RefusalsJustified, IsAppend
  <2>7. TenantFirst'
    BY <1>i, <1>12 DEF Fail, InFlight, Tenants, TenantFirst, AppendStages, Committed
  <2> QED BY <1>t, <2>1, <2>2, <2>3, <2>4, <2>5, <2>6, <2>7 DEF Inv
<1>13. ASSUME UNCHANGED vars PROVE Inv'
  BY <1>t, <1>i, <1>13 DEF vars, reqVars, Inv, Stages, RowsHeld, Acks, Creator,
     Repeater, Tenants, Clocks, RefusalsJustified, TenantFirst, RowOf, IsAppend,
     StampsPast, Committed
<1> QED
  BY <1>1, <1>2, <1>3, <1>4, <1>5, <1>6, <1>7, <1>8, <1>9, <1>10, <1>11,
     <1>12, <1>13 DEF Next, Step, Quiet

(* The inductive invariant holds in every state EventLog reaches. *)
THEOREM Invariance == Spec => []Inv
BY InitInv, InvStep, PTL DEF Spec

(* Every variable stays in its type, for requests in any number. *)
THEOREM TypeCorrect == Spec => []TypeOK
BY Invariance, PTL DEF Inv

(* What the inductive invariant is for. *)
LEMMA InvImplies ==
  Inv => AckDurable /\ CreatedOnce /\ RefusalsJustified /\ TenantFirst
<1> SUFFICES ASSUME Inv
             PROVE  AckDurable /\ CreatedOnce /\ RefusalsJustified /\ TenantFirst
  OBVIOUS
<1>i. TypeOK /\ Acks /\ RefusalsJustified /\ TenantFirst
  BY DEF Inv
<1>1. AckDurable
  <2> SUFFICES ASSUME NEW r \in Requests, IsAppend(r), status[r] \in {200, 201}
               PROVE  /\ event[r] # None
                      /\ log[input[r].key] = event[r]
                      /\ event[r].household = input[r].household
                      /\ status[r] = 201 => event[r] = RowOf(r)
    BY DEF AckDurable
  <2>1. RowOf(r) # None /\ RowOf(r).household = input[r].household
    BY <1>i, AppendRow DEF RowOf
  <2> QED BY <1>i, <2>1 DEF Acks, Creator, Repeater
<1>2. CreatedOnce
  BY <1>i DEF Acks, Creator, CreatedOnce
<1> QED BY <1>i, <1>1, <1>2

(* Whatever the interleaving of any number of requests, their failures and  *)
(* retries: an event append_event acknowledged is in the log and is its     *)
(* caller's.                                                                *)
THEOREM AcksDurable == Spec => []AckDurable
BY Invariance, InvImplies, PTL

(* However many requests race for an idempotency key, one of them at most   *)
(* is told that it created the event (append_if_new).                       *)
THEOREM ExactlyOnce == Spec => []CreatedOnce
BY Invariance, InvImplies, PTL

(* append_event answers 409 only when another household owns the key and    *)
(* 422 only for a product that is not listed, whoever commits in between.   *)
THEOREM RefusedForCause == Spec => []RefusalsJustified
BY Invariance, InvImplies, PTL

(* However many first requests of a new user race through get_household_id, *)
(* no event is inserted before its tenant is committed.                     *)
THEOREM TenantsFirst == Spec => []TenantFirst
BY Invariance, InvImplies, PTL

-----------------------------------------------------------------------------
(* A step of EventLog changes the log only by appending a row, stamped in   *)
(* the past, under a key that was free.                                     *)
LEMMA LogStep == Inv /\ [Next]_vars => [LogNext]_logVars
<1> SUFFICES ASSUME Inv, [Next]_vars PROVE [LogNext]_logVars
  OBVIOUS
<1>i. TypeOK /\ Stages /\ RowsHeld /\ Clocks
  BY DEF Inv
<1>1. ASSUME NEW r \in Requests, CommitAppend(r), pc[r] = "inserted"
      PROVE  \E k \in Keys, row \in EventRow : Append(k, row)
  <2>1. IsAppend(r)
    BY <1>i, <1>1 DEF Stages, AppendStages
  <2>2. input[r].key \in Keys /\ RowOf(r) \in EventRow
    BY <1>i, <2>1, AppendRow
  <2>3. RowOf(r).recorded <= now
    BY <1>i DEF RowOf, Clocks
  <2>4. Append(input[r].key, RowOf(r))
    BY <1>i, <1>1, <2>3 DEF Append, RowsHeld, CommitAppend
  <2> QED BY <2>2, <2>4
<1>2. ASSUME NEW r \in Requests, CommitAppend(r), pc[r] # "inserted"
      PROVE  UNCHANGED logVars
  BY <1>2 DEF CommitAppend, logVars
<1>3. ASSUME NEW r \in Requests,
             \/ \E i \in Inputs : Arrive(r, i)
             \/ EnsureHousehold(r) \/ CommitHousehold(r) \/ BeginAppend(r)
             \/ AppendIfNew(r) \/ LookupKey(r) \/ Respond(r) \/ ChooseAsOf(r)
             \/ ProjectKnownAsOf(r) \/ Fail(r)
      PROVE  UNCHANGED logVars
  BY <1>3 DEF Arrive, EnsureHousehold, CommitHousehold, BeginAppend,
     AppendIfNew, LookupKey, Respond, ChooseAsOf, ProjectKnownAsOf, Fail, logVars
<1>4. ASSUME UNCHANGED vars PROVE UNCHANGED logVars
  BY <1>4 DEF vars, logVars
<1> QED
  BY <1>1, <1>2, <1>3, <1>4 DEF Next, Step, Quiet, LogNext

(* EventLog implements LogStore: the log the requests write is the one the  *)
(* projection reads.                                                        *)
THEOREM ImplementsLogStore == Spec => LogSpec
<1>1. Init => LogInit
  BY DEF Init
<1> QED BY <1>1, Invariance, LogStep, PTL DEF Spec, LogSpec

-----------------------------------------------------------------------------
(* A step from a state in which moment t is settled keeps it settled and    *)
(* adds no row stamped at or before t.                                      *)
LEMMA SettledStep ==
  ASSUME Inv, [Next]_vars, NEW h \in Households, NEW t \in Time, Settled(t)
  PROVE  events_known_as_of(h, t)' = events_known_as_of(h, t) /\ Settled(t)'
<1>i. TypeOK /\ Stages /\ RowsHeld
  BY DEF Inv
<1>n. now \in Int /\ t \in Int
  BY <1>i DEF TypeOK, LogTypeOK, Time
<1> USE DEF Settled, Goto, Answer, TypeOK
<1>1. ASSUME Tick /\ UNCHANGED <<households, reqVars>>
      PROVE  log' = log /\ Settled(t)'
  BY <1>i, <1>n, <1>1 DEF Tick, reqVars, IsAppend
<1>2. ASSUME NEW r \in Requests, NEW i \in Inputs, Arrive(r, i)
      PROVE  log' = log /\ Settled(t)'
  BY <1>i, <1>n, <1>2 DEF Arrive, IsAppend
<1>3. ASSUME NEW r \in Requests,
             \/ EnsureHousehold(r) \/ CommitHousehold(r) \/ BeginAppend(r)
      PROVE  log' = log /\ Settled(t)'
  BY <1>i, <1>n, <1>3
  DEF EnsureHousehold, CommitHousehold, BeginAppend, Handler, IsAppend
<1>4. ASSUME NEW r \in Requests, AppendIfNew(r) \/ LookupKey(r)
      PROVE  log' = log /\ Settled(t)'
  BY <1>i, <1>n, <1>4 DEF AppendIfNew, LookupKey, IsAppend
<1>5. ASSUME NEW r \in Requests,
             Respond(r) \/ ChooseAsOf(r) \/ ProjectKnownAsOf(r) \/ Fail(r)
      PROVE  log' = log /\ Settled(t)'
  BY <1>i, <1>n, <1>5 DEF Respond, ChooseAsOf, ProjectKnownAsOf, Fail, IsAppend
<1>6. ASSUME log' = log
      PROVE  events_known_as_of(h, t)' = events_known_as_of(h, t)
  BY <1>6 DEF events_known_as_of, Committed
<1>7. ASSUME NEW r \in Requests, CommitAppend(r)
      PROVE  events_known_as_of(h, t)' = events_known_as_of(h, t) /\ Settled(t)'
  <2>1. Settled(t)'
    BY <1>i, <1>7 DEF CommitAppend, IsAppend
  <2>2. CASE pc[r] = "existing"
    BY <1>6, <1>7, <2>1, <2>2 DEF CommitAppend
  <2>3. CASE pc[r] = "inserted"
    <3>1. IsAppend(r)
      BY <1>i, <2>3 DEF Stages, AppendStages
    <3>2. input[r].key \in Keys /\ stamp[r] > t /\ stamp[r] \in Int
      BY <1>i, <2>3, <3>1, AppendRow DEF Time
    <3>3. /\ log[input[r].key] = None
          /\ log' = [log EXCEPT ![input[r].key] = RowOf(r)]
      BY <1>i, <1>7, <2>3 DEF CommitAppend, RowsHeld
    <3>4. log \in [Keys -> EventRow \cup {None}]
      BY <1>i DEF LogTypeOK
    <3>5. RowOf(r).recorded = stamp[r]
      BY DEF RowOf
    <3>6. ~(stamp[r] <= t)
      BY <1>n, <3>2
    <3>7. \A k \in Keys :
            k \in events_known_as_of(h, t)' <=> k \in events_known_as_of(h, t)
      BY <3>2, <3>3, <3>4, <3>5, <3>6 DEF events_known_as_of, Committed
    <3> QED BY <2>1, <3>7 DEF events_known_as_of, Committed
  <2> QED BY <1>7, <2>2, <2>3 DEF CommitAppend
<1>8. ASSUME UNCHANGED vars PROVE log' = log /\ Settled(t)'
  BY <1>8 DEF vars, reqVars, IsAppend
<1> QED
  BY <1>1, <1>2, <1>3, <1>4, <1>5, <1>6, <1>7, <1>8 DEF Next, Step, Quiet

(* The answer about a settled moment is final: a reader that asks only for  *)
(* moments older than every open transaction gets "what we knew then".      *)
THEOREM SettledAnswersFinal == Spec => SettledIsFinal
<1>1. Inv /\ [Next]_vars =>
        [\A h \in Households, t \in Time :
           Settled(t) => /\ events_known_as_of(h, t)' = events_known_as_of(h, t)
                         /\ Settled(t)']_vars
  BY SettledStep
<1> QED BY <1>1, Invariance, PTL DEF Spec, SettledIsFinal

-----------------------------------------------------------------------------
(* A committed row stays as it is. *)
LEMMA LogKeeps ==
  ASSUME Inv, [Next]_vars, NEW k \in Keys, log[k] # None
  PROVE  log'[k] = log[k]
BY LogStep DEF LogNext, logVars, Append, Tick, Inv, TypeOK, LogTypeOK

(* A step that touches neither the read of r nor what it was acknowledged.  *)
LEMMA ReadUntouched ==
  ASSUME Inv, [Next]_vars, NEW r \in Requests, ReadKept(r),
         acked'[r] = acked[r], input'[r] = input[r], at'[r] = at[r],
         answer'[r] = answer[r],
         pc'[r] = "query" => pc[r] = "query",
         status'[r] = 200 => status[r] = 200 \/ IsAppend(r)
  PROVE  ReadKept(r)'
<1>1. \A k \in acked[r] : log'[k] = log[k]
  BY LogKeeps DEF ReadKept, Inv, TypeOK
<1>2. IsAppend(r) => input[r] \notin CurrentInputs
  BY DEF IsAppend, AppendInputs, CurrentInputs
<1> QED BY <1>1, <1>2 DEF ReadKept

(* An acknowledgement of q names a row of its household in the log. *)
LEMMA AckedCommitted ==
  ASSUME Inv, NEW q \in Requests, IsAppend(q), status[q] \in {200, 201}
  PROVE  /\ log[input[q].key] # None
         /\ log[input[q].key].household = input[q].household
BY InvImplies DEF AckDurable

(* Every step keeps what reads are owed. *)
LEMMA ReadStep ==
  ASSUME Inv, [Next]_vars, \A r \in Requests : ReadKept(r), NEW r \in Requests
  PROVE  ReadKept(r)'
<1>i. TypeOK /\ Stages /\ Clocks
  BY DEF Inv
<1>n. now \in Int /\ Skew \in Int /\ \A k \in Committed : log[k].recorded \in Int
  BY <1>i DEF TypeOK, LogTypeOK, Time, EventRow, Committed
<1> USE DEF Goto, Answer, TypeOK
<1>1. ASSUME NEW s \in Requests, NEW i \in Inputs, Arrive(s, i)
      PROVE  ReadKept(r)'
  <2>1. CASE s # r
    BY <1>i, <1>1, <2>1, ReadUntouched DEF Arrive
  <2>2. CASE s = r
    <3>1. UNCHANGED log /\ input'[r] = i /\ status'[r] = 0 /\ pc'[r] # "query"
      BY <1>i, <1>1, <2>2 DEF Arrive, Stages, Handler
    <3>2. \A k \in acked'[r] : \E q \in Requests :
            /\ IsAppend(q) /\ input[q].key = k /\ status[q] \in {200, 201}
            /\ input[q].household = i.household
      BY <1>i, <1>1, <2>2 DEF Arrive
    <3> QED BY <3>1, <3>2, AckedCommitted DEF ReadKept
  <2> QED BY <2>1, <2>2
<1>2. ASSUME NEW s \in Requests, ChooseAsOf(s) PROVE ReadKept(r)'
  <2>1. CASE s # r
    BY <1>i, <1>2, <2>1, ReadUntouched DEF ChooseAsOf
  <2>2. CASE s = r
    <3>1. /\ UNCHANGED <<log, acked, input>> /\ status'[r] = 0
          /\ at'[r] \in Int
          /\ input[r] \in AsOfInputs \/ now - Skew <= at'[r]
      BY <1>i, <1>2, <2>2 DEF ChooseAsOf, Stages, Time
    <3>2. input[r] \in CurrentInputs => input[r] \notin AsOfInputs
      BY DEF CurrentInputs, AsOfInputs
    <3>3. \A k \in acked[r] : log[k].recorded <= now /\ log[k].recorded \in Int
      BY <1>i, <1>n DEF ReadKept, Clocks, StampsPast, Committed
    <3> QED BY <1>n, <3>1, <3>2, <3>3 DEF ReadKept
  <2> QED BY <2>1, <2>2
<1>3. ASSUME NEW s \in Requests, ProjectKnownAsOf(s) PROVE ReadKept(r)'
  <2>1. CASE s # r
    BY <1>i, <1>3, <2>1, ReadUntouched DEF ProjectKnownAsOf
  <2>2. CASE s = r
    <3>1. /\ UNCHANGED <<log, acked, input, at>> /\ pc[r] = "query"
          /\ pc'[r] # "query"
          /\ answer'[r] = events_known_as_of(input[r].household, at[r])
      BY <1>i, <1>3, <2>2 DEF ProjectKnownAsOf
    <3>2. ASSUME input[r] \in CurrentInputs, NEW k \in acked[r]
          PROVE  \/ k \in answer'[r]
                 \/ log[k].occurred > at[r]
                 \/ log[k].recorded \in (at[r] + 1)..(at[r] + Skew)
      <4>1. /\ k \in Committed /\ log[k].household = input[r].household
            /\ log[k].recorded <= at[r] + Skew
        BY <1>i, <3>1, <3>2 DEF ReadKept, Committed
      <4>2. log[k].occurred \in Int /\ log[k].recorded \in Int /\ at[r] \in Int
        BY <1>i, <4>1 DEF LogTypeOK, Committed, EventRow, Time
      <4>3. CASE log[k].occurred <= at[r] /\ log[k].recorded <= at[r]
        BY <3>1, <4>1, <4>3 DEF events_known_as_of
      <4> QED BY <1>n, <4>1, <4>2, <4>3
    <3> QED BY <3>1, <3>2 DEF ReadKept
  <2> QED BY <2>1, <2>2
<1>4. ASSUME NEW s \in Requests,
             \/ EnsureHousehold(s) \/ CommitHousehold(s) \/ BeginAppend(s)
             \/ AppendIfNew(s) \/ LookupKey(s) \/ CommitAppend(s)
             \/ Respond(s) \/ Fail(s)
      PROVE  ReadKept(r)'
  <2>1. UNCHANGED <<acked, input, at, answer>>
    BY <1>4 DEF EnsureHousehold, CommitHousehold, BeginAppend, AppendIfNew,
       LookupKey, CommitAppend, Respond, Fail
  <2>2. pc'[r] = "query" => pc[r] = "query"
    BY <1>i, <1>4 DEF EnsureHousehold, CommitHousehold, BeginAppend,
       AppendIfNew, LookupKey, CommitAppend, Respond, Fail, Handler
  <2>3. status'[r] = 200 => status[r] = 200 \/ IsAppend(r)
    BY <1>i, <1>4 DEF EnsureHousehold, CommitHousehold, BeginAppend,
       AppendIfNew, LookupKey, CommitAppend, Respond, Fail, Stages, AppendStages
  <2> QED BY <2>1, <2>2, <2>3, ReadUntouched
<1>5. ASSUME UNCHANGED reqVars PROVE ReadKept(r)'
  BY <1>5, ReadUntouched DEF reqVars
<1> QED
  BY <1>1, <1>2, <1>3, <1>4, <1>5 DEF Next, Step, Quiet, vars

(* GET /inventory shows its caller every event acknowledged before it asked *)
(* that is not in the reader's future, but for the skew between the clock   *)
(* of the replica and that of the database.                                 *)
THEOREM ReadsYourWrites == Spec => []ReadYourWrites
<1> DEFINE Kept == \A r \in Requests : ReadKept(r)
<1>1. Init => Kept
  BY DEF Init, ReadKept
<1>2. Inv /\ Kept /\ [Next]_vars => Kept'
  BY ReadStep
<1>3. Kept => ReadYourWrites
  BY DEF ReadKept, ReadYourWrites
<1> HIDE DEF Kept
<1> QED BY <1>1, <1>2, <1>3, Invariance, PTL DEF Spec
=============================================================================
