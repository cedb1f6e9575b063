----------------------------- MODULE MCLotFold -----------------------------
(* Events for TLC: a backdated report, an event dated in the future, one of *)
(* another household, two spellings of a unit, several events of one lot.   *)
EXTENDS LotFold

MCHouseholds == {"ours", "theirs"}
MCProducts == {"milk", "eggs"}
MCUnits == {"l", " L"}
MCSpelling == [u \in MCUnits |-> "l"]

MCEvent(id, h, p, u, type, delta, occ, rec) ==
  [id |-> id, household |-> h, product |-> p, unit |-> u,
   event_type |-> type, quantity_delta |-> delta, occurred |-> occ, recorded |-> rec]

MCEvents ==
  {MCEvent(1, "ours", "milk", "l", "purchased", 3, 0, 0),
   MCEvent(2, "ours", "milk", " L", "purchased", 3, 0, 1),
   MCEvent(3, "ours", "milk", "l", "opened", 0, 1, 1),
   MCEvent(4, "ours", "milk", " L", "opened", 0, 0, 2),
   MCEvent(5, "ours", "milk", "l", "consumed", -2, 1, 2),
   MCEvent(6, "ours", "milk", "l", "discarded", -1, 2, 1),
   MCEvent(7, "ours", "eggs", "l", "corrected", -4, 2, 2),
   MCEvent(8, "ours", "eggs", "l", "moved", 4, 2, 2),
   MCEvent(9, "theirs", "eggs", "l", "purchased", 5, 0, 0)}
=============================================================================
