---------------------------- MODULE SingleFlight ----------------------------
(***************************************************************************)
(* What a cache promises that is filled from elsewhere by its own callers: *)
(* one caller at a time goes and asks; the cached value changes only when  *)
(* such a fill lands, and a fill that comes to nothing costs nobody the    *)
(* value that was there.  KeySource and ReceiptBlobStore are such caches.  *)
(***************************************************************************)
CONSTANTS
  Callers,      \* who may go and ask
  Nobody,       \* no fill is under way
  Empty         \* the cache before its first fill

VARIABLES
  filler,       \* the caller whose fill is under way
  value         \* what is cached

flight == <<filler, value>>

Init == filler = Nobody /\ value = Empty

Begin(c) ==
  /\ filler = Nobody
  /\ filler' = c
  /\ UNCHANGED value

(* The fill lands: whatever it brings, it is not nothing. *)
Land ==
  /\ filler # Nobody
  /\ filler' = Nobody
  /\ value' # Empty

GiveUp ==
  /\ filler # Nobody
  /\ filler' = Nobody
  /\ UNCHANGED value

Next == (\E c \in Callers : Begin(c)) \/ Land \/ GiveUp

Spec == Init /\ [][Next]_flight
=============================================================================
