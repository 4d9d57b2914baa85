------------------------------ MODULE MCBreaker ------------------------------
(* Small instances of the breaker, its callers and the trip observer. *)
EXTENDS BreakerTrips
=============================================================================
