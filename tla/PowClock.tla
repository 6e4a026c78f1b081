------------------------------ MODULE PowClock ------------------------------
(***************************************************************************)
(* The clock that the handlers of the proof-of-work service read with      *)
(* time.Now.  Each module that extends this one says what a tick of it is. *)
(***************************************************************************)
CONSTANT MaxTime  \* where the clock stops (bound)

VARIABLE now      \* the clock
=============================================================================
