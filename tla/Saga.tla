-------------------------------- MODULE Saga --------------------------------
(***************************************************************************)
(* The constants of the ride saga: its states, the transitions a group may *)
(* ask for, the states that need the lock, and how the ORM writes a row    *)
(* back.  Everything here is shared by the modules that have steps.        *)
(***************************************************************************)

Status == {"request", "match", "confirm", "in_transit", "complete",
           "compensating", "cancelled"}

AuctionStatus == {"open", "closed", "no_proposals"}

ESTADOS_TERMINAIS == {"complete", "cancelled"}

REQUER_LOCK == {"confirm", "in_transit", "complete"}

(* What PATCH /rides/{rideUuid}/status may do from each state.             *)
TRANSICOES_VALIDAS ==
  [s \in Status |->
     CASE s = "request"    -> {"cancelled"}
       [] s = "match"      -> {"confirm", "compensating", "cancelled"}
       [] s = "confirm"    -> {"in_transit", "compensating", "cancelled"}
       [] s = "in_transit" -> {"complete", "compensating", "cancelled"}
       [] OTHER            -> {}]

(***************************************************************************)
(* A session loads a row, the handler assigns to the object, and the       *)
(* commit emits an UPDATE of the columns whose value differs from the one  *)
(* loaded: a column the handler did not change keeps what other sessions   *)
(* have written to it since.                                               *)
(***************************************************************************)
FlushWholeRow(row, loaded, new) == new

Flush(row, loaded, new) ==
  [c \in DOMAIN row |-> IF new[c] # loaded[c] THEN new[c] ELSE row[c]]
=============================================================================
