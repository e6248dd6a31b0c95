------------------------------- MODULE MCRide -------------------------------
(* Model-checking instance of RideProperties.                              *)
EXTENDS RideProperties, TLC

(* Handlers are alike, and so are the groups that did not create the ride: *)
(* a winner is any eligible group.  Only for runs without liveness.        *)
Symmetry == Permutations(Handlers) \cup Permutations(Groups \ {Origin})
=============================================================================
