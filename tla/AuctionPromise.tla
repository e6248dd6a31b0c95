--------------------------- MODULE AuctionPromise ---------------------------
(***************************************************************************)
(* What the core promises about the auction of a ride, without saying how: *)
(* while the auction is open a winner may be proposed, and withdrawn when  *)
(* the core fails before it is announced; the auction is settled at most   *)
(* once, with the proposed winner or without one; and the ride keeps its   *)
(* recipient until a later auction, opened by a compensation, names        *)
(* another.  RideCore implements it (Promise, in RideProperties), although *)
(* it has no transaction that spans a proposal, its announcement and the   *)
(* ride, and runs an auction once per message it happens to receive.       *)
(***************************************************************************)
CONSTANTS Groups, Origin, None

VARIABLES
  auction,     \* open, closed (with a winner) or no_proposals
  recipient,   \* the group the ride is assigned to, or None
  candidate,   \* the winner proposed but not yet announced, or None
  offers       \* groups that were proposed as winner in any auction

vars == <<auction, recipient, candidate, offers>>

Init ==
  /\ auction = "open"
  /\ recipient = None
  /\ candidate = None
  /\ offers = {}

Propose(w) ==
  /\ auction = "open" /\ candidate = None
  /\ candidate' = w
  /\ offers' = offers \cup {w}
  /\ UNCHANGED <<auction, recipient>>

Withdraw ==
  /\ candidate # None
  /\ candidate' = None
  /\ UNCHANGED <<auction, recipient, offers>>

Award ==
  /\ auction = "open" /\ candidate # None
  /\ auction' = "closed"
  /\ recipient' = candidate
  /\ candidate' = None
  /\ UNCHANGED offers

Fail ==
  /\ auction = "open" /\ candidate = None
  /\ auction' = "no_proposals"
  /\ UNCHANGED <<recipient, candidate, offers>>

Reopen ==
  /\ auction # "open"
  /\ auction' = "open"
  /\ UNCHANGED <<recipient, candidate, offers>>

Next ==
  \/ \E w \in Groups \ {Origin} : Propose(w)
  \/ Withdraw \/ Award \/ Fail \/ Reopen

Spec == Init /\ [][Next]_vars

(* Every auction that is opened comes to an end.                           *)
Settles == auction = "open" ~> auction # "open"

FairSpec == Spec /\ Settles
=============================================================================
