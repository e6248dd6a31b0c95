---------------------------- MODULE AuctionRound ----------------------------
(***************************************************************************)
(* One round of an auction: the groups the worker invites, their answers   *)
(* in any order, and the choice of the winner.  RideCore has the round as  *)
(* one step (WorkerSelect) with any eligible winner; here is how the       *)
(* winner comes about.                                                     *)
(*                                                                         *)
(* Groups are numbers: the alphabetical order of group_id, and nothing     *)
(* else, is asked of them.                                                 *)
(***************************************************************************)
EXTENDS Integers, Sequences, SequencesExt

CONSTANTS
  Groups,     \* the registered groups, as numbers
  Origin,     \* the group that created the ride
  None,       \* Python None
  Etas,       \* values of estimatedEta a group may send
  Prices      \* values of estimatedPrice a group may send

ASSUME AuctionGroupsAssumption ==
  Groups \subseteq Nat /\ IsFiniteSet(Groups) /\ Origin \in Groups /\ None \notin Nat
ASSUME OffersAssumption == Etas \subseteq Int /\ Prices \subseteq Int

VARIABLES
  invited,      \* grupos_participantes, in the order of the query
  phase,        \* "open", "late" (past the deadline), "done"
  answer,       \* what came back from each group; None while pending
  sending,      \* the groups whose answer keeps arriving, piece by piece
  winner        \* vencedor

vars == <<invited, phase, answer, sending, winner>>

(* A 200 with an offer, a 204, anything else, and the client's own timeout. *)
Offer == [status: {"200"}, eta: Etas \cup {None}, price: Prices \cup {None}]
Answers == Offer \cup {[status |-> "204"], [status |-> "error"]}
TimedOut == [status |-> "timeout"]

_validar_proposta(offer) ==
  /\ offer.eta # None /\ offer.eta >= 1
  /\ offer.price # None /\ offer.price >= 0

(* status of the RideProposal made from the answer of g.                   *)
ProposalStatus(g) ==
  CASE answer[g].status = "200" -> IF _validar_proposta(answer[g]) THEN "accepted" ELSE "error"
    [] answer[g].status = "204" -> "passed"
    [] OTHER -> answer[g].status

EtaFirst(g, h) ==
  LET a == answer[g]
      b == answer[h]
  IN  \/ a.eta < b.eta
      \/ a.eta = b.eta /\ a.price < b.price
      \/ a.eta = b.eta /\ a.price = b.price /\ g < h

(* The order of the key (estimated_price, estimated_eta, group_id).        *)
Precedes(g, h) ==
  LET a == answer[g]
      b == answer[h]
  IN  \/ a.price < b.price
      \/ a.price = b.price /\ a.eta < b.eta
      \/ a.price = b.price /\ a.eta = b.eta /\ g < h

(* The loop over the results of gather collects the accepted proposals in  *)
(* the order of the calls, and min() keeps the first one that none of the  *)
(* later ones precedes: Best[i] is what it has kept of the first i.        *)
Improves(g, best) ==
  ProposalStatus(g) = "accepted" /\ (best = None \/ Precedes(g, best))

Best[i \in 0..Len(invited)] ==
  IF i = 0 THEN None
  ELSE IF Improves(invited[i], Best[i - 1]) THEN invited[i] ELSE Best[i - 1]

selecionar_vencedor == Best[Len(invited)]
-----------------------------------------------------------------------------
Invited == ToSet(invited)

(* The origin, the excluded groups and those whose breaker is open are     *)
(* left out; the query has no ORDER BY.                                    *)
Init ==
  /\ \E left_out \in SUBSET (Groups \ {Origin}) :
       invited \in SetToSeqs(Groups \ ({Origin} \cup left_out))
  /\ phase = "open"
  /\ answer = [g \in Groups |-> None]
  /\ sending = {}
  /\ winner = None

PendingOfAnyGroup(g) == phase # "done" /\ answer[g] = None

(* The calls that gather waits for.                                        *)
Pending(g) == phase # "done" /\ g \in Invited /\ answer[g] = None

Respond(g) ==
  /\ Pending(g)
  /\ \E a \in Answers : answer' = [answer EXCEPT ![g] = a]
  /\ sending' = sending \ {g}
  /\ UNCHANGED <<invited, phase, winner>>

(* The timeout of the client is for each connect, write and read: a group  *)
(* that sends its answer in pieces, each in time, is not timed out ...     *)
Trickle(g) ==
  /\ Pending(g) /\ g \notin sending
  /\ sending' = sending \cup {g}
  /\ UNCHANGED <<invited, phase, answer, winner>>

(* ... until it stops.                                                     *)
Pause(g) ==
  /\ Pending(g) /\ g \in sending
  /\ sending' = sending \ {g}
  /\ UNCHANGED <<invited, phase, answer, winner>>

(* auctionDeadline, sent to the groups, passes ...                         *)
Deadline ==
  /\ phase = "open"
  /\ phase' = "late"
  /\ UNCHANGED <<invited, answer, sending, winner>>

NoTimeout(g) == FALSE /\ UNCHANGED vars

(* ... and the client gives up on a group that has been silent for two     *)
(* seconds more than the auction was to last.                              *)
Timeout(g) ==
  /\ phase = "late" /\ Pending(g) /\ g \notin sending
  /\ answer' = [answer EXCEPT ![g] = TimedOut]
  /\ UNCHANGED <<invited, phase, sending, winner>>

(* gather returns when every call has; its results are in the order of the *)
(* calls, whatever the order of the answers.                               *)
Gather ==
  /\ phase # "done"
  /\ \A g \in Invited : ~Pending(g)
  /\ winner' = selecionar_vencedor
  /\ phase' = "done"
  /\ UNCHANGED <<invited, answer, sending>>

Next == \/ \E g \in Groups : Respond(g) \/ Trickle(g) \/ Pause(g) \/ Timeout(g)
        \/ Deadline \/ Gather

Spec == Init /\ [][Next]_vars

(* Time passes, the HTTP client times out on a group that is silent,       *)
(* gather is resumed.  A group need neither answer nor stop sending.       *)
FairSpec ==
  /\ Spec
  /\ WF_vars(Deadline) /\ WF_vars(Gather)
  /\ \A g \in Groups : WF_vars(Timeout(g))
-----------------------------------------------------------------------------
(* Type correctness of the round; only the invited groups answer.          *)
TypeOK ==
  /\ invited \in Seq(Groups)
  /\ phase \in {"open", "late", "done"}
  /\ answer \in [Groups -> Answers \cup {TimedOut, None}]
  /\ {g \in Groups : answer[g] # None} \subseteq Invited
  /\ sending \subseteq {g \in Invited : answer[g] = None}
  /\ winner \in Groups \cup {None}

(* openapi.yaml, receiveAuctionNotification and IncomingProposal: among    *)
(* the answers with an ETA of at least 1 and a price that is not negative, *)
(* the lowest price wins, then the lowest ETA, then the first group id --  *)
(* in whatever order the groups are queried and answer.                    *)
Offers == {g \in Invited : /\ answer[g].status = "200"
                           /\ answer[g].eta \in Nat \ {0}
                           /\ answer[g].price \in Nat}

Cheapest(S) == {g \in S : \A h \in S : answer[g].price <= answer[h].price}
Fastest(S) == {g \in S : \A h \in S : answer[g].eta <= answer[h].eta}

WinnerIsBest ==
  phase = "done" =>
    IF Offers = {} THEN winner = None
    ELSE /\ winner \in Fastest(Cheapest(Offers))
         /\ \A g \in Fastest(Cheapest(Offers)) : winner <= g

(* The round ends although gather waits for every group and any of them    *)
(* may be silent, stop halfway, or answer late.  Only a group that goes on *)
(* sending pieces of its answer for ever keeps it, and with it the worker  *)
(* and every other auction, waiting: nothing bounds the call as a whole.   *)
RoundEnds == \/ <>(phase = "done")
             \/ \E g \in Groups : []<>(g \in sending)
=============================================================================
