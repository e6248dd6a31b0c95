------------------------ MODULE AuctionRoundProofs ------------------------
(***************************************************************************)
(* The winner of a round is the best offer, for any set of groups, offers  *)
(* and orders of query and answer.  The core chooses by scanning a list,   *)
(* so the argument is a loop invariant of the scan; the induction over its *)
(* length is by least counterexample (LeastNumber), from the library's     *)
(* theorem that < is well-founded on the naturals.                         *)
(***************************************************************************)
EXTENDS AuctionRound, FiniteSetTheorems, WellFoundedInduction, TLAPS

LEMMA LeastNumber ==
  ASSUME NEW T \in SUBSET Nat, T # {}
  PROVE  \E m \in T : \A n \in T : m <= n
<1> DEFINE R == OpToRel(<, Nat)
<1>1. IsWellFoundedOn(R, Nat)
  BY NatLessThanWellFounded
<1>2. \A m, n \in Nat : n < m => <<n, m>> \in R
  BY DEF OpToRel
<1> HIDE DEF R
<1>3. PICK m \in T : \A n \in T : ~(<<n, m>> \in R)
  BY <1>1, WFMin
<1>4. ASSUME NEW n \in T PROVE m <= n
  <2>1. ~(n < m)
    BY <1>2, <1>3
  <2> QED
    BY <2>1
<1> QED
  BY <1>4
-----------------------------------------------------------------------------
(* The scan.                                                               *)

Step(i, best) == IF Improves(invited[i], best) THEN invited[i] ELSE best

(* f is what the scan keeps of the first m results.                        *)
ScansTo(f, m) == f = [i \in 0..m |-> IF i = 0 THEN None ELSE Step(i, f[i - 1])]

LEMMA ScanExists ==
  ASSUME NEW m \in Nat
  PROVE  \E f : ScansTo(f, m)
<1> DEFINE Without == {n \in Nat : ~ \E f : ScansTo(f, n)}
<1>1. 0 \notin Without
  <2> DEFINE f == [i \in 0..0 |-> None]
  <2>1. f = [i \in 0..0 |-> IF i = 0 THEN None ELSE Step(i, f[i - 1])]
    OBVIOUS
  <2> QED
    BY <2>1 DEF ScansTo
<1>2. ASSUME NEW n \in Nat, n \notin Without
      PROVE  n + 1 \notin Without
  <2>1. PICK f : ScansTo(f, n)
    BY <1>2
  <2> DEFINE g == [i \in 0..(n + 1) |-> IF i = n + 1 THEN Step(i, f[n]) ELSE f[i]]
  <2>2. ASSUME NEW i \in 0..(n + 1)
        PROVE  g[i] = IF i = 0 THEN None ELSE Step(i, g[i - 1])
    <3>1. CASE i = n + 1
      BY <3>1
    <3>2. CASE i # n + 1
      <4>1. i \in 0..n /\ (i # 0 => i - 1 \in 0..n)
        BY <3>2
      <4>2. f[i] = IF i = 0 THEN None ELSE Step(i, f[i - 1])
        BY <2>1, <4>1 DEF ScansTo
      <4>3. g[i] = f[i] /\ (i # 0 => g[i - 1] = f[i - 1])
        BY <4>1
      <4> QED
        BY <4>2, <4>3
    <3> QED
      BY <3>1, <3>2
  <2>3. ScansTo(g, n + 1)
    <3>1. g = [i \in 0..(n + 1) |-> g[i]]
      OBVIOUS
    <3> HIDE DEF g
    <3> QED
      BY <2>2, <3>1 DEF ScansTo
  <2> QED
    BY <2>3
<1> HIDE DEF Without
<1>3. Without = {}
  <2> SUFFICES ASSUME Without # {} PROVE FALSE
    OBVIOUS
  <2>1. Without \in SUBSET Nat
    BY DEF Without
  <2>2. PICK n \in Without : \A k \in Without : n <= k
    BY <2>1, LeastNumber
  <2>3. n \in Nat /\ n # 0
    BY <1>1, <2>1
  <2>4. n - 1 \in Nat /\ n - 1 \notin Without
    BY <2>2, <2>3
  <2>5. (n - 1) + 1 \notin Without
    BY <1>2, <2>4
  <2> QED
    BY <2>3, <2>5
<1> QED
  BY <1>3 DEF Without

LEMMA BestScans ==
  ASSUME invited \in Seq(Groups)
  PROVE  \A i \in 0..Len(invited) :
           Best[i] = IF i = 0 THEN None ELSE Step(i, Best[i - 1])
<1>1. Len(invited) \in Nat
  OBVIOUS
<1>2. \E f : ScansTo(f, Len(invited))
  BY <1>1, ScanExists
<1>3. Best = CHOOSE f : ScansTo(f, Len(invited))
  BY DEF Best, ScansTo, Step
<1>4. ScansTo(Best, Len(invited))
  BY <1>2, <1>3
<1> QED
  BY <1>4 DEF ScansTo
-----------------------------------------------------------------------------
(* The key of min(): (price, ETA, group id) orders the offers strictly and *)
(* totally, so that no two of them can tie.                                *)

HasKey(g) == g \in Groups /\ answer[g].price \in Int /\ answer[g].eta \in Int

LEMMA PrecedesIrreflexive ==
  ASSUME NEW g, HasKey(g)
  PROVE  ~Precedes(g, g)
BY AuctionGroupsAssumption DEF HasKey, Precedes

LEMMA PrecedesTransitive ==
  ASSUME NEW g, NEW h, NEW k, HasKey(g), HasKey(h), HasKey(k),
         Precedes(g, h), Precedes(h, k)
  PROVE  Precedes(g, k)
BY AuctionGroupsAssumption DEF HasKey, Precedes

LEMMA PrecedesTotal ==
  ASSUME NEW g, NEW h, HasKey(g), HasKey(h), g # h
  PROVE  Precedes(g, h) \/ Precedes(h, g)
BY AuctionGroupsAssumption DEF HasKey, Precedes

(* What the contract asks of an offer is what _validar_proposta tests, of   *)
(* every group that is no longer pending.                                  *)
Answered == \A g \in Invited : answer[g] # None

LEMMA InvitedGroups ==
  ASSUME TypeOK
  PROVE  Invited \subseteq Groups /\ \A i \in 1..Len(invited) : invited[i] \in Invited
BY DEF TypeOK, Invited, ToSet

LEMMA AcceptedIsOffer ==
  ASSUME TypeOK, Answered, NEW g \in Invited
  PROVE  /\ ProposalStatus(g) = "accepted" <=> g \in Offers
         /\ g \in Offers => HasKey(g)
<1>1. g \in Groups
  BY InvitedGroups
<1>2. answer[g] \in Answers \cup {TimedOut}
  BY <1>1 DEF TypeOK, Answered
<1>3. CASE answer[g] \in Offer
  <2>1. /\ answer[g].status = "200"
        /\ answer[g].eta \in Etas \cup {None} /\ answer[g].price \in Prices \cup {None}
    BY <1>3 DEF Offer
  <2>2. /\ answer[g].eta # None => answer[g].eta \in Int
        /\ answer[g].price # None => answer[g].price \in Int
        /\ answer[g].eta = None => answer[g].eta \notin Nat
        /\ answer[g].price = None => answer[g].price \notin Nat
    BY <2>1, OffersAssumption, AuctionGroupsAssumption
  <2>3. ProposalStatus(g) = "accepted" <=> _validar_proposta(answer[g])
    BY <2>1 DEF ProposalStatus
  <2>4. _validar_proposta(answer[g]) <=>
          answer[g].eta \in Nat \ {0} /\ answer[g].price \in Nat
    BY <2>2 DEF _validar_proposta
  <2> QED
    BY <1>1, <2>1, <2>3, <2>4 DEF Offers, HasKey
<1>4. CASE answer[g] \notin Offer
  <2>1. answer[g].status \in {"204", "error", "timeout"}
    BY <1>2, <1>4 DEF Answers, TimedOut
  <2> QED
    BY <2>1 DEF ProposalStatus, Offers
<1> QED
  BY <1>3, <1>4
-----------------------------------------------------------------------------
(* The loop invariant: what is kept is the first of those seen so far.     *)

FirstOf(best, i) ==
  IF best = None THEN \A j \in 1..i : invited[j] \notin Offers
  ELSE /\ best \in Offers
       /\ \A j \in 1..i : invited[j] \in Offers => ~Precedes(invited[j], best)

LEMMA StepKeepsFirst ==
  ASSUME TypeOK, Answered, NEW i \in 1..Len(invited), NEW best, FirstOf(best, i - 1)
  PROVE  FirstOf(Step(i, best), i)
<1> DEFINE g == invited[i]
<1>1. g \in Invited
  BY InvitedGroups
<1>2. g # None
  BY <1>1, InvitedGroups, AuctionGroupsAssumption
<1>3. \A j \in 1..i : j = i \/ j \in 1..(i - 1)
  OBVIOUS
<1>4. \A h \in Offers : h \in Invited /\ HasKey(h)
  BY AcceptedIsOffer DEF Offers
<1>5. CASE g \notin Offers
  <2>1. Step(i, best) = best
    BY <1>1, <1>5, AcceptedIsOffer DEF Step, Improves
  <2> QED
    BY <1>3, <1>5, <2>1 DEF FirstOf
<1>6. CASE g \in Offers /\ (best = None \/ Precedes(g, best))
  <2>1. Step(i, best) = g
    BY <1>1, <1>6, AcceptedIsOffer DEF Step, Improves
  <2>2. ASSUME NEW j \in 1..i, invited[j] \in Offers PROVE ~Precedes(invited[j], g)
    <3>1. CASE j = i
      BY <1>4, <1>6, <3>1, PrecedesIrreflexive
    <3>2. CASE j # i /\ best = None
      BY <1>3, <2>2, <3>2 DEF FirstOf
    <3>3. CASE j # i /\ best # None
      <4>1. best \in Offers /\ ~Precedes(invited[j], best)
        BY <1>3, <2>2, <3>3 DEF FirstOf
      <4> QED
        BY <1>4, <1>6, <2>2, <3>3, <4>1, PrecedesTransitive
    <3> QED
      BY <3>1, <3>2, <3>3
  <2> QED
    BY <1>2, <1>6, <2>1, <2>2 DEF FirstOf
<1>7. CASE g \in Offers /\ best # None /\ ~Precedes(g, best)
  <2>1. Step(i, best) = best
    BY <1>1, <1>7, AcceptedIsOffer DEF Step, Improves
  <2> QED
    BY <1>3, <1>7, <2>1 DEF FirstOf
<1> QED
  BY <1>5, <1>6, <1>7

LEMMA BestIsFirst ==
  ASSUME TypeOK, Answered
  PROVE  \A i \in 0..Len(invited) : FirstOf(Best[i], i)
<1> DEFINE Wrong == {i \in 0..Len(invited) : ~FirstOf(Best[i], i)}
<1> SUFFICES ASSUME Wrong # {} PROVE FALSE
  OBVIOUS
<1>1. Len(invited) \in Nat
  BY DEF TypeOK
<1>2. Wrong \in SUBSET Nat
  BY <1>1
<1>3. PICK i \in Wrong : \A k \in Wrong : i <= k
  BY <1>2, LeastNumber
<1>4. \A k \in 0..Len(invited) : Best[k] = IF k = 0 THEN None ELSE Step(k, Best[k - 1])
  BY BestScans DEF TypeOK
<1>5. CASE i = 0
  <2>1. Best[0] = None
    BY <1>1, <1>4
  <2> QED
    BY <1>3, <1>5, <2>1 DEF FirstOf
<1>6. CASE i # 0
  <2>1. i \in 1..Len(invited) /\ i - 1 \in 0..Len(invited) /\ ~(i <= i - 1)
    BY <1>1, <1>3, <1>6
  <2>2. FirstOf(Best[i - 1], i - 1)
    BY <1>3, <2>1
  <2>3. FirstOf(Step(i, Best[i - 1]), i)
    BY <2>1, <2>2, StepKeepsFirst
  <2> QED
    BY <1>3, <1>4, <1>6, <2>3
<1> QED
  BY <1>5, <1>6
LEMMA GatherFirst ==
  ASSUME TypeOK, Gather
  PROVE  Answered /\ FirstOf(selecionar_vencedor, Len(invited))
<1>1. Answered
  BY InvitedGroups DEF Gather, Pending, Answered
<1>2. Len(invited) \in Nat
  BY DEF TypeOK
<1> QED
  BY <1>1, <1>2, BestIsFirst DEF selecionar_vencedor
-----------------------------------------------------------------------------
(* Type correctness of the round; only the invited groups answer.          *)

LEMMA InitTypes == Init => TypeOK
<1> SUFFICES ASSUME Init PROVE TypeOK
  OBVIOUS
<1>1. PICK left_out \in SUBSET (Groups \ {Origin}) :
        invited \in SetToSeqs(Groups \ ({Origin} \cup left_out))
  BY DEF Init
<1> DEFINE S == Groups \ ({Origin} \cup left_out)
<1>2. Cardinality(S) \in Nat
  BY AuctionGroupsAssumption, FS_Subset, FS_CardinalityType
<1>3. invited \in [1..Cardinality(S) -> S]
  BY <1>1 DEF SetToSeqs
<1>4. \A n \in Nat : [1..n -> S] \subseteq Seq(Groups)
  OBVIOUS
<1>5. invited \in Seq(Groups)
  BY <1>2, <1>3, <1>4
<1> QED
  BY <1>5 DEF Init, TypeOK

LEMMA NextTypes == TypeOK /\ [Next]_vars => TypeOK'
<1> SUFFICES ASSUME TypeOK, [Next]_vars PROVE TypeOK'
  OBVIOUS
<1>1. ASSUME NEW g \in Groups, Respond(g) PROVE TypeOK'
  BY <1>1 DEF TypeOK, Respond, Pending, Invited
<1>2. ASSUME NEW g \in Groups, Timeout(g) PROVE TypeOK'
  BY <1>2 DEF TypeOK, Timeout, Pending, Invited
<1>3. ASSUME NEW g \in Groups, Trickle(g) \/ Pause(g) PROVE TypeOK'
  BY <1>3 DEF TypeOK, Trickle, Pause, Pending, Invited
<1>4. CASE Deadline
  BY <1>4 DEF TypeOK, Deadline, Invited
<1>5. CASE Gather
  <2>1. selecionar_vencedor \in Groups \cup {None}
    BY <1>5, GatherFirst, InvitedGroups DEF FirstOf, Offers
  <2> QED
    BY <1>5, <2>1 DEF TypeOK, Gather, Invited
<1>6. CASE UNCHANGED vars
  BY <1>6 DEF TypeOK, vars, Invited
<1> QED
  BY <1>1, <1>2, <1>3, <1>4, <1>5, <1>6 DEF Next

(* The state of a round is what TypeOK says, and only the groups that were *)
(* invited have answered.                                                  *)
THEOREM RoundTypes == Spec => []TypeOK
BY InitTypes, NextTypes, PTL DEF Spec
-----------------------------------------------------------------------------
(* The choice.                                                             *)

(* What no offer precedes is the cheapest, the fastest of the cheapest and *)
(* the first of these.                                                     *)
LEMMA UnprecededIsBest ==
  ASSUME NEW best \in Offers, \A g \in Offers : HasKey(g) /\ ~Precedes(g, best)
  PROVE  /\ best \in Fastest(Cheapest(Offers))
         /\ \A g \in Fastest(Cheapest(Offers)) : best <= g
<1>1. best \in Cheapest(Offers)
  BY DEF Cheapest, HasKey, Precedes
<1>2. \A g \in Cheapest(Offers) : g \in Offers /\ answer[g].price = answer[best].price
  BY <1>1 DEF Cheapest, HasKey
<1>3. best \in Fastest(Cheapest(Offers))
  BY <1>1, <1>2 DEF Fastest, HasKey, Precedes
<1>4. ASSUME NEW g \in Fastest(Cheapest(Offers)) PROVE best <= g
  <2>1. /\ g \in Offers /\ answer[g].price = answer[best].price
        /\ answer[g].eta <= answer[best].eta /\ answer[best].eta <= answer[g].eta
    BY <1>1, <1>2, <1>3 DEF Fastest
  <2>2. HasKey(g) /\ HasKey(best) /\ ~(g < best)
    BY <2>1 DEF HasKey, Precedes
  <2> QED
    BY <2>2, AuctionGroupsAssumption DEF HasKey
<1> QED
  BY <1>3, <1>4

LEMMA GatherIsBest ==
  ASSUME TypeOK, Gather
  PROVE  WinnerIsBest'
<1> DEFINE n == Len(invited)
           best == selecionar_vencedor
<1>1. Answered /\ n \in Nat
  BY GatherFirst DEF TypeOK
<1>2. FirstOf(best, n)
  BY GatherFirst
<1>3. \A g \in Offers : HasKey(g) /\ \E j \in 1..n : invited[j] = g
  BY <1>1, AcceptedIsOffer DEF Offers, Invited, ToSet, TypeOK
<1>4. winner' = best /\ UNCHANGED <<invited, answer>>
  BY DEF Gather
<1> HIDE DEF best, n
<1>5. CASE best = None
  <2>1. Offers = {}
    BY <1>2, <1>3, <1>5 DEF FirstOf
  <2> QED
    BY <1>4, <1>5, <2>1 DEF WinnerIsBest, Offers, Invited
<1>6. CASE best # None
  <2>1. best \in Offers /\ \A g \in Offers : HasKey(g) /\ ~Precedes(g, best)
    BY <1>2, <1>3, <1>6 DEF FirstOf
  <2>2. /\ best \in Fastest(Cheapest(Offers))
        /\ \A g \in Fastest(Cheapest(Offers)) : best <= g
    BY <2>1, UnprecededIsBest
  <2>3. Offers' = Offers /\ Fastest(Cheapest(Offers))' = Fastest(Cheapest(Offers))
    BY <1>4 DEF Offers, Invited, Fastest, Cheapest
  <2> QED
    BY <1>4, <2>1, <2>2, <2>3 DEF WinnerIsBest
<1> QED
  BY <1>5, <1>6

(* Whatever the groups answer, and whenever, the winner of a finished      *)
(* round is the cheapest offer, then the fastest, then the first by group  *)
(* id; without an offer there is none.                                     *)
THEOREM Winner == Spec => []WinnerIsBest
<1>1. Init => WinnerIsBest
  BY DEF Init, WinnerIsBest
<1>2. TypeOK /\ WinnerIsBest /\ [Next]_vars => WinnerIsBest'
  <2> SUFFICES ASSUME TypeOK, WinnerIsBest, [Next]_vars PROVE WinnerIsBest'
    OBVIOUS
  <2>1. ASSUME NEW g \in Groups, Respond(g) \/ Trickle(g) \/ Pause(g) \/ Timeout(g)
        PROVE  WinnerIsBest'
    BY <2>1 DEF Respond, Trickle, Pause, Timeout, Pending, WinnerIsBest
  <2>2. CASE Deadline
    BY <2>2 DEF Deadline, WinnerIsBest
  <2>3. CASE Gather
    BY <2>3, GatherIsBest
  <2>4. CASE UNCHANGED vars
    BY <2>4 DEF vars, WinnerIsBest, Offers, Invited, Fastest, Cheapest
  <2> QED
    BY <2>1, <2>2, <2>3, <2>4 DEF Next
<1> QED
  BY <1>1, <1>2, RoundTypes, PTL DEF Spec
=============================================================================
