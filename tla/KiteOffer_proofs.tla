-------------------------- MODULE KiteOffer_proofs --------------------------
(***************************************************************************)
(* For any offers, claims and bounds: the claim protocol keeps Inductive,  *)
(* so that an offer yields at most one VM, and implements OfferLedger.     *)
(***************************************************************************)
EXTENDS KiteOffer, TLAPS

USE NoneAssumption, OfferBoundsAssumption

\* Deleting an offer changes its phase and nothing else.
LEMMA RemoveEffect ==
    ASSUME TypeOK, NEW o \in Offers, Remove(o)
    PROVE  /\ offer' \in [Offers -> OfferObjects]
           /\ \A p \in Offers : /\ offer'[p].by = offer[p].by /\ offer'[p].rv = offer[p].rv
                                /\ offer'[p].phase \in {offer[p].phase, "deleted"}
                                /\ p # o => offer'[p] = offer[p]
                                /\ p = o => offer'[p].phase \notin {"available", "claimed"}
BY DEF TypeOK, Remove, Exists, OfferObjects

\* Moving a handler on changes its pc and nothing else.
LEMMA GotoEffect ==
    ASSUME TypeOK, NEW c \in Claims, NEW label, Goto(c, label),
           label \in {"create", "guestLogin", "rollback", "delete", "done"}
    PROVE  /\ claim' \in [Claims -> Handlers]
           /\ \A d \in Claims : /\ claim'[d].of = claim[d].of
                                /\ claim'[d].rv = claim[d].rv
                                /\ claim'[d].pc = IF d = c THEN label ELSE claim[d].pc
BY DEF TypeOK, Goto, Handlers

\* Inductive only looks at who holds the offers, at their versions and at
\* which of them were never published.
LEMMA HoldersFrame ==
    ASSUME Inductive, TypeOK', vms' = vms, claim' = claim,
           \A p \in Offers : /\ offer'[p].by = offer[p].by /\ offer'[p].rv = offer[p].rv
                             /\ offer'[p].phase \in {offer[p].phase, "deleted"}
    PROVE  Inductive'
BY DEF Inductive, TypeOK, HolderOK, VMsHeld, HandlerOK, Holding, OfferObjects, Handlers

LEMMA InitInductive == Init => Inductive
BY DEF Init, Inductive, TypeOK, HolderOK, VMsHeld, HandlerOK, Holding, OfferObjects, Handlers, NotYet

\* A claim's call keeps Inductive.
LEMMA ClaimInductive ==
    ASSUME Inductive, NEW c \in Claims, ClaimStep(c) \/ ClaimFail(c)
    PROVE  Inductive'
<1>0. TypeOK
  BY DEF Inductive
<1>1. CASE \E o \in Offers : ClaimGet(c, o)
  <2>1. PICK o \in Offers : ClaimGet(c, o)
    BY <1>1
  <2>2. claim' \in [Claims -> Handlers] /\ \A d \in Claims : d # c => claim'[d] = claim[d]
    BY <1>0, <2>1 DEF ClaimGet, TypeOK, Handlers, OfferObjects
  <2>3. TypeOK'
    BY <1>0, <2>1, <2>2 DEF ClaimGet, TypeOK
  <2>4. HandlerOK(c)'
    BY <1>0, <2>1 DEF ClaimGet, Inductive, TypeOK, HandlerOK, HolderOK, Holding, Handlers, OfferObjects
  <2> QED
    BY <2>1, <2>2, <2>3, <2>4 DEF ClaimGet, Inductive, HandlerOK, HolderOK, VMsHeld
<1>2. CASE ClaimUpdate(c)
  <2> DEFINE o == claim[c].of
  <2>1. o \in Offers /\ offer[o].phase # "none" /\ claim[c].rv \in Nat
    BY <1>0, <1>2 DEF ClaimUpdate, Inductive, HandlerOK, TypeOK, Handlers
  <2>2. CASE Exists(o) /\ offer[o].rv = claim[c].rv
    <3>1. /\ offer' = [offer EXCEPT ![o].phase = "claimed", ![o].by = c, ![o].rv = @ + 1]
          /\ Goto(c, "create") /\ UNCHANGED <<clock, vms, sweep, faults>>
      BY <1>2, <2>2 DEF ClaimUpdate
    <3>2. offer[o].by = NoClaim
      BY <1>2, <2>2 DEF ClaimUpdate, Inductive, HandlerOK
    <3>3. /\ offer' \in [Offers -> OfferObjects]
          /\ offer'[o].by = c /\ offer'[o].rv = offer[o].rv + 1 /\ offer'[o].phase = "claimed"
          /\ offer[o].rv \in Nat
          /\ \A p \in Offers : p # o => offer'[p] = offer[p]
      BY <1>0, <2>1, <3>1 DEF TypeOK, OfferObjects
    <3>4. /\ claim' \in [Claims -> Handlers]
          /\ \A d \in Claims : /\ claim'[d].of = claim[d].of /\ claim'[d].rv = claim[d].rv
                               /\ claim'[d].pc = IF d = c THEN "create" ELSE claim[d].pc
      BY <1>0, <3>1, GotoEffect
    <3>5. TypeOK'
      BY <1>0, <3>1, <3>3, <3>4 DEF TypeOK
    <3>6. HolderOK' /\ VMsHeld'
      BY <3>1, <3>2, <3>3 DEF Inductive, HolderOK, VMsHeld
    <3>7. ASSUME NEW d \in Claims
          PROVE  HandlerOK(d)'
      <4>1. HandlerOK(d) /\ claim[d].rv \in Nat
        BY <1>0 DEF Inductive, TypeOK, Handlers
      <4>2. CASE d = c
        BY <2>1, <3>3, <3>4, <4>2 DEF HandlerOK, Holding
      <4>3. CASE d # c /\ claim[d].of # o
        BY <3>3, <3>4, <4>1, <4>3 DEF HandlerOK, Holding
      <4>4. CASE d # c /\ claim[d].of = o
        <5>1. claim[d].pc \notin Holding
          BY <3>2, <4>1, <4>4 DEF HandlerOK
        <5> QED
          BY <2>1, <3>3, <3>4, <4>1, <4>4, <5>1 DEF HandlerOK, Holding
      <4> QED
        BY <4>2, <4>3, <4>4
    <3> QED
      BY <3>5, <3>6, <3>7 DEF Inductive
  <2>3. CASE ~(Exists(o) /\ offer[o].rv = claim[c].rv)
    <3>1. Goto(c, "done") /\ UNCHANGED <<clock, offer, vms, sweep, faults>>
      BY <1>2, <2>3 DEF ClaimUpdate
    <3> QED
      BY <1>0, <3>1, GotoEffect DEF Inductive, TypeOK, HandlerOK, HolderOK, VMsHeld, Holding
  <2> QED
    BY <2>2, <2>3
<1>3. CASE VMRefused(c) \/ VMGuestLogin(c) \/ ClaimFail(c)
  <2>1. /\ \/ Goto(c, "done")
           \/ claim[c].pc \in Holding /\ (Goto(c, "delete") \/ Goto(c, "rollback"))
        /\ UNCHANGED <<clock, offer, vms, sweep>> /\ faults' \in Nat
    <3>1. CASE VMRefused(c)
      BY <1>0, <3>1 DEF VMRefused, TypeOK
    <3>2. CASE VMGuestLogin(c)
      BY <1>0, <3>2 DEF VMGuestLogin, Holding, TypeOK
    <3>3. CASE ClaimFail(c)
      BY <1>0, <3>3 DEF ClaimFail, TypeOK
    <3> QED
      BY <1>3, <3>1, <3>2, <3>3
  <2> QED
    BY <1>0, <2>1, GotoEffect DEF Inductive, TypeOK, HandlerOK, HolderOK, VMsHeld, Holding
<1>4. CASE VMCreate(c)
  <2>1. claim[c].of \in Offers /\ offer[claim[c].of].by = c
    BY <1>4 DEF VMCreate, Inductive, HandlerOK, Holding
  <2> QED
    BY <1>0, <1>4, <2>1, GotoEffect DEF VMCreate, Inductive, TypeOK, HandlerOK, HolderOK, VMsHeld, Holding
<1>5. CASE VMRollback(c)
  BY <1>0, <1>5, GotoEffect DEF VMRollback, Inductive, TypeOK, HandlerOK, HolderOK, VMsHeld, Holding
<1>6. CASE ClaimDelete(c)
  <2>1. claim[c].of \in Offers
    BY <1>6 DEF ClaimDelete, Inductive, HandlerOK, Holding
  <2> QED
    BY <1>0, <1>6, <2>1, GotoEffect, RemoveEffect
       DEF ClaimDelete, Inductive, TypeOK, HandlerOK, HolderOK, VMsHeld, Holding
<1> QED
  BY <1>1, <1>2, <1>3, <1>4, <1>5, <1>6 DEF ClaimStep

\* Every step keeps Inductive.
LEMMA NextInductive == Inductive /\ [Next]_vars => Inductive'
<1> SUFFICES ASSUME Inductive, [Next]_vars
             PROVE  Inductive'
  OBVIOUS
<1>0. TypeOK
  BY DEF Inductive
<1>1. ASSUME NEW o \in Offers, NEW expires \in 1..MaxClock, Create(o, expires)
      PROVE  Inductive'
  <2>1. /\ offer' \in [Offers -> OfferObjects]
        /\ offer'[o].phase = "available" /\ offer'[o].by = NoClaim /\ offer[o].by = NoClaim
        /\ offer[o].phase = "none"
        /\ \A p \in Offers : p # o => offer'[p] = offer[p]
    BY <1>0, <1>1 DEF Create, TypeOK, OfferObjects, Inductive, HolderOK
  <2>2. TypeOK'
    BY <1>0, <1>1, <2>1 DEF Create, TypeOK
  <2> QED
    BY <1>1, <2>1, <2>2 DEF Create, Inductive, HandlerOK, HolderOK, VMsHeld, Holding
<1>2. ASSUME NEW o \in Offers, Delete(o) \/ SweepDelete(o)
      PROVE  Inductive'
  <2>1. Remove(o) /\ UNCHANGED <<clock, claim, vms, faults>> /\ sweep' \subseteq Offers
    BY <1>0, <1>2 DEF Delete, SweepDelete, TypeOK
  <2> QED
    BY <1>0, <2>1, RemoveEffect, HoldersFrame DEF TypeOK
<1>3. CASE SweepList \/ SweepFail \/ Tick \/ UNCHANGED vars
  <2>1. TypeOK' /\ UNCHANGED <<offer, claim, vms>>
    BY <1>0, <1>3 DEF SweepList, SweepFail, Tick, ExpiredOffers, TypeOK, vars
  <2> QED
    BY <2>1, HoldersFrame
<1> QED
  BY <1>1, <1>2, <1>3, ClaimInductive DEF Next

\* Handlers, VMs and offers always agree on who holds which offer.
THEOREM OfferInductive == Spec => []Inductive
BY InitInductive, NextInductive, PTL DEF Spec

\* Claim (UpdateStatus on the version that was read): however requests,
\* cleanup and admin interleave, an offer yields at most one VM.
THEOREM OneVMPerOffer == Spec => []AtMostOneVMPerOffer
<1>1. Inductive => AtMostOneVMPerOffer
  BY DEF Inductive, VMsHeld, AtMostOneVMPerOffer
<1> QED
  BY <1>1, OfferInductive, PTL

\* The claim protocol implements the ledger.
THEOREM ImplementsLedger == Spec => LedgerSpec
<1>1. Init => Ledger!Init
  BY DEF Init, Ledger!Init, NotYet
<1>2. Inductive /\ [Next]_vars => [Ledger!Next]_(Ledger!vars)
  <2> SUFFICES ASSUME Inductive, [Next]_vars
               PROVE  [Ledger!Next]_(Ledger!vars)
    OBVIOUS
  <2> DEFINE open == {o \in Offers : offer[o].phase = "available"}
             holder == [o \in Offers |-> offer[o].by]
  <2>0. TypeOK
    BY DEF Inductive
  <2>1. ASSUME NEW o \in Offers, NEW expires \in 1..MaxClock, Create(o, expires)
        PROVE  Ledger!Publish(o)
    <3>1. offer[o].by = NoClaim
      BY <2>1 DEF Create, Inductive, HolderOK
    <3>2. open' = open \union {o}
      BY <2>0, <2>1 DEF Create, TypeOK
    <3>3. holder' = holder
      BY <2>0, <2>1, <3>1 DEF Create, TypeOK
    <3> QED
      BY <2>1, <3>1, <3>2, <3>3 DEF Create, Ledger!Publish
  <2>2. ASSUME NEW o \in Offers, Remove(o), UNCHANGED vms
        PROVE  Ledger!Withdraw(o)
    <3>1. open' = open \ {o} /\ holder' = holder
      BY <2>0, <2>2, RemoveEffect
    <3> QED
      BY <2>2, <3>1 DEF Ledger!Withdraw
  <2>3. ASSUME NEW c \in Claims, ClaimUpdate(c)
        PROVE  UNCHANGED <<offer, vms>> \/ \E o \in Offers : Ledger!Spend(o, c)
    <3> DEFINE o == claim[c].of
    <3>1. o \in Offers /\ UNCHANGED vms
      BY <2>3 DEF ClaimUpdate, Inductive, HandlerOK
    <3>2. CASE Exists(o) /\ offer[o].rv = claim[c].rv
      <4>1. offer' = [offer EXCEPT ![o].phase = "claimed", ![o].by = c, ![o].rv = @ + 1]
        BY <2>3, <3>2 DEF ClaimUpdate
      <4>2. offer[o].by = NoClaim
        BY <2>3, <3>2 DEF ClaimUpdate, Inductive, HandlerOK
      <4>3. offer[o].phase = "available"
        BY <2>0, <3>1, <3>2, <4>2 DEF Exists, Inductive, HolderOK
      <4>4. /\ offer'[o].by = c /\ offer'[o].phase = "claimed"
            /\ \A p \in Offers : p # o => offer'[p] = offer[p]
        BY <2>0, <3>1, <4>1 DEF TypeOK, OfferObjects
      <4>5. open' = open \ {o} /\ holder' = [holder EXCEPT ![o] = c]
        BY <3>1, <4>4
      <4> QED
        BY <3>1, <4>2, <4>3, <4>5 DEF Ledger!Spend
    <3>3. CASE ~(Exists(o) /\ offer[o].rv = claim[c].rv)
      BY <2>3, <3>3 DEF ClaimUpdate
    <3> QED
      BY <3>2, <3>3
  <2>4. ASSUME NEW c \in Claims, VMCreate(c)
        PROVE  \E o \in Offers : Ledger!Build(o)
    <3>1. claim[c].of \in Offers /\ offer[claim[c].of].by = c
      BY <2>4 DEF VMCreate, Inductive, HandlerOK, Holding
    <3> QED
      BY <2>4, <3>1 DEF VMCreate, Ledger!Build
  <2>5. ASSUME NEW c \in Claims, VMRollback(c)
        PROVE  \E o \in Offers : Ledger!Undo(o)
    <3>1. claim[c].of \in Offers /\ offer[claim[c].of].by = c
      BY <2>5 DEF VMRollback, Inductive, HandlerOK, Holding
    <3> QED
      BY <2>5, <3>1 DEF VMRollback, Ledger!Undo
  <2>6. ASSUME NEW c \in Claims, ClaimDelete(c)
        PROVE  \E o \in Offers : Ledger!Withdraw(o)
    <3>1. PICK o \in Offers : o = claim[c].of
      BY <2>6 DEF ClaimDelete, Inductive, HandlerOK, Holding
    <3>2. Remove(o) /\ UNCHANGED vms
      BY <2>6, <3>1 DEF ClaimDelete
    <3> QED
      BY <2>2, <3>2
  <2>7. ASSUME NEW c \in Claims, ClaimStep(c) \/ ClaimFail(c)
        PROVE  UNCHANGED <<offer, vms>> \/ Ledger!Next
    <3>1. CASE (\E o \in Offers : ClaimGet(c, o)) \/ VMRefused(c) \/ VMGuestLogin(c) \/ ClaimFail(c)
      BY <3>1 DEF ClaimGet, VMRefused, VMGuestLogin, ClaimFail
    <3>2. CASE ClaimUpdate(c)
      BY <2>3, <3>2 DEF Ledger!Next
    <3>3. CASE VMCreate(c)
      BY <2>4, <3>3 DEF Ledger!Next
    <3>4. CASE VMRollback(c)
      BY <2>5, <3>4 DEF Ledger!Next
    <3>5. CASE ClaimDelete(c)
      BY <2>6, <3>5 DEF Ledger!Next
    <3> QED
      BY <2>7, <3>1, <3>2, <3>3, <3>4, <3>5 DEF ClaimStep
  <2>8. UNCHANGED <<offer, vms>> => UNCHANGED Ledger!vars
    BY DEF Ledger!vars
  <2>9. CASE SweepList \/ SweepFail \/ Tick \/ UNCHANGED vars
    BY <2>8, <2>9 DEF SweepList, SweepFail, Tick, vars
  <2>10. ASSUME NEW o \in Offers, Delete(o) \/ SweepDelete(o)
         PROVE  Ledger!Withdraw(o)
    BY <2>2, <2>10 DEF Delete, SweepDelete
  <2> QED
    BY <2>1, <2>7, <2>8, <2>9, <2>10 DEF Next, Ledger!Next
<1> QED
  BY <1>1, <1>2, OfferInductive, PTL DEF Spec, LedgerSpec, Ledger!Spec
=============================================================================
