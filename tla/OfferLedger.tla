---------------------------- MODULE OfferLedger ----------------------------
(***************************************************************************)
(* What VM offers promise: an offer is spent once, by one claim, and only  *)
(* that claim builds a VM from it.                                         *)
(***************************************************************************)
CONSTANTS Offers, Claims, NoClaim

VARIABLES
    open,    \* offers that can be claimed
    holder,  \* the claim that spent each offer
    vms      \* <<offer, claim>> for every VM built from an offer

vars == <<open, holder, vms>>

Init ==
    /\ open = {}
    /\ holder = [o \in Offers |-> NoClaim]
    /\ vms = {}

Publish(o) ==
    /\ holder[o] = NoClaim
    /\ open' = open \union {o}
    /\ UNCHANGED <<holder, vms>>

Withdraw(o) ==
    /\ open' = open \ {o}
    /\ UNCHANGED <<holder, vms>>

Spend(o, c) ==
    /\ o \in open
    /\ holder[o] = NoClaim
    /\ open' = open \ {o}
    /\ holder' = [holder EXCEPT ![o] = c]
    /\ UNCHANGED vms

Build(o) ==
    /\ holder[o] # NoClaim
    /\ vms' = vms \union {<<o, holder[o]>>}
    /\ UNCHANGED <<open, holder>>

Undo(o) ==
    /\ vms' = vms \ {<<o, holder[o]>>}
    /\ UNCHANGED <<open, holder>>

Next ==
    \E o \in Offers :
        \/ Publish(o) \/ Withdraw(o) \/ Build(o) \/ Undo(o)
        \/ \E c \in Claims : Spend(o, c)

Spec == Init /\ [][Next]_vars
=============================================================================
