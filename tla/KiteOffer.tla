----------------------------- MODULE KiteOffer -----------------------------
(***************************************************************************)
(* VM offers: an admin publishes an offer, requests claim it concurrently, *)
(* and the hourly cleanup of kite-controller deletes the expired ones.     *)
(* Offer names are generated, so an offer is never re-created; of a        *)
(* deleted one the record stays, for the properties.  One action is one    *)
(* call to the API server.  List and the request checks of createRecord    *)
(* that only reject are left out: they change nothing.                     *)
(***************************************************************************)
EXTENDS Naturals

CONSTANTS
    Offers,
    Claims,    \* one for every claim request
    NoOffer, NoClaim,
    MaxClock,  \* bound: the last instant modelled
    MaxFaults  \* bound: failed API calls and process restarts

ASSUME NoneAssumption == NoOffer \notin Offers /\ NoClaim \notin Claims
ASSUME OfferBoundsAssumption == MaxClock \in Nat /\ MaxFaults \in Nat

VARIABLES
    clock,
    offer,   \* the KiteVirtualMachineOffer objects
    claim,   \* the Claim handler of each request
    vms,     \* <<offer, claim>> for each VM CRD a claim has created
    sweep,   \* expired offers the running cleanup has still to delete
    faults

vars == <<clock, offer, claim, vms, sweep, faults>>

OfferObjects == [phase : {"none", "available", "claimed", "deleted"},
                 rv : Nat,                  \* metadata.resourceVersion
                 expires : Nat,
                 by : Claims \union {NoClaim}]
NotYet == [phase |-> "none", rv |-> 0, expires |-> 0, by |-> NoClaim]

\* pc is the handler's next call; the offer it read, and at which version.
Handlers == [pc : {"get", "claim", "create", "guestLogin", "rollback", "delete", "done"},
             of : Offers \union {NoOffer}, rv : Nat]

TypeOK ==
    /\ clock \in Nat
    /\ offer \in [Offers -> OfferObjects]
    /\ claim \in [Claims -> Handlers]
    /\ vms \subseteq Offers \X Claims
    /\ sweep \subseteq Offers
    /\ faults \in Nat

Init ==
    /\ clock = 0
    /\ offer = [o \in Offers |-> NotYet]
    /\ claim = [c \in Claims |-> [pc |-> "get", of |-> NoOffer, rv |-> 0]]
    /\ vms = {}
    /\ sweep = {}
    /\ faults = 0

Exists(o) == offer[o].phase \in {"available", "claimed"}
Expired(o) == offer[o].expires <= clock

(***************************************************************************)
(* The admin API.                                                          *)
(***************************************************************************)
\* normalizeExpiresAt only lets through instants in the future.
Create(o, expires) ==
    /\ offer[o].phase = "none" /\ expires > clock
    /\ offer' = [offer EXCEPT ![o] = [phase |-> "available", rv |-> 1, expires |-> expires, by |-> NoClaim]]
    /\ UNCHANGED <<clock, claim, vms, sweep, faults>>

Remove(o) == offer' = IF Exists(o) THEN [offer EXCEPT ![o].phase = "deleted"] ELSE offer

Delete(o) ==
    /\ Exists(o)
    /\ Remove(o)
    /\ UNCHANGED <<clock, claim, vms, sweep, faults>>

(***************************************************************************)
(* Claim, one call at a time.  An error ends the request where it stands:  *)
(* nothing gives a claimed offer back.                                     *)
(***************************************************************************)
Goto(c, label) == claim' = [claim EXCEPT ![c].pc = label]

\* Mutant: the phase of the offer is not looked at.
ClaimGetAnyPhase(c, o) ==
    /\ claim[c].pc = "get"
    /\ claim' = [claim EXCEPT ![c] = IF Exists(o) /\ ~Expired(o)
                                     THEN [pc |-> "claim", of |-> o, rv |-> offer[o].rv]
                                     ELSE [@ EXCEPT !.pc = "done"]]
    /\ UNCHANGED <<clock, offer, vms, sweep, faults>>

ClaimGet(c, o) ==
    /\ claim[c].pc = "get"
    /\ claim' = [claim EXCEPT ![c] = IF offer[o].phase = "available" /\ ~Expired(o)
                                     THEN [pc |-> "claim", of |-> o, rv |-> offer[o].rv]
                                     ELSE [@ EXCEPT !.pc = "done"]]
    /\ UNCHANGED <<clock, offer, vms, sweep, faults>>

\* Mutant: the status is written without the version that was read.
ClaimUpdateAnyVersion(c) ==
    LET o == claim[c].of
    IN  /\ claim[c].pc = "claim"
        /\ offer' = IF Exists(o) THEN [offer EXCEPT ![o].phase = "claimed", ![o].by = c] ELSE offer
        /\ Goto(c, IF Exists(o) THEN "create" ELSE "done")
        /\ UNCHANGED <<clock, vms, sweep, faults>>

\* UpdateStatus: NotFound or Conflict unless the offer is as it was read.
ClaimUpdate(c) ==
    LET o == claim[c].of
    IN  /\ claim[c].pc = "claim"
        /\ IF Exists(o) /\ offer[o].rv = claim[c].rv
           THEN /\ offer' = [offer EXCEPT ![o].phase = "claimed", ![o].by = c, ![o].rv = @ + 1]
                /\ Goto(c, "create")
           ELSE Goto(c, "done") /\ UNCHANGED offer
        /\ UNCHANGED <<clock, vms, sweep, faults>>

\* vmService.Create: the request may be refused (invalid, name or sshId
\* taken) ...
VMRefused(c) ==
    /\ claim[c].pc = "create"
    /\ Goto(c, "done")
    /\ UNCHANGED <<clock, offer, vms, sweep, faults>>

\* ... or the VM CRD is created,
VMCreate(c) ==
    /\ claim[c].pc = "create"
    /\ vms' = vms \union {<<claim[c].of, c>>}
    /\ Goto(c, "guestLogin")
    /\ UNCHANGED <<clock, offer, sweep, faults>>

\* then its guest login Secret; if a Secret of that name is left over, the
\* CRD is deleted again.
VMGuestLogin(c) ==
    /\ claim[c].pc = "guestLogin"
    /\ Goto(c, "delete") \/ Goto(c, "rollback")
    /\ UNCHANGED <<clock, offer, vms, sweep, faults>>

VMRollback(c) ==
    /\ claim[c].pc = "rollback"
    /\ vms' = vms \ {<<claim[c].of, c>>}
    /\ Goto(c, "done")
    /\ UNCHANGED <<clock, offer, sweep, faults>>

ClaimDelete(c) ==
    /\ claim[c].pc = "delete"
    /\ Remove(claim[c].of)
    /\ Goto(c, "done")
    /\ UNCHANGED <<clock, vms, sweep, faults>>

ClaimStep(c) ==
    \/ \E o \in Offers : ClaimGet(c, o)
    \/ ClaimUpdate(c)
    \/ VMRefused(c) \/ VMCreate(c) \/ VMGuestLogin(c) \/ VMRollback(c)
    \/ ClaimDelete(c)

\* A call fails, or kite-api dies.
ClaimFail(c) ==
    /\ claim[c].pc # "done" /\ faults < MaxFaults
    /\ faults' = faults + 1
    /\ Goto(c, "done")
    /\ UNCHANGED <<clock, offer, vms, sweep>>

(***************************************************************************)
(* DeleteExpiredKiteVirtualMachineOffers, started every hour.              *)
(***************************************************************************)
\* Mutant: a claimed offer is left to its claim.
ExpiredOffersUnclaimed == {o \in Offers : offer[o].phase = "available" /\ Expired(o)}

ExpiredOffers == {o \in Offers : Exists(o) /\ Expired(o)}

SweepList ==
    /\ sweep = {}
    /\ sweep' = ExpiredOffers
    /\ UNCHANGED <<clock, offer, claim, vms, faults>>

SweepDelete(o) ==
    /\ o \in sweep
    /\ sweep' = sweep \ {o}
    /\ Remove(o)
    /\ UNCHANGED <<clock, claim, vms, faults>>

\* An error, or a restart, drops the rest of the list.
SweepFail ==
    /\ sweep # {} /\ faults < MaxFaults
    /\ faults' = faults + 1
    /\ sweep' = {}
    /\ UNCHANGED <<clock, offer, claim, vms>>

Tick ==
    /\ clock < MaxClock
    /\ clock' = clock + 1
    /\ UNCHANGED <<offer, claim, vms, sweep, faults>>

Next ==
    \/ \E o \in Offers :
          \/ \E expires \in 1..MaxClock : Create(o, expires)
          \/ Delete(o) \/ SweepDelete(o)
    \/ \E c \in Claims : ClaimStep(c) \/ ClaimFail(c)
    \/ SweepList \/ SweepFail \/ Tick

Spec == Init /\ [][Next]_vars

(***************************************************************************)
(* Fairness: time passes, and the ticker runs the cleanup to its end.      *)
(* Nothing is assumed of the claim requests.                               *)
(***************************************************************************)
Fairness ==
    /\ WF_vars(Tick) /\ WF_vars(SweepList)
    /\ \A o \in Offers : WF_vars(SweepDelete(o))

FairSpec == Spec /\ Fairness

(***************************************************************************)
(* Properties.                                                             *)
(***************************************************************************)
\* However claims race, with each other, with an expiry or with an admin's
\* delete, no two of them have a VM from the same offer.
AtMostOneVMPerOffer ==
    \A o \in Offers, c, d \in Claims : <<o, c>> \in vms /\ <<o, d>> \in vms => c = d

\* The strengthening: a handler past UpdateStatus holds its offer, and one
\* before it either has an unclaimed offer or a version that is out of date.
Holding == {"create", "guestLogin", "rollback", "delete"}

HolderOK ==
    \A o \in Offers :
        /\ offer[o].phase \in {"none", "available"} => offer[o].by = NoClaim
        /\ offer[o].phase = "claimed" => offer[o].by # NoClaim

HandlerOK(c) ==
    LET o == claim[c].of
    IN  /\ claim[c].pc \in Holding => o \in Offers /\ offer[o].by = c
        /\ claim[c].pc = "claim" => /\ o \in Offers /\ offer[o].phase # "none"
                                    /\ claim[c].rv <= offer[o].rv
                                    /\ claim[c].rv = offer[o].rv => offer[o].by = NoClaim

VMsHeld == \A o \in Offers, c \in Claims : <<o, c>> \in vms => offer[o].by = c

\* VMs and handlers agree with the offers on who holds which.
Inductive == TypeOK /\ HolderOK /\ VMsHeld /\ \A c \in Claims : HandlerOK(c)

\* The claim protocol implements the ledger: an offer is spent once.
Ledger == INSTANCE OfferLedger WITH
              open <- {o \in Offers : offer[o].phase = "available"},
              holder <- [o \in Offers |-> offer[o].by]

LedgerSpec == Ledger!Spec

\* Every offer goes away in the end, also one whose claim failed half way:
\* its claim deletes it or, at the latest, the cleanup after its expiry.
OffersDrain == \A o \in Offers : Exists(o) ~> offer[o].phase = "deleted"
=============================================================================
