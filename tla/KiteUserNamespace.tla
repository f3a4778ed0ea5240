------------------------- MODULE KiteUserNamespace -------------------------
(***************************************************************************)
(* KiteUsers, their namespaces and the network policies that isolate them. *)
(* Three informers of kite-controller work on the same objects:            *)
(*                                                                         *)
(*  - "user" (KiteUsers) runs ReconcileKiteUser on the object of the       *)
(*    event, which may be an old version, and cleans up deleted users;     *)
(*  - "ns" (Namespaces) deletes namespaces that no KiteUser references and *)
(*    restores deleted ones that a KiteUser references;                    *)
(*  - "np" (NetworkPolicies) runs ReconcileKiteUser on drift.              *)
(*                                                                         *)
(* kite-api creates, updates and deletes KiteUsers meanwhile; an operator  *)
(* deletes namespaces and policies by hand.  One action is one call to the *)
(* API server; get and write of the status are one action, a conflict      *)
(* between them is a Fail.  Deleting the deprecated ResourceQuota changes  *)
(* nothing modelled here: it is one more point before Status where a pass  *)
(* may Fail.  The two network policies are applied and deleted next to     *)
(* each other: they are one object here.  User names are UUIDs and never   *)
(* used again.                                                             *)
(***************************************************************************)
EXTENDS Naturals

CONSTANTS
    Users,     \* KiteUser names
    Names,     \* namespace names
    Home,      \* the namespace that sign-up derives from a user's name
    Foreign,   \* namespaces that exist and are not managed by Kite
    ForeignIsolated, \* those with network policies of Kite's names
    NoUser, NoName,
    Informers, \* the informers that run
    MaxGen,    \* bound: generations of a KiteUser
    MaxFaults  \* bound: failed calls, restarts and operator's deletes

ASSUME NamesAssumption == NoUser \notin Users /\ NoName \notin Names
ASSUME HomeAssumption == Home \in [Users -> Names \ Foreign]
ASSUME ForeignAssumption == Foreign \subseteq Names /\ ForeignIsolated \subseteq Foreign
ASSUME InformersAssumption == Informers \subseteq {"user", "ns", "np"}
ASSUME BoundsAssumption == MaxGen \in Nat \ {0} /\ MaxFaults \in Nat

VARIABLES
    gen,      \* generation of each KiteUser, 0 before sign-up
    named,    \* spec.namespace of each generation
    gone,     \* deleted users
    obs,      \* status.observedNamespace
    ready,    \* status.phase is Ready
    phase,    \* of each namespace: absent, active, ending
    managed,  \* the namespace carries the label managed-by
    policies, \* namespaces with the network policies of Kite's names
    seen,     \* generation of the last event of each user
    told,     \* users whose delete event was handled or lost
    lostNs,   \* namespaces with an undelivered delete event
    lostNp,   \* namespaces with an undelivered delete event of a policy
    pass,     \* the handler each informer is running
    faults

crds == <<gen, named, gone>>
status == <<obs, ready>>
spaces == <<phase, managed, policies>>
events == <<seen, told, lostNs, lostNp>>
vars == <<crds, status, spaces, events, pass, faults>>

(***************************************************************************)
(* A handler in progress: u and n are name and spec.namespace of the       *)
(* KiteUser it reconciles, todo the users it reconciles next, old the      *)
(* namespace it may delete.  raced is history: since the pass found old    *)
(* unreferenced, kite-api has pointed a user at it.                        *)
(***************************************************************************)
Apply == {"applyNs", "applyNp", "status"}
Delete == {"getOld", "delOld", "delOrphan"}
Reconcile == Apply \union {"change", "listRefs", "getOld", "delOld", "validate"}
Labels == Reconcile \union {"idle", "failed", "orphan", "delOrphan", "delNp"}

Passes == [pc : Labels, u : Users \union {NoUser}, n : Names \union {NoName},
           old : Names \union {NoName}, todo : SUBSET Users, raced : BOOLEAN]
NoPass == [pc |-> "idle", u |-> NoUser, n |-> NoName, old |-> NoName, todo |-> {}, raced |-> FALSE]

StoreOK ==
    /\ gen \in [Users -> 0..MaxGen]
    /\ named \in [Users -> [1..MaxGen -> Names \union {NoName}]]
    /\ gone \subseteq Users
    /\ obs \in [Users -> Names \union {NoName}] /\ ready \in [Users -> BOOLEAN]
    /\ phase \in [Names -> {"absent", "active", "ending"}]
    /\ managed \in [Names -> BOOLEAN]
    /\ policies \subseteq Names
    /\ seen \in [Users -> 0..MaxGen] /\ told \subseteq Users
    /\ lostNs \subseteq Names /\ lostNp \subseteq Names
    /\ faults \in Nat

TypeOK == StoreOK /\ pass \in [Informers -> Passes]

Init ==
    /\ gen = [u \in Users |-> 0]
    /\ named = [u \in Users |-> [g \in 1..MaxGen |-> NoName]]
    /\ gone = {}
    /\ obs = [u \in Users |-> NoName] /\ ready = [u \in Users |-> FALSE]
    /\ phase = [n \in Names |-> IF n \in Foreign THEN "active" ELSE "absent"]
    /\ managed = [n \in Names |-> FALSE]
    /\ policies = ForeignIsolated
    /\ seen = [u \in Users |-> 0] /\ told = {}
    /\ lostNs = {} /\ lostNp = {}
    /\ pass = [w \in Informers |-> NoPass]
    /\ faults = 0

Live(u) == gen[u] > 0 /\ u \notin gone
Namespace(u) == named[u][gen[u]]

kiteUsersForNamespace(n) == {u \in Users : Live(u) /\ Namespace(u) = n}

At(w, label) == w \in Informers /\ pass[w].pc = label
Step(w, p) == pass' = [pass EXCEPT ![w] = p]
Goto(w, label) == Step(w, [pass[w] EXCEPT !.pc = label])
Stop(w) == Step(w, NoPass)

\* A reconcile error: the user informer records it in the status, the
\* others log it and skip the users they have not come to.
Error(w) ==
    IF w = "user"
    THEN Step(w, [pass[w] EXCEPT !.pc = "failed", !.old = NoName, !.raced = FALSE])
    ELSE Stop(w)

(***************************************************************************)
(* Events.  Versions of a user are delivered in order, possibly late; a    *)
(* resync repeats the last one.  Of a deleted user or namespace, and of a  *)
(* policy, the handler uses only the namespace's name: the list of         *)
(* KiteUsers that it begins with is part of the action.                    *)
(***************************************************************************)
\* Mutant: update events of an unchanged generation are skipped.
UserEventNewGeneration(u, g) ==
    /\ At("user", "idle") /\ u \notin told
    /\ g \in 1..gen[u] /\ seen[u] < g
    /\ seen' = [seen EXCEPT ![u] = g]
    /\ Step("user", [NoPass EXCEPT !.pc = "change", !.u = u, !.n = named[u][g]])
    /\ UNCHANGED <<crds, status, spaces, told, lostNs, lostNp, faults>>

UserEvent(u, g) ==
    /\ At("user", "idle") /\ u \notin told
    /\ g \in 1..gen[u] /\ seen[u] <= g
    /\ seen' = [seen EXCEPT ![u] = g]
    /\ Step("user", [NoPass EXCEPT !.pc = "change", !.u = u, !.n = named[u][g]])
    /\ UNCHANGED <<crds, status, spaces, told, lostNs, lostNp, faults>>

UserDeleted(u) ==
    /\ At("user", "idle") /\ u \in gone \ told
    /\ told' = told \union {u}
    /\ IF kiteUsersForNamespace(Namespace(u)) # {}
       THEN UNCHANGED pass
       ELSE Step("user", [NoPass EXCEPT !.pc = "delNp", !.n = Namespace(u)])
    /\ UNCHANGED <<crds, status, spaces, seen, lostNs, lostNp, faults>>

\* Mutant: the label managed-by is not looked at.
NsEventAny(n) ==
    /\ At("ns", "idle") /\ phase[n] # "absent"
    /\ Step("ns", [NoPass EXCEPT !.pc = "orphan", !.old = n])
    /\ UNCHANGED <<crds, status, spaces, events, faults>>

NsEvent(n) ==
    /\ At("ns", "idle") /\ phase[n] # "absent" /\ managed[n]
    /\ Step("ns", [NoPass EXCEPT !.pc = "orphan", !.old = n])
    /\ UNCHANGED <<crds, status, spaces, events, faults>>

\* Reconcile each user of the namespace, in some order.
Restore(w, n) ==
    LET users == kiteUsersForNamespace(n)
    IN  \/ users = {} /\ UNCHANGED pass
        \/ \E u \in users :
              Step(w, [NoPass EXCEPT !.pc = "change", !.u = u, !.n = n, !.todo = users \ {u}])

NsDeleted(n) ==
    /\ At("ns", "idle") /\ n \in lostNs
    /\ lostNs' = lostNs \ {n}
    /\ Restore("ns", n)
    /\ UNCHANGED <<crds, status, spaces, seen, told, lostNp, faults>>

NpEvent(n) ==
    /\ At("np", "idle") /\ n \in policies \union lostNp
    /\ lostNp' = lostNp \ {n}
    /\ Restore("np", n)
    /\ UNCHANGED <<crds, status, spaces, seen, told, lostNs, faults>>

(***************************************************************************)
(* ReconcileKiteUser.                                                      *)
(***************************************************************************)
Change(w) ==
    /\ At(w, "change")
    /\ LET p == pass[w]
       IN  IF Live(p.u) /\ obs[p.u] \notin {NoName, p.n}
           THEN Step(w, [p EXCEPT !.pc = "listRefs", !.old = obs[p.u]])
           ELSE Goto(w, "validate")
    /\ UNCHANGED <<crds, status, spaces, events, faults>>

\* The previous namespace is dealt with.
Checked(w) == Step(w, [pass[w] EXCEPT !.pc = "validate", !.old = NoName, !.raced = FALSE])

\* Mutant: only asks whether this user still has the namespace.
ListRefsOwnUser(w) ==
    /\ At(w, "listRefs")
    /\ IF Live(pass[w].u) /\ Namespace(pass[w].u) = pass[w].old THEN Checked(w) ELSE Goto(w, "getOld")
    /\ UNCHANGED <<crds, status, spaces, events, faults>>

ListRefs(w) ==
    /\ At(w, "listRefs")
    /\ IF kiteUsersForNamespace(pass[w].old) # {} THEN Checked(w) ELSE Goto(w, "getOld")
    /\ UNCHANGED <<crds, status, spaces, events, faults>>

GetOld(w) ==
    /\ At(w, "getOld")
    /\ LET n == pass[w].old
       IN  CASE phase[n] = "absent" -> Checked(w)
             [] phase[n] # "absent" /\ managed[n] -> Goto(w, "delOld")
             [] OTHER -> Error(w)
    /\ UNCHANGED <<crds, status, spaces, events, faults>>

\* DELETE of a namespace: it ends when the namespace controller is done.
Ended(n) == phase' = [phase EXCEPT ![n] = IF @ = "active" THEN "ending" ELSE @]

DelOld(w) ==
    /\ At(w, "delOld")
    /\ Ended(pass[w].old)
    /\ Checked(w)
    /\ UNCHANGED <<crds, status, managed, policies, events, faults>>

\* Mutant: any namespace that exists will do.
ValidateAny(w) ==
    /\ At(w, "validate")
    /\ Goto(w, "applyNs")
    /\ UNCHANGED <<crds, status, spaces, events, faults>>

Validate(w) ==
    /\ At(w, "validate")
    /\ LET n == pass[w].n
       IN  IF phase[n] = "absent" \/ managed[n] THEN Goto(w, "applyNs") ELSE Error(w)
    /\ UNCHANGED <<crds, status, spaces, events, faults>>

\* Mutant: the rendered namespace has no managed-by label.
ApplyNsUnlabelled(w) ==
    /\ At(w, "applyNs")
    /\ phase' = [phase EXCEPT ![pass[w].n] = IF @ = "absent" THEN "active" ELSE @]
    /\ Goto(w, "applyNp")
    /\ UNCHANGED <<crds, status, managed, policies, events, faults>>

ApplyNs(w) ==
    /\ At(w, "applyNs")
    /\ phase' = [phase EXCEPT ![pass[w].n] = IF @ = "absent" THEN "active" ELSE @]
    /\ managed' = [managed EXCEPT ![pass[w].n] = TRUE]
    /\ Goto(w, "applyNp")
    /\ UNCHANGED <<crds, status, policies, events, faults>>

\* An ending namespace accepts a patch of what exists, and no create.
ApplyNp(w) ==
    /\ At(w, "applyNp")
    /\ LET n == pass[w].n
       IN  IF n \in policies \/ phase[n] = "active"
           THEN policies' = policies \union {n} /\ Goto(w, "status")
           ELSE Error(w) /\ UNCHANGED policies
    /\ UNCHANGED <<crds, status, phase, managed, events, faults>>

\* updateKiteUserStatus: a failure, too, makes n the observed namespace.
WriteStatus(u, n, ok) ==
    IF Live(u)
    THEN obs' = [obs EXCEPT ![u] = n] /\ ready' = [ready EXCEPT ![u] = ok]
    ELSE UNCHANGED status

Status(w) ==
    /\ At(w, "status")
    /\ WriteStatus(pass[w].u, pass[w].n, TRUE)
    /\ \/ pass[w].todo = {} /\ Stop(w)
       \/ \E u \in pass[w].todo :
             Step(w, [pass[w] EXCEPT !.pc = "change", !.u = u, !.todo = @ \ {u}])
    /\ UNCHANGED <<crds, spaces, events, faults>>

Failed(w) ==
    /\ At(w, "failed")
    /\ WriteStatus(pass[w].u, pass[w].n, FALSE)
    /\ Stop(w)
    /\ UNCHANGED <<crds, spaces, events, faults>>

(***************************************************************************)
(* Clean-up of namespaces and of deleted users.                            *)
(***************************************************************************)
\* Mutant: the references are not looked up.
OrphanUnchecked(w) ==
    /\ At(w, "orphan")
    /\ Goto(w, "delOrphan")
    /\ UNCHANGED <<crds, status, spaces, events, faults>>

Orphan(w) ==
    /\ At(w, "orphan")
    /\ IF kiteUsersForNamespace(pass[w].old) # {} THEN Stop(w) ELSE Goto(w, "delOrphan")
    /\ UNCHANGED <<crds, status, spaces, events, faults>>

DelOrphan(w) ==
    /\ At(w, "delOrphan")
    /\ Ended(pass[w].old)
    /\ Stop(w)
    /\ UNCHANGED <<crds, status, managed, policies, events, faults>>

DelNp(w) ==
    /\ At(w, "delNp")
    /\ lostNp' = lostNp \union (policies \intersect {pass[w].n})
    /\ policies' = policies \ {pass[w].n}
    /\ Stop(w)
    /\ UNCHANGED <<crds, status, phase, managed, seen, told, lostNs, faults>>

PassStep(w) ==
    \/ Change(w) \/ ListRefs(w) \/ GetOld(w) \/ DelOld(w)
    \/ Validate(w) \/ ApplyNs(w) \/ ApplyNp(w) \/ Status(w) \/ Failed(w)
    \/ Orphan(w) \/ DelOrphan(w) \/ DelNp(w)

(***************************************************************************)
(* Failures.  A restart loses the delete events that were not handled.     *)
(***************************************************************************)
Fail(w) ==
    /\ faults < MaxFaults /\ ~At(w, "idle")
    /\ faults' = faults + 1
    /\ IF pass[w].pc \in Reconcile THEN Error(w) ELSE Stop(w)
    /\ UNCHANGED <<crds, status, spaces, events>>

Restart ==
    /\ faults < MaxFaults
    /\ faults' = faults + 1
    /\ pass' = [w \in Informers |-> NoPass]
    /\ seen' = gen /\ told' = gone /\ lostNs' = {} /\ lostNp' = {}
    /\ UNCHANGED <<crds, status, spaces>>

OperatorDeletes(n) ==
    /\ faults < MaxFaults /\ n \notin Foreign /\ phase[n] = "active"
    /\ faults' = faults + 1
    /\ Ended(n)
    /\ UNCHANGED <<crds, status, managed, policies, events, pass>>

PolicyDrift(n) ==
    /\ faults < MaxFaults /\ n \in policies \ Foreign
    /\ faults' = faults + 1
    /\ policies' = policies \ {n}
    /\ lostNp' = lostNp \union {n}
    /\ UNCHANGED <<crds, status, phase, managed, seen, told, lostNs, pass>>

(***************************************************************************)
(* The namespace controller.                                               *)
(***************************************************************************)
NamespaceEmpties(n) ==
    /\ phase[n] = "ending" /\ n \in policies
    /\ policies' = policies \ {n}
    /\ lostNp' = lostNp \union {n}
    /\ UNCHANGED <<crds, status, phase, managed, seen, told, lostNs, pass, faults>>

NamespaceGone(n) ==
    /\ phase[n] = "ending" /\ n \notin policies
    /\ phase' = [phase EXCEPT ![n] = "absent"]
    /\ managed' = [managed EXCEPT ![n] = FALSE]
    /\ lostNs' = IF managed[n] THEN lostNs \union {n} ELSE lostNs
    /\ UNCHANGED <<crds, status, policies, seen, told, lostNp, pass, faults>>

(***************************************************************************)
(* kite-api.  An update writes every field of the spec, so it may write a  *)
(* namespace it read earlier: any namespace is possible.                   *)
(***************************************************************************)
Raced(n) == pass' = [w \in Informers |->
                        IF pass[w].pc \in Delete /\ pass[w].old = n
                        THEN [pass[w] EXCEPT !.raced = TRUE] ELSE pass[w]]

SignUp(u) ==
    /\ gen[u] = 0
    /\ gen' = [gen EXCEPT ![u] = 1]
    /\ named' = [named EXCEPT ![u][1] = Home[u]]
    /\ Raced(Home[u])
    /\ UNCHANGED <<gone, status, spaces, events, faults>>

Update(u, n) ==
    /\ Live(u) /\ gen[u] < MaxGen
    /\ gen' = [gen EXCEPT ![u] = @ + 1]
    /\ named' = [named EXCEPT ![u][gen[u] + 1] = n]
    /\ Raced(n)
    /\ UNCHANGED <<gone, status, spaces, events, faults>>

Remove(u) ==
    /\ Live(u)
    /\ gone' = gone \union {u}
    /\ UNCHANGED <<gen, named, status, spaces, events, pass, faults>>

Next ==
    \/ \E u \in Users : (\E g \in 1..MaxGen : UserEvent(u, g)) \/ UserDeleted(u)
    \/ \E n \in Names : NsEvent(n) \/ NsDeleted(n) \/ NpEvent(n)
    \/ \E w \in Informers : PassStep(w) \/ Fail(w)
    \/ Restart
    \/ \E n \in Names : OperatorDeletes(n) \/ PolicyDrift(n)
    \/ \E n \in Names : NamespaceEmpties(n) \/ NamespaceGone(n)
    \/ \E u \in Users : SignUp(u) \/ (\E n \in Names : Update(u, n)) \/ Remove(u)

Spec == Init /\ [][Next]_vars

(***************************************************************************)
(* Fairness.  A handler that started takes its next call.  Each informer   *)
(* handles its events first in, first out, and the 3 min resync repeats    *)
(* the update event of every object: no object is passed over for ever.    *)
(* The namespace controller finishes.                                      *)
(***************************************************************************)
Fairness ==
    /\ \A w \in Informers : WF_vars(PassStep(w))
    /\ \A u \in Users : SF_vars((Live(u) /\ UserEvent(u, gen[u])) \/ UserDeleted(u))
    /\ SF_vars(\E n \in Names : kiteUsersForNamespace(n) = {} /\ NsEvent(n))
    /\ \A n \in Names \ Foreign : WF_vars(NamespaceEmpties(n)) /\ WF_vars(NamespaceGone(n))

FairSpec == Spec /\ Fairness

(***************************************************************************)
(* Safety.                                                                 *)
(***************************************************************************)
\* A namespace that Kite did not create is neither labelled nor deleted,
\* whatever KiteUser names it: validateUserNamespace and the managed-by
\* checks of the two clean-ups stop every path to a write.
ForeignUntouched == \A n \in Foreign : phase[n] = "active" /\ ~managed[n]

\* kite-controller starts the deletion of a namespace only while no KiteUser
\* references it, unless kite-api pointed one at it after the pass looked:
\* neither an old event nor an old observedNamespace is enough.
ReferencedKept ==
    [][\A n \in Names :
          phase[n] = "active" /\ phase'[n] = "ending" /\ faults' = faults =>
              \/ kiteUsersForNamespace(n) = {}
              \/ \E w \in Informers : pass[w].old = n /\ pass[w].raced]_vars

\* Strengthening: what a pass has found out about its namespaces.
Fits(p) ==
    /\ p.pc \in Reconcile \union {"failed"} => p.u \in Users
    /\ p.pc \in Reconcile \union {"failed", "delNp"} => p.n \in Names
    /\ p.pc \in Delete \union {"listRefs", "orphan"} => p.old \in Names
    /\ p.pc \in Apply => p.n \notin Foreign
    /\ p.pc \in {"delOld", "orphan", "delOrphan"} => p.old \notin Foreign
    /\ p.pc \in Delete /\ ~p.raced => kiteUsersForNamespace(p.old) = {}

NamedOK == \A u \in Users : \A g \in 1..gen[u] : named[u][g] \in Names

GoneOK == \A u \in gone : gen[u] > 0

Inductive == TypeOK /\ NamedOK /\ GoneOK /\ ForeignUntouched /\ \A w \in Informers : Fits(pass[w])

(***************************************************************************)
(* Liveness.                                                               *)
(***************************************************************************)
\* Once a user's namespace settles, the user has that namespace with both
\* policies and a Ready status, whatever failed, raced or was deleted before.
NamespaceProvided ==
    \A u \in Users, n \in Names \ Foreign :
        <>[](Live(u) /\ Namespace(u) = n) =>
            <>[](phase[n] = "active" /\ n \in policies /\ obs[u] = n /\ ready[u])

\* A namespace that users left for good goes away, also when the clean-up
\* of the user informer failed or old events created it again.
OrphansCollected ==
    \A n \in Names \ Foreign :
        <>[](kiteUsersForNamespace(n) = {}) => <>[](phase[n] = "absent")
=============================================================================
