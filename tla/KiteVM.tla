------------------------------- MODULE KiteVM -------------------------------
(***************************************************************************)
(* Life cycle of one KiteVirtualMachine name: the CRD, the KubeVirt VM and *)
(* the other children that kite-controller creates for it, and everybody   *)
(* who writes them concurrently:                                           *)
(*                                                                         *)
(*  - the informer goroutines of kite-controller ("vm", "kv", "svc",       *)
(*    "dv"), each running its handlers one at a time but all of them able  *)
(*    to run ReconcileKiteVirtualMachine for the same VM at once;          *)
(*  - kite-api requests: create, spec update, delete intent, hard delete;  *)
(*  - KubeVirt and the namespace controller, outside this repository.      *)
(*                                                                         *)
(* One action is one call to the API server.  A RetryOnConflict loop is    *)
(* one action: its write only lands on the version it has just read.  A    *)
(* Get + labelled Delete of a child is one action, since every object of   *)
(* these names carries the Kite owner labels.  The status subresource is   *)
(* left out here: it changes neither spec, metadata nor children.          *)
(***************************************************************************)
EXTENDS Naturals, Sequences

CONSTANTS
    Informers,  \* the watchers started by main: "kv" and "dv" are optional
    Requests,   \* concurrent kite-api requests
    HasDomain,  \* TRUE iff a base domain is configured, so VMs get an Ingress
    Keys,       \* SSH key pairs
    NoKey,
    NamespaceEnds, \* TRUE iff the namespace may be deleted during a run
    MaxUid,     \* bound: incarnations of the VM name
    MaxUpdates, \* bound: spec writes by kite-api
    MaxFaults   \* bound: failed API calls and process restarts

ASSUME InformersAssumption == "vm" \in Informers /\ Informers \subseteq {"vm", "kv", "svc", "dv"}
ASSUME FlagsAssumption == HasDomain \in BOOLEAN /\ NamespaceEnds \in BOOLEAN
ASSUME KeysAssumption == NoKey \notin Keys
ASSUME BoundsAssumption == MaxUid \in Nat /\ MaxUpdates \in Nat /\ MaxFaults \in Nat

VARIABLES
    crd,      \* the KiteVirtualMachine object, NoCRD when there is none
    uids,     \* incarnations created so far
    kv,       \* the KubeVirt VirtualMachine
    res,      \* the other children that exist
    sshKey,   \* key pair in the SSH key Secret
    ciKey,    \* public key in the cloud-init Secret
    nsTerm,   \* the VM namespace is terminating
    seen,     \* incarnation and spec in the vm informer's cache
    gone,     \* watchers with an undelivered delete event of their child
    pass,     \* the handler each informer goroutine is running
    req,      \* the handler each kite-api request is running
    updates, faults,
    late      \* history: a pass wrote for a CRD that is gone or going

store == <<crd, uids, kv, res, sshKey, ciKey, nsTerm>>
caches == <<seen, gone>>
counts == <<updates, faults>>
vars == <<store, caches, pass, req, counts, late>>

(***************************************************************************)
(* Objects.                                                                *)
(***************************************************************************)
\* The two VM Services are always applied and deleted together: one child.
OwnedOrder == <<"ingress", "service", "sshKey", "guestLogin", "cloudInit", "dv">>
Owned == {"ingress", "service", "sshKey", "guestLogin", "cloudInit", "dv"}

ApplyOrder == IF HasDomain THEN <<"dv", "cloudInit", "kv", "service", "ingress">>
                           ELSE <<"dv", "cloudInit", "kv", "service">>

\* Children only kite-controller creates; kite-api writes the guest login.
Applied == Owned \ {"guestLogin"}

Watchers == Informers \ {"vm"}
WatchedChild == [kv |-> "kv", svc |-> "service", dv |-> "dv"]

CRDs == [uid : Nat, on : BOOLEAN, del : BOOLEAN, term : BOOLEAN, fin : BOOLEAN]
NoCRD == [uid |-> 0, on |-> FALSE, del |-> FALSE, term |-> FALSE, fin |-> FALSE]
NoKV == [here |-> FALSE, run |-> FALSE, term |-> FALSE]
AnyKey == Keys \union {NoKey}

Present(c) == IF c = "kv" THEN kv.here ELSE c \in res

\* The part of a CRD whose change bumps metadata.generation.
Intent(c) == [uid |-> c.uid, on |-> c.on, del |-> c.del]

(***************************************************************************)
(* A handler in progress.  pc names its next API call; snap is the CRD it  *)
(* read, todo its place in a loop over children, after what follows the    *)
(* delete loop, key the SSH key pair it carries; gonechild and run are     *)
(* what a watcher's event says of the child.                               *)
(***************************************************************************)
Desired == {"ssh", "sshCreate", "guest", "apply"}
Cleanup == {"exists", "delkv", "delowned", "rmfin", "delcrd"}
Labels == {"idle", "owner", "get", "ns", "addfin"} \union Desired \union Cleanup

Passes == [pc : Labels, snap : CRDs, todo : 1..Len(OwnedOrder), after : {"idle", "rmfin", "delcrd"},
           key : AnyKey, deleted : BOOLEAN, run : BOOLEAN]
NoPass == [pc |-> "idle", snap |-> NoCRD, todo |-> 1, after |-> "idle",
           key |-> NoKey, deleted |-> FALSE, run |-> FALSE]

Reqs == [pc : {"idle", "created", "rollback", "loaded"}, on : BOOLEAN, del : BOOLEAN]
NoReq == [pc |-> "idle", on |-> FALSE, del |-> FALSE]

TypeOK ==
    /\ crd \in CRDs /\ uids \in Nat
    /\ kv \in [here : BOOLEAN, run : BOOLEAN, term : BOOLEAN]
    /\ res \subseteq Owned
    /\ sshKey \in AnyKey /\ ciKey \in AnyKey
    /\ nsTerm \in BOOLEAN
    /\ seen \in [uid : Nat, on : BOOLEAN, del : BOOLEAN] /\ gone \subseteq Watchers
    /\ pass \in [Informers -> Passes]
    /\ req \in [Requests -> Reqs]
    /\ updates \in Nat /\ faults \in Nat
    /\ late \in BOOLEAN

Init ==
    /\ crd = NoCRD /\ uids = 0
    /\ kv = NoKV /\ res = {}
    /\ sshKey = NoKey /\ ciKey = NoKey
    /\ nsTerm = FALSE
    /\ seen = Intent(NoCRD) /\ gone = {}
    /\ pass = [w \in Informers |-> NoPass]
    /\ req = [r \in Requests |-> NoReq]
    /\ updates = 0 /\ faults = 0
    /\ late = FALSE

(***************************************************************************)
(* Steps of a handler.  Locals are dropped when they are no longer read.   *)
(***************************************************************************)
At(w, label) == pass[w].pc = label
Step(w, p) == pass' = [pass EXCEPT ![w] = p]
Start(w, label) == Step(w, [NoPass EXCEPT !.pc = label])
Stop(w) == Step(w, NoPass)
Goto(w, label) == Step(w, [pass[w] EXCEPT !.pc = label])
Loop(w, label) == Step(w, [pass[w] EXCEPT !.pc = label, !.todo = 1])

\* An API server delete by name: the finalizer turns it into a mark.
DeletedCRD == IF crd.fin THEN [crd EXCEPT !.term = TRUE] ELSE NoCRD

\* The CRD this pass works for is gone, replaced, or being deleted.
Overtaken(w) == crd.uid # pass[w].snap.uid \/ crd.term

\* Deleting child c leaves a delete event for whoever watches it.
Lost(c) == gone \union {w \in Watchers : WatchedChild[w] = c}

(***************************************************************************)
(* Events.  The vm informer reconciles on add, on a new generation, and on *)
(* resyncs while the VM is being deleted or its phase asks for it; phases  *)
(* are not modelled, so a resync may always reconcile (VMEvent), but is    *)
(* only certain to in the cases of VMDue.                                  *)
(***************************************************************************)
\* Mutant: resyncs of an unchanged generation never reconcile.
VMDueNewGenerationOnly == crd.uid # 0 /\ seen # Intent(crd)

VMDue == crd.uid # 0 /\ (seen # Intent(crd) \/ crd.term \/ crd.del)

VMEvent ==
    /\ At("vm", "idle") /\ crd.uid # 0 /\ seen.uid \in {0, crd.uid}
    /\ seen' = Intent(crd)
    /\ Start("vm", "get")
    /\ UNCHANGED <<store, gone, req, counts, late>>

\* DeleteFunc: the cached VM is gone, even if its name is in use again.
VMDeleted ==
    /\ At("vm", "idle") /\ seen.uid \notin {0, crd.uid}
    /\ Start("vm", "delkv")
    /\ seen' = Intent(NoCRD)
    /\ UNCHANGED <<store, gone, req, counts, late>>

ChildEvent(w) ==
    /\ At(w, "idle")
    /\ \/ /\ w \in gone
          /\ gone' = gone \ {w}
          /\ Step(w, [pass[w] EXCEPT !.pc = "owner", !.deleted = TRUE])
       \/ /\ w \notin gone /\ Present(WatchedChild[w])
          /\ Step(w, [pass[w] EXCEPT !.pc = "owner", !.run = (w = "kv" /\ kv.run)])
          /\ UNCHANGED gone
    /\ UNCHANGED <<store, seen, req, counts, late>>

\* A watcher reads the owner, then decides whether to run a whole pass.
KubeVirtWakes(w) == pass[w].deleted \/ crd.term \/ crd.del \/ crd.on # pass[w].run
ServiceWakes(w) == pass[w].deleted \/ crd.term
DataVolumeWakes(w) == pass[w].deleted \/ crd.term

OwnerGet(w) ==
    /\ At(w, "owner")
    /\ IF /\ crd.uid # 0
          /\ \/ w = "kv" /\ KubeVirtWakes(w)
             \/ w = "svc" /\ ServiceWakes(w)
             \/ w = "dv" /\ DataVolumeWakes(w)
       THEN Start(w, "get")
       ELSE Stop(w)
    /\ UNCHANGED <<store, caches, req, counts, late>>

(***************************************************************************)
(* ReconcileKiteVirtualMachine, one call to the API server at a time.      *)
(***************************************************************************)
Get(w) ==
    /\ At(w, "get")
    /\ IF crd.uid = 0
       THEN Stop(w)
       ELSE Step(w, [pass[w] EXCEPT !.pc = "ns", !.snap = crd])
    /\ UNCHANGED <<store, caches, req, counts, late>>

\* What follows once the finalizer is known to be there.
Intended(w) == IF pass[w].snap.del THEN "exists" ELSE "ssh"
IntendedAfter(w) == IF pass[w].snap.del THEN "delcrd" ELSE "idle"

Ns(w) ==
    /\ At(w, "ns")
    /\ LET s == pass[w].snap
       IN  \/ /\ nsTerm \/ s.term
              /\ IF s.fin
                 THEN Step(w, [pass[w] EXCEPT !.pc = "exists", !.after = "rmfin"])
                 ELSE Stop(w)
           \/ /\ ~nsTerm /\ ~s.term /\ ~s.fin
              /\ Goto(w, "addfin")
           \/ /\ ~nsTerm /\ ~s.term /\ s.fin
              /\ Step(w, [pass[w] EXCEPT !.pc = Intended(w), !.after = IntendedAfter(w)])
    /\ UNCHANGED <<store, caches, req, counts, late>>

\* Mutant: children are created before the finalizer is written.
AddFinForgotten(w) ==
    /\ At(w, "addfin")
    /\ Step(w, [pass[w] EXCEPT !.pc = Intended(w), !.after = IntendedAfter(w), !.snap.fin = TRUE])
    /\ UNCHANGED <<store, caches, req, counts, late>>

AddFin(w) ==
    /\ At(w, "addfin")
    /\ crd' = IF crd.uid = 0 THEN crd ELSE [crd EXCEPT !.fin = TRUE]
    /\ Step(w, [pass[w] EXCEPT !.pc = Intended(w), !.after = IntendedAfter(w), !.snap.fin = TRUE])
    /\ UNCHANGED <<uids, kv, res, sshKey, ciKey, nsTerm, caches, req, counts, late>>

(* Desired state. *)

SshGet(w) ==
    /\ At(w, "ssh")
    /\ IF "sshKey" \in res
       THEN Step(w, [pass[w] EXCEPT !.pc = "guest", !.key = sshKey])
       ELSE Goto(w, "sshCreate")
    /\ UNCHANGED <<store, caches, req, counts, late>>

\* GenerateRSA: a pair nobody holds.
FreshKeys == Keys \ ({sshKey, ciKey} \union {pass[v].key : v \in Informers})
FreshKey == CHOOSE k \in FreshKeys : TRUE

\* AlreadyExists is taken as success and the generated pair is kept.
SshCreate(w) ==
    /\ At(w, "sshCreate")
    /\ \/ /\ nsTerm /\ "sshKey" \notin res
          /\ Stop(w)
          /\ UNCHANGED <<res, sshKey, late>>
       \/ /\ "sshKey" \in res \/ ~nsTerm
          /\ FreshKeys # {}
          /\ Step(w, [pass[w] EXCEPT !.pc = "guest", !.key = FreshKey])
          /\ sshKey' = IF "sshKey" \in res THEN sshKey ELSE FreshKey
          /\ res' = res \union {"sshKey"}
          /\ late' = (late \/ ("sshKey" \notin res /\ Overtaken(w)))
    /\ UNCHANGED <<crd, uids, kv, ciKey, nsTerm, caches, req, counts>>

GuestGet(w) ==
    /\ At(w, "guest")
    /\ IF "guestLogin" \in res THEN Loop(w, "apply") ELSE Stop(w)
    /\ UNCHANGED <<store, caches, req, counts, late>>

\* Mutant: an existing child is left as it is.
ApplyCreateOnly(w) ==
    LET c == ApplyOrder[pass[w].todo]
    IN  /\ At(w, "apply")
        /\ kv' = IF c = "kv" /\ ~kv.here THEN [kv EXCEPT !.here = TRUE, !.run = pass[w].snap.on] ELSE kv
        /\ res' = IF c = "kv" THEN res ELSE res \union {c}
        /\ IF pass[w].todo = Len(ApplyOrder) THEN Stop(w) ELSE Step(w, [pass[w] EXCEPT !.todo = @ + 1])
        /\ UNCHANGED <<crd, uids, sshKey, ciKey, nsTerm, caches, req, counts, late>>

\* Server-side apply: creates or overwrites, but nothing is created in a
\* terminating namespace.
Apply(w) ==
    LET c == ApplyOrder[pass[w].todo]
        new == ~Present(c)
    IN  /\ At(w, "apply")
        /\ \/ /\ new /\ nsTerm
              /\ Stop(w)
              /\ UNCHANGED <<kv, res, ciKey, late>>
           \/ /\ ~new \/ ~nsTerm
              /\ kv' = IF c = "kv" THEN [kv EXCEPT !.here = TRUE, !.run = pass[w].snap.on] ELSE kv
              /\ res' = IF c = "kv" THEN res ELSE res \union {c}
              /\ ciKey' = IF c = "cloudInit" THEN pass[w].key ELSE ciKey
              /\ late' = (late \/ (new /\ Overtaken(w)))
              /\ IF pass[w].todo = Len(ApplyOrder)
                 THEN Stop(w)
                 ELSE Step(w, [pass[w] EXCEPT !.todo = @ + 1,
                                           !.key = IF c = "cloudInit" THEN NoKey ELSE @])
        /\ UNCHANGED <<crd, uids, sshKey, nsTerm, caches, req, counts>>

(* Deletion, by intent (after = "delcrd") or by timestamp (after = "rmfin"). *)

\* Mutant: the pass does not wait for KubeVirt to remove the VM.
ExistsNoWait(w) ==
    /\ At(w, "exists")
    /\ Loop(w, IF kv.here THEN "delkv" ELSE "delowned")
    /\ UNCHANGED <<store, caches, req, counts, late>>

Exists(w) ==
    /\ At(w, "exists")
    /\ IF kv.here
       THEN Start(w, "delkv")
       ELSE Loop(w, "delowned")
    /\ UNCHANGED <<store, caches, req, counts, late>>

\* KubeVirt's own finalizers keep the object until KubeVirtRemoves.
DelKV(w) ==
    /\ At(w, "delkv")
    /\ kv' = [kv EXCEPT !.term = kv.here]
    /\ Loop(w, "delowned")
    /\ UNCHANGED <<crd, uids, res, sshKey, ciKey, nsTerm, caches, req, counts, late>>

\* Child c is deleted, with the key it held.
Without(c) ==
    /\ res' = res \ {c}
    /\ sshKey' = IF c = "sshKey" THEN NoKey ELSE sshKey
    /\ ciKey' = IF c = "cloudInit" THEN NoKey ELSE ciKey
    /\ gone' = IF c \in res THEN Lost(c) ELSE gone

\* Mutant: nothing done after the last child.
DelOwnedLast(w) ==
    IF pass[w].todo < Len(OwnedOrder)
    THEN Step(w, [pass[w] EXCEPT !.todo = @ + 1])
    ELSE Stop(w)

DelOwnedNext(w) ==
    IF pass[w].todo < Len(OwnedOrder)
    THEN Step(w, [pass[w] EXCEPT !.todo = @ + 1])
    ELSE IF pass[w].after = "idle" THEN Stop(w) ELSE Loop(w, pass[w].after)

DelOwned(w) ==
    /\ At(w, "delowned")
    /\ Without(OwnedOrder[pass[w].todo])
    /\ DelOwnedNext(w)
    /\ UNCHANGED <<crd, uids, kv, nsTerm, seen, req, counts, late>>

\* The finalizer list is replaced on whatever object has the name now.
RmFin(w) ==
    /\ At(w, "rmfin")
    /\ crd' = IF crd.uid = 0 \/ crd.term THEN NoCRD ELSE [crd EXCEPT !.fin = FALSE]
    /\ late' = (late \/ crd.uid \notin {0, pass[w].snap.uid})
    /\ Stop(w)
    /\ UNCHANGED <<uids, kv, res, sshKey, ciKey, nsTerm, caches, req, counts>>

DelCRD(w) ==
    /\ At(w, "delcrd")
    /\ crd' = DeletedCRD
    /\ Stop(w)
    /\ UNCHANGED <<uids, kv, res, sshKey, ciKey, nsTerm, caches, req, counts, late>>

PassStep(w) ==
    \/ OwnerGet(w) \/ Get(w) \/ Ns(w) \/ AddFin(w)
    \/ SshGet(w) \/ SshCreate(w) \/ GuestGet(w) \/ Apply(w)
    \/ Exists(w) \/ DelKV(w) \/ DelOwned(w) \/ RmFin(w) \/ DelCRD(w)

(* Failures: the handler logs the error and returns; nothing is requeued. *)

Fail(w) ==
    /\ ~At(w, "idle") /\ faults < MaxFaults
    /\ faults' = faults + 1
    /\ Stop(w)
    /\ UNCHANGED <<store, caches, req, updates, late>>

\* kite-controller restarts: handlers, caches and pending events are lost.
Restart ==
    /\ faults < MaxFaults
    /\ faults' = faults + 1
    /\ pass' = [w \in Informers |-> NoPass]
    /\ seen' = Intent(NoCRD) /\ gone' = {}
    /\ UNCHANGED <<store, req, updates, late>>

(***************************************************************************)
(* kite-api.                                                               *)
(***************************************************************************)
SetReq(r, q) == req' = [req EXCEPT ![r] = q]

\* A new CRD: the requested power state, no delete intent, no finalizer.
createRecord(on) == [NoCRD EXCEPT !.uid = uids + 1, !.on = on]

ApiCreate(r, on) ==
    /\ req[r].pc = "idle"
    /\ crd.uid = 0 /\ ~nsTerm /\ uids < MaxUid
    /\ crd' = createRecord(on)
    /\ uids' = uids + 1
    /\ SetReq(r, [NoReq EXCEPT !.pc = "created"])
    /\ UNCHANGED <<kv, res, sshKey, ciKey, nsTerm, caches, pass, counts, late>>

ApiGuestLogin(r) ==
    /\ req[r].pc = "created"
    /\ IF nsTerm \/ "guestLogin" \in res
       THEN SetReq(r, [NoReq EXCEPT !.pc = "rollback"]) /\ UNCHANGED res
       ELSE SetReq(r, NoReq) /\ res' = res \union {"guestLogin"}
    /\ UNCHANGED <<crd, uids, kv, sshKey, ciKey, nsTerm, caches, pass, counts, late>>

ApiRollback(r) ==
    /\ req[r].pc = "rollback"
    /\ crd' = DeletedCRD
    /\ SetReq(r, NoReq)
    /\ UNCHANGED <<uids, kv, res, sshKey, ciKey, nsTerm, caches, pass, counts, late>>

\* Update reads the CRD and changes its copy: the power state, the delete
\* intent, which no request clears, or another field that is not modelled ...
applyUpdate(on, del) ==
    /\ crd.del => del
    /\ on # crd.on => del = crd.del

ApiRead(r, on, del) ==
    /\ req[r].pc = "idle"
    /\ crd.uid # 0 /\ updates < MaxUpdates
    /\ applyUpdate(on, del)
    /\ updates' = updates + 1
    /\ SetReq(r, [pc |-> "loaded", on |-> on, del |-> del])
    /\ UNCHANGED <<store, caches, pass, faults, late>>

\* ... and write the whole spec over whatever the CRD says by then.
ApiWrite(r) ==
    /\ req[r].pc = "loaded"
    /\ crd' = IF crd.uid = 0 THEN crd ELSE [crd EXCEPT !.on = req[r].on, !.del = req[r].del]
    /\ SetReq(r, NoReq)
    /\ UNCHANGED <<uids, kv, res, sshKey, ciKey, nsTerm, caches, pass, counts, late>>

\* Deleting an account deletes the CRDs of its VMs without delete intent.
ApiHardDelete ==
    /\ crd.uid # 0 /\ ~crd.term
    /\ crd' = DeletedCRD
    /\ UNCHANGED <<uids, kv, res, sshKey, ciKey, nsTerm, caches, pass, req, counts, late>>

\* The request dies with kite-api, or its API call fails.
ApiFail(r) ==
    /\ req[r].pc # "idle" /\ faults < MaxFaults
    /\ faults' = faults + 1
    /\ SetReq(r, NoReq)
    /\ UNCHANGED <<store, caches, pass, updates, late>>

(***************************************************************************)
(* KubeVirt and the namespace controller.                                  *)
(***************************************************************************)
KubeVirtRemoves ==
    /\ kv.term
    /\ kv' = NoKV
    /\ gone' = Lost("kv")
    /\ UNCHANGED <<crd, uids, res, sshKey, ciKey, nsTerm, seen, pass, req, counts, late>>

NamespaceTerminate ==
    /\ NamespaceEnds /\ ~nsTerm
    /\ nsTerm' = TRUE
    /\ UNCHANGED <<crd, uids, kv, res, sshKey, ciKey, caches, pass, req, counts, late>>

NamespaceDeleteCRD ==
    /\ nsTerm /\ crd.uid # 0 /\ ~crd.term
    /\ crd' = DeletedCRD
    /\ UNCHANGED <<uids, kv, res, sshKey, ciKey, nsTerm, caches, pass, req, counts, late>>

NamespaceDeleteChild(c) ==
    /\ nsTerm /\ Present(c)
    /\ IF c = "kv"
       THEN ~kv.term /\ kv' = [kv EXCEPT !.term = TRUE] /\ UNCHANGED <<res, sshKey, ciKey, gone>>
       ELSE Without(c) /\ UNCHANGED kv
    /\ UNCHANGED <<crd, uids, nsTerm, seen, pass, req, counts, late>>

Next ==
    \/ VMEvent \/ VMDeleted
    \/ \E w \in Watchers : ChildEvent(w)
    \/ \E w \in Informers : PassStep(w) \/ Fail(w)
    \/ Restart
    \/ \E r \in Requests :
          \/ \E on \in BOOLEAN : ApiCreate(r, on)
          \/ ApiGuestLogin(r) \/ ApiRollback(r)
          \/ \E on, del \in BOOLEAN : ApiRead(r, on, del)
          \/ ApiWrite(r) \/ ApiFail(r)
    \/ ApiHardDelete
    \/ KubeVirtRemoves \/ NamespaceTerminate \/ NamespaceDeleteCRD
    \/ \E c \in Owned \union {"kv"} : NamespaceDeleteChild(c)

Spec == Init /\ [][Next]_vars

(***************************************************************************)
(* Fairness.  A handler that started takes its next call; a due event is   *)
(* delivered or repeated by the 30 s resync; KubeVirt finishes deletions   *)
(* and the namespace controller empties a terminating namespace.           *)
(***************************************************************************)
KVDue == "kv" \in gone \/ (kv.here /\ crd.on # kv.run)

Fairness ==
    /\ WF_vars(VMDue /\ VMEvent) /\ WF_vars(VMDeleted)
    /\ \A w \in Informers : WF_vars(PassStep(w))
    /\ WF_vars(KVDue /\ "kv" \in Watchers /\ ChildEvent("kv"))
    /\ \A r \in Requests : WF_vars(ApiGuestLogin(r) \/ ApiRollback(r) \/ ApiWrite(r))
    /\ WF_vars(KubeVirtRemoves)
    /\ WF_vars(NamespaceDeleteCRD)
    /\ \A c \in Owned \union {"kv"} : WF_vars(NamespaceDeleteChild(c))

FairSpec == Spec /\ Fairness

(***************************************************************************)
(* Safety.                                                                 *)
(***************************************************************************)
\* A child that kite-controller created never outlives the CRD or its
\* cleanup finalizer, unless a pass wrote for a CRD that had been deleted
\* since the pass read it: with the finalizer in place before the first
\* child and removed after the last, deletion cannot leak a child.
ChildrenProtected ==
    ~late => (kv.here \/ res \intersect Applied # {} => crd.uid # 0 /\ crd.fin)

\* The strengthening that makes ChildrenProtected inductive.
UidsBounded ==
    crd.uid <= uids /\ seen.uid <= uids /\ \A w \in Informers : pass[w].snap.uid <= uids

ApplyInRange == \A w \in Informers : At(w, "apply") => pass[w].todo <= Len(ApplyOrder)

CRDShape == (crd.fin => crd.uid # 0) /\ (crd.term => crd.fin)

\* The CRD a pass works for is still there.
Current(w) == crd.uid # 0 /\ pass[w].snap.uid = crd.uid

\* A pass for the current CRD creates children only under the finalizer,
\* and on its way to removing the finalizer finds no child it has deleted.
PassOK(w) ==
    /\ pass[w].pc \in {"idle", "owner", "get", "ns", "addfin", "delkv"} => pass[w].after = "idle"
    /\ pass[w].pc \in {"ns", "addfin"} \union Desired => pass[w].snap.uid # 0
    /\ Current(w) /\ pass[w].snap.term => crd.term
    /\ Current(w) /\ At(w, "ns") /\ pass[w].snap.fin => crd.fin \/ nsTerm
    /\ Current(w) /\ pass[w].pc \in Desired => crd.fin \/ nsTerm
    /\ Current(w) /\ pass[w].after = "rmfin" => crd.term \/ nsTerm
    /\ Current(w) /\ pass[w].after = "rmfin" /\ At(w, "delowned") =>
          ~kv.here /\ \A j \in 1..(pass[w].todo - 1) : OwnedOrder[j] \notin res \intersect Applied
    /\ At(w, "rmfin") => pass[w].after = "rmfin" /\ (Current(w) => ~kv.here /\ res \intersect Applied = {})

Inductive ==
    /\ TypeOK /\ ApplyInRange /\ UidsBounded /\ CRDShape /\ ChildrenProtected
    /\ ~late => \A w \in Informers : PassOK(w)

\* The key pair a pass takes from ensureKiteVirtualMachineSSHKeySecret, and
\* puts into cloud-init, is the one in the Secret that the gateway reads.
EnsuredKeyMatches ==
    [][\A w \in Informers : ~At(w, "guest") /\ pass'[w].pc = "guest" => pass'[w].key = sshKey']_vars

(***************************************************************************)
(* Liveness.                                                               *)
(***************************************************************************)
\* A VM with delete intent or a deletion timestamp goes away, unless a
\* concurrent spec update withdraws the intent.
DeletionCompletes ==
    \A u \in 1..MaxUid :
        (crd.uid = u /\ (crd.del \/ crd.term)) ~> (crd.uid # u \/ ~(crd.del \/ crd.term))

\* Deleting the namespace gets past the finalizer: the CRD and the KubeVirt
\* VM go, whatever handlers were doing when it began.
NamespaceDrains == nsTerm ~> (crd.uid = 0 /\ ~kv.here)

\* If the power intent settles on a VM that keeps its guest login, the
\* KubeVirt VM ends up with that intent, whatever stale passes wrote.
PowerConverges ==
    \A on \in BOOLEAN :
        <>[](crd.uid # 0 /\ crd.on = on /\ ~crd.del /\ ~crd.term /\ ~nsTerm /\ "guestLogin" \in res)
            => <>[](kv.here => kv.run = on)
=============================================================================
