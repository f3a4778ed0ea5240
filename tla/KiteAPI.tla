------------------------------ MODULE KiteAPI ------------------------------
(***************************************************************************)
(* kite-api on top of the KiteUser and KiteVirtualMachine CRDs: sign-up,   *)
(* login, user administration, user deletion, and the VM requests as far   *)
(* as they look at more than one VM (KiteVM has the life of one name).     *)
(* Requests run concurrently; an action is one call to the API server, and *)
(* between two calls a request works from what it read.                    *)
(*                                                                         *)
(* Left out: requests that only read, malformed input, the claim of an     *)
(* offer (KiteOffer) and the domain prefix, whose check repeats the one of *)
(* sshId.  What becomes of the Kubernetes namespaces themselves is         *)
(* KiteUserNamespace.                                                      *)
(***************************************************************************)
EXTENDS Naturals, FiniteSets

CONSTANTS
    Users, NoUser,        \* metadata.name of KiteUsers
    Namespaces, NoNamespace,   \* kite-user-n is called n, for the user n
    Usernames, NoName,
    Emails, NoEmail,
    VMs, NoVM,            \* KiteVirtualMachine CRDs
    SshIds, NoId,
    Reqs,                 \* one for every HTTP request
    Quota,                \* levelOneVMQuota
    Wanted,               \* bound: the access levels that requests ask for
    Seeds                 \* [user, vm] to start from

ASSUME APINoneAssumption ==
    /\ NoUser \notin Users /\ NoName \notin Usernames /\ NoEmail \notin Emails
    /\ NoVM \notin VMs /\ NoId \notin SshIds /\ NoNamespace \notin Namespaces
\* kiteUserNamespace
ASSUME NamespaceAssumption == Users \subseteq Namespaces
\* Objects of two kinds.
ASSUME KindsAssumption == Users \intersect VMs = {}
ASSUME QuotaAssumption == Quota \in Nat

VARIABLES
    user,      \* the KiteUser objects
    vm,        \* the KiteVirtualMachine objects
    req,       \* what each request has read and will do next
    overlap,   \* ghost: {q, r} for requests that were under way at once
    granted,   \* ghost: the levels an admin, or being first, gave a user, and the last one set
    origin     \* ghost: the request that created a user or a VM, or deleted the user

vars == <<user, vm, req, overlap, granted, origin>>

ReadOnly == 0
User == 1
Manager == 2
Admin == 3
Levels == ReadOnly..Admin

ASSUME WantedAssumption == Wanted \subseteq Levels

\* "legacy" is a password hash that PasswordNeedsRehash.  Ghosts: blame holds
\* the requests that brought the level, moved the one that brought the namespace.
UserSpecs == [username : Usernames \union {NoName}, email : Emails \union {NoEmail},
              level : Levels, hash : {"legacy", "bcrypt"},
              ns : Namespaces \union {NoNamespace}, blame : SUBSET Reqs]
UserObjects == [state : {"none", "live", "gone"}, rv : Nat, spec : UserSpecs, moved : SUBSET Reqs]
NoSpec == [username |-> NoName, email |-> NoEmail, level |-> ReadOnly, hash |-> "bcrypt",
           ns |-> NoNamespace, blame |-> {}]
Grants == [levels : SUBSET Levels, last : Levels, by : SUBSET Reqs]

\* Ghosts: blame holds the requests that brought the sshId, kept those that
\* created the VM or took back its delete intent; by is who created it, and
\* capped, that the quota was checked.
VMSpecs == [sshId : SshIds \union {NoId}, delete : BOOLEAN, blame : SUBSET Reqs]
VMObjects == [state : {"none", "live", "ending", "gone"}, ns : Namespaces \union {NoNamespace},
              spec : VMSpecs, by : Users \union {NoUser}, kept : SUBSET Reqs, capped : BOOLEAN]
NoVMSpec == [sshId |-> NoId, delete |-> FALSE, blame |-> {}]

Steps == {"idle", "done",
          "username", "email", "level", "create",
          "target", "get", "dupEmail", "rv", "write",
          "delGet", "delList", "delVMs", "delUser",
          "quota", "sshId", "createVM", "getVM", "sshIdVM", "writeVM"}

\* set: the field an update changes; want, spec, vmSpec: what is to be written.
Requests == [pc : Steps, caller : Users \union {NoUser}, on : Users \union {NoUser},
             ns : Namespaces \union {NoNamespace}, vm : VMs \union {NoVM},
             set : {"none", "level", "email", "password", "namespace", "sshId", "power", "delete"},
             want : Levels, spec : UserSpecs, rv : Nat,
             vmSpec : VMSpecs, capped : BOOLEAN, left : SUBSET VMs]
Idle == [pc |-> "idle", caller |-> NoUser, on |-> NoUser, ns |-> NoNamespace, vm |-> NoVM,
         set |-> "none", want |-> ReadOnly, spec |-> NoSpec, rv |-> 0,
         vmSpec |-> NoVMSpec, capped |-> FALSE, left |-> {}]

TypeOK ==
    /\ user \in [Users -> UserObjects]
    /\ vm \in [VMs -> VMObjects]
    /\ req \in [Reqs -> Requests]
    /\ overlap \subseteq SUBSET Reqs
    /\ granted \in [Users -> Grants]
    /\ origin \in [Users \union VMs -> SUBSET Reqs]

NoVMObject == [state |-> "none", ns |-> NoNamespace, spec |-> NoVMSpec, by |-> NoUser,
               kept |-> {}, capped |-> FALSE]

Live(n) == user[n].state = "live"
Listed(v) == vm[v].state \in {"live", "ending"}

\* The CRDs to start from: some users, and VMs of theirs, with nothing shared.
SeedOK(seed) ==
    /\ seed.user \in [Users -> UserObjects] /\ seed.vm \in [VMs -> VMObjects]
    /\ \A n, m \in Users : n # m /\ seed.user[n].state = "live" /\ seed.user[m].state = "live" =>
          /\ seed.user[n].spec.username # seed.user[m].spec.username
          /\ seed.user[n].spec.email # seed.user[m].spec.email
    /\ \A n \in Users : /\ seed.user[n].state \in {"none", "live"}
                        /\ seed.user[n].state = "none" => seed.user[n].spec = NoSpec
                        /\ seed.user[n].state = "live" => seed.user[n].spec.ns \in Namespaces
    /\ \A v \in VMs : /\ seed.vm[v].state \in {"none", "live"}
                      /\ seed.vm[v].spec.blame = {} /\ seed.vm[v].kept = {}
                      /\ seed.vm[v].state = "live" => /\ seed.vm[v].ns \in Namespaces
                                                      /\ seed.vm[v].by \in Users
                                                      /\ seed.user[seed.vm[v].by].state = "live"
    /\ \A v, w \in VMs : v # w /\ seed.vm[v].state = "live" /\ seed.vm[w].state = "live" =>
          seed.vm[v].spec.sshId # seed.vm[w].spec.sshId
    /\ IsFiniteSet({v \in VMs : seed.vm[v].state # "none"})
    /\ \A ns \in Namespaces :
          Cardinality({v \in VMs : seed.vm[v].state = "live" /\ seed.vm[v].ns = ns /\ seed.vm[v].capped}) <= Quota

ASSUME SeedsAssumption == \A seed \in Seeds : SeedOK(seed)

Init ==
    /\ \E seed \in Seeds : user = seed.user /\ vm = seed.vm
    /\ req = [r \in Reqs |-> Idle]
    /\ overlap = {}
    /\ granted = [n \in Users |-> [levels |-> {user[n].spec.level}, last |-> user[n].spec.level, by |-> {}]]
    /\ origin = [o \in Users \union VMs |-> {}]

(***************************************************************************)
(* A request starts in its handler.                                        *)
(***************************************************************************)
UnderWay == {q \in Reqs : req[q].pc \notin {"idle", "done"}}

Begin(r, first) ==
    /\ req[r].pc = "idle"
    /\ req' = [req EXCEPT ![r] = first]
    /\ overlap' = overlap \union {{q, r} : q \in UnderWay}

To(r, next) == req' = [req EXCEPT ![r] = next]
Goto(r, label) == To(r, [req[r] EXCEPT !.pc = label])
\* The answer, good or bad, ends the request.
Answered == [Idle EXCEPT !.pc = "done"]
Answer(r) == To(r, Answered)

\* FindByUsername takes the first match of a list in the order of the names.
FindByUsername(x) == {n \in Users : Live(n) /\ user[n].spec.username = x}
FindByEmail(e) == {n \in Users : Live(n) /\ user[n].spec.email = e}

\* RequireAccessLevel, and currentUser in the VM handlers: the token only
\* says who calls; the level is the one the KiteUser has now.  Of a name that
\* two users have, it is either's.
Authorized(n, minimum) == Live(n) /\ user[n].spec.level >= minimum

\* Names are generated, so a caller can only name a user that was listed.
Known(n) == user[n].state # "none"

(***************************************************************************)
(* Sign-up.                                                                *)
(***************************************************************************)
SignUp(r, x, e) ==
    /\ Begin(r, [Idle EXCEPT !.pc = "username",
                             !.spec = [NoSpec EXCEPT !.username = x, !.email = e]])
    /\ UNCHANGED <<user, vm, granted, origin>>

\* Mutant: the answer of the search is not looked at.
CheckUsernameIgnored(r) ==
    /\ req[r].pc = "username"
    /\ Goto(r, "email")
    /\ UNCHANGED <<user, vm, overlap, granted, origin>>

CheckUsername(r) ==
    /\ req[r].pc = "username"
    /\ IF FindByUsername(req[r].spec.username) = {} THEN Goto(r, "email") ELSE Answer(r)
    /\ UNCHANGED <<user, vm, overlap, granted, origin>>

CheckEmail(r) ==
    /\ req[r].pc = "email"
    /\ IF FindByEmail(req[r].spec.email) = {} THEN Goto(r, "level") ELSE Answer(r)
    /\ UNCHANGED <<user, vm, overlap, granted, origin>>

\* Mutant: whoever comes when there is no administrator becomes one.
AccessLevelWithoutAdmin ==
    IF \A n \in Users : Live(n) => user[n].spec.level # Admin THEN Admin ELSE ReadOnly

\* accessLevelForNewUser: the first one is the administrator.
AccessLevelForNewUser == IF \A n \in Users : ~Live(n) THEN Admin ELSE ReadOnly

CheckLevel(r) ==
    /\ req[r].pc = "level"
    /\ To(r, [req[r] EXCEPT !.pc = "create", !.spec.level = AccessLevelForNewUser])
    /\ UNCHANGED <<user, vm, overlap, granted, origin>>

CreateUser(r, n) ==
    /\ req[r].pc = "create" /\ user[n].state = "none"
    /\ user' = [user EXCEPT ![n] = [state |-> "live", rv |-> 0,
                                    spec |-> [req[r].spec EXCEPT !.ns = n], moved |-> {r}]]
    /\ granted' = [granted EXCEPT ![n] = [levels |-> {req[r].spec.level}, last |-> req[r].spec.level,
                                          by |-> {r}]]
    /\ origin' = [origin EXCEPT ![n] = {r}]
    /\ Answer(r)
    /\ UNCHANGED <<vm, overlap>>

(***************************************************************************)
(* Login.  Only the rehash of a legacy password writes.                    *)
(***************************************************************************)
Login(r, n) ==
    /\ Live(n) /\ user[n].spec.hash = "legacy"
    /\ Begin(r, [Idle EXCEPT !.pc = "rv", !.on = n,
                             !.spec = [user[n].spec EXCEPT !.hash = "bcrypt"]])
    /\ UNCHANGED <<user, vm, granted, origin>>

(***************************************************************************)
(* PATCH /users/:name of an admin, and the access level route, which       *)
(* managers may use within bounds.                                         *)
(***************************************************************************)
PatchUser(r, caller, n, set, e, ns) ==
    /\ Authorized(caller, Admin) /\ Known(n) /\ set \in {"email", "password", "namespace"}
    /\ Begin(r, [Idle EXCEPT !.pc = "get", !.on = n, !.set = set,
                             !.ns = IF set = "namespace" THEN ns ELSE NoNamespace,
                             !.spec = [NoSpec EXCEPT !.email = IF set = "email" THEN e ELSE NoEmail]])
    /\ UNCHANGED <<user, vm, granted, origin>>

\* Mutant: what a manager may ask for is not bounded.
ManagerMayAskAnything(want) == TRUE

\* Level 2 managers can only assign access levels 0 or 1.
ManagerMayAsk(want) == want <= User

\* canCurrentUserChangeAccessLevel: the target's level is only read for managers.
SetAccessLevel(r, caller, n, want) ==
    /\ Authorized(caller, Manager) /\ Known(n)
    /\ Authorized(caller, Admin) \/ ManagerMayAsk(want)
    /\ Begin(r, [Idle EXCEPT !.pc = IF Authorized(caller, Admin) THEN "get" ELSE "target",
                             !.on = n, !.set = "level", !.want = want])
    /\ granted' = IF Authorized(caller, Admin)
                  THEN [granted EXCEPT ![n].levels = @ \union {want}] ELSE granted
    /\ UNCHANGED <<user, vm, origin>>

CheckTarget(r) ==
    LET n == req[r].on
    IN  /\ req[r].pc = "target"
        /\ IF Live(n) /\ user[n].spec.level <= User THEN Goto(r, "get") ELSE Answer(r)
        /\ UNCHANGED <<user, vm, overlap, granted, origin>>

\* applyUpdate on the copy that Update has read.
Applied(r, spec) ==
    CASE req[r].set = "level" -> [spec EXCEPT !.level = req[r].want]
      [] req[r].set = "email" -> [spec EXCEPT !.email = req[r].spec.email]
      [] req[r].set = "namespace" -> [spec EXCEPT !.ns = req[r].ns]
      [] OTHER -> [spec EXCEPT !.hash = "bcrypt"]

UpdateGet(r) ==
    LET n == req[r].on
    IN  /\ req[r].pc = "get"
        /\ IF Live(n)
           THEN To(r, [Idle EXCEPT !.pc = IF req[r].set = "email" THEN "dupEmail" ELSE "rv",
                                   !.on = n, !.set = IF req[r].set = "level" THEN "level" ELSE "none",
                                   !.spec = Applied(r, user[n].spec)])
           ELSE Answer(r)
        /\ UNCHANGED <<user, vm, overlap, granted, origin>>

RejectDuplicateEmail(r) ==
    /\ req[r].pc = "dupEmail"
    /\ IF FindByEmail(req[r].spec.email) \subseteq {req[r].on} THEN Goto(r, "rv") ELSE Answer(r)
    /\ UNCHANGED <<user, vm, overlap, granted, origin>>

\* UserStore.Update reads the object again, for its resource version only ...
UpdateRv(r) ==
    LET n == req[r].on
    IN  /\ req[r].pc = "rv"
        /\ IF Live(n) THEN To(r, [req[r] EXCEPT !.pc = "write", !.rv = user[n].rv]) ELSE Answer(r)
        /\ UNCHANGED <<user, vm, overlap, granted, origin>>

\* Who brought the level, and the namespace, that a write leaves.
LevelBlame(r, n) == IF user[n].spec.level = req[r].spec.level THEN user[n].spec.blame
                    ELSE req[r].spec.blame \union {r}
MovedBy(r, n) == IF user[n].spec.ns = req[r].spec.ns THEN user[n].moved ELSE {r}

\* ... and writes the whole spec of the first read.
UpdateWrite(r) ==
    LET n == req[r].on
        written == Live(n) /\ user[n].rv = req[r].rv
    IN  /\ req[r].pc = "write"
        /\ user' = IF written
                   THEN [user EXCEPT ![n].spec = [req[r].spec EXCEPT !.blame = LevelBlame(r, n)],
                                     ![n].rv = @ + 1, ![n].moved = MovedBy(r, n)]
                   ELSE user
        /\ granted' = IF written /\ req[r].set = "level"
                      THEN [granted EXCEPT ![n].last = req[r].spec.level, ![n].by = {r}]
                      ELSE granted
        /\ Answer(r)
        /\ UNCHANGED <<vm, overlap, origin>>

(***************************************************************************)
(* Deletion of a user, with the VMs in the namespace that spec.namespace   *)
(* says at the time.                                                       *)
(***************************************************************************)
DeleteUser(r, caller, n) ==
    /\ Authorized(caller, Admin) /\ Known(n)
    /\ Begin(r, [Idle EXCEPT !.pc = "delGet", !.on = n])
    /\ UNCHANGED <<user, vm, granted, origin>>

DeleteGet(r) ==
    /\ req[r].pc = "delGet"
    /\ IF Live(req[r].on)
       THEN To(r, [req[r] EXCEPT !.pc = "delList", !.ns = user[req[r].on].spec.ns]) ELSE Answer(r)
    /\ UNCHANGED <<user, vm, overlap, granted, origin>>

\* Mutant: VMs that a delete intent marks are left to the controller.
VMsInActive(ns) == {v \in VMs : vm[v].state = "live" /\ vm[v].ns = ns /\ ~vm[v].spec.delete}

VMsIn(ns) == {v \in VMs : Listed(v) /\ vm[v].ns = ns}

DeleteList(r) ==
    /\ req[r].pc = "delList"
    /\ To(r, [req[r] EXCEPT !.pc = "delVMs", !.left = VMsIn(req[r].ns)])
    /\ UNCHANGED <<user, vm, overlap, granted, origin>>

\* The finalizer keeps the object until the controller has cleaned up.
DeleteVM(r, v) ==
    /\ req[r].pc = "delVMs" /\ v \in req[r].left
    /\ vm' = IF vm[v].state = "live" THEN [vm EXCEPT ![v].state = "ending"] ELSE vm
    /\ To(r, [req[r] EXCEPT !.left = @ \ {v}])
    /\ UNCHANGED <<user, overlap, granted, origin>>

DeleteVMsDone(r) ==
    /\ req[r].pc = "delVMs" /\ req[r].left = {}
    /\ Goto(r, "delUser")
    /\ UNCHANGED <<user, vm, overlap, granted, origin>>

RemoveUser(r) ==
    LET n == req[r].on
    IN  /\ req[r].pc = "delUser"
        /\ IF Live(n) THEN /\ user' = [user EXCEPT ![n].state = "gone"]
                           /\ origin' = [origin EXCEPT ![n] = {r}]
                      ELSE UNCHANGED <<user, origin>>
        /\ Answer(r)
        /\ UNCHANGED <<vm, overlap, granted>>

(***************************************************************************)
(* VM requests.                                                            *)
(***************************************************************************)
\* canMutateOwnVM; only level 1 has a quota.
CreateVM(r, caller, s) ==
    /\ Authorized(caller, User)
    /\ LET capped == user[caller].spec.level = User
       IN  Begin(r, [Idle EXCEPT !.pc = IF capped THEN "quota" ELSE "sshId", !.caller = caller,
                                 !.ns = user[caller].spec.ns, !.capped = capped,
                                 !.vmSpec = [NoVMSpec EXCEPT !.sshId = s, !.blame = {r}]])
    /\ UNCHANGED <<user, vm, granted, origin>>

Active(v) == Listed(v) /\ ~vm[v].spec.delete

\* Mutant: one more than the quota.
UnderQuotaOffByOne(ns) == Cardinality({v \in VMsIn(ns) : Active(v)}) <= Quota

\* activeVMCount: a VM with a delete intent does not count.
UnderQuota(ns) == Cardinality({v \in VMsIn(ns) : Active(v)}) < Quota

CheckQuota(r) ==
    /\ req[r].pc = "quota"
    /\ IF UnderQuota(req[r].ns) THEN Goto(r, "sshId") ELSE Answer(r)
    /\ UNCHANGED <<user, vm, overlap, granted, origin>>

\* Mutant: a VM that is to be deleted does not hold its sshId any more.
UniqueSSHIDAmongActive(s, self) == \A v \in VMs \ {self} : Active(v) => vm[v].spec.sshId # s

UniqueSSHID(s, self) == \A v \in VMs \ {self} : Listed(v) => vm[v].spec.sshId # s

CheckSSHID(r) ==
    /\ req[r].pc \in {"sshId", "sshIdVM"}
    /\ IF UniqueSSHID(req[r].vmSpec.sshId, req[r].vm)
       THEN Goto(r, IF req[r].pc = "sshId" THEN "createVM" ELSE "writeVM")
       ELSE Answer(r)
    /\ UNCHANGED <<user, vm, overlap, granted, origin>>

\* A name that is taken, which only a caller's own choice can be, ends the
\* request as any failed call does.
StoreVM(r, v) ==
    /\ req[r].pc = "createVM" /\ vm[v].state = "none"
    /\ vm' = [vm EXCEPT ![v] = [state |-> "live", ns |-> req[r].ns, spec |-> req[r].vmSpec,
                                by |-> req[r].caller, kept |-> {r}, capped |-> req[r].capped]]
    /\ origin' = [origin EXCEPT ![v] = {r}]
    /\ Answer(r)
    /\ UNCHANGED <<user, overlap, granted>>

\* PATCH, start and stop, and the delete intent, of the owner or, with the
\* namespace in the path, of an admin.  Only a PATCH changes the sshId.
UpdateVM(r, caller, v, set, s) ==
    /\ set \in {"sshId", "power", "delete"}
    /\ \/ vm[v].ns = user[caller].spec.ns /\ Authorized(caller, IF set = "sshId" THEN User ELSE ReadOnly)
       \/ set # "sshId" /\ Authorized(caller, Admin)
    /\ Begin(r, [Idle EXCEPT !.pc = "getVM", !.vm = v, !.set = set,
                             !.vmSpec = [NoVMSpec EXCEPT !.sshId = IF set = "sshId" THEN s ELSE NoId]])
    /\ UNCHANGED <<user, vm, granted, origin>>

UpdateVMGet(r) ==
    LET v == req[r].vm
        set == req[r].set
    IN  /\ req[r].pc = "getVM"
        /\ IF Listed(v)
           THEN To(r, [Idle EXCEPT
                    !.pc = IF set = "sshId" THEN "sshIdVM" ELSE "writeVM", !.vm = v,
                    !.vmSpec = [sshId |-> IF set = "sshId" THEN req[r].vmSpec.sshId ELSE vm[v].spec.sshId,
                                delete |-> set = "delete" \/ vm[v].spec.delete,
                                blame |-> IF set = "sshId" THEN {r} ELSE vm[v].spec.blame]])
           ELSE Answer(r)
        /\ UNCHANGED <<user, vm, overlap, granted, origin>>

\* VirtualMachineStore.Update retries conflicts, so the spec of the earlier
\* read lands on whatever the object is by now.
UpdateVMWrite(r) ==
    LET v == req[r].vm
        kept == vm[v].spec.sshId = req[r].vmSpec.sshId
        blame == IF kept THEN vm[v].spec.blame ELSE req[r].vmSpec.blame \union {r}
    IN  /\ req[r].pc = "writeVM"
        /\ vm' = IF Listed(v)
                 THEN [vm EXCEPT ![v].spec = [req[r].vmSpec EXCEPT !.blame = blame],
                                 ![v].kept = IF vm[v].spec.delete /\ ~req[r].vmSpec.delete
                                             THEN @ \union {r} ELSE @]
                 ELSE vm
        /\ Answer(r)
        /\ UNCHANGED <<user, overlap, granted, origin>>

\* kite-controller turns a delete intent into a deletion, and finishes it.
ControllerDelete(v) ==
    /\ vm[v].state = "live" /\ vm[v].spec.delete
    /\ vm' = [vm EXCEPT ![v].state = "ending"]
    /\ UNCHANGED <<user, req, overlap, granted, origin>>

ControllerRemove(v) ==
    /\ vm[v].state = "ending"
    /\ vm' = [vm EXCEPT ![v].state = "gone"]
    /\ UNCHANGED <<user, req, overlap, granted, origin>>

\* A call fails, or kite-api dies: nothing that was written is taken back.
Fail(r) ==
    /\ req[r].pc \notin {"idle", "done"}
    /\ Answer(r)
    /\ UNCHANGED <<user, vm, overlap, granted, origin>>

Start(r) ==
    \/ \E x \in Usernames, e \in Emails : SignUp(r, x, e)
    \/ \E n \in Users : Login(r, n)
    \/ \E caller, n \in Users :
          \/ \E e \in Emails, ns \in Namespaces, set \in {"email", "password", "namespace"} :
                PatchUser(r, caller, n, set, e, ns)
          \/ \E want \in Wanted : SetAccessLevel(r, caller, n, want)
          \/ DeleteUser(r, caller, n)
    \/ \E caller \in Users, s \in SshIds :
          \/ CreateVM(r, caller, s)
          \/ \E v \in VMs, set \in {"sshId", "power", "delete"} : UpdateVM(r, caller, v, set, s)

Step(r) ==
    \/ CheckUsername(r) \/ CheckEmail(r) \/ CheckLevel(r) \/ \E n \in Users : CreateUser(r, n)
    \/ CheckTarget(r) \/ UpdateGet(r) \/ RejectDuplicateEmail(r) \/ UpdateRv(r) \/ UpdateWrite(r)
    \/ DeleteGet(r) \/ DeleteList(r) \/ \E v \in VMs : DeleteVM(r, v)
    \/ DeleteVMsDone(r) \/ RemoveUser(r)
    \/ CheckQuota(r) \/ CheckSSHID(r) \/ \E v \in VMs : StoreVM(r, v)
    \/ UpdateVMGet(r) \/ UpdateVMWrite(r)
    \/ Fail(r)

Next ==
    \/ \E r \in Reqs : Start(r) \/ Step(r)
    \/ \E v \in VMs : ControllerDelete(v) \/ ControllerRemove(v)

Spec == Init /\ [][Next]_vars

(***************************************************************************)
(* Properties.                                                             *)
(***************************************************************************)
\* Requests of the two sets that were under way at the same time.
Overlapped(A, B) == \E a \in A, b \in B : a = b \/ {a, b} \in overlap

\* Whatever stale specs are written over whatever changes, nobody has a level
\* above 1 that no admin gave them and that they did not get as first user,
\* and a level other than the one set last came back by requests that
\* overlapped the one that set it (UserStore.Update writes the whole spec).
LevelsGranted ==
    \A n \in Users :
        /\ user[n].spec.level > User => user[n].spec.level \in granted[n].levels
        /\ user[n].spec.level # granted[n].last => Overlapped(user[n].spec.blame, granted[n].by)

\* Two accounts have the same username only if their sign-ups overlapped:
\* newSignUpRecord checks in calls of their own, before the create.
SignUpsUnique ==
    \A n, m \in Users : n # m /\ Live(n) /\ Live(m) =>
        \/ user[n].spec.username # user[m].spec.username
        \/ Overlapped(origin[n], origin[m])

\* A sign-up makes an administrator beside other users only if it overlapped
\* the sign-up of every one of them (accessLevelForNewUser counts earlier).
FirstIsAdmin ==
    [][\A n \in Users : ~Live(n) /\ Live(n)' /\ user'[n].spec.level = Admin =>
         \A m \in Users : Live(m) => Overlapped(origin'[n], origin[m])]_vars

\* Two VMs have the same sshId only if requests that brought it there
\* overlapped, be it by a create, a change or a stale write.
SshIdsUnique ==
    \A v, w \in VMs : v # w /\ Listed(v) /\ Listed(w) /\ vm[v].spec.sshId = vm[w].spec.sshId =>
        Overlapped(vm[v].spec.blame, vm[w].spec.blame)

\* The VMs that were created under the quota and count for it.
Capped(ns) == {v \in VMsIn(ns) : Active(v) /\ vm[v].capped}

\* More active VMs than the quota allows are in a namespace only if requests
\* overlapped that created two of them, or took back their delete intents.  A
\* VM with a delete intent does not count (activeVMCount skips it, though the
\* frontend's architecture.md has it consume the quota until it is removed).
QuotaHeld ==
    \A ns \in Namespaces : \/ Cardinality(Capped(ns)) <= Quota
                           \/ \E v, w \in Capped(ns) : v # w /\ Overlapped(vm[v].kept, vm[w].kept)

\* A VM that is in the namespace its owner had last outlives the owner only if
\* the deletion of the owner overlapped the VM's create, or the change of the
\* namespace.  (Service.Delete sweeps spec.namespace as it read it: VMs in a
\* namespace that a PATCH took the owner out of before are not swept.)
SweptWithUser ==
    \A v \in VMs : LET n == vm[v].by
                    IN  vm[v].state = "live" /\ user[n].state = "gone" /\ vm[v].ns = user[n].spec.ns =>
                          Overlapped(origin[v] \union user[n].moved, origin[n])

(***************************************************************************)
(* Why they hold: an invariant that the steps keep.  q is what the request *)
(* r has read and will do.                                                 *)
(***************************************************************************)
Deleting == {"delGet", "delList", "delVMs", "delUser"}

\* What is to be written to a KiteUser is of this user, no level in it is one
\* that the user was not given, and one that was replaced since was read by a
\* request that overlapped the replacement.
UpdateHolds(r, q) ==
    /\ q.pc \in {"target", "get", "dupEmail", "rv", "write"} => q.on \in Users /\ Known(q.on)
    /\ q.pc = "target" => q.set = "level" /\ q.want <= User
    /\ q.pc = "get" /\ q.set = "namespace" => q.ns \in Namespaces
    /\ q.pc = "get" /\ q.set = "level" /\ q.want > User => q.want \in granted[q.on].levels
    /\ q.pc \in {"dupEmail", "rv", "write"} =>
          /\ q.spec.username = user[q.on].spec.username /\ q.spec.ns \in Namespaces
          /\ q.spec.level > User => q.spec.level \in granted[q.on].levels
          /\ q.set # "level" /\ q.spec.level # granted[q.on].last =>
                Overlapped(q.spec.blame \union {r}, granted[q.on].by)

\* Who has the name since it was checked, signed up at the same time.
SignUpHolds(r, q) ==
    /\ q.pc \in {"email", "level", "create"} =>
          \A m \in FindByUsername(q.spec.username) : Overlapped({r}, origin[m])
    /\ q.pc = "create" /\ q.spec.level = Admin => \A m \in Users : Live(m) => Overlapped({r}, origin[m])

\* A VM that was not in the list was created at the same time, and a namespace
\* that is not the one that was read was written at the same time.
SweepHolds(r, q) ==
    /\ q.pc \in Deleting => q.on \in Users
    /\ q.pc \in Deleting \ {"delGet"} /\ Live(q.on) =>
          q.ns = user[q.on].spec.ns \/ Overlapped({r}, user[q.on].moved)
    /\ q.pc \in {"delVMs", "delUser"} =>
          \A v \in VMs : vm[v].state = "live" /\ vm[v].ns = q.ns => v \in q.left \/ Overlapped({r}, origin[v])
    /\ q.pc = "delUser" => q.left = {}

\* The VMs that are counted for a quota and that r's check cannot have missed.
Counted(r, ns) == {v \in Capped(ns) : ~Overlapped({r}, vm[v].kept)}

\* VMs of which no two were created, or got back, at once.
Apart(some) == \A v, w \in some : v # w => ~Overlapped(vm[v].kept, vm[w].kept)

CreateHolds(r, q) ==
    /\ q.pc \in {"quota", "sshId", "createVM"} =>
          /\ q.vm = NoVM /\ q.vmSpec.blame = {r} /\ ~q.vmSpec.delete
          /\ q.caller \in Users /\ q.ns \in Namespaces
          /\ user[q.caller].state = "gone" => Overlapped({r}, origin[q.caller])
    /\ q.pc = "createVM" =>
          \A w \in VMs : Listed(w) /\ vm[w].spec.sshId = q.vmSpec.sshId => Overlapped({r}, vm[w].spec.blame)
    /\ q.pc \in {"sshId", "createVM"} /\ q.capped => Cardinality(Counted(r, q.ns)) < Quota

\* An sshId that is written back was unique when it was read, and a VM that is
\* written back without a delete intent was within the quota.
ChangeHolds(r, q) ==
    /\ q.pc \in {"getVM", "sshIdVM", "writeVM"} => q.vm \in VMs
    /\ q.pc \in {"sshIdVM", "writeVM"} /\ ~q.vmSpec.delete =>
          /\ vm[q.vm].state # "none"
          /\ vm[q.vm].capped =>
                \A some \in SUBSET (Counted(r, vm[q.vm].ns) \union {q.vm}) :
                   Apart(some) => Cardinality(some) <= Quota
    /\ q.pc = "writeVM" =>
          \A w \in VMs \ {q.vm} : Listed(w) /\ vm[w].spec.sshId = q.vmSpec.sshId =>
             Overlapped(q.vmSpec.blame \union {r}, vm[w].spec.blame)

RequestHolds(r, q) ==
    UpdateHolds(r, q) /\ SignUpHolds(r, q) /\ SweepHolds(r, q) /\ CreateHolds(r, q) /\ ChangeHolds(r, q)

Meet == \A q, r \in UnderWay : q # r => {q, r} \in overlap

QuotaKept ==
    \A ns \in Namespaces : \A some \in SUBSET Capped(ns) : Apart(some) => Cardinality(some) <= Quota

VMsHold ==
    /\ IsFiniteSet({v \in VMs : vm[v].state # "none"})
    /\ \A v \in VMs : vm[v].state # "none" =>
          vm[v].ns \in Namespaces /\ vm[v].by \in Users

NamespacesHold == \A n \in Users : Known(n) => user[n].spec.ns \in Namespaces

\* The inductive invariant: what a request has read since it began is still
\* true, but for what requests did that overlapped it.
Inductive ==
    /\ TypeOK /\ Meet /\ VMsHold /\ NamespacesHold
    /\ \A r \in Reqs : RequestHolds(r, req[r])
    /\ LevelsGranted /\ SignUpsUnique /\ SshIdsUnique /\ QuotaKept /\ SweptWithUser
=============================================================================
