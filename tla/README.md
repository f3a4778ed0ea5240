# Kite Virtual Machines: TLA+ specifications

Kite runs virtual machines for the users of a Kubernetes cluster. Nothing in it
holds state but the API server: `kite-api` writes custom resources
(`KiteUser`, `KiteVirtualMachine`, `KiteVirtualMachineOffer`) and the runtime
settings, `kite-controller`
turns them into namespaces, KubeVirt VMs, disks, Secrets, Services and Ingresses,
and `kite-gateway` proxies SSH to the VMs. Processes meet only in those objects,
so the questions worth asking are about interleavings of API calls: what happens
when two handlers, each a sequence of gets and writes, work on the same object.

All paths below are relative to `src/kite/`.

## Inventory

| Component | State | Operations | What makes it correct |
|---|---|---|---|
| KiteVirtualMachine reconciler (`cmd/kite-controller/apps/machine-reconcile.go`, `kubevirt-status-reconcile.go`, `vm-service-reconcile.go`, `data-volume-reconcile.go`) | the CRD's finalizer, the KubeVirt VM, DataVolume, Services, Ingress, SSH key and cloud-init Secrets; informer caches | a reconcile pass (desired state, delete intent, deletion timestamp, terminating namespace), started by four informers; the CRD's delete event | children never outlive the finalizer; deletion ends; the KubeVirt VM follows the power intent; one SSH key pair |
| VM API (`internal/vm/service.go`, `internal/store/virtual_machine.go`, `cmd/kite-api/apis/vm*.go`) | the CRD's spec, the guest login Secret | create with roll-back, update, power, delete intent, hard delete | an update of one field keeps the others; unique sshId and domainPrefix; quota of level 1 users |
| VM status (same files, status subresource) | phase, power state, observedGeneration, conditions, DataVolume progress | merge of what three informers see | a stable phase is not overwritten by provisioning; a new generation is noticed |
| VM offers (`internal/offer`, `internal/store/vm_offer.go`, `vm-offer-cleanup.go`) | offer objects with phase, claimant and expiry | create, claim, delete, hourly cleanup | an offer yields at most one VM; offers go away |
| Accounts (`internal/account`, `cmd/kite-api/apis/user.go`, `admin.go`) | KiteUser specs | sign-up, update, rehash at login, access levels, delete | unique names and emails; one first administrator; a deleted user leaves no VM |
| KiteUser and namespace reconcilers (`user-reconcile.go`, `namespace-reconcile.go`, `user-base-resource-reconcile.go`) | namespaces, network policies, KiteUser status | apply, garbage-collect, restore | a referenced namespace exists, an unreferenced one does not |
| SSH gateway (`internal/gateway`) | route table, connections | rebuild, authenticate, dial, proxy | a connection reaches the VM whose password was checked; ambiguous names are refused |
| Gateway exposure and platform ingress (`gateway-exposure-reconcile.go`, `platform-ingress-reconcile.go`, `internal/platform`) | the external Service, its status ConfigMap, two Ingresses, a Middleware, the certificate Secret | two reconcilers with three passes each; admin requests for domain, HTTPS, certificate and SSH gateway | the objects converge to the settings; HTTPS is not forced without a certificate |
| Runtime configuration (`internal/config`, `internal/platform/settings.go`) | ConfigMap `kite-runtime-config`, Secret `kite-runtime-secret` | bootstrap and migration at every start, load, settings update, secret rotation | no setting is lost; salt and JWT secret change only by rotation |
| VM console (`cmd/kite-api/apis/console_*.go`) | none that outlives a socket: a ticket is a signed value | issue, verify, bridge | both sockets close together |

Also in the repository and out of scope: password hashing, JWTs and key
generation (stateless), renderers (pure templates),
client wiring and health probes, the abandoned gRPC stub, the web frontend and
the build and deploy scripts.

### How the parts interact, and what is hard

* `cmd/kite-controller/main.go` starts ten goroutines. Each informer runs its
  handlers one at a time, but the informers of KiteVirtualMachines, KubeVirt
  VMs, Services and DataVolumes all call `ReconcileKiteVirtualMachine`, so up to
  four passes for one VM interleave call by call. There is no lock per VM.
* There is no work queue. A handler that fails logs the error; the next event,
  or the 30 s resync, is the only retry.
* A pass reads the CRD once and then makes up to ten calls with that snapshot.
  Objects are addressed by name: a call meant for one incarnation of a VM hits
  the next one if the name is in use again.
* `kite-api` requests are concurrent. `Update` writes the whole spec of the copy
  it read earlier; uniqueness and quota are checks before a separate write.
* The API server turns the delete of an object with finalizers into a mark, a
  terminating namespace refuses creates, and KubeVirt removes a deleted VM some
  time later: the reconciler has to wait without blocking.
* Four watchers write one status: each decides what to write from an earlier
  read and merges it into the status it finds, under a rule that depends on an
  observedGeneration the others move as well.
* Three more informers (KiteUsers, Namespaces, NetworkPolicies) all call
  `ReconcileKiteUser`. The KiteUser informer passes the object of the event, the
  other two one that they have just listed, so an older spec may be reconciled
  after, or beside, a newer one.
* Accounts have no transactions either: who is first, whether a name is free and
  whether a caller may do something is read in one call and used in another.
* Several `kite-api` processes bootstrap the same ConfigMap and Secret, move
  secrets between them and are killed on the way, while requests rewrite the
  ConfigMap as a whole.
* The gateway's route table is replaced by two goroutines, each from a snapshot;
  a connection looks it up twice, before and after the password.
* Processes restart and calls fail between any two steps.

`PROJECT.json` lists these hazards one by one with their lines and properties.

## Modules

| Module | What it is |
|---|---|
| `KiteVM` | one VM name: its CRD, its children, the passes of every informer, the requests of `kite-api`, KubeVirt and the namespace controller |
| `KiteVM_proofs` | its type invariant, its inductive invariant and `ChildrenProtected`, proved |
| `OfferLedger` | what offers promise: an offer is spent once |
| `KiteOffer` | offers, concurrent claims, admin delete and cleanup |
| `KiteOffer_proofs` | its inductive invariant, one VM per offer, and that it implements `OfferLedger`, proved |
| `KiteUserNamespace` | KiteUsers, namespaces and network policies; three informers, `kite-api`, an operator and the namespace controller |
| `KiteUserNamespace_proofs` | its inductive invariant, `ForeignUntouched` and `ReferencedKept`, proved |
| `KiteAPI`, `KiteAPI_proofs` | concurrent account and VM requests of `kite-api`, across users and VMs; all its properties, proved |
| `KiteGateway`, `KiteGateway_proofs` | route table, its two writers, and SSH connections up to the proxy; `ConnectedToOwner` and `WholeTables`, proved |
| `KiteConfig`, `KiteConfig_proofs` | bootstrap, migration, updates and rotation of the runtime configuration; all its safety properties, proved |
| `KitePlatform`, `KitePlatform_proofs` | what the controller makes of the settings, and the admin requests; its safety properties, proved |
| `KiteVMStatus`, `KiteVMStatus_proofs` | the status of one VM as four watchers merge it; that stable phases are kept, proved |
| `MC<module>`, `MC<module>*.cfg` | an instance of each for TLC |

### KiteVM

One action is one call to the API server. `pass[w]` is the handler that
informer `w` is running: `pc` is its next call, `snap` the CRD it read, `todo`
its place in the loop over children, `after` what follows that loop (nothing,
`RmFin`, or `DelCRD`). `req[r]` is the same for a request of `kite-api`.

| Code | Actions |
|---|---|
| events of the CRD: `RegisterKiteVirtualMachineReconciler`, `kiteVirtualMachineNeedsSameGenerationReconcile` | `VMEvent`, `VMDue`, `VMDeleted` |
| events of KubeVirt VMs, Services, DataVolumes | `ChildEvent`, `OwnerGet` with `KubeVirtWakes`, `ServiceWakes`, `DataVolumeWakes` |
| `ReconcileKiteVirtualMachine` | `Get`, `Ns`, `AddFin`, then one of the next two |
| `reconcileKiteVirtualMachineDesiredState` | `SshGet`, `SshCreate`, `GuestGet`, `Apply` (once per object of `ApplyOrder`) |
| deletion, by intent or by timestamp | `Exists`, `DelKV`, `DelOwned` (once per object of `OwnedOrder`), `RmFin` or `DelCRD` |
| a failed call, a controller restart | `Fail`, `Restart` |
| `Service.Create`, `createGuestLoginSecret` and its roll-back | `ApiCreate`, `ApiGuestLogin`, `ApiRollback` |
| `Service.Update`, `MarkDelete`, power handlers; `VirtualMachineStore.Update` | `ApiRead`, `ApiWrite` |
| deleting an account's VMs | `ApiHardDelete` |
| a failed call or a crash of `kite-api` | `ApiFail` |
| external: KubeVirt, the namespace controller | `KubeVirtRemoves`, `NamespaceTerminate`, `NamespaceDeleteCRD`, `NamespaceDeleteChild` |

Abstractions. A `RetryOnConflict` loop is one action, because its write lands
only on the version it has just read. A get followed by a labelled delete of a
child is one action, because every object of those names carries the Kite owner
labels. The two Services of a VM are one child: they are applied and deleted
next to each other. Spec fields other than power state and delete intent are not
kept, but a request that changes one is there, since it writes the other two
back. Status is the subject of `KiteVMStatus`: only `VMDue` depends on it, where
`VMEvent` allows a reconcile on any resync and requires one only where the code
does so whatever the phase is. Specs are valid (`kite-api` validates them), and
the platform TLS Secret and storage class are read without error.

`late` is a history variable: a pass has created a child for a CRD that was
replaced or marked for deletion since the pass read it, or has removed the
finalizer of another incarnation. Without a per-VM lock the code cannot exclude
this; it relies on the CRD's delete event to clean up after it.

### KiteOffer and OfferLedger

A claim request `c` goes `get`, `claim`, `create`, `guestLogin`, `delete`, with
`rollback` when the guest login Secret cannot be created. `offer[o].rv` is the
resource version that makes the status write conditional; an offer's record
stays after its deletion with the claimant in `by`. The creation of the VM is
reduced to its outcomes: refused, created, created and rolled back. The cleanup
takes its list in one step and then deletes in any order.

`Ledger` maps the available offers to `open`, the claimants to `holder`, and the
VMs to themselves.

### KiteUserNamespace

`named[u][g]` is `spec.namespace` of generation `g` of a KiteUser, so that an
event can carry an old one. `pass[w]` is the handler of informer `w`: `u` and `n`
are the user and the namespace of the object it reconciles, `old` the namespace
it may delete, `todo` the users of the same list that come next.

| Code | Actions |
|---|---|
| `RegisterKiteUserReconciler` | `UserEvent`, `UserDeleted`, `Failed` |
| `reconcileKiteUserNamespaceChange`, `deleteKiteUserNamespaceIfUnreferenced` | `Change`, `ListRefs`, `GetOld`, `DelOld` |
| `validateUserNamespace`, `applyUserResource`, `updateKiteUserStatus` | `Validate`, `ApplyNs`, `ApplyNp`, `Status` |
| `ReconcileKiteNamespace` | `NsEvent`, `Orphan`, `DelOrphan` |
| `RestoreKiteNamespace`, `ReconcileKiteUserBaseResource` | `NsDeleted`, `NpEvent`, then `Change` and on |
| `DeleteKiteUserResources` | `UserDeleted`, `DelNp` |
| a failed call, a controller restart | `Fail`, `Restart` |
| account sign-up, update (and rehash at login), delete | `SignUp`, `Update`, `Remove` |
| external: operator, namespace controller | `OperatorDeletes`, `PolicyDrift`, `NamespaceEmpties`, `NamespaceGone` |

Abstractions. The two network policies are one object. Get and write of the
status are one action: the write carries the version just read, and a conflict
is a `Fail`. `kite-api`'s update is its last call, with any namespace, because
the namespace it writes may be one it read earlier. Namespaces that are not
Kite's exist from the start. The tombstone of a deleted user is taken to hold
its last spec. VMs in the namespace are left to `KiteVM`, the account's other
fields to `KiteAPI`.

`raced` is a history variable of a pass: since it found `old` unreferenced,
`kite-api` has pointed a user at it. List and delete are separate calls, so the
code cannot exclude this; `NamespaceProvided` shows that it recovers.

### KiteVMStatus

One VM from its creation until somebody asks for its deletion. `status` is phase,
observedGeneration and Ready condition; `pass` the handlers of the CRD and the
KubeVirt informer, which both run reconcile passes; `diskEvent` and `service`
what the other two watchers have read.

| Code | Actions |
|---|---|
| CRD events, `kiteVirtualMachineNeedsSameGenerationReconcile` | `CRDEvent`, `OldCRDEvent`, `ReadLatest` |
| a pass, reduced to its outcome | `Apply`, `ApplyFails`, `PassAborts`, `ReportProvisioning`, `ReportFailed` |
| KubeVirt watcher, `kiteStatusFromKubeVirtVirtualMachine` | `KubeVirtEvent`, `ReadOwner`, `MirrorStatus` with `Mirror` |
| DataVolume and Service watchers | `DataVolumeEvent`, `DataVolumeReport`, `ServiceEvent`, `ServiceReport` |
| `updateKiteVirtualMachineStatus`, `shouldPreserveRuntimeStatus` | `UpdateStatus`, `ShouldPreserveRuntimeStatus`, `UpdateDataVolumeStatus` |
| failed calls, controller restart | `CallFails`, `Restart` |
| the rest of `kite-api`'s create, a change of the spec | `CreateLogin`, `Edit` |
| external: the importer, KubeVirt, the guest | `Import`, `KubeVirtFollows`, `GuestStops` |

Abstractions. A status write reads the CRD again and is repeated on a conflict,
so it is one step. A pass applies its objects in one step, since `KiteVM` has
them one by one; where it fails, before the disk, before the KubeVirt VM or after
it, is kept. The phase by which an event is let through is that of the informer's
copy, which may be any the status has had, the first one, empty, included:
`OldCRDEvent` starts a pass whatever the phase is now. `kite-api` may die before
`CreateLogin`; a create that fails there rolls back the CRD, which as a deletion
is the subject of `KiteVM`.
`currentPowerState`, node and domain are written by the same calls and read by
no decision.

### KiteAPI

`req[r]` is one HTTP request: `pc` is its next call, `caller`, `on`, `vm` and
`want` its arguments, and the rest what it has read. `user` and `vm` are the
CRDs. A sign-up gives the user a namespace of its own, `PatchUser` may move it
into any other, and a VM stays where it was created.

| Code | Actions |
|---|---|
| `newSignUpRecord`, `accessLevelForNewUser`, create | `SignUp`, `CheckUsername`, `CheckEmail`, `CheckLevel`, `CreateUser` |
| login with `PasswordNeedsRehash` | `Login`, then the update |
| profile and admin updates, access levels | `PatchUser`, `SetAccessLevel`, `CheckTarget`, `UpdateGet`, `RejectDuplicateEmail`, `UpdateRv`, `UpdateWrite` |
| deletion of a user with its VMs | `DeleteUser`, `DeleteGet`, `DeleteList`, `DeleteVM`, `DeleteVMsDone`, `RemoveUser` |
| VM create with quota and sshId check | `CreateVM`, `CheckQuota`, `CheckSSHID`, `StoreVM` |
| VM update, delete intent | `UpdateVM`, `UpdateVMGet`, `UpdateVMWrite` |
| a failed call | `Fail` |
| what the controller does with a VM to be deleted | `ControllerDelete`, `ControllerRemove` |

The account update takes a second read for the resource version just before it
writes the spec of the first (`internal/store`), so the version protects nothing
but that last moment: `UpdateGet` and `UpdateRv` are kept apart. `overlap` and
`origin` are history variables: which requests were under way at once, and which
one brought an account, a VM or an sshId. The code cannot exclude what two
overlapping requests do to each other, so the properties say exactly that much:
what must not happen happens only to requests that overlapped. `granted` records
what administrators gave to whom, and which level they set last; `blame` in a
spec, `moved` of a user and `kept` of a VM are the requests to which it owes its
level or sshId, its namespace, and that it is not to be deleted; `by` is the user
who created a VM.

Left out: `domainPrefix`, whose check repeats the one of sshId; requests that only
read; input that is refused before the first call. A VM is created under a new
name: a create that meets a name in use ends without a write, as a `Fail` does.

### KiteGateway

`crd` is what the API server holds and `cache` the informer's store, which
`Deliver` brings up to date VM by VM. The two rebuilds, of the handler and of
`RunRouteInformer`, list the store, go through the list route by route
(`HandlerTurn`, `MainTurn`, each one `AddRoute`) and swap the table. The order is
that of a Go map, so a turn takes any route that is left. Of a build under way,
`left` and `next` are the loop's, and `list` is a history variable: the list it
began with. `lost` is another: the names a VM had and gave up.

| Code | Actions |
|---|---|
| `RunRouteInformer`, `RegisterRouteInformer`, `routesFromInformerStore`, `ReplaceAll` | `Deliver`, `Resync`, `HandlerList`, `HandlerTurn`, `HandlerReplace`, `MainList`, `MainTurn`, `MainReplace` |
| accept, handshake, password callback | `Accept`, `HandshakeFails`, `Authenticate` |
| the second look-up | `Lookup` with `Get` |
| the dial loop and its time limit | `EnsureServiceExists`, `ReadPrivateKey`, `DialSSH`, `SshdAnswers`, `Retry`, `Deadline` |
| the end | `RejectAllChannels`, `ProxyEnds` |
| CRD writes of `kite-api` and the controller, a restart | `Write`, `Restart` |

A VM stands for its password, Service and key: they do not change while it
lives. What an accepted channel carries touches neither table nor cluster.

### KiteConfig

`api[p]` is a starting `kite-api`: its next call and the copies of ConfigMap and
Secret it holds, with the resource versions they were read at. A secret is a
number, 0 for one that is missing and `fresh` for the next that is generated.

| Code | Actions |
|---|---|
| `Bootstrap`: namespace, ConfigMap, Secret, clean-up of the older version's secrets | `EnsureNamespace`, `GetConfig`, `CreateConfig`, `UpdateConfig`, `GetSecret`, `CreateSecret`, `UpdateSecret`, `ClearLegacy` |
| `Load` of `kite-gateway` | `Load` |
| settings updates, secret rotation | `ReadSettings`, `WriteSettings`, `ReadSecrets`, `RotateSecrets` |
| a failed call ends the process, which kubelet restarts; a failed request | `Crash`, `FailRequest` |

`last` remembers the last value of a setting that a request was told is stored,
`started` the values of a secret that processes have started with since it was
rotated.

### KitePlatform

`work[w]` is one of the six goroutines, three for each reconciler: the ConfigMap
informer, the informer of Services or Secrets, and the pass after start. `read`
is the settings it goes by.

| Code | Actions |
|---|---|
| `ReconcileKiteGatewayExposureFromConfigMap` | `ReadConfig`, `NormalizeInner`, `PatchInner`, `ReconcileService`, `Observe`, `StatusGet`, `StatusWrite` |
| `ReconcileKitePlatformIngressFromConfigMap` | `ReadConfig`, `HasTLS`, `MigrateTLS`, `ApplyMiddleware`, `ApplyRedirect`, `ApplySite`, `DropRedirect`, `DropMiddleware` |
| `UpdateBaseDomain`, `UpdateSSHGateway`, `UpdateForceHTTPS` | `UpdateBaseDomain`, `UpdateSSHGateway`, `UpdateForceHTTPS`, `CheckTLS`, `CheckMigrates`, `WriteForceHTTPS` |
| `UpdateTLSCertificate` | `UploadTLS`, `StoreTLS` |
| `Get`, asked for or at the end of a request, which migrates an older certificate | `GetSettings`, `CheckTLS`, `CheckMigrates` |
| a failed call | `Fail` |
| external: load balancer, an operator who removes the certificate | `LoadBalancer`, `RemoveTLS` |

A settings update is one step here, because `KiteConfig` shows that its write
lands only on the version it read. `removed` and `uploaded` are history
variables.

## What is model-checked

| Run | Instance | What it shows |
|---|---|---|
| `vm_children` | informers vm and kv, two incarnations, one spec update (2.8 million states) | `ChildrenProtected` and the inductive invariant, which has the types in it, hold through creates, updates, both kinds of delete and re-creation. |
| `vm_namespace` | informers vm and dv, one incarnation, one fault, namespace may end (360,000) | With a failed call, a restart or a dead request anywhere, a deleted namespace loses CRD and KubeVirt VM (`NamespaceDrains`). |
| `vm_progress` | informers vm and kv, one incarnation, one update (340,000) | Deletions complete (`DeletionCompletes`) and the KubeVirt VM ends with the power intent that settled (`PowerConverges`). |
| `vm_sshkey` | two incarnations | Violated: a pass can go on with a key pair that is not in the Secret. |
| `vm_status` | two generations, one fault, with the DataVolume or the Service watcher beside the other two (770,000) | A stable phase goes back to Provisioning only for a new spec (`StableUntilNewSpec`), a VM with a guest login gets its KubeVirt VM however early its first passes came and whatever of them failed (`Provisioned`), and the status keeps coming back to what KubeVirt does (`StatusMirrored`). |
| `offer_claims` | two offers, two claims, three instants, one fault | At most one VM per offer, the ledger is implemented, and every offer goes away. |
| `ns_converge` | informers user and ns, one user, two namespaces and a foreign one, two generations, one fault (140,000) | Whatever order old events, failures and an operator's delete come in, the user ends with the namespace it asked for (`NamespaceProvided`), namespaces nobody uses go away (`OrphansCollected`), and the foreign namespace is neither labelled nor deleted. |
| `ns_shared` | informers user and np, two users of which one moves (560,000) | A namespace in use is deleted only by a pass that looked before it came into use (`ReferencedKept`), also when it is shared. |
| `api_requests` | three requests, two users and namespaces, two VMs, from three clusters (450,000, up to the order of requests) | The inductive invariant. `LevelsGranted`: no stale write of a profile, a rehash or a level hands out rights nobody gave, and one that brings an earlier level back overlapped the request that had set the later one. `SignUpsUnique`, `FirstIsAdmin`, `SshIdsUnique` and `QuotaHeld`, which counts VMs whose delete intent a stale write took back, hold except between requests that overlapped. `SweptWithUser`: a VM in its owner's last namespace goes with the owner, unless the deletion overlapped the VM's create or the change of the namespace. |
| `gateway_routes` | three VMs, one sshId, one connection, two changes (210,000) | The inductive invariant. A client reaches another VM than the one whose password it gave only if one of the two gave up the sshId in between (`ConnectedToOwner`); the table follows the CRDs (`TableConverges`); an authenticated client is served or sent away (`Served`). |
| `config_bootstrap` | two processes, two requests, one fault, from an empty cluster, an older version and one half migrated (370,000) | `SettingsKept`, `SecretsKept`, `LegacyGone`, and every process gets to serve (`BootsComplete`). |
| `platform_settings` | two passes of one reconciler, two requests, one fault, five starting states (410,000) | The inductive invariant, `ForcedHasCertificate`, `UploadKept`; Service, status and Ingresses end as the last settings say (`ExposureConverges`, `IngressConverges`). |

`EnsuredKeyMatches`, the violated property, states what `machine-reconcile.go:617`
says: the cloud-init public key and the gateway's private key must match.
`AlreadyExists` at line 634 is taken as success, and the generated pair is used.

### What the model shows beside the properties

The actions keep the following behaviour of the code as it is; the properties
are worded around it, so that they say what remains true.

* `cmd/kite-controller/Readme.md:61` says the cleanup finalizer keeps the CRD from
  disappearing before the KubeVirt VM. A pass that read the CRD before it was
  deleted can apply the KubeVirt VM between another pass's existence check and
  its removal of the finalizer (`machine-reconcile.go:818` to `839`). The CRD's
  delete event cleans up. In `KiteVM` this sets `late`.
* `internal/vm/service.go:238` says nil fields preserve the current CRD value. They
  preserve the value that was read; `internal/store/virtual_machine.go:99` writes
  the whole spec, so a power request can withdraw a delete intent. In `KiteAPI`
  it then joins the `kept` of the VM, and `QuotaHeld` counts the VM again.
* `src/kite-frontend/docs/architecture.md:65` (and `refactor-review-2026-10-30.md:33`
  beside it) says that deleting VMs still consume the level 1 quota until they are
  removed. `activeVMCount` (`cmd/kite-api/apis/vm_helpers.go:66`) skips them, and
  its own comment says so. The API decides: a level 1 user whose only VM has a
  delete intent may create the next, and `QuotaHeld` counts as the API does.
* `internal/gateway/routes.go:121` says that the Route returned by
  `AuthenticatePassword` is used later to dial the VM's Service.
  `internal/gateway/server.go:177` looks the name up again after the handshake and
  dials what it finds, so a client is taken to the VM that has the name by then.
  `ConnectedToOwner` excepts just this, by `lost`: one of the two VMs gave the name
  up in between.
* An administrator may change `spec.namespace` (`internal/account/service.go:476`).
  `Service.Delete` sweeps the namespace that the spec has (`:236`), so VMs that the
  user left in an earlier one outlive it without any race, until the controller
  finds that namespace unreferenced. `SweptWithUser` is about the last namespace.
* Any read of the settings (`internal/platform/settings.go:87`) migrates an older
  certificate. Of two passes that turn the inner Service into a ClusterIP the
  second may be refused, since its JSON patch removes node ports that are gone; it
  then reports Failed until the next pass (`PatchInner`).
* `user-reconcile.go:408` says the managed-by check keeps reconcile and cleanup away
  from unrelated namespaces. `DeleteKiteUserResources` (line 452) does not make
  it: a user that was refused such a namespace still has policies of Kite's names
  deleted there when it is removed (`DelNp`).
* `RunRouteInformer` may install an older snapshot over the handler's. The next
  resync repairs it, unless the store is empty and there is nothing to resync:
  `TableConverges` excepts an empty store.
* The preserve rule does not tell writers apart: the KubeVirt watcher's own
  Provisioning is dropped as well when a guest restarts at an observed generation.
* The Service watcher writes Ready false, and the phase of an earlier read, at
  every resync; `StatusMirrored` therefore says that the right status comes back
  again and again and not that it stays.
* The comment at `machine-reconcile.go:1004` speaks of the generation of the VM a
  pass worked for; the write takes the generation of the CRD it has just read, so
  a pass over an old spec marks the new one as observed.

### Bounds

Two informers are enough for every conflict between passes: a pass conflicts
with one other, and the two are started by different events. `kv` is paired with
`vm` where power and KubeVirt deletion matter; `dv`, the last child deleted, is
paired with it where the namespace ends. `svc` behaves as `dv` does. Two
incarnations are needed for calls by name that hit the next VM. One update, or
two with two requests, are needed for a lost update. A single fault is placed
everywhere by TLC. `Timely` in `vm_children` keeps exploration to states reached
before the first overtaken pass: all its properties are vacuous after it.
The offer run needs two claims for a race and two offers for a cleanup that
stops half way.

`vm_status` has one edit, which gives every writer an old and a new generation
to be confused about, and one fault; DataVolume and Service watchers write the
status without reading each other's part, so each is run beside the other two.
`api_requests` has three requests: two that race and one before or after them,
with levels 0 and 3 to ask for, and its clusters let accounts, levels,
namespaces and VMs meet at once. Two users are enough for every check, since a
request compares its own user or VM with one other. Quota is 1, so the second create is at the limit.
`gateway_routes` needs three VMs for the third turn of the loop, which finds the
name among the duplicates, and two changes for a VM that takes a name over or two
that join the one of the start. One name is enough, since no step relates two. `config_bootstrap`
has the two processes of a rolling update. `platform_settings` runs two of the
three goroutines of one reconciler at a time: the two reconcilers share only
settings they do not write, and the third goroutine repeats the pass of the
others. Its two ports and one host let settings change twice. The proofs cover
all six goroutines, and any number of processes and requests.

`ns_converge` has one user, because liveness needs old and new generations,
faults and both sides of the namespace's life at once; two generations are
needed for an old event, and a foreign namespace for a refusal. `ns_shared` has
two users, for lists with more than one entry and namespaces with more than one
reference; its `OneMoves` lets one of them be updated. The proofs cover any
number of users and all three informers together.

### Fairness

* `PassStep`, and the steps of a request that has written something: a goroutine
  that is not blocked goes on.
* `VMDue /\ VMEvent`, `VMDeleted`: watch events are delivered, and the 30 s
  resync (`machine-reconcile.go:115`) repeats update events; only events on
  which the code reconciles whatever the phase are assumed.
* `KVDue /\ ChildEvent("kv")`: likewise for the KubeVirt informer
  (`kubevirt-status-reconcile.go:53`), which reconciles on a power mismatch.
* KubeVirt finishes a deletion and the namespace controller empties a
  terminating namespace: both are external and both retry for ever.
* Status: handlers run on, all four informers resync every 30 s, with a copy that
  comes up to date once the status stops changing, and KubeVirt follows the run
  strategy. Nothing is assumed of the request that creates the guest login.
* Gateway: the handler and `RunRouteInformer` go on with their rebuilds, a
  connection with its look-up and its dials; timers fire, and the watch delivers. Nothing is assumed
  of an sshd that accepts and keeps silent, nor of clients.
* Configuration: processes run, and kubelet restarts those that ended.
* Platform: handlers run, and every informer resyncs every 30 s.
* Nothing is assumed of the requests in `KiteAPI`: it has safety properties only.
* Offers: time passes, and the hourly ticker runs the cleanup. Nothing is
  assumed of claims, which may stop anywhere.

* `PassStep` of the namespace informers: as above. `SF` of a user's newest event
  and of the events of unreferenced namespaces: an informer handles its events
  first in, first out, and the 3 min resync (`user-reconcile.go`,
  `namespace-reconcile.go:19`) repeats the update event of every object, so no
  object is passed over for ever although the informer is busy with others in
  between. Delete events are not assumed where a restart loses them.

## What is proved

For every value of the constants, under the assumptions named in the modules
(the kinds of informers, no key or claim equal to the "none" value, bounds that
are natural numbers):

* `TypeCorrect`: `KiteVM` keeps `TypeOK`. `ApplyInRange` is proved with it,
  since an index past `ApplyOrder` would put anything into `res`.
* `InductiveInvariant` and `ChildrenAreProtected`: children exist only under the
  finalizer while no pass was overtaken. By itself this is not inductive. A pass
  that creates children must know that the finalizer is still there, and a pass
  that removes it that no child is left; neither is visible in the objects. So
  `PassOK` says of each pass working for the current incarnation: from `AddFin`
  on, the finalizer is set or the namespace is ending; on the way to `RmFin` the
  CRD is marked or the namespace is ending, the KubeVirt VM is absent and the
  children already passed in `OwnedOrder` are absent. That another pass does not
  re-create them is where `~late` is used. `UidsBounded` keeps old snapshots
  apart from new incarnations, `CRDShape` ties mark, finalizer and existence.
* `OfferInductive`, `OneVMPerOffer`: a handler past the status write holds its
  offer; one before it either read an unclaimed offer or has an old version
  (`HandlerOK`); VMs belong to the claimant (`VMsHeld`).
* `ImplementsLedger`: initial states map to initial states and, under the
  invariant, each step to a step of `OfferLedger` or a stutter.

* `NamespaceInductive`, `ForeignNamespacesUntouched`, `ReferencedNamespacesKept`:
  the first two need that a pass past `Validate` works in a namespace that is
  not foreign, and that one on the way to a delete saw the managed-by label of
  `old`; the third that a pass between list and delete found `old` unreferenced
  and was not `raced` since (`Fits`). A user can start to reference a namespace
  only by `SignUp` or `Update`, which set `raced`; every other step keeps or
  shrinks `kiteUsersForNamespace` (lemma `ReferencesFrame`). `NamedOK` and
  `GoneOK` say that events carry namespaces that were really written.

* `KiteConfig_proofs`: `SettingsAreKept`, `SecretsAreKept`, `LegacyIsGone`. Every
  write is conditional on the version of the copy it was made from, so the
  invariant is about copies: one whose version is current agrees with the object
  (`BootConfig`, `BootSecret`, `RequestHolds`); an older one cannot be written.
  `Meant` is the value a secret has, or will have when the Secret holds it: the
  Secret's, else the one left in the ConfigMap. A process that fills a gap holds
  the meant value, and one that found no older secrets finds none later
  (`BootLegacy`), which is why nobody writes one back.
* `StatusInvariant`, `StablePhaseKept`: no status is ahead of the spec, and a write
  that turns a stable phase into Provisioning found an observedGeneration below
  the current one. Without the bound, equality in the preserve rule would say
  nothing about age.
* `PlatformInvariant`, `ForcedHTTPSHasCertificate`, `UploadedCertificateKept`: who is
  about to force HTTPS (a request before its write) or to redirect (a pass past
  `WithTLS`) has seen a certificate, and no step but the operator's takes one away
  (`Covered`). A migration creates and never replaces. Assumed: no seed forces
  HTTPS before a certificate was uploaded, and no request is called "none" or
  "legacy".

* `KiteAPI_proofs`: `NoLevelUnasked`, `UsernamesUnique`, `SshIdsHeld`,
  `QuotaRespected`, `NoVMLeftBehind`, `FirstAdmin`. A request checks in one call and
  writes in another, so the invariant (`APIInvariant`) says of every request under
  way what its check is still worth: whatever contradicts it came from a request
  that overlapped (`SignUpHolds`, `CreateHolds`, `ChangeHolds`, `SweepHolds`), and
  the spec it will write back holds no level that the user was not given, nor one
  older than the last unless a request that overlapped it set the newer
  (`UpdateHolds`). `Meet` says that requests under way at once are recorded as
  overlapping; it is what turns "came after my check" into "overlapped". The quota
  is not inductive as `QuotaHeld` states it: two VMs may overlap a third and not
  each other. `QuotaKept` counts instead every set of VMs of which no two were
  created or revived at once (`Apart`); a VM joins such a set only if the count it
  was admitted by (`Counted`) had all the others, or if the request that revives it
  read it when it counted, so the set stays within the quota. `FirstAdmin` is
  an action property, from the conjunct of `SignUpHolds` about `create`. Assumed:
  the names of users and of VMs differ, and seeds have finitely many VMs, no two
  users with one name or VMs with one sshId, and no namespace above the quota.
* `KiteGateway_proofs`: `GatewayInvariant`, `Routed`, `OnlyWholeTables`. That
  `ReplaceAll` is right for a whole list would be an induction over the list; with
  the loop's turns as steps it is an invariant instead (`WellBuilt`): the two maps
  under construction are what the part of the list behind the loop calls for, one
  claimant making a route and two or more a duplicate (lemma `AddRouteAdds`). So the
  table changes only to that of a whole list. For `ConnectedToOwner` a table must be
  compared with the one a connection was authenticated with, and with the ones that
  two goroutines may still install over each other. The invariant compares
  candidates, the routes that a table gives out or a build still may. A candidate
  whose VM has not given the name up is in the store (`RoutesStored`), so a new list
  takes in every one of them; hence of two candidates of a name that are both kept,
  the later list has both (`Ordered`), and having both it gives out neither. The two
  builds may be listed in either order, which is why they are related by
  `EitherAgrees` and not by `Agree`. A turn keeps or drops all candidates of a name
  together (`Thinned`), so the order survives it.

Only model-checked: the liveness properties, whose fairness is out of the prover's
reach, and `EnsuredKeyMatches`, which needs a counterexample and not a proof. Every
invariant and every action property of a passing run is a theorem. `WholeTables` and
`KiteVM`'s `TypeOK` are proved and not listed in a run: the one follows from
`WellBuilt`, the other is a conjunct, and the runs check both invariants.

## Not modelled, and the plan

Not modelled:

* VM console. A ticket is a signed value that no state depends on, and the bridge
  is two copy loops that end together. The channels that the SSH gateway proxies
  are the same kind of loop.
* Password hashing, tokens and key generation: stateless. A generated key pair is a
  fresh value in `KiteVM`, a password stands for its VM in `KiteGateway`.
* Renderers, except for which objects are applied, in which order, and the fields
  that properties tell apart; the TLS Secret copied beside a VM's Ingress.
* Client construction, health probes, and the gRPC stub the controller's Readme
  declares abandoned.
* A namespace that somebody else creates between `validateUserNamespace` and the
  forced apply (`user-reconcile.go:148`): namespaces that are not Kite's exist from
  the start.

Next:

1. Namespaces created by others, with the history variable that `ForeignUntouched`
   then needs.
2. The safety part of the liveness properties: that a settled `KitePlatform` (no pass
   under way, none due) agrees with its settings, and that a rebuild of `KiteGateway`
   which nothing overtook leaves the table that the CRDs call for.
