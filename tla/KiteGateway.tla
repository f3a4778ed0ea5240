---------------------------- MODULE KiteGateway ----------------------------
(***************************************************************************)
(* kite-gateway: the route table that an informer keeps up to date with    *)
(* the KiteVirtualMachine CRDs, and the SSH connections that are           *)
(* authenticated and routed with it.                                       *)
(*                                                                         *)
(* The table is replaced by two goroutines: the informer's handler, after  *)
(* every event, and RunRouteInformer, once after the cache has synced.     *)
(* Each lists the cache first, goes through the list route by route and    *)
(* then replaces the table.                                                *)
(*                                                                         *)
(* A VM stands for its password, its Service and its key too: none of them *)
(* changes after its creation.  What a proxied connection carries is left  *)
(* out: it touches neither table nor cluster.                              *)
(***************************************************************************)
EXTENDS Naturals

CONSTANTS
    VMs, NoVM,     \* KiteVirtualMachines, of all namespaces
    Ids, NoId,     \* values of spec.sshId, the external user names
    Conns,         \* SSH connections
    Seeds,         \* the CRDs to start from
    MaxChanges     \* bound: writes to the CRDs, and restarts of kite-gateway

ASSUME NoneAssumption == NoVM \notin VMs /\ NoId \notin Ids
ASSUME BoundsAssumption == MaxChanges \in Nat

VARIABLES
    crd,        \* the CRDs in the API server
    changes,    \* number of writes and restarts so far
    cache,      \* the informer's store
    todo,       \* VMs of the first list that are not in the store yet
    pending,    \* whether there are events that the handler has not seen
    handler,    \* the table that the handler is building from its list
    main,       \* progress of RunRouteInformer, and the same of it
    table,      \* RouteTable: routes and duplicates
    conn,       \* the connections
    lost        \* ghost: sshIds that a VM had and gave up, also by its deletion

vars == <<crd, changes, cache, todo, pending, handler, main, table, conn, lost>>

\* "deleting": a delete intent or a deletion timestamp.
NoCRD == [state |-> "none", id |-> NoId]
CRDs == {NoCRD} \union [state : {"live", "deleting"}, id : Ids]

ASSUME SeedsAssumption == Seeds \subseteq [VMs -> CRDs]

Routes == [id : Ids, vm : VMs]
Tables == [routes : SUBSET Routes, duplicates : SUBSET Ids]
EmptyTable == [routes |-> {}, duplicates |-> {}]

\* A run of ReplaceAll: its list (ghost), the routes that it has not come to
\* yet, and its two maps.
Builds == [list : SUBSET Routes, left : SUBSET Routes, next : Tables]
NoBuild == [list |-> {}, left |-> {}, next |-> EmptyTable]

\* hung: an sshd that accepts the connection and then says nothing.
Dialling == {"service", "key", "ssh", "wait"}
ConnSteps == {"idle", "handshake", "lookup", "hung", "reject", "proxy", "closed"} \union Dialling
Connections == [pc : ConnSteps, user : Ids \union {NoId}, password : VMs \union {NoVM},
                to : VMs \union {NoVM}, late : BOOLEAN]
Idle == [pc |-> "idle", user |-> NoId, password |-> NoVM, to |-> NoVM, late |-> FALSE]
Closed == [Idle EXCEPT !.pc = "closed"]

TypeOK ==
    /\ crd \in [VMs -> CRDs] /\ cache \in [VMs -> CRDs]
    /\ changes \in 0..MaxChanges
    /\ todo \subseteq VMs /\ pending \in BOOLEAN
    /\ handler \in [busy : BOOLEAN, build : Builds]
    /\ main \in [pc : {"sync", "replace", "done"}, build : Builds]
    /\ table \in Tables
    /\ conn \in [Conns -> Connections]
    /\ lost \in [VMs -> SUBSET Ids]

Existing == {v \in VMs : crd[v].state # "none"}
Started == [pc |-> "sync", build |-> NoBuild]
Waiting == [busy |-> FALSE, build |-> NoBuild]

Init ==
    /\ crd \in Seeds
    /\ changes = 0
    /\ cache = [v \in VMs |-> NoCRD]
    /\ todo = Existing
    /\ pending = FALSE
    /\ handler = Waiting /\ main = Started
    /\ table = EmptyTable
    /\ conn = [c \in Conns |-> Idle]
    /\ lost = [v \in VMs |-> {}]

gateway == <<cache, todo, pending, handler, main, table, conn>>
inputs == <<crd, changes, lost>>

(***************************************************************************)
(* The CRDs change, by kite-api and kite-controller.                       *)
(***************************************************************************)
Write(v, o) ==
    /\ changes < MaxChanges /\ crd[v] # o
    /\ crd[v].state = "none" => o.state # "deleting"
    /\ crd' = [crd EXCEPT ![v] = o]
    /\ changes' = changes + 1
    /\ lost' = [lost EXCEPT ![v] = IF crd[v].state = "live" THEN @ \union {crd[v].id} ELSE @]
    /\ UNCHANGED gateway

(***************************************************************************)
(* The informer: the store follows the API server, and every change of the *)
(* store is an event for the handler.                                      *)
(***************************************************************************)
Deliver(v) ==
    /\ cache[v] # crd[v] \/ v \in todo
    /\ cache' = [cache EXCEPT ![v] = crd[v]]
    /\ todo' = todo \ {v}
    /\ pending' = TRUE
    /\ UNCHANGED <<handler, main, table, conn, inputs>>

\* Every 30 s all objects of the store are handed out again; an empty store
\* hands out nothing.
Resync ==
    /\ main.pc = "done" /\ ~pending /\ \E v \in VMs : cache[v].state # "none"
    /\ pending' = TRUE
    /\ UNCHANGED <<cache, todo, handler, main, table, conn, inputs>>

\* Mutant: a VM that is being deleted keeps its route.
RoutesFromStoreAll == {[id |-> cache[v].id, vm |-> v] : v \in {w \in VMs : cache[w].state # "none"}}

\* Mutant: an object that is gone, or has no sshId, makes a route too.
RoutesFromStoreUnchecked == {[id |-> cache[v].id, vm |-> v] : v \in VMs}

\* routesFromInformerStore and RouteFromKiteVirtualMachine.
RoutesFromStore == {[id |-> cache[v].id, vm |-> v] : v \in {w \in VMs : cache[w].state = "live"}}

\* Mutant: the third route of a name takes the place of the two before it.
AddRouteForgetful(next, route) ==
    LET same == {t \in next.routes : t.id = route.id}
    IN  IF same # {} THEN [routes |-> next.routes \ same,
                           duplicates |-> next.duplicates \union {route.id}]
                     ELSE [routes |-> next.routes \union {route},
                           duplicates |-> next.duplicates \ {route.id}]

\* One turn of ReplaceAll's loop.  The second route of a name takes the first
\* one out, and the third finds the name among the duplicates.
AddRoute(next, route) ==
    LET same == {t \in next.routes : t.id = route.id}
    IN  CASE same # {} -> [routes |-> next.routes \ same,
                           duplicates |-> next.duplicates \union {route.id}]
          [] same = {} /\ route.id \in next.duplicates -> next
          [] OTHER -> [next EXCEPT !.routes = @ \union {route}]

\* ReplaceAll: the list, in whatever order the store gave it, the loop, and
\* the swap of the table under its lock.
Listing == [list |-> RoutesFromStore, left |-> RoutesFromStore, next |-> EmptyTable]
Turn(build, route) == [build EXCEPT !.left = @ \ {route}, !.next = AddRoute(@, route)]
Swap(build) == build.left = {} /\ table' = build.next

\* One event of a queue: there may be more of them.
HandlerList ==
    /\ pending /\ ~handler.busy
    /\ pending' \in BOOLEAN
    /\ handler' = [busy |-> TRUE, build |-> Listing]
    /\ UNCHANGED <<cache, todo, main, table, conn, inputs>>

HandlerTurn ==
    /\ handler.busy
    /\ \E route \in handler.build.left : handler' = [handler EXCEPT !.build = Turn(@, route)]
    /\ UNCHANGED <<cache, todo, pending, main, table, conn, inputs>>

HandlerReplace ==
    /\ handler.busy
    /\ Swap(handler.build)
    /\ handler' = Waiting
    /\ UNCHANGED <<cache, todo, pending, main, conn, inputs>>

\* RunRouteInformer after WaitForCacheSync, beside the handler.
MainList ==
    /\ main.pc = "sync" /\ todo = {}
    /\ main' = [pc |-> "replace", build |-> Listing]
    /\ UNCHANGED <<cache, todo, pending, handler, table, conn, inputs>>

MainTurn ==
    /\ main.pc = "replace"
    /\ \E route \in main.build.left : main' = [main EXCEPT !.build = Turn(@, route)]
    /\ UNCHANGED <<cache, todo, pending, handler, table, conn, inputs>>

MainReplace ==
    /\ main.pc = "replace"
    /\ Swap(main.build)
    /\ main' = [pc |-> "done", build |-> NoBuild]
    /\ UNCHANGED <<cache, todo, pending, handler, conn, inputs>>

(***************************************************************************)
(* Connections.                                                            *)
(***************************************************************************)
ToConn(c, next) ==
    /\ conn' = [conn EXCEPT ![c] = next]
    /\ UNCHANGED <<cache, todo, pending, handler, main, table, inputs>>
Goto(c, label) == ToConn(c, [conn[c] EXCEPT !.pc = label])

\* RouteTable.Get fails for duplicates, which are not among the routes.
Get(id) == {t \in table.routes : t.id = id /\ id \notin table.duplicates}

Accept(c) == conn[c].pc = "idle" /\ Goto(c, "handshake")

\* The handshake is bounded by a deadline, and a client may leave.
HandshakeFails(c) == conn[c].pc = "handshake" /\ ToConn(c, Closed)

\* Who knows v's password logs in under a name.  The route that
\* AuthenticatePassword returns is not kept.
Authenticate(c, id, v) ==
    /\ conn[c].pc = "handshake"
    /\ \E route \in Get(id) : route.vm = v
    /\ ToConn(c, [conn[c] EXCEPT !.pc = "lookup", !.user = id, !.password = v])

\* handleConnection looks the name up again, and the result is what is dialled.
Lookup(c) ==
    /\ conn[c].pc = "lookup"
    /\ IF Get(conn[c].user) = {}
       THEN Goto(c, "reject")
       ELSE \E route \in Get(conn[c].user) :
               ToConn(c, [conn[c] EXCEPT !.pc = "service", !.to = route.vm])

\* dialBackend: Service, key Secret and sshd are there, or are not, or are
\* late; each failure ends the attempt.
AfterFailure(c) == IF conn[c].late THEN "reject" ELSE "wait"

EnsureServiceExists(c) ==
    conn[c].pc = "service" /\ \E next \in {"key", AfterFailure(c)} : Goto(c, next)

ReadPrivateKey(c) ==
    conn[c].pc = "key" /\ \E next \in {"ssh", AfterFailure(c)} : Goto(c, next)

\* The time-out of dialSSH is for the TCP connection only.
DialSSH(c) ==
    conn[c].pc = "ssh" /\ \E next \in {"proxy", "hung", AfterFailure(c)} : Goto(c, next)
SshdAnswers(c) ==
    conn[c].pc = "hung" /\ \E next \in {"proxy", AfterFailure(c)} : Goto(c, next)

\* Mutant: the deadline starts again with every attempt.
RetryAnew(c) == conn[c].pc = "wait" /\ ToConn(c, [conn[c] EXCEPT !.pc = "service", !.late = FALSE])

Retry(c) == conn[c].pc = "wait" /\ Goto(c, "service")

\* BackendTimeout has passed since dialBackend began.
Deadline(c) ==
    /\ conn[c].pc \in Dialling \union {"hung"} /\ ~conn[c].late
    /\ ToConn(c, [conn[c] EXCEPT !.late = TRUE])

\* rejectAllChannels stops when the client leaves or the grace is over.
RejectAllChannels(c) == conn[c].pc = "reject" /\ ToConn(c, Closed)

\* The client leaves, and the channels end.
ProxyEnds(c) == conn[c].pc = "proxy" /\ ToConn(c, Closed)

\* The process ends with its connections, and starts with an empty table.
Restart ==
    /\ changes < MaxChanges
    /\ changes' = changes + 1
    /\ cache' = [v \in VMs |-> NoCRD] /\ todo' = Existing
    /\ pending' = FALSE /\ handler' = Waiting /\ main' = Started
    /\ table' = EmptyTable
    /\ conn' = [c \in Conns |-> IF conn[c].pc = "idle" THEN conn[c] ELSE Closed]
    /\ UNCHANGED <<crd, lost>>

DialStep(c) == EnsureServiceExists(c) \/ ReadPrivateKey(c) \/ DialSSH(c) \/ Retry(c)

ConnStep(c) ==
    \/ Accept(c) \/ HandshakeFails(c) \/ \E id \in Ids, v \in VMs : Authenticate(c, id, v)
    \/ Lookup(c) \/ DialStep(c) \/ SshdAnswers(c) \/ Deadline(c)
    \/ RejectAllChannels(c) \/ ProxyEnds(c)

TableStep == HandlerList \/ HandlerTurn \/ HandlerReplace \/ MainList \/ MainTurn \/ MainReplace

Next ==
    \/ \E v \in VMs : Deliver(v) \/ \E o \in CRDs : Write(v, o)
    \/ Resync \/ TableStep
    \/ \E c \in Conns : ConnStep(c)
    \/ Restart

\* Goroutines run and timers fire; the watch delivers what is written.  An
\* sshd that keeps silent is not ours to schedule, and a client may stay.
Fairness ==
    /\ WF_vars(\E v \in VMs : Deliver(v)) /\ WF_vars(Resync)
    /\ WF_vars(HandlerList \/ HandlerTurn \/ HandlerReplace)
    /\ WF_vars(MainList \/ MainTurn \/ MainReplace)
    /\ \A c \in Conns : WF_vars(Lookup(c) \/ DialStep(c) \/ RejectAllChannels(c)) /\ WF_vars(Deadline(c))

Spec == Init /\ [][Next]_vars /\ Fairness

(***************************************************************************)
(* Properties.                                                             *)
(***************************************************************************)
Holders(objects, id) == {v \in VMs : objects[v].state = "live" /\ objects[v].id = id}

\* What a table should make of a list: a name leads somewhere if one VM has it.
Clear(list) == {t \in list : \A s \in list : s.id = t.id => s = t}
Disputed(list) == {id \in Ids : \E s, t \in list : s # t /\ s.id = id /\ t.id = id}
TableOf(list) == [routes |-> Clear(list), duplicates |-> Disputed(list)]

\* The table that the CRDs call for.
Wanted == TableOf({t \in Routes : t.vm \in Holders(crd, t.id)})

\* A client is connected to another VM than the one whose password it gave
\* only if one of the two gave the sshId up: while both claim it, however
\* many others do too and in whatever order the table was rebuilt, Get refuses.
\* The exception is the code's: routes.go has the Route of AuthenticatePassword
\* "used later to dial", but handleConnection takes the one of a second Get.
ConnectedToOwner ==
    \A c \in Conns :
        LET v == conn[c].password
            w == conn[c].to
        IN  w # NoVM /\ w # v => conn[c].user \in lost[v] \union lost[w]

\* Whatever snapshot RunRouteInformer installs over the handler's, the table
\* ends as the CRDs call for.  Without a VM in the store no resync comes to
\* repair it, so this is said of stores that do not stay empty.
TableConverges == <>[](table = Wanted \/ \A v \in VMs : cache[v].state = "none")

\* Except by a restart the table changes only to what the whole list of one of
\* the two rebuilds calls for, never to a part of it.
WholeTables ==
    [][table' # table /\ ~Restart => table' \in {TableOf(handler.build.list), TableOf(main.build.list)}]_vars

\* An authenticated client is served or sent away, however often the VM's
\* Service, key or sshd fail; unless an sshd accepts it and never speaks.
Served == \A c \in Conns : conn[c].pc = "lookup" ~> conn[c].pc \in {"proxy", "closed", "hung"}

(***************************************************************************)
(* Why ConnectedToOwner holds: an invariant that the steps keep.           *)
(***************************************************************************)
\* The routes that a table gives out, and those that one being built still
\* may: a name that is among the duplicates stays there.
Offered(next) == {t \in next.routes : t.id \notin next.duplicates}
Candidates(build) == {t \in build.left \union build.next.routes : t.id \notin build.next.duplicates}

\* A route that v has not given up.
Kept(t) == t.id \notin lost[t.vm]

\* A table has at most one route for a name, and one being built is right for
\* the part of the list that the loop has come to.
OneRoute(next) == \A s, t \in next.routes : s.id = t.id => s = t
WellBuilt(build) ==
    /\ build.left \subseteq build.list
    /\ build.next = TableOf(build.list \ build.left)

\* A connection has a target only after its second look-up.
ConnsRouted ==
    \A c \in Conns :
        /\ conn[c].pc \in {"idle", "handshake", "lookup"} => conn[c].to = NoVM
        /\ conn[c].pc = "lookup" \/ conn[c].to # NoVM => conn[c].user \in Ids /\ conn[c].password \in VMs

\* The route whose password a connection gave, until it is looked up again.
Asked == {[id |-> conn[c].user, vm |-> conn[c].password] : c \in {d \in Conns : conn[d].pc = "lookup"}}

\* A route that the store or the CRDs do not have any more was given up.
StoreCurrent ==
    \A v \in VMs : cache[v].state = "live" /\ cache[v].id \notin lost[v] => crd[v] = cache[v]
RoutesStored ==
    \A t \in Candidates(handler.build) \union Candidates(main.build) \union Offered(table) \union Asked :
        Kept(t) => t.vm \in Holders(cache, t.id)

\* Of two routes of a name that both are kept, what was listed later has both.
Agree(earlier, later) ==
    \A t \in earlier, s \in later : s.id = t.id /\ Kept(s) /\ Kept(t) => t \in later
EitherAgrees(one, other) ==
    \A t \in one, s \in other : s.id = t.id /\ Kept(s) /\ Kept(t) => t \in other \/ s \in one

\* The two builds were listed in either order, the table before them; and a
\* connection was authenticated with this table or with an earlier one.
Ordered ==
    /\ Agree(Offered(table) \union Asked, Candidates(handler.build))
    /\ Agree(Offered(table) \union Asked, Candidates(main.build))
    /\ EitherAgrees(Candidates(handler.build), Candidates(main.build))
    /\ Agree(Asked, Offered(table))

\* The inductive invariant behind ConnectedToOwner: no rebuild of the table,
\* however late it is installed, takes a name from one of its claimants for
\* another without one of them having given it up.
Inductive ==
    /\ TypeOK
    /\ OneRoute(table) /\ WellBuilt(handler.build) /\ WellBuilt(main.build)
    /\ ConnsRouted
    /\ StoreCurrent /\ RoutesStored
    /\ Ordered
    /\ ConnectedToOwner
=============================================================================
