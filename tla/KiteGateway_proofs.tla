------------------------- MODULE KiteGateway_proofs -------------------------
(***************************************************************************)
(* Proof that a connection reaches the VM whose password it gave, unless   *)
(* its name changed hands, for any VMs, names and connections and any      *)
(* number of changes and restarts.                                         *)
(***************************************************************************)
EXTENDS KiteGateway, TLAPS

\* What a turn of the loop does to the routes that may still be given out: it
\* keeps or drops all those of a name together.
Thinned(after, before) ==
    /\ after \subseteq before
    /\ \A t \in before, s \in after : s.id = t.id => t \in after

(***************************************************************************)
(* The operators.                                                          *)
(***************************************************************************)
LEMMA NoBuildBuilds ==
    /\ NoBuild \in Builds /\ Candidates(NoBuild) = {} /\ WellBuilt(NoBuild)
    /\ EmptyTable \in Tables /\ Offered(EmptyTable) = {} /\ OneRoute(EmptyTable)
BY DEF NoBuild, Builds, Candidates, WellBuilt, EmptyTable, Tables, Offered, OneRoute, TableOf, Clear, Disputed

\* Fresh lists: every route of the store is still open.
LEMMA ListingBuilds ==
    ASSUME TypeOK
    PROVE  /\ RoutesFromStore \subseteq Routes
           /\ Listing \in Builds /\ WellBuilt(Listing) /\ Candidates(Listing) = RoutesFromStore
           /\ \A t \in Routes : t \in RoutesFromStore <=> t.vm \in Holders(cache, t.id)
<1>1. \A v \in VMs : cache[v].state = "live" => cache[v].id \in Ids
    BY DEF TypeOK, CRDs, NoCRD
<1>2. RoutesFromStore \subseteq Routes
    BY <1>1 DEF RoutesFromStore, Routes
<1>3. \A t \in Routes : t \in RoutesFromStore <=> t.vm \in Holders(cache, t.id)
    BY <1>1 DEF RoutesFromStore, Routes, Holders
<1>4. Listing \in Builds /\ WellBuilt(Listing) /\ Candidates(Listing) = RoutesFromStore
    BY <1>2 DEF Listing, Builds, WellBuilt, Candidates, EmptyTable, Tables, TableOf, Clear, Disputed
<1>5. QED  BY <1>2, <1>3, <1>4

\* One turn of ReplaceAll's loop: what was right for the routes before is right
\* with the new one, be it the first, the second or a later one of its name.
LEMMA AddRouteAdds ==
    ASSUME NEW past \in SUBSET Routes, NEW route \in Routes \ past, NEW next \in Tables,
           next.routes = Clear(past), next.duplicates = Disputed(past)
    PROVE  /\ AddRoute(next, route) \in Tables
           /\ AddRoute(next, route).routes = Clear(past \union {route})
           /\ AddRoute(next, route).duplicates = Disputed(past \union {route})
<1> DEFINE same == {t \in next.routes : t.id = route.id}
<1>1. route.id \in Ids
    BY DEF Routes
<1>2. CASE same # {}
  <2>1. AddRoute(next, route) = [routes |-> next.routes \ same,
                                 duplicates |-> next.duplicates \union {route.id}]
    BY <1>2 DEF AddRoute
  <2>2. PICK first \in past : first \in next.routes /\ first.id = route.id
    BY <1>2 DEF Clear
  <2>3. next.routes \ same = Clear(past \union {route})
    BY <2>2 DEF Clear
  <2>4. next.duplicates \union {route.id} = Disputed(past \union {route})
    BY <1>1, <2>2 DEF Disputed
  <2>5. next.routes \ same \in SUBSET Routes /\ next.duplicates \union {route.id} \in SUBSET Ids
    BY <1>1 DEF Tables
  <2> HIDE DEF same
  <2>6. AddRoute(next, route) \in Tables
    BY <2>1, <2>5 DEF Tables
  <2>7. QED  BY <2>1, <2>3, <2>4, <2>6
<1>3. CASE same = {} /\ route.id \in next.duplicates
  <2>1. AddRoute(next, route) = next
    BY <1>3 DEF AddRoute
  <2>2. PICK s, t \in past : s # t /\ s.id = route.id /\ t.id = route.id
    BY <1>3 DEF Disputed
  <2>3. next.routes = Clear(past \union {route})
    BY <1>3, <2>2 DEF Clear
  <2>4. next.duplicates = Disputed(past \union {route})
    BY <1>3, <2>2 DEF Disputed
  <2>5. QED  BY <2>1, <2>3, <2>4
<1>4. CASE same = {} /\ route.id \notin next.duplicates
  <2>1. AddRoute(next, route) = [next EXCEPT !.routes = @ \union {route}]
    BY <1>4 DEF AddRoute
  <2>2. \A t \in past : t.id # route.id
    BY <1>1, <1>4 DEF Clear, Disputed
  <2>3. next.routes \union {route} = Clear(past \union {route})
    BY <2>2 DEF Clear
  <2>4. next.duplicates = Disputed(past \union {route})
    BY <2>2 DEF Disputed
  <2>5. QED  BY <2>1, <2>3, <2>4 DEF Tables
<1>5. QED  BY <1>2, <1>3, <1>4

LEMMA WellBuiltRoutes ==
    ASSUME NEW build \in Builds, WellBuilt(build)
    PROVE  /\ OneRoute(build.next) /\ build.left \intersect build.next.routes = {}
           /\ \A t \in build.next.routes : t.id \notin build.next.duplicates
<1>1. OneRoute(build.next) /\ build.left \intersect build.next.routes = {}
    BY DEF WellBuilt, TableOf, OneRoute, Clear
<1>2. \A t \in build.next.routes : t.id \notin build.next.duplicates
    BY DEF WellBuilt, TableOf, Clear, Disputed
<1>3. QED  BY <1>1, <1>2

LEMMA TurnBuilds ==
    ASSUME NEW build \in Builds, WellBuilt(build), NEW route \in build.left
    PROVE  /\ Turn(build, route) \in Builds /\ WellBuilt(Turn(build, route))
           /\ Thinned(Candidates(Turn(build, route)), Candidates(build))
<1> DEFINE past == build.list \ build.left
           next == AddRoute(build.next, route)
           after == Turn(build, route)
<1>1. /\ build.next \in Tables /\ build.list \in SUBSET Routes /\ build.left \in SUBSET Routes
      /\ past \in SUBSET Routes /\ route \in Routes \ past /\ build.left \subseteq build.list
      /\ build.next.routes = Clear(past) /\ build.next.duplicates = Disputed(past)
    BY DEF Builds, WellBuilt, TableOf
<1> HIDE DEF past
<1>2. /\ next \in Tables /\ next.routes = Clear(past \union {route})
      /\ next.duplicates = Disputed(past \union {route})
    BY <1>1, AddRouteAdds
<1> HIDE DEF next
<1>3. after \in Builds /\ after.list = build.list /\ after.left = build.left \ {route} /\ after.next = next
    BY <1>1, <1>2 DEF Turn, Builds, next
<1>4. WellBuilt(after)
  <2>1. after.list \ after.left = past \union {route} /\ after.left \subseteq after.list
    BY <1>1, <1>3 DEF past
  <2>2. next = TableOf(past \union {route})
    BY <1>2 DEF Tables, TableOf
  <2>3. QED  BY <1>3, <2>1, <2>2 DEF WellBuilt
<1> HIDE DEF after
<1>5. /\ build.next.duplicates \subseteq next.duplicates
      /\ next.duplicates \subseteq build.next.duplicates \union {route.id}
    BY <1>1, <1>2 DEF Disputed
<1>6. Candidates(after) = {t \in Candidates(build) : t.id \notin next.duplicates}
  <2>1. \A t \in build.left \union Clear(past) : t.id \notin next.duplicates =>
           t \in (build.left \ {route}) \union Clear(past \union {route})
    BY <1>1, <1>2 DEF Clear, Disputed, Routes
  <2>2. \A t \in Clear(past \union {route}) : t \in build.left \union Clear(past)
    BY <1>1 DEF Clear
  <2>3. QED  BY <1>1, <1>2, <1>3, <1>5, <2>1, <2>2 DEF Candidates
<1>7. QED  BY <1>3, <1>4, <1>6 DEF Thinned, after

(***************************************************************************)
(* What the steps have in common.                                          *)
(***************************************************************************)
LEMMA RoutesTyped ==
    ASSUME Inductive
    PROVE  /\ Candidates(handler.build) \subseteq Routes /\ Candidates(main.build) \subseteq Routes
           /\ Offered(table) \subseteq Routes /\ Asked \subseteq Routes
<1>1. Candidates(handler.build) \subseteq Routes /\ Candidates(main.build) \subseteq Routes
    BY DEF Inductive, TypeOK, Candidates, Builds, Tables
<1>2. Offered(table) \subseteq Routes
    BY DEF Inductive, TypeOK, Offered, Tables
<1>3. Asked \subseteq Routes
    BY DEF Inductive, ConnsRouted, Asked, Routes
<1>4. QED  BY <1>1, <1>2, <1>3

\* Names are given up and not taken back, routes are dropped by name, and the
\* store keeps every VM that has not given its name up.
LEMMA Fading ==
    ASSUME Inductive,
           \A v \in VMs : lost[v] \subseteq lost'[v],
           \A v \in VMs : \A id \in Ids \ lost'[v] : v \in Holders(cache, id) => v \in Holders(cache', id),
           Thinned(Candidates(handler'.build), Candidates(handler.build)),
           Thinned(Candidates(main'.build), Candidates(main.build)),
           Offered(table') = Offered(table),
           Asked' \subseteq Asked
    PROVE  RoutesStored' /\ Ordered'
<1>1. /\ Candidates(handler.build) \subseteq Routes /\ Candidates(main.build) \subseteq Routes
      /\ Offered(table) \subseteq Routes /\ Asked \subseteq Routes
    BY RoutesTyped
<1>2. \A t \in Routes : Kept(t)' => Kept(t) /\ t.id \in Ids \ lost'[t.vm] /\ t.vm \in VMs
    BY DEF Kept, Routes
<1>3. RoutesStored /\ Ordered
    BY DEF Inductive
<1>4. RoutesStored'
    BY <1>1, <1>2, <1>3 DEF RoutesStored, Thinned
<1>5. Ordered'
  <2>1. Agree(Offered(table) \union Asked, Candidates(handler.build))'
    BY <1>1, <1>2, <1>3 DEF Ordered, Agree, Thinned
  <2>2. Agree(Offered(table) \union Asked, Candidates(main.build))'
    BY <1>1, <1>2, <1>3 DEF Ordered, Agree, Thinned
  <2>3. EitherAgrees(Candidates(handler.build), Candidates(main.build))'
    BY <1>1, <1>2, <1>3 DEF Ordered, EitherAgrees, Thinned
  <2>4. Agree(Asked, Offered(table))'
    BY <1>1, <1>2, <1>3 DEF Ordered, Agree
  <2>5. QED  BY <2>1, <2>2, <2>3, <2>4 DEF Ordered
<1>6. QED  BY <1>4, <1>5

\* Steps that leave the connections alone.
LEMMA ConnsSame ==
    ASSUME Inductive, conn' = conn, \A v \in VMs : lost[v] \subseteq lost'[v]
    PROVE  /\ conn' \in [Conns -> Connections] /\ Asked' = Asked
           /\ ConnsRouted' /\ ConnectedToOwner'
<1>1. conn' \in [Conns -> Connections] /\ Asked' = Asked /\ ConnsRouted'
    BY DEF Inductive, TypeOK, Asked, ConnsRouted
<1>2. ConnectedToOwner'
  <2>1. \A c \in Conns : conn[c].to # NoVM => conn[c].to \in VMs /\ conn[c].password \in VMs
    BY DEF Inductive, TypeOK, Connections, ConnsRouted
  <2>2. QED  BY <2>1 DEF Inductive, ConnectedToOwner
<1>3. QED  BY <1>1, <1>2

LEMMA ThinnedSame == \A X : Thinned(X, X)
BY DEF Thinned

LEMMA WriteKeeps ==
    ASSUME Inductive, NEW v \in VMs, NEW o \in CRDs, Write(v, o)
    PROVE  Inductive'
<1>1. TypeOK /\ StoreCurrent
    BY DEF Inductive
<1>2. /\ UNCHANGED <<cache, todo, pending, handler, main, table, conn>>
      /\ crd' = [crd EXCEPT ![v] = o] /\ changes' \in 0..MaxChanges
    BY <1>1, BoundsAssumption DEF Write, gateway, TypeOK
<1>3. crd[v].state = "live" => crd[v].id \in Ids
    BY <1>1 DEF TypeOK, CRDs, NoCRD
<1>4. /\ lost' \in [VMs -> SUBSET Ids]
      /\ \A w \in VMs : lost[w] \subseteq lost'[w]
      /\ crd[v].state = "live" => crd[v].id \in lost'[v]
    BY <1>1, <1>3 DEF Write, TypeOK
<1>5. TypeOK'
    BY <1>1, <1>2, <1>4 DEF TypeOK
<1>6. StoreCurrent'
    BY <1>1, <1>2, <1>4 DEF StoreCurrent, TypeOK
<1>7. ConnsRouted' /\ ConnectedToOwner' /\ Asked' = Asked
    BY <1>2, <1>4, ConnsSame
<1>8. RoutesStored' /\ Ordered'
    BY <1>2, <1>4, <1>7, Fading, ThinnedSame
<1>9. (OneRoute(table) /\ WellBuilt(handler.build) /\ WellBuilt(main.build))'
    BY <1>2 DEF Inductive
<1>10. QED  BY <1>5, <1>6, <1>7, <1>8, <1>9 DEF Inductive

LEMMA DeliverKeeps ==
    ASSUME Inductive, NEW v \in VMs, Deliver(v)
    PROVE  Inductive'
<1>1. TypeOK /\ StoreCurrent
    BY DEF Inductive
<1>2. /\ UNCHANGED <<handler, main, table, conn, crd, changes, lost>>
      /\ cache' = [cache EXCEPT ![v] = crd[v]]
      /\ todo' = todo \ {v} /\ pending' = TRUE
    BY DEF Deliver, inputs
<1>3. TypeOK'
    BY <1>1, <1>2 DEF TypeOK
<1>4. StoreCurrent'
    BY <1>1, <1>2 DEF StoreCurrent, TypeOK
<1>5. \A w \in VMs : \A id \in Ids \ lost'[w] : w \in Holders(cache, id) => w \in Holders(cache', id)
    BY <1>1, <1>2 DEF Holders, StoreCurrent, TypeOK
<1>6. \A w \in VMs : lost[w] \subseteq lost'[w]
    BY <1>2
<1>7. ConnsRouted' /\ ConnectedToOwner' /\ Asked' = Asked
    BY <1>2, <1>6, ConnsSame
<1>8. RoutesStored' /\ Ordered'
    BY <1>2, <1>5, <1>6, <1>7, Fading, ThinnedSame
<1>9. (OneRoute(table) /\ WellBuilt(handler.build) /\ WellBuilt(main.build))'
    BY <1>2 DEF Inductive
<1>10. QED  BY <1>3, <1>4, <1>7, <1>8, <1>9 DEF Inductive

LEMMA ResyncKeeps ==
    ASSUME Inductive, Resync
    PROVE  Inductive'
<1>1. /\ UNCHANGED <<cache, todo, handler, main, table, conn, crd, changes, lost>>
      /\ pending' = TRUE
    BY DEF Resync, inputs
<1>2. TypeOK'
    BY <1>1 DEF Inductive, TypeOK
<1>3. StoreCurrent'
    BY <1>1 DEF Inductive, StoreCurrent
<1>4. ConnsRouted' /\ ConnectedToOwner' /\ Asked' = Asked
    BY <1>1, ConnsSame
<1>5. RoutesStored' /\ Ordered'
    BY <1>1, <1>4, Fading, ThinnedSame
<1>6. (OneRoute(table) /\ WellBuilt(handler.build) /\ WellBuilt(main.build))'
    BY <1>1 DEF Inductive
<1>7. QED  BY <1>2, <1>3, <1>4, <1>5, <1>6 DEF Inductive

(***************************************************************************)
(* The two goroutines that build the table.                                *)
(***************************************************************************)
LEMMA Rebuilt ==
    ASSUME Inductive, UNCHANGED <<cache, todo, conn, inputs>>, pending' \in BOOLEAN,
           handler' \in [busy : BOOLEAN, build : Builds], WellBuilt(handler'.build),
           main' \in [pc : {"sync", "replace", "done"}, build : Builds], WellBuilt(main'.build),
           table' \in Tables, OneRoute(table'), RoutesStored', Ordered'
    PROVE  Inductive'
<1>1. UNCHANGED <<cache, todo, conn, crd, changes, lost>>
    BY DEF inputs
<1>2. TypeOK'
    BY <1>1 DEF Inductive, TypeOK
<1>3. StoreCurrent'
    BY <1>1 DEF Inductive, StoreCurrent
<1>4. ConnsRouted' /\ ConnectedToOwner'
    BY <1>1, ConnsSame
<1>5. QED  BY <1>2, <1>3, <1>4 DEF Inductive

\* A new list takes in every route that is kept.
LEMMA HandlerListKeeps ==
    ASSUME Inductive, HandlerList
    PROVE  Inductive'
<1>1. /\ UNCHANGED <<cache, todo, main, table, conn, inputs>> /\ pending' \in BOOLEAN
      /\ handler' = [busy |-> TRUE, build |-> Listing]
    BY DEF HandlerList
<1>2. /\ RoutesFromStore \subseteq Routes /\ Listing \in Builds /\ WellBuilt(Listing)
      /\ Candidates(Listing) = RoutesFromStore
      /\ \A t \in Routes : t \in RoutesFromStore <=> t.vm \in Holders(cache, t.id)
    BY ListingBuilds DEF Inductive
<1>3. /\ Candidates(main.build) \subseteq Routes /\ Offered(table) \subseteq Routes /\ Asked \subseteq Routes
    BY RoutesTyped
<1>4. Candidates(handler.build)' = RoutesFromStore
    BY <1>1, <1>2
<1>5. UNCHANGED <<cache, main, table, lost, Asked>>
    BY <1>1 DEF inputs, Asked
<1>6. \A t \in Candidates(main.build) \union Offered(table) \union Asked :
         Kept(t) => t \in RoutesFromStore
    BY <1>2, <1>3 DEF Inductive, RoutesStored
<1>7. RoutesStored'
    BY <1>2, <1>4, <1>5 DEF Inductive, RoutesStored, Kept
<1>8. Ordered'
    BY <1>4, <1>5, <1>6 DEF Inductive, Ordered, Agree, EitherAgrees, Kept
<1>9. handler' \in [busy : BOOLEAN, build : Builds] /\ WellBuilt(handler'.build)
    BY <1>1, <1>2
<1>10. QED  BY <1>1, <1>5, <1>7, <1>8, <1>9, Rebuilt DEF Inductive, TypeOK

LEMMA MainListKeeps ==
    ASSUME Inductive, MainList
    PROVE  Inductive'
<1>1. /\ UNCHANGED <<cache, todo, pending, handler, table, conn, inputs>>
      /\ main' = [pc |-> "replace", build |-> Listing]
    BY DEF MainList
<1>2. /\ RoutesFromStore \subseteq Routes /\ Listing \in Builds /\ WellBuilt(Listing)
      /\ Candidates(Listing) = RoutesFromStore
      /\ \A t \in Routes : t \in RoutesFromStore <=> t.vm \in Holders(cache, t.id)
    BY ListingBuilds DEF Inductive
<1>3. /\ Candidates(handler.build) \subseteq Routes /\ Offered(table) \subseteq Routes /\ Asked \subseteq Routes
    BY RoutesTyped
<1>4. Candidates(main.build)' = RoutesFromStore
    BY <1>1, <1>2
<1>5. UNCHANGED <<cache, handler, table, lost, Asked>>
    BY <1>1 DEF inputs, Asked
<1>6. \A t \in Candidates(handler.build) \union Offered(table) \union Asked :
         Kept(t) => t \in RoutesFromStore
    BY <1>2, <1>3 DEF Inductive, RoutesStored
<1>7. RoutesStored'
    BY <1>2, <1>4, <1>5 DEF Inductive, RoutesStored, Kept
<1>8. Ordered'
    BY <1>4, <1>5, <1>6 DEF Inductive, Ordered, Agree, EitherAgrees, Kept
<1>9. main' \in [pc : {"sync", "replace", "done"}, build : Builds] /\ WellBuilt(main'.build)
    BY <1>1, <1>2
<1>10. QED  BY <1>1, <1>5, <1>7, <1>8, <1>9, Rebuilt DEF Inductive, TypeOK

LEMMA HandlerTurnKeeps ==
    ASSUME Inductive, HandlerTurn
    PROVE  Inductive'
<1>1. UNCHANGED <<cache, todo, pending, main, table, conn, inputs>>
    BY DEF HandlerTurn
<1>2. PICK route \in handler.build.left : handler' = [handler EXCEPT !.build = Turn(@, route)]
    BY DEF HandlerTurn
<1>3. handler.build \in Builds /\ WellBuilt(handler.build)
    BY DEF Inductive, TypeOK
<1>4. /\ Turn(handler.build, route) \in Builds /\ WellBuilt(Turn(handler.build, route))
      /\ Thinned(Candidates(Turn(handler.build, route)), Candidates(handler.build))
    BY <1>3, TurnBuilds
<1>5. handler' \in [busy : BOOLEAN, build : Builds] /\ handler'.build = Turn(handler.build, route)
    BY <1>2, <1>4 DEF Inductive, TypeOK
<1>6. UNCHANGED <<cache, main, table, lost, Asked>>
    BY <1>1 DEF inputs, Asked
<1>7. RoutesStored' /\ Ordered'
    BY <1>4, <1>5, <1>6, Fading, ThinnedSame
<1>8. QED  BY <1>1, <1>4, <1>5, <1>7, Rebuilt DEF Inductive, TypeOK

LEMMA MainTurnKeeps ==
    ASSUME Inductive, MainTurn
    PROVE  Inductive'
<1>1. UNCHANGED <<cache, todo, pending, handler, table, conn, inputs>>
    BY DEF MainTurn
<1>2. PICK route \in main.build.left : main' = [main EXCEPT !.build = Turn(@, route)]
    BY DEF MainTurn
<1>3. main.build \in Builds /\ WellBuilt(main.build)
    BY DEF Inductive, TypeOK
<1>4. /\ Turn(main.build, route) \in Builds /\ WellBuilt(Turn(main.build, route))
      /\ Thinned(Candidates(Turn(main.build, route)), Candidates(main.build))
    BY <1>3, TurnBuilds
<1>5. /\ main' \in [pc : {"sync", "replace", "done"}, build : Builds]
      /\ main'.build = Turn(main.build, route)
    BY <1>2, <1>4 DEF Inductive, TypeOK
<1>6. UNCHANGED <<cache, handler, table, lost, Asked>>
    BY <1>1 DEF inputs, Asked
<1>7. RoutesStored' /\ Ordered'
    BY <1>4, <1>5, <1>6, Fading, ThinnedSame
<1>8. QED  BY <1>1, <1>4, <1>5, <1>7, Rebuilt DEF Inductive, TypeOK

\* A finished build gives out what it may give out.
LEMMA SwapOffers ==
    ASSUME NEW build \in Builds, WellBuilt(build), Swap(build)
    PROVE  /\ table' \in Tables /\ OneRoute(table') /\ Offered(table') = Candidates(build)
           /\ \A s, t \in Offered(table') : s.id = t.id => s = t
BY WellBuiltRoutes DEF Builds, Swap, Offered, Candidates, OneRoute

LEMMA HandlerReplaceKeeps ==
    ASSUME Inductive, HandlerReplace
    PROVE  Inductive'
<1>1. /\ UNCHANGED <<cache, todo, pending, main, conn, inputs>> /\ handler' = Waiting
      /\ Swap(handler.build)
    BY DEF HandlerReplace
<1>2. handler.build \in Builds /\ WellBuilt(handler.build)
    BY DEF Inductive, TypeOK
<1>3. /\ table' \in Tables /\ OneRoute(table') /\ Offered(table') = Candidates(handler.build)
      /\ \A s, t \in Offered(table') : s.id = t.id => s = t
    BY <1>1, <1>2, SwapOffers
<1>4. UNCHANGED <<cache, main, lost, Asked>>
    BY <1>1 DEF inputs, Asked
<1>5. /\ handler' \in [busy : BOOLEAN, build : Builds] /\ WellBuilt(handler'.build)
      /\ Candidates(handler'.build) = {}
    BY <1>1, NoBuildBuilds DEF Waiting
<1>6. RoutesStored'
    BY <1>3, <1>4, <1>5 DEF Inductive, RoutesStored, Kept
<1>7. Ordered'
    BY <1>3, <1>4, <1>5 DEF Inductive, Ordered, Agree, EitherAgrees, Kept
<1>8. QED  BY <1>1, <1>3, <1>5, <1>6, <1>7, Rebuilt DEF Inductive, TypeOK

LEMMA MainReplaceKeeps ==
    ASSUME Inductive, MainReplace
    PROVE  Inductive'
<1>1. /\ UNCHANGED <<cache, todo, pending, handler, conn, inputs>>
      /\ main' = [pc |-> "done", build |-> NoBuild] /\ Swap(main.build)
    BY DEF MainReplace
<1>2. main.build \in Builds /\ WellBuilt(main.build)
    BY DEF Inductive, TypeOK
<1>3. /\ table' \in Tables /\ OneRoute(table') /\ Offered(table') = Candidates(main.build)
      /\ \A s, t \in Offered(table') : s.id = t.id => s = t
    BY <1>1, <1>2, SwapOffers
<1>4. UNCHANGED <<cache, handler, lost, Asked>>
    BY <1>1 DEF inputs, Asked
<1>5. /\ main' \in [pc : {"sync", "replace", "done"}, build : Builds] /\ WellBuilt(main'.build)
      /\ Candidates(main'.build) = {}
    BY <1>1, NoBuildBuilds
<1>6. RoutesStored'
    BY <1>3, <1>4, <1>5 DEF Inductive, RoutesStored, Kept
<1>7. Ordered'
    BY <1>3, <1>4, <1>5 DEF Inductive, Ordered, Agree, EitherAgrees, Kept
<1>8. QED  BY <1>1, <1>3, <1>5, <1>6, <1>7, Rebuilt DEF Inductive, TypeOK

(***************************************************************************)
(* Connections.                                                            *)
(***************************************************************************)
\* A connection asks for a route that the table has, and is given a target
\* that is its owner's, or one of the two gave the name up.
Proper(n) ==
    /\ n.pc \in {"idle", "handshake", "lookup"} => n.to = NoVM
    /\ n.pc = "lookup" => [id |-> n.user, vm |-> n.password] \in Offered(table)
    /\ n.pc = "lookup" \/ n.to # NoVM => n.user \in Ids /\ n.password \in VMs
    /\ n.to # NoVM /\ n.to # n.password => n.user \in lost[n.password] \union lost[n.to]

LEMMA ConnMoves ==
    ASSUME Inductive, NEW c \in Conns, NEW n \in Connections, ToConn(c, n), Proper(n)
    PROVE  Inductive'
<1>1. UNCHANGED <<cache, todo, pending, handler, main, table, crd, changes, lost>>
    BY DEF ToConn, inputs
<1>2. /\ conn' \in [Conns -> Connections]
      /\ \A d \in Conns : conn'[d] = IF d = c THEN n ELSE conn[d]
    BY DEF ToConn, Inductive, TypeOK
<1>3. TypeOK'
    BY <1>1, <1>2 DEF Inductive, TypeOK
<1>4. ConnsRouted'
    BY <1>2 DEF Inductive, ConnsRouted, Proper
<1>5. ConnectedToOwner'
    BY <1>1, <1>2 DEF Inductive, ConnectedToOwner, Proper
<1>6. Asked' \subseteq Asked \union Offered(table)
    BY <1>2 DEF Asked, Proper
<1>7. \A s, t \in Offered(table) : s.id = t.id => s = t
    BY DEF Inductive, OneRoute, Offered
<1>8. RoutesStored'
    BY <1>1, <1>6 DEF Inductive, RoutesStored, Kept
<1>9. Ordered'
    BY <1>1, <1>6, <1>7 DEF Inductive, Ordered, Agree, EitherAgrees, Kept
<1>10. (OneRoute(table) /\ WellBuilt(handler.build) /\ WellBuilt(main.build) /\ StoreCurrent)'
    BY <1>1 DEF Inductive, StoreCurrent
<1>11. QED  BY <1>3, <1>4, <1>5, <1>8, <1>9, <1>10 DEF Inductive

LEMMA GotoKeeps ==
    ASSUME Inductive, NEW c \in Conns, NEW label \in ConnSteps \ {"idle", "lookup"}, Goto(c, label),
           label = "handshake" => conn[c].to = NoVM
    PROVE  Inductive'
<1> DEFINE n == [conn[c] EXCEPT !.pc = label]
<1>1. conn[c] \in Connections
    BY DEF Inductive, TypeOK
<1>2. /\ n \in Connections /\ n.pc = label /\ n.to = conn[c].to
      /\ n.user = conn[c].user /\ n.password = conn[c].password
    BY <1>1 DEF Connections
<1>3. ToConn(c, n)
    BY DEF Goto
<1> HIDE DEF n
<1>4. Proper(n)
    BY <1>2 DEF Proper, Inductive, ConnsRouted, ConnectedToOwner
<1>5. QED  BY <1>2, <1>3, <1>4, ConnMoves

LEMMA ClosedProper == Closed \in Connections /\ Proper(Closed)
BY NoneAssumption DEF Closed, Idle, Connections, ConnSteps, Dialling, Proper

LEMMA AuthenticateKeeps ==
    ASSUME Inductive, NEW c \in Conns, NEW id \in Ids, NEW v \in VMs, Authenticate(c, id, v)
    PROVE  Inductive'
<1> DEFINE n == [conn[c] EXCEPT !.pc = "lookup", !.user = id, !.password = v]
<1>1. conn[c] \in Connections
    BY DEF Inductive, TypeOK
<1>2. n \in Connections /\ n.pc = "lookup" /\ n.to = conn[c].to /\ n.user = id /\ n.password = v
    BY <1>1 DEF Connections, ConnSteps
<1>3. ToConn(c, n) /\ conn[c].to = NoVM
    BY DEF Authenticate, Inductive, ConnsRouted
<1>4. [id |-> id, vm |-> v] \in Offered(table)
  <2>1. PICK route \in Get(id) : route.vm = v
    BY DEF Authenticate
  <2>2. route \in Offered(table) /\ route \in Routes /\ route.id = id
    BY <2>1, RoutesTyped DEF Get, Offered
  <2>3. QED  BY <2>1, <2>2 DEF Routes
<1> HIDE DEF n
<1>5. Proper(n)
    BY <1>2, <1>3, <1>4 DEF Proper
<1>6. QED  BY <1>2, <1>3, <1>5, ConnMoves

\* The second look-up finds the route that was authenticated, or one of a VM
\* that has the name since.
LEMMA LookupKeeps ==
    ASSUME Inductive, NEW c \in Conns, Lookup(c)
    PROVE  Inductive'
<1>1. /\ conn[c] \in Connections /\ conn[c].pc = "lookup" /\ conn[c].user \in Ids
      /\ conn[c].password \in VMs
    BY DEF Lookup, Inductive, TypeOK, ConnsRouted
<1>2. CASE Get(conn[c].user) = {}
    BY <1>2, GotoKeeps DEF Lookup, ConnSteps
<1>3. CASE Get(conn[c].user) # {}
  <2>1. PICK route \in Get(conn[c].user) : ToConn(c, [conn[c] EXCEPT !.pc = "service", !.to = route.vm])
    BY <1>3 DEF Lookup
  <2> DEFINE n == [conn[c] EXCEPT !.pc = "service", !.to = route.vm]
             asked == [id |-> conn[c].user, vm |-> conn[c].password]
  <2>2. route \in Offered(table) /\ route \in Routes /\ route.id = conn[c].user
    BY RoutesTyped DEF Get, Offered
  <2>3. /\ n \in Connections /\ n.pc = "service" /\ n.to = route.vm
        /\ n.user = conn[c].user /\ n.password = conn[c].password
    BY <1>1, <2>2 DEF Connections, ConnSteps, Dialling, Routes
  <2>4. asked \in Asked
    BY <1>1 DEF Asked
  <2>5. Kept(route) /\ Kept(asked) => route = asked
    BY <2>2, <2>4 DEF Inductive, Ordered, Agree, OneRoute, Offered
  <2>6. conn[c].password # route.vm => conn[c].user \in lost[conn[c].password] \union lost[route.vm]
    BY <2>2, <2>5 DEF Kept
  <2> HIDE DEF n
  <2>7. Proper(n)
    BY <1>1, <2>3, <2>6 DEF Proper
  <2>8. QED  BY <2>1, <2>3, <2>7, ConnMoves DEF n
<1>4. QED  BY <1>2, <1>3

LEMMA ConnStepKeeps ==
    ASSUME Inductive, NEW c \in Conns, ConnStep(c)
    PROVE  Inductive'
<1> USE DEF ConnSteps, Dialling
<1>1. CASE Accept(c)
    BY <1>1, GotoKeeps DEF Accept, Inductive, ConnsRouted
<1>2. CASE HandshakeFails(c) \/ RejectAllChannels(c) \/ ProxyEnds(c)
    BY <1>2, ConnMoves, ClosedProper DEF HandshakeFails, RejectAllChannels, ProxyEnds
<1>3. CASE \E id \in Ids, v \in VMs : Authenticate(c, id, v)
    BY <1>3, AuthenticateKeeps
<1>4. CASE Lookup(c)
    BY <1>4, LookupKeeps
<1>5. CASE DialStep(c) \/ SshdAnswers(c)
    BY <1>5, GotoKeeps DEF DialStep, SshdAnswers, EnsureServiceExists, ReadPrivateKey, DialSSH, Retry,
                           AfterFailure
<1>6. CASE Deadline(c)
  <2> DEFINE n == [conn[c] EXCEPT !.late = TRUE]
  <2>1. conn[c] \in Connections /\ conn[c].pc \in Dialling \union {"hung"} /\ ToConn(c, n)
    BY <1>6 DEF Deadline, Inductive, TypeOK
  <2>2. /\ n \in Connections /\ n.pc = conn[c].pc /\ n.to = conn[c].to
        /\ n.user = conn[c].user /\ n.password = conn[c].password
    BY <2>1 DEF Connections
  <2> HIDE DEF n
  <2>3. Proper(n)
    BY <2>1, <2>2 DEF Proper, Inductive, ConnsRouted, ConnectedToOwner
  <2>4. QED  BY <2>1, <2>2, <2>3, ConnMoves
<1>7. QED  BY <1>1, <1>2, <1>3, <1>4, <1>5, <1>6 DEF ConnStep

LEMMA RestartKeeps ==
    ASSUME Inductive, Restart
    PROVE  Inductive'
<1>1. /\ UNCHANGED <<crd, lost>> /\ changes' \in 0..MaxChanges
      /\ cache' = [v \in VMs |-> NoCRD] /\ todo' = Existing
      /\ pending' = FALSE /\ handler' = Waiting /\ main' = Started /\ table' = EmptyTable
    BY BoundsAssumption DEF Restart, Inductive, TypeOK
<1>2. /\ conn' \in [Conns -> Connections]
      /\ \A c \in Conns : conn'[c].pc \in {"idle", "closed"} /\ conn'[c].to = NoVM
  <2>1. \A c \in Conns : conn[c] \in Connections /\ (conn[c].pc = "idle" => conn[c].to = NoVM)
    BY DEF Inductive, TypeOK, ConnsRouted
  <2>2. Closed \in Connections /\ Closed.pc = "closed" /\ Closed.to = NoVM
    BY ClosedProper DEF Closed, Idle
  <2>3. QED  BY <2>1, <2>2 DEF Restart
<1>3. TypeOK'
    BY <1>1, <1>2, NoBuildBuilds DEF Inductive, TypeOK, Existing, Waiting, Started, CRDs
<1>4. /\ Candidates(handler'.build) = {} /\ Candidates(main'.build) = {} /\ Offered(table') = {}
      /\ OneRoute(table') /\ WellBuilt(handler'.build) /\ WellBuilt(main'.build)
    BY <1>1, NoBuildBuilds DEF Waiting, Started
<1>5. Asked' = {}
    BY <1>2 DEF Asked
<1>6. StoreCurrent'
    BY <1>1 DEF StoreCurrent, NoCRD
<1>7. ConnsRouted' /\ ConnectedToOwner'
    BY <1>2 DEF ConnsRouted, ConnectedToOwner
<1>8. RoutesStored' /\ Ordered'
    BY <1>4, <1>5 DEF RoutesStored, Ordered, Agree, EitherAgrees
<1>9. QED  BY <1>3, <1>4, <1>6, <1>7, <1>8 DEF Inductive

(***************************************************************************)
(* The theorems.                                                           *)
(***************************************************************************)
LEMMA InitInductive == Init => Inductive
<1> SUFFICES ASSUME Init PROVE Inductive
    OBVIOUS
<1>1. Idle \in Connections /\ Idle.pc = "idle" /\ Idle.to = NoVM
    BY DEF Idle, Connections, ConnSteps
<1>2. TypeOK
  <2>1. crd \in [VMs -> CRDs]
    BY SeedsAssumption DEF Init
  <2>2. cache \in [VMs -> CRDs] /\ lost \in [VMs -> SUBSET Ids] /\ conn \in [Conns -> Connections]
    BY <1>1 DEF Init, CRDs
  <2>3. handler \in [busy : BOOLEAN, build : Builds]
    BY NoBuildBuilds DEF Init, Waiting
  <2>4. main \in [pc : {"sync", "replace", "done"}, build : Builds]
    BY NoBuildBuilds DEF Init, Started
  <2>5. changes \in 0..MaxChanges /\ todo \subseteq VMs
    BY BoundsAssumption DEF Init, Existing
  <2>6. pending \in BOOLEAN /\ table \in Tables
    BY NoBuildBuilds DEF Init
  <2>7. QED  BY <2>1, <2>2, <2>3, <2>4, <2>5, <2>6 DEF TypeOK
<1>3. /\ Candidates(handler.build) = {} /\ Candidates(main.build) = {} /\ Offered(table) = {}
      /\ OneRoute(table) /\ WellBuilt(handler.build) /\ WellBuilt(main.build)
    BY NoBuildBuilds DEF Init, Waiting, Started
<1>4. Asked = {} /\ ConnsRouted /\ ConnectedToOwner
    BY <1>1 DEF Init, Asked, ConnsRouted, ConnectedToOwner
<1>5. StoreCurrent
    BY DEF Init, StoreCurrent, NoCRD
<1>6. RoutesStored /\ Ordered
    BY <1>3, <1>4 DEF RoutesStored, Ordered, Agree, EitherAgrees
<1>7. QED  BY <1>2, <1>3, <1>4, <1>5, <1>6 DEF Inductive

LEMMA NextInductive == Inductive /\ [Next]_vars => Inductive'
<1> SUFFICES ASSUME Inductive, [Next]_vars PROVE Inductive'
    OBVIOUS
<1>1. ASSUME NEW v \in VMs, Deliver(v) PROVE Inductive'
    BY <1>1, DeliverKeeps
<1>2. ASSUME NEW v \in VMs, NEW o \in CRDs, Write(v, o) PROVE Inductive'
    BY <1>2, WriteKeeps
<1>3. CASE Resync
    BY <1>3, ResyncKeeps
<1>4. CASE TableStep
    BY <1>4, HandlerListKeeps, HandlerTurnKeeps, HandlerReplaceKeeps, MainListKeeps, MainTurnKeeps,
       MainReplaceKeeps DEF TableStep
<1>5. ASSUME NEW c \in Conns, ConnStep(c) PROVE Inductive'
    BY <1>5, ConnStepKeeps
<1>6. CASE Restart
    BY <1>6, RestartKeeps
<1>7. CASE UNCHANGED vars
    BY <1>7 DEF vars, Inductive, TypeOK, ConnsRouted, StoreCurrent, RoutesStored, Holders, Asked, Ordered,
                Agree, EitherAgrees, Kept, ConnectedToOwner
<1>8. QED  BY <1>1, <1>2, <1>3, <1>4, <1>5, <1>6, <1>7 DEF Next

\* What every step of store, rebuilds and connections keeps: routes are of VMs
\* that hold the name or gave it up, and later lists agree with earlier ones.
THEOREM GatewayInvariant == Spec => []Inductive
<1>1. Init => Inductive
    BY InitInductive
<1>2. Inductive /\ [Next]_vars => Inductive'
    BY NextInductive
<1>3. QED  BY <1>1, <1>2, PTL DEF Spec

\* However many VMs claim a name, however the two rebuilds of the table and
\* the two look-ups of a connection fall together: a client reaches the VM
\* whose password it gave, unless one of the two gave the name up.
THEOREM Routed == Spec => []ConnectedToOwner
<1>1. Inductive => ConnectedToOwner
    BY DEF Inductive
<1>2. QED  BY <1>1, GatewayInvariant, PTL

\* A table that is installed is the one its whole list calls for: one claimant
\* makes a route, two or more a duplicate, and none is left out.
THEOREM OnlyWholeTables == Spec => WholeTables
<1>1. Inductive /\ [Next]_vars =>
        [table' # table /\ ~Restart => table' \in {TableOf(handler.build.list), TableOf(main.build.list)}]_vars
  <2> SUFFICES ASSUME Inductive, Next, table' # table, ~Restart
               PROVE  table' \in {TableOf(handler.build.list), TableOf(main.build.list)}
      BY DEF vars
  <2>1. WellBuilt(handler.build) /\ WellBuilt(main.build)
    BY DEF Inductive
  <2>2. ASSUME NEW build, WellBuilt(build), Swap(build)
        PROVE  table' = TableOf(build.list)
    <3>1. build.list \ build.left = build.list
      BY <2>2 DEF Swap
    <3>2. QED  BY <2>2, <3>1 DEF WellBuilt, Swap
  <2>3. CASE HandlerReplace \/ MainReplace
    BY <2>1, <2>2, <2>3 DEF HandlerReplace, MainReplace
  <2>4. ~\E v \in VMs : Deliver(v) \/ \E o \in CRDs : Write(v, o)
    BY DEF Deliver, Write, gateway
  <2>5. ~Resync /\ ~HandlerList /\ ~HandlerTurn /\ ~MainList /\ ~MainTurn
    BY DEF Resync, HandlerList, HandlerTurn, MainList, MainTurn
  <2>6. \A c \in Conns : ~ConnStep(c)
    BY DEF ConnStep, Accept, HandshakeFails, Authenticate, Lookup, DialStep, EnsureServiceExists,
           ReadPrivateKey, DialSSH, Retry, SshdAnswers, Deadline, RejectAllChannels, ProxyEnds, Goto, ToConn
  <2>7. QED  BY <2>3, <2>4, <2>5, <2>6 DEF Next, TableStep
<1>2. QED  BY <1>1, GatewayInvariant, PTL DEF Spec, WholeTables
=============================================================================
