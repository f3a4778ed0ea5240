---------------------------- MODULE KiteVM_proofs ----------------------------
(***************************************************************************)
(* Proofs about KiteVM for every number of informers, requests, keys,      *)
(* incarnations, updates and faults.                                       *)
(***************************************************************************)
EXTENDS KiteVM, TLAPS

(***************************************************************************)
(* What a handler step does to the table of handlers.                      *)
(***************************************************************************)
\* A step replaces one handler and leaves the others alone.
LEMMA StepEffect ==
    ASSUME pass \in [Informers -> Passes], NEW w \in Informers, NEW p \in Passes, Step(w, p)
    PROVE  /\ pass' \in [Informers -> Passes]
           /\ pass'[w] = p
           /\ \A v \in Informers \ {w} : pass'[v] = pass[v]
BY DEF Step

\* NoPass is a handler that has nothing to do.
LEMMA NoPassType == NoPass \in Passes
BY DEF NoPass, Passes, CRDs, NoCRD, AnyKey, Labels, OwnedOrder

\* A started handler has fresh locals.
LEMMA StartEffect ==
    ASSUME pass \in [Informers -> Passes], NEW w \in Informers, NEW label \in Labels, Start(w, label)
    PROVE  /\ pass' \in [Informers -> Passes]
           /\ pass'[w].pc = label /\ pass'[w].snap = NoCRD
           /\ pass'[w].todo = 1 /\ pass'[w].after = "idle"
           /\ \A v \in Informers \ {w} : pass'[v] = pass[v]
<1> DEFINE p == [NoPass EXCEPT !.pc = label]
<1>1. p \in Passes
  BY NoPassType DEF Passes
<1>2. p.pc = label /\ p.snap = NoCRD /\ p.todo = 1 /\ p.after = "idle"
  BY NoPassType DEF Passes, NoPass
<1> HIDE DEF p
<1>3. Step(w, p)
  BY DEF Start, p
<1> QED
  BY <1>1, <1>2, <1>3, StepEffect

\* A stopped handler has nothing to do.
LEMMA StopEffect ==
    ASSUME pass \in [Informers -> Passes], NEW w \in Informers, Stop(w)
    PROVE  /\ pass' \in [Informers -> Passes]
           /\ pass'[w].pc = "idle" /\ pass'[w].snap = NoCRD
           /\ pass'[w].todo = 1 /\ pass'[w].after = "idle"
           /\ \A v \in Informers \ {w} : pass'[v] = pass[v]
<1>1. pass' \in [Informers -> Passes] /\ pass'[w] = NoPass /\ \A v \in Informers \ {w} : pass'[v] = pass[v]
  BY NoPassType, StepEffect DEF Stop
<1> QED
  BY <1>1 DEF NoPass

\* Goto moves a handler to another label.
LEMMA GotoEffect ==
    ASSUME pass \in [Informers -> Passes], NEW w \in Informers, NEW label \in Labels, Goto(w, label)
    PROVE  /\ pass' \in [Informers -> Passes]
           /\ pass'[w].pc = label /\ pass'[w].snap = pass[w].snap
           /\ pass'[w].todo = pass[w].todo /\ pass'[w].after = pass[w].after
           /\ \A v \in Informers \ {w} : pass'[v] = pass[v]
<1> DEFINE p == [pass[w] EXCEPT !.pc = label]
<1>1. p \in Passes
  BY DEF Passes
<1>2. p.pc = label /\ p.snap = pass[w].snap /\ p.todo = pass[w].todo /\ p.after = pass[w].after
  BY DEF Passes
<1> HIDE DEF p
<1>3. Step(w, p)
  BY DEF Goto, p
<1> QED
  BY <1>1, <1>2, <1>3, StepEffect

\* Loop also restarts the count of children.
LEMMA LoopEffect ==
    ASSUME pass \in [Informers -> Passes], NEW w \in Informers, NEW label \in Labels, Loop(w, label)
    PROVE  /\ pass' \in [Informers -> Passes]
           /\ pass'[w].pc = label /\ pass'[w].snap = pass[w].snap
           /\ pass'[w].todo = 1 /\ pass'[w].after = pass[w].after
           /\ \A v \in Informers \ {w} : pass'[v] = pass[v]
<1> DEFINE p == [pass[w] EXCEPT !.pc = label, !.todo = 1]
<1>1. 1 \in 1..Len(OwnedOrder)
  BY DEF OwnedOrder
<1>2. p \in Passes
  BY <1>1 DEF Passes
<1>3. p.pc = label /\ p.snap = pass[w].snap /\ p.todo = 1 /\ p.after = pass[w].after
  BY DEF Passes
<1> HIDE DEF p
<1>4. Step(w, p)
  BY DEF Loop, p
<1> QED
  BY <1>2, <1>3, <1>4, StepEffect

\* A generated key pair is a key pair.
LEMMA FreshKeyType == FreshKeys # {} => FreshKey \in Keys
BY Zenon DEF FreshKeys, FreshKey
(***************************************************************************)
(* Type correctness.                                                       *)
(***************************************************************************)
TypeInv == TypeOK /\ ApplyInRange

\* Only the handler that moves can leave the apply loop's range.
LEMMA InRangeFrame ==
    ASSUME ApplyInRange, NEW w \in Informers,
           \A v \in Informers \ {w} : pass'[v] = pass[v],
           pass'[w].pc = "apply" => pass'[w].todo <= Len(ApplyOrder)
    PROVE  ApplyInRange'
<1> SUFFICES ASSUME NEW v \in Informers, pass'[v].pc = "apply"
             PROVE  pass'[v].todo <= Len(ApplyOrder)
  BY DEF ApplyInRange, At
<1>1. CASE v = w
  BY <1>1
<1>2. CASE v # w
  BY <1>2 DEF ApplyInRange, At
<1> QED BY <1>1, <1>2

\* Every step of a handler keeps the types.
LEMMA PassStepType ==
    ASSUME TypeInv, NEW w \in Informers, PassStep(w)
    PROVE  TypeInv'
<1> USE DEF TypeInv
<1>a. /\ pass \in [Informers -> Passes] /\ pass[w] \in Passes
      /\ \A label \in {"idle", "get", "addfin", "apply", "sshCreate", "delkv", "delowned", "rmfin", "delcrd"} :
            label \in Labels
  BY DEF TypeOK, Labels, Desired, Cleanup
<1>b. ASSUME NEW p \in Passes, Step(w, p), p.pc = "apply" => p.todo <= Len(ApplyOrder)
      PROVE  pass' \in [Informers -> Passes] /\ ApplyInRange'
  BY <1>a, <1>b, StepEffect, InRangeFrame
<1>c. ASSUME NEW label \in Labels, label # "apply" \/ Loop(w, label),
             Start(w, label) \/ Stop(w) \/ Goto(w, label) \/ Loop(w, label)
      PROVE  pass' \in [Informers -> Passes] /\ ApplyInRange'
  <2>0. "idle" # "apply" /\ 1 <= Len(ApplyOrder)
    BY DEF ApplyOrder
  <2>1. CASE Start(w, label)
    BY <1>a, <1>c, <2>0, <2>1, StartEffect, InRangeFrame
  <2>2. CASE Stop(w)
    BY <1>a, <1>c, <2>0, <2>2, StopEffect, InRangeFrame
  <2>3. CASE Loop(w, label)
    BY <1>a, <1>c, <2>0, <2>3, LoopEffect, InRangeFrame
  <2>4. CASE Goto(w, label) /\ label # "apply"
    BY <1>a, <1>c, <2>0, <2>4, GotoEffect, InRangeFrame
  <2> QED BY <1>c, <2>1, <2>2, <2>3, <2>4
<1>d. ASSUME pass' \in [Informers -> Passes], ApplyInRange', UNCHANGED <<store, caches, req, counts, late>>
      PROVE  TypeInv'
  BY <1>d DEF TypeOK, store, caches, counts
<1>1. CASE OwnerGet(w)
  <2>1. UNCHANGED <<store, caches, req, counts, late>> /\ (Start(w, "get") \/ Stop(w))
    BY <1>1 DEF OwnerGet
  <2> QED BY <2>1, <1>a, <1>c, <1>d
<1>2. CASE Get(w)
  <2> DEFINE p == [pass[w] EXCEPT !.pc = "ns", !.snap = crd]
  <2>1. UNCHANGED <<store, caches, req, counts, late>> /\ (Stop(w) \/ Step(w, p))
    BY <1>2 DEF Get
  <2>2. p \in Passes /\ p.pc = "ns"
    BY <1>a DEF Passes, Labels, TypeOK
  <2> HIDE DEF p
  <2> QED BY <2>1, <2>2, <1>a, <1>b, <1>c, <1>d
<1>3. CASE Ns(w)
  <2> DEFINE p == [pass[w] EXCEPT !.pc = "exists", !.after = "rmfin"]
             q == [pass[w] EXCEPT !.pc = Intended(w), !.after = IntendedAfter(w)]
  <2>1. /\ UNCHANGED <<store, caches, req, counts, late>>
        /\ Stop(w) \/ Step(w, p) \/ Goto(w, "addfin") \/ Step(w, q)
    BY <1>3 DEF Ns
  <2>2. p \in Passes /\ p.pc = "exists"
    BY <1>a DEF Passes, Labels, Cleanup
  <2>3. q \in Passes /\ q.pc # "apply"
    BY <1>a DEF Passes, Labels, Cleanup, Desired, Intended, IntendedAfter
  <2> HIDE DEF p, q
  <2> QED BY <2>1, <2>2, <2>3, <1>a, <1>b, <1>c, <1>d
<1>4. CASE AddFin(w)
  <2> DEFINE s == [pass[w].snap EXCEPT !.fin = TRUE]
             p == [pass[w] EXCEPT !.pc = Intended(w), !.after = IntendedAfter(w), !.snap = s]
  <2>1. s \in CRDs /\ crd' \in CRDs
    BY <1>4, <1>a DEF AddFin, Passes, CRDs, TypeOK
  <2>2. p \in Passes /\ p.pc # "apply"
    BY <1>a, <2>1 DEF Passes, Labels, Cleanup, Desired, Intended, IntendedAfter
  <2>3. Step(w, p) /\ UNCHANGED <<uids, kv, res, sshKey, ciKey, nsTerm, caches, req, counts, late>>
    BY <1>4 DEF AddFin
  <2> HIDE DEF p, s
  <2>4. pass' \in [Informers -> Passes] /\ ApplyInRange'
    BY <2>2, <2>3, <1>b
  <2> QED BY <2>1, <2>3, <2>4 DEF TypeOK, caches, counts
<1>5. CASE SshGet(w)
  <2> DEFINE p == [pass[w] EXCEPT !.pc = "guest", !.key = sshKey]
  <2>1. UNCHANGED <<store, caches, req, counts, late>> /\ (Step(w, p) \/ Goto(w, "sshCreate"))
    BY <1>5 DEF SshGet
  <2>2. p \in Passes /\ p.pc = "guest"
    BY <1>a DEF Passes, Labels, Desired, TypeOK
  <2> HIDE DEF p
  <2> QED BY <2>1, <2>2, <1>a, <1>b, <1>c, <1>d
<1>6. CASE SshCreate(w)
  <2> DEFINE p == [pass[w] EXCEPT !.pc = "guest", !.key = FreshKey]
  <2>1. CASE Stop(w) /\ UNCHANGED <<res, sshKey, late>>
    <3>1. UNCHANGED <<store, caches, req, counts, late>>
      BY <1>6, <2>1 DEF SshCreate, store
    <3> QED BY <2>1, <3>1, <1>a, <1>c, <1>d
  <2>2. CASE ~(Stop(w) /\ UNCHANGED <<res, sshKey, late>>)
    <3>1. /\ FreshKeys # {} /\ Step(w, p)
          /\ sshKey' \in {sshKey, FreshKey} /\ res' = res \union {"sshKey"}
          /\ late' = (late \/ ("sshKey" \notin res /\ Overtaken(w)))
          /\ UNCHANGED <<crd, uids, kv, ciKey, nsTerm, caches, req, counts>>
      BY <1>6, <2>2 DEF SshCreate
    <3>2. FreshKey \in Keys
      BY <3>1, FreshKeyType
    <3>3. p \in Passes /\ p.pc = "guest"
      BY <1>a, <3>2 DEF Passes, Labels, Desired, AnyKey
    <3> HIDE DEF p
    <3>4. pass' \in [Informers -> Passes] /\ ApplyInRange'
      BY <3>1, <3>3, <1>b
    <3>5. late' \in BOOLEAN
      BY <3>1 DEF TypeOK
    <3> QED BY <3>1, <3>2, <3>4, <3>5 DEF TypeOK, caches, counts, AnyKey, Owned
  <2> QED BY <2>1, <2>2
<1>7. CASE GuestGet(w)
  <2>1. UNCHANGED <<store, caches, req, counts, late>> /\ (Loop(w, "apply") \/ Stop(w))
    BY <1>7 DEF GuestGet
  <2> QED BY <2>1, <1>a, <1>c, <1>d
<1>8. CASE Apply(w)
  <2> DEFINE c == ApplyOrder[pass[w].todo]
             k == IF c = "cloudInit" THEN NoKey ELSE pass[w].key
             p == [pass[w] EXCEPT !.todo = @ + 1, !.key = k]
  <2>1. /\ pass[w].todo \in Nat /\ pass[w].todo >= 1 /\ pass[w].todo <= Len(ApplyOrder)
        /\ Len(ApplyOrder) \in {4, 5}
        /\ c \in {"dv", "cloudInit", "kv", "service", "ingress"}
    BY <1>8, <1>a DEF Apply, ApplyInRange, At, ApplyOrder, Passes, OwnedOrder
  <2>2. /\ kv' \in {kv, [kv EXCEPT !.here = TRUE, !.run = pass[w].snap.on]}
        /\ res' \in {res, res \union {c}} /\ (c = "kv" => res' = res)
        /\ ciKey' \in {ciKey, pass[w].key}
        /\ UNCHANGED <<crd, uids, sshKey, nsTerm, caches, req, counts>>
    BY <1>8 DEF Apply
  <2>3. late' \in BOOLEAN
    BY <1>8 DEF Apply, TypeOK
  <2>4. Stop(w) \/ (pass[w].todo # Len(ApplyOrder) /\ Step(w, p))
    BY <1>8 DEF Apply
  <2>5. /\ kv' \in [here : BOOLEAN, run : BOOLEAN, term : BOOLEAN]
        /\ ciKey' \in AnyKey
    BY <1>a, <2>2 DEF Passes, CRDs, TypeOK
  <2>6. res' \subseteq Owned
    BY <2>1, <2>2 DEF Owned, TypeOK
  <2>7. CASE pass[w].todo # Len(ApplyOrder)
    <3>1. p \in Passes /\ p.todo <= Len(ApplyOrder)
      <4>1. pass[w].todo + 1 \in 1..Len(OwnedOrder) /\ pass[w].todo + 1 <= Len(ApplyOrder)
        BY <2>1, <2>7 DEF OwnedOrder
      <4>2. k \in AnyKey
        BY <1>a DEF Passes, AnyKey
      <4> HIDE DEF k, c
      <4> QED BY <1>a, <4>1, <4>2 DEF Passes
    <3> HIDE DEF p
    <3> QED BY <2>2, <2>3, <2>4, <2>5, <2>6, <3>1, <1>a, <1>b, <1>c DEF TypeOK, caches, counts
  <2>8. CASE Stop(w)
    BY <2>2, <2>3, <2>5, <2>6, <2>8, <1>a, <1>c DEF TypeOK, caches, counts
  <2> QED BY <2>4, <2>7, <2>8
<1>9. CASE Exists(w)
  <2>1. UNCHANGED <<store, caches, req, counts, late>> /\ (Start(w, "delkv") \/ Loop(w, "delowned"))
    BY <1>9 DEF Exists
  <2> QED BY <2>1, <1>a, <1>c, <1>d
<1>10. CASE DelKV(w)
  <2>1. kv' \in [here : BOOLEAN, run : BOOLEAN, term : BOOLEAN]
    BY <1>10 DEF DelKV, TypeOK
  <2>2. pass' \in [Informers -> Passes] /\ ApplyInRange'
    BY <1>10, <1>a, <1>c DEF DelKV
  <2> QED BY <1>10, <2>1, <2>2 DEF DelKV, TypeOK, caches, counts
<1>11. CASE DelOwned(w)
  <2> DEFINE p == [pass[w] EXCEPT !.todo = @ + 1]
  <2>1. /\ res' \subseteq Owned /\ sshKey' \in AnyKey /\ ciKey' \in AnyKey /\ gone' \subseteq Watchers
        /\ UNCHANGED <<crd, uids, kv, nsTerm, seen, req, counts, late>>
    BY <1>11 DEF DelOwned, Without, AnyKey, Lost, TypeOK
  <2>2. pass' \in [Informers -> Passes] /\ ApplyInRange'
    <3>1. CASE pass[w].todo < Len(OwnedOrder)
      <4>1. p \in Passes /\ p.pc = "delowned" /\ Step(w, p)
        BY <1>11, <1>a, <3>1 DEF DelOwned, DelOwnedNext, At, Passes, OwnedOrder
      <4> HIDE DEF p
      <4> QED BY <4>1, <1>b
    <3>2. CASE ~(pass[w].todo < Len(OwnedOrder))
      <4>1. pass[w].after \in {"idle", "rmfin", "delcrd"}
        BY <1>a DEF Passes
      <4>2. Stop(w) \/ (pass[w].after # "idle" /\ Loop(w, pass[w].after))
        BY <1>11, <3>2 DEF DelOwned, DelOwnedNext
      <4> QED BY <1>a, <1>c, <4>1, <4>2
    <3> QED BY <3>1, <3>2
  <2> QED BY <2>1, <2>2 DEF TypeOK, counts
<1>12. CASE RmFin(w)
  <2>1. crd' \in CRDs
    BY <1>12 DEF RmFin, CRDs, NoCRD, TypeOK
  <2>2. late' \in BOOLEAN
    BY <1>12 DEF RmFin, TypeOK
  <2>3. Stop(w) /\ UNCHANGED <<uids, kv, res, sshKey, ciKey, nsTerm, caches, req, counts>>
    BY <1>12 DEF RmFin
  <2> QED BY <1>a, <1>c, <2>1, <2>2, <2>3 DEF TypeOK, caches, counts
<1>13. CASE DelCRD(w)
  <2>1. crd' \in CRDs
    BY <1>13 DEF DelCRD, DeletedCRD, CRDs, NoCRD, TypeOK
  <2>2. Stop(w) /\ UNCHANGED <<uids, kv, res, sshKey, ciKey, nsTerm, caches, req, counts, late>>
    BY <1>13 DEF DelCRD
  <2> QED BY <1>a, <1>c, <2>1, <2>2 DEF TypeOK, caches, counts
<1> QED
  BY <1>1, <1>2, <1>3, <1>4, <1>5, <1>6, <1>7, <1>8, <1>9, <1>10, <1>11, <1>12, <1>13 DEF PassStep

\* Events, failures, requests and the environment keep the types.
LEMMA OtherStepType ==
    ASSUME TypeInv, [Next]_vars, \A w \in Informers : ~PassStep(w)
    PROVE  TypeInv'
<1> USE DEF TypeInv
<1>a. /\ pass \in [Informers -> Passes] /\ "vm" \in Informers /\ Watchers \subseteq Informers
      /\ {"get", "delkv"} \subseteq Labels
  BY InformersAssumption DEF TypeOK, Watchers, Labels, Cleanup
<1>b. ASSUME UNCHANGED pass
      PROVE  ApplyInRange'
  BY <1>b DEF ApplyInRange, At
<1>c. ASSUME NEW w \in Informers, NEW label \in {"get", "delkv"}, Start(w, label) \/ Stop(w)
      PROVE  pass' \in [Informers -> Passes] /\ ApplyInRange'
  <2>1. label \in Labels /\ label # "apply"
    BY <1>a, <1>c
  <2>2. CASE Start(w, label)
    BY <1>a, <2>1, <2>2, StartEffect, InRangeFrame
  <2>3. CASE Stop(w)
    BY <1>a, <2>3, StopEffect, InRangeFrame
  <2> QED BY <1>c, <2>2, <2>3
<1>d. NoCRD \in CRDs /\ DeletedCRD \in CRDs
  BY DEF TypeOK, CRDs, NoCRD, DeletedCRD
<1>e. \A c \in CRDs : Intent(c) \in [uid : Nat, on : BOOLEAN, del : BOOLEAN]
  BY DEF CRDs, Intent
<1>f. ASSUME NEW r \in Requests, NEW q \in Reqs, SetReq(r, q)
      PROVE  req' \in [Requests -> Reqs]
  BY <1>f DEF TypeOK, SetReq
<1>g. NoReq \in Reqs /\ \A l \in {"created", "rollback"} : [NoReq EXCEPT !.pc = l] \in Reqs
  BY DEF NoReq, Reqs
<1>1. CASE VMEvent
  BY <1>1, <1>a, <1>c, <1>e DEF VMEvent, TypeOK, store, counts
<1>2. CASE VMDeleted
  BY <1>2, <1>a, <1>c, <1>d, <1>e DEF VMDeleted, TypeOK, store, counts
<1>3. ASSUME NEW w \in Watchers, ChildEvent(w)
      PROVE  TypeInv'
  <2> DEFINE p == [pass[w] EXCEPT !.pc = "owner", !.deleted = TRUE]
             q == [pass[w] EXCEPT !.pc = "owner", !.run = (w = "kv" /\ kv.run)]
  <2>0. w \in Informers /\ pass[w] \in Passes
    BY <1>3, <1>a
  <2>1. p \in Passes /\ p.pc = "owner"
    BY <2>0 DEF Passes, Labels
  <2>2. q \in Passes /\ q.pc = "owner"
    <3>1. (w = "kv" /\ kv.run) \in BOOLEAN
      OBVIOUS
    <3> QED BY <2>0, <3>1 DEF Passes, Labels
  <2>3. gone' \subseteq Watchers /\ UNCHANGED <<store, seen, req, counts, late>> /\ (Step(w, p) \/ Step(w, q))
    BY <1>3 DEF ChildEvent, TypeOK
  <2> HIDE DEF p, q
  <2>4. pass' \in [Informers -> Passes] /\ ApplyInRange'
    BY <1>a, <2>0, <2>1, <2>2, <2>3, StepEffect, InRangeFrame
  <2> QED BY <2>3, <2>4 DEF TypeOK, store, counts
<1>4. ASSUME NEW w \in Informers, Fail(w)
      PROVE  TypeInv'
  BY <1>4, <1>c DEF Fail, TypeOK, store, caches, counts
<1>5. CASE Restart
  <2>1. pass' \in [Informers -> Passes] /\ ApplyInRange'
    BY <1>5, NoPassType DEF Restart, ApplyInRange, At, NoPass
  <2> QED BY <1>5, <1>d, <1>e, <2>1 DEF Restart, TypeOK, store, counts
<1>6. ASSUME NEW r \in Requests,
             (\E on \in BOOLEAN : ApiCreate(r, on)) \/ ApiGuestLogin(r) \/ ApiRollback(r)
                \/ (\E on, del \in BOOLEAN : ApiRead(r, on, del)) \/ ApiWrite(r) \/ ApiFail(r)
      PROVE  TypeInv'
  <2>1. ASSUME NEW on \in BOOLEAN, ApiCreate(r, on)
        PROVE  TypeInv'
    <3>0. uids' \in Nat /\ crd' = [NoCRD EXCEPT !.uid = uids', !.on = on]
      BY <2>1 DEF ApiCreate, createRecord, TypeOK
    <3>1. crd' \in CRDs /\ uids' \in Nat
      BY <3>0, <1>d DEF CRDs
    <3>2. req' \in [Requests -> Reqs]
      BY <2>1, <1>f, <1>g DEF ApiCreate, createRecord
    <3> QED BY <2>1, <1>b, <3>1, <3>2 DEF ApiCreate, createRecord, TypeOK, caches, counts
  <2>2. CASE ApiGuestLogin(r)
    <3>1. req' \in [Requests -> Reqs]
      BY <2>2, <1>f, <1>g DEF ApiGuestLogin
    <3> QED BY <2>2, <1>b, <3>1 DEF ApiGuestLogin, TypeOK, caches, counts, Owned
  <2>3. CASE ApiRollback(r)
    BY <2>3, <1>b, <1>d, <1>f, <1>g DEF ApiRollback, TypeOK, caches, counts
  <2>4. ASSUME NEW on \in BOOLEAN, NEW del \in BOOLEAN, ApiRead(r, on, del)
        PROVE  TypeInv'
    <3>1. [pc |-> "loaded", on |-> on, del |-> del] \in Reqs
      BY DEF Reqs
    <3> QED BY <2>4, <1>b, <1>f, <3>1 DEF ApiRead, TypeOK, store, caches, counts
  <2>5. CASE ApiWrite(r)
    <3>1. crd' \in CRDs
      BY <2>5 DEF ApiWrite, CRDs, Reqs, TypeOK
    <3> QED BY <2>5, <1>b, <1>f, <1>g, <3>1 DEF ApiWrite, TypeOK, caches, counts
  <2>6. CASE ApiFail(r)
    BY <2>6, <1>b, <1>f, <1>g DEF ApiFail, TypeOK, store, caches, counts
  <2> QED BY <1>6, <2>1, <2>2, <2>3, <2>4, <2>5, <2>6
<1>7. CASE ApiHardDelete
  BY <1>7, <1>b, <1>d DEF ApiHardDelete, TypeOK, caches, counts
<1>8. CASE KubeVirtRemoves
  BY <1>8, <1>b DEF KubeVirtRemoves, NoKV, Lost, TypeOK, counts
<1>9. CASE NamespaceTerminate
  BY <1>9, <1>b DEF NamespaceTerminate, TypeOK, caches, counts
<1>10. CASE NamespaceDeleteCRD
  BY <1>10, <1>b, <1>d DEF NamespaceDeleteCRD, TypeOK, caches, counts
<1>11. ASSUME NEW c \in Owned \union {"kv"}, NamespaceDeleteChild(c)
       PROVE  TypeInv'
  <2>1. CASE c = "kv"
    BY <1>11, <2>1, <1>b DEF NamespaceDeleteChild, TypeOK, counts
  <2>2. CASE c # "kv"
    BY <1>11, <2>2, <1>b DEF NamespaceDeleteChild, Without, Lost, AnyKey, TypeOK, counts
  <2> QED BY <2>1, <2>2
<1>12. CASE UNCHANGED vars
  BY <1>12, <1>b DEF vars, TypeOK, store, caches, counts
<1> QED
  BY <1>1, <1>2, <1>3, <1>4, <1>5, <1>6, <1>7, <1>8, <1>9, <1>10, <1>11, <1>12 DEF Next

\* The initial state has the types.
LEMMA InitType == Init => TypeInv
<1> SUFFICES ASSUME Init PROVE TypeInv
  OBVIOUS
<1>1. NoCRD \in CRDs /\ Intent(NoCRD) \in [uid : Nat, on : BOOLEAN, del : BOOLEAN] /\ NoReq \in Reqs
  BY DEF NoCRD, CRDs, Intent, NoReq, Reqs
<1>2. pass \in [Informers -> Passes] /\ ApplyInRange
  BY NoPassType DEF Init, ApplyInRange, At, NoPass
<1> QED
  BY <1>1, <1>2 DEF Init, TypeInv, TypeOK, NoKV, AnyKey

\* Every reachable state is well typed; in particular the two loops over
\* children never run past their last child, in any interleaving.
THEOREM TypeCorrect == Spec => []TypeOK
<1>1. TypeInv /\ [Next]_vars => TypeInv'
  <2> SUFFICES ASSUME TypeInv, [Next]_vars PROVE TypeInv'
    OBVIOUS
  <2>1. CASE \E w \in Informers : PassStep(w)
    BY <2>1, PassStepType
  <2>2. CASE \A w \in Informers : ~PassStep(w)
    BY <2>2, OtherStepType
  <2> QED BY <2>1, <2>2
<1>2. TypeInv => TypeOK
  BY DEF TypeInv
<1> QED
  BY InitType, <1>1, <1>2, PTL DEF Spec

(***************************************************************************)
(* ChildrenProtected.                                                      *)
(***************************************************************************)
\* What a step may do to the objects without disturbing PassOK of a handler
\* that does not move: the CRD may go, or be a new one; while it is the
\* same, marks and finalizer stay (the finalizer may only go with the
\* namespace), and once it is being deleted no child appears.
Benign ==
    /\ crd'.uid \in {0, crd.uid} \/ crd'.uid > uids
    /\ crd'.uid = crd.uid => (crd.term => crd'.term) /\ (crd.fin => crd'.fin \/ nsTerm')
    /\ nsTerm => nsTerm'
    /\ crd'.uid = crd.uid /\ (crd.term \/ nsTerm) =>
          (kv'.here => kv.here) /\ \A c \in Applied : c \in res' => c \in res

\* A handler that does not move stays OK under a benign step.
LEMMA PassFrame ==
    ASSUME TypeOK, TypeOK', UidsBounded, NEW v \in Informers, pass'[v] = pass[v], PassOK(v), Benign
    PROVE  PassOK(v)'
<1>1. pass[v] \in Passes /\ pass[v].snap.uid \in Nat /\ pass[v].snap.uid <= uids /\ uids \in Nat
      /\ crd.uid \in Nat /\ crd'.uid \in Nat /\ pass[v].todo \in Nat
  BY DEF TypeOK, UidsBounded, Passes, CRDs
<1>2. Current(v)' => Current(v) /\ crd'.uid = crd.uid
  BY <1>1 DEF Current, Benign
<1>3. CASE ~Current(v)'
  BY <1>3 DEF PassOK, At
<1>4. CASE Current(v)'
  <2>1. /\ Current(v) /\ crd'.uid = crd.uid
        /\ crd.term => crd'.term
        /\ crd.fin \/ nsTerm => crd'.fin \/ nsTerm'
        /\ crd.term \/ nsTerm => crd'.term \/ nsTerm'
        /\ crd.term \/ nsTerm => (kv'.here => kv.here) /\ \A c \in Applied : c \in res' => c \in res
    BY <1>2, <1>4 DEF Benign
  <2>2. Current(v) /\ pass[v].after = "rmfin" /\ At(v, "delowned") =>
          ~kv'.here /\ \A j \in 1..(pass[v].todo - 1) : OwnedOrder[j] \notin res' \intersect Applied
    BY <2>1 DEF PassOK
  <2>3. At(v, "rmfin") => ~kv'.here /\ res' \intersect Applied = {}
    BY <2>1 DEF PassOK
  <2>4. /\ pass[v].pc \in {"idle", "owner", "get", "ns", "addfin", "delkv"} => pass[v].after = "idle"
        /\ pass[v].pc \in {"ns", "addfin"} \union Desired => pass[v].snap.uid # 0
        /\ pass[v].snap.term => crd'.term
        /\ At(v, "ns") /\ pass[v].snap.fin => crd'.fin \/ nsTerm'
        /\ pass[v].pc \in Desired => crd'.fin \/ nsTerm'
        /\ pass[v].after = "rmfin" => crd'.term \/ nsTerm'
        /\ At(v, "rmfin") => pass[v].after = "rmfin"
    BY <2>1 DEF PassOK
  <2> QED BY <2>1, <2>2, <2>3, <2>4 DEF PassOK, At
<1> QED BY <1>3, <1>4

\* A handler without a snapshot, and outside the loops, is OK.
LEMMA FreshOK ==
    ASSUME NEW w \in Informers, pass'[w].pc \in {"idle", "owner", "get", "delkv"},
           pass'[w].snap = NoCRD, pass'[w].after = "idle"
    PROVE  PassOK(w)'
BY DEF PassOK, At, NoCRD, Desired, Current

\* A step of one handler that changes the objects benignly keeps Inductive.
LEMMA KeepOne ==
    ASSUME Inductive, TypeInv', NEW w \in Informers, \A v \in Informers \ {w} : pass'[v] = pass[v],
           uids' = uids, crd'.uid <= uids, seen'.uid <= uids, pass'[w].snap.uid <= uids, CRDShape',
           ~late' => ~late /\ Benign /\ PassOK(w)' /\ ChildrenProtected'
    PROVE  Inductive'
<1>1. UidsBounded'
  BY DEF UidsBounded, Inductive
<1>2. ASSUME ~late', NEW v \in Informers
      PROVE  PassOK(v)'
  <2>1. CASE v = w
    BY <1>2, <2>1
  <2>2. CASE v # w
    BY <1>2, <2>2, PassFrame DEF Inductive, TypeInv
  <2> QED BY <2>1, <2>2
<1>3. ChildrenProtected'
  <2>1. CASE late'
    BY <2>1 DEF ChildrenProtected
  <2> QED BY <2>1
<1> QED BY <1>1, <1>2, <1>3 DEF Inductive, TypeInv

\* A step that moves no handler.
LEMMA KeepAll ==
    ASSUME Inductive, TypeInv', UNCHANGED <<pass, late>>, uids \in Nat,
           uids' \in Nat, uids <= uids', crd'.uid <= uids', seen'.uid <= uids', CRDShape',
           ~late => Benign /\ ChildrenProtected'
    PROVE  Inductive'
<1>1. UidsBounded'
  <2> SUFFICES ASSUME NEW v \in Informers PROVE pass[v].snap.uid <= uids'
    BY DEF UidsBounded
  <2>1. pass[v].snap.uid \in Nat /\ pass[v].snap.uid <= uids
    BY DEF Inductive, UidsBounded, TypeOK, Passes, CRDs
  <2> QED BY <2>1
<1>2. ASSUME ~late', NEW v \in Informers
      PROVE  PassOK(v)'
  BY <1>2, PassFrame DEF Inductive, TypeInv
<1>3. ChildrenProtected'
  <2>1. CASE late'
    BY <2>1 DEF ChildrenProtected
  <2> QED BY <2>1
<1> QED BY <1>1, <1>2, <1>3 DEF Inductive, TypeInv

\* Every step of a handler keeps Inductive.
LEMMA PassStepInductive ==
    ASSUME Inductive, NEW w \in Informers, PassStep(w)
    PROVE  Inductive'
<1>t. TypeInv /\ TypeInv'
  BY PassStepType DEF Inductive, TypeInv
<1>a. /\ pass \in [Informers -> Passes] /\ pass[w] \in Passes /\ pass[w].snap \in CRDs
      /\ pass[w].snap.uid \in Nat /\ pass[w].snap.uid <= uids
      /\ uids \in Nat /\ crd \in CRDs /\ crd.uid \in Nat /\ crd.uid <= uids
      /\ seen.uid <= uids /\ NoCRD.uid <= uids /\ NoCRD.uid = 0
      /\ late \in BOOLEAN
      /\ \A label \in {"get", "addfin", "apply", "sshCreate", "delkv", "delowned", "rmfin", "delcrd"} :
            label \in Labels
  BY <1>t DEF TypeInv, TypeOK, Passes, CRDs, Inductive, UidsBounded, NoCRD, Labels, Desired, Cleanup
<1>b. CRDShape /\ (~late => PassOK(w) /\ ChildrenProtected)
  BY DEF Inductive
<1>c. ASSUME UNCHANGED <<store, caches, late>>, pass'[w].snap.uid <= uids,
             \A v \in Informers \ {w} : pass'[v] = pass[v],
             ~late => PassOK(w)'
      PROVE  Inductive'
  <2>1. Benign /\ CRDShape'
    BY <1>b, <1>c, <1>a DEF Benign, store, CRDShape
  <2>2. ~late => ChildrenProtected'
    BY <1>b, <1>c DEF ChildrenProtected, store
  <2> QED BY <1>a, <1>c, <1>t, <2>1, <2>2, KeepOne DEF store, caches
<1>d. ASSUME UNCHANGED <<store, caches, late>>, NEW label \in {"get", "delkv"}, Start(w, label) \/ Stop(w)
      PROVE  Inductive'
  <2>1. CASE Start(w, label)
    <3>1. /\ pass'[w].pc = label /\ pass'[w].snap = NoCRD /\ pass'[w].after = "idle"
          /\ \A v \in Informers \ {w} : pass'[v] = pass[v]
      BY <1>a, <1>d, <2>1, StartEffect
    <3>2. PassOK(w)'
      BY <3>1, <1>d, FreshOK
    <3> QED BY <1>a, <1>c, <1>d, <3>1, <3>2
  <2>2. CASE Stop(w)
    <3>1. /\ pass'[w].pc = "idle" /\ pass'[w].snap = NoCRD /\ pass'[w].after = "idle"
          /\ \A v \in Informers \ {w} : pass'[v] = pass[v]
      BY <1>a, <2>2, StopEffect
    <3>2. PassOK(w)'
      BY <3>1, FreshOK
    <3> QED BY <1>a, <1>c, <1>d, <3>1, <3>2
  <2> QED BY <1>d, <2>1, <2>2
<1>1. CASE OwnerGet(w)
  BY <1>1, <1>d DEF OwnerGet
<1>2. CASE Get(w)
  <2> DEFINE p == [pass[w] EXCEPT !.pc = "ns", !.snap = crd]
  <2>1. CASE Stop(w)
    BY <1>2, <2>1, <1>d DEF Get
  <2>2. CASE crd.uid # 0 /\ Step(w, p)
    <3>1. p \in Passes /\ p.pc = "ns" /\ p.snap = crd /\ p.after = pass[w].after
      BY <1>a DEF Passes, Labels
    <3> HIDE DEF p
    <3>2. /\ pass'[w].pc = "ns" /\ pass'[w].snap = crd /\ pass'[w].after = pass[w].after
          /\ \A v \in Informers \ {w} : pass'[v] = pass[v]
      BY <1>a, <2>2, <3>1, StepEffect
    <3>3. UNCHANGED <<store, caches, late>> /\ At(w, "get")
      BY <1>2 DEF Get
    <3>4. ~late => PassOK(w)'
      BY <1>b, <2>2, <3>2, <3>3 DEF PassOK, At, Current, store, Desired
    <3> QED BY <1>a, <1>c, <3>2, <3>3, <3>4
  <2> QED BY <1>2, <2>1, <2>2 DEF Get
<1>3. CASE Ns(w)
  <2> DEFINE p == [pass[w] EXCEPT !.pc = "exists", !.after = "rmfin"]
             q == [pass[w] EXCEPT !.pc = Intended(w), !.after = IntendedAfter(w)]
  <2>0. UNCHANGED <<store, caches, late>> /\ At(w, "ns")
    BY <1>3 DEF Ns
  <2>1. CASE Stop(w)
    BY <2>0, <2>1, <1>d
  <2>2. CASE (nsTerm \/ pass[w].snap.term) /\ Step(w, p)
    <3>1. p \in Passes /\ p.pc = "exists" /\ p.snap = pass[w].snap /\ p.after = "rmfin"
      BY <1>a DEF Passes, Labels, Cleanup
    <3> HIDE DEF p
    <3>2. /\ pass'[w].pc = "exists" /\ pass'[w].snap = pass[w].snap /\ pass'[w].after = "rmfin"
          /\ \A v \in Informers \ {w} : pass'[v] = pass[v]
      BY <1>a, <2>2, <3>1, StepEffect
    <3>3. ~late => PassOK(w)'
      BY <1>b, <2>0, <2>2, <3>2 DEF PassOK, At, Current, store, Desired
    <3> QED BY <1>a, <1>c, <2>0, <3>2, <3>3
  <2>3. CASE Goto(w, "addfin")
    <3>1. /\ pass'[w].pc = "addfin" /\ pass'[w].snap = pass[w].snap /\ pass'[w].after = pass[w].after
          /\ \A v \in Informers \ {w} : pass'[v] = pass[v]
      BY <1>a, <2>3, GotoEffect
    <3>2. ~late => PassOK(w)'
      BY <1>b, <2>0, <3>1 DEF PassOK, At, Current, store, Desired
    <3> QED BY <1>a, <1>c, <2>0, <3>1, <3>2
  <2>4. CASE pass[w].snap.fin /\ Step(w, q)
    <3>1. q \in Passes /\ q.pc \in {"exists", "ssh"} /\ q.snap = pass[w].snap /\ q.after # "rmfin"
      BY <1>a DEF Passes, Labels, Cleanup, Desired, Intended, IntendedAfter
    <3> HIDE DEF q
    <3>2. /\ pass'[w].pc \in {"exists", "ssh"} /\ pass'[w].snap = pass[w].snap /\ pass'[w].after # "rmfin"
          /\ \A v \in Informers \ {w} : pass'[v] = pass[v]
      BY <1>a, <2>4, <3>1, StepEffect
    <3>3. ~late => PassOK(w)'
      BY <1>b, <2>0, <2>4, <3>2 DEF PassOK, At, Current, store, Desired
    <3> QED BY <1>a, <1>c, <2>0, <3>2, <3>3
  <2> QED BY <1>3, <2>1, <2>2, <2>3, <2>4 DEF Ns
<1>4. CASE AddFin(w)
  <2> DEFINE s == [pass[w].snap EXCEPT !.fin = TRUE]
             p == [pass[w] EXCEPT !.pc = Intended(w), !.after = IntendedAfter(w), !.snap = s]
  <2>1. s \in CRDs /\ s.uid = pass[w].snap.uid /\ s.term = pass[w].snap.term
    BY <1>a DEF CRDs
  <2>2. p \in Passes /\ p.pc \in {"exists", "ssh"} /\ p.snap = s /\ p.after # "rmfin"
    BY <1>a, <2>1 DEF Passes, Labels, Cleanup, Desired, Intended, IntendedAfter
  <2>3. /\ Step(w, p) /\ UNCHANGED <<uids, kv, res, nsTerm, caches, late>> /\ At(w, "addfin")
        /\ crd' = IF crd.uid = 0 THEN crd ELSE [crd EXCEPT !.fin = TRUE]
    BY <1>4 DEF AddFin
  <2> HIDE DEF p, s
  <2>4. /\ pass'[w].pc \in {"exists", "ssh"} /\ pass'[w].snap.uid = pass[w].snap.uid
        /\ pass'[w].snap.term = pass[w].snap.term /\ pass'[w].after # "rmfin"
        /\ \A v \in Informers \ {w} : pass'[v] = pass[v]
    BY <1>a, <2>1, <2>2, <2>3, StepEffect
  <2>5. /\ crd'.uid = crd.uid /\ crd'.term = crd.term /\ (crd.fin => crd'.fin)
        /\ (crd.uid # 0 => crd'.fin) /\ (crd.uid = 0 => crd'.fin = crd.fin)
    BY <1>a, <2>3 DEF CRDs
  <2>6. Benign /\ CRDShape'
    BY <1>b, <2>3, <2>5 DEF Benign, CRDShape
  <2>7. ~late => PassOK(w)'
    BY <1>b, <2>3, <2>4, <2>5 DEF PassOK, At, Current, Desired
  <2>8. ~late => ChildrenProtected'
    BY <1>b, <2>3, <2>5 DEF ChildrenProtected
  <2> QED BY <1>a, <1>t, <2>3, <2>4, <2>5, <2>6, <2>7, <2>8, KeepOne DEF caches
<1>5. CASE SshGet(w)
  <2> DEFINE p == [pass[w] EXCEPT !.pc = "guest", !.key = sshKey]
  <2>1. UNCHANGED <<store, caches, late>> /\ At(w, "ssh") /\ (Step(w, p) \/ Goto(w, "sshCreate"))
    BY <1>5 DEF SshGet
  <2>2. p \in Passes /\ p.pc = "guest" /\ p.snap = pass[w].snap /\ p.after = pass[w].after
    BY <1>a, <1>t DEF Passes, Labels, Desired, TypeInv, TypeOK
  <2> HIDE DEF p
  <2>3. /\ pass'[w].pc \in {"guest", "sshCreate"} /\ pass'[w].snap = pass[w].snap /\ pass'[w].after = pass[w].after
        /\ \A v \in Informers \ {w} : pass'[v] = pass[v]
    BY <1>a, <2>1, <2>2, StepEffect, GotoEffect
  <2>4. ~late => PassOK(w)'
    BY <1>b, <2>1, <2>3 DEF PassOK, At, Current, store, Desired
  <2> QED BY <1>a, <1>c, <2>1, <2>3, <2>4
<1>6. CASE SshCreate(w)
  <2> DEFINE p == [pass[w] EXCEPT !.pc = "guest", !.key = FreshKey]
  <2>1. CASE Stop(w) /\ UNCHANGED <<res, sshKey, late>>
    <3>1. UNCHANGED <<store, caches, late>>
      BY <1>6, <2>1 DEF SshCreate, store
    <3> QED BY <2>1, <3>1, <1>d
  <2>2. CASE ~(Stop(w) /\ UNCHANGED <<res, sshKey, late>>)
    <3>1. /\ FreshKeys # {} /\ Step(w, p) /\ At(w, "sshCreate")
          /\ "sshKey" \in res \/ ~nsTerm
          /\ res' = res \union {"sshKey"}
          /\ late' = (late \/ ("sshKey" \notin res /\ Overtaken(w)))
          /\ UNCHANGED <<crd, uids, kv, nsTerm, caches>>
      BY <1>6, <2>2 DEF SshCreate
    <3>2. p \in Passes /\ p.pc = "guest" /\ p.snap = pass[w].snap /\ p.after = pass[w].after
      BY <1>a, <3>1, FreshKeyType DEF Passes, Labels, Desired, AnyKey
    <3> HIDE DEF p
    <3>3. /\ pass'[w].pc = "guest" /\ pass'[w].snap = pass[w].snap /\ pass'[w].after = pass[w].after
          /\ \A v \in Informers \ {w} : pass'[v] = pass[v]
      BY <1>a, <3>1, <3>2, StepEffect
    <3>4. ASSUME ~late'
          PROVE  /\ ~late
                 /\ "sshKey" \in res \/ (crd.uid = pass[w].snap.uid /\ ~crd.term /\ ~nsTerm)
      BY <3>1, <3>4 DEF Overtaken
    <3>5. ~late' => Benign
      BY <3>1, <3>4 DEF Benign
    <3>6. ~late' => PassOK(w)'
      BY <1>b, <3>1, <3>3, <3>4 DEF PassOK, At, Current, Desired
    <3>7. ~late' => ChildrenProtected'
      <4>1. CASE "sshKey" \in res
        <5>1. res' = res
          BY <3>1, <4>1
        <5> QED BY <1>b, <3>1, <3>4, <5>1 DEF ChildrenProtected
      <4>2. CASE "sshKey" \notin res /\ ~late'
        <5>1. Current(w) /\ crd.fin
          BY <1>b, <3>1, <3>4, <4>2 DEF PassOK, At, Current, Desired
        <5> QED BY <3>1, <5>1 DEF ChildrenProtected, Current
      <4> QED BY <4>1, <4>2
    <3>8. CRDShape'
      BY <1>b, <3>1 DEF CRDShape
    <3> QED BY <1>a, <1>t, <3>1, <3>3, <3>4, <3>5, <3>6, <3>7, <3>8, KeepOne DEF caches
  <2> QED BY <2>1, <2>2
<1>7. CASE GuestGet(w)
  <2>1. CASE Stop(w)
    BY <1>7, <2>1, <1>d DEF GuestGet
  <2>2. CASE Loop(w, "apply")
    <3>1. /\ pass'[w].pc = "apply" /\ pass'[w].snap = pass[w].snap /\ pass'[w].after = pass[w].after
          /\ \A v \in Informers \ {w} : pass'[v] = pass[v]
      BY <1>a, <2>2, LoopEffect
    <3>2. UNCHANGED <<store, caches, late>> /\ At(w, "guest")
      BY <1>7 DEF GuestGet
    <3>3. ~late => PassOK(w)'
      BY <1>b, <3>1, <3>2 DEF PassOK, At, Current, store, Desired
    <3> QED BY <1>a, <1>c, <3>1, <3>2, <3>3
  <2> QED BY <1>7, <2>1, <2>2 DEF GuestGet
<1>8. CASE Apply(w)
  <2> DEFINE c == ApplyOrder[pass[w].todo]
             new == ~Present(c)
  <2>1. CASE Stop(w) /\ UNCHANGED <<kv, res, ciKey, late>>
    <3>1. UNCHANGED <<store, caches, late>>
      BY <1>8, <2>1 DEF Apply, store
    <3> QED BY <2>1, <3>1, <1>d
  <2>2. CASE ~(Stop(w) /\ UNCHANGED <<kv, res, ciKey, late>>)
    <3>1. /\ At(w, "apply") /\ (~new \/ ~nsTerm)
          /\ kv' = IF c = "kv" THEN [kv EXCEPT !.here = TRUE, !.run = pass[w].snap.on] ELSE kv
          /\ res' = IF c = "kv" THEN res ELSE res \union {c}
          /\ late' = (late \/ (new /\ Overtaken(w)))
          /\ UNCHANGED <<crd, uids, nsTerm, caches>>
      BY <1>8, <2>2 DEF Apply
    <3>2. kv'.here = (kv.here \/ c = "kv")
      BY <3>1, <1>t DEF TypeInv, TypeOK
    <3>3. /\ \/ pass'[w].pc = "idle" /\ pass'[w].snap = NoCRD /\ pass'[w].after = "idle"
             \/ pass'[w].pc = "apply" /\ pass'[w].snap = pass[w].snap /\ pass'[w].after = pass[w].after
          /\ \A v \in Informers \ {w} : pass'[v] = pass[v]
      <4>1. CASE Stop(w)
        BY <1>a, <4>1, StopEffect
      <4>2. CASE ~Stop(w)
        <5> DEFINE k == IF c = "cloudInit" THEN NoKey ELSE pass[w].key
                   p == [pass[w] EXCEPT !.todo = @ + 1, !.key = k]
        <5>1. Step(w, p)
          BY <1>8, <4>2 DEF Apply
        <5>2. pass'[w] = p /\ \A v \in Informers \ {w} : pass'[v] = pass[v]
          BY <1>a, <5>1 DEF Step
        <5>3. p.pc = pass[w].pc /\ p.snap = pass[w].snap /\ p.after = pass[w].after
          BY <1>a DEF Passes
        <5> HIDE DEF p
        <5> QED BY <3>1, <5>2, <5>3 DEF At
      <4> QED BY <4>1, <4>2
    <3> HIDE DEF c
    <3>4. ASSUME ~late'
          PROVE  ~late /\ (~new \/ (crd.uid = pass[w].snap.uid /\ ~crd.term /\ ~nsTerm))
      BY <3>1, <3>4 DEF Overtaken
    <3>5. ~new => kv'.here = kv.here /\ res' = res
      BY <3>1, <3>2 DEF Present
    <3>6. ~late' => Benign
      BY <3>1, <3>4, <3>5 DEF Benign
    <3>7. ~late' => PassOK(w)'
      <4>1. CASE pass'[w].pc = "idle" /\ pass'[w].snap = NoCRD /\ pass'[w].after = "idle"
        BY <4>1, FreshOK
      <4>2. CASE pass'[w].pc = "apply" /\ pass'[w].snap = pass[w].snap /\ pass'[w].after = pass[w].after
        BY <1>b, <3>1, <3>4, <4>2 DEF PassOK, At, Current, Desired
      <4> QED BY <3>3, <4>1, <4>2
    <3>8. ~late' => ChildrenProtected'
      <4>1. CASE ~new
        BY <1>b, <3>1, <3>4, <3>5, <4>1 DEF ChildrenProtected
      <4>2. CASE new /\ ~late'
        <5>1. Current(w) /\ crd.fin
          BY <1>b, <3>1, <3>4, <4>2 DEF PassOK, At, Current, Desired
        <5> QED BY <3>1, <5>1 DEF ChildrenProtected, Current
      <4> QED BY <4>1, <4>2
    <3>9. CRDShape'
      BY <1>b, <3>1 DEF CRDShape
    <3> QED BY <1>a, <1>t, <3>1, <3>3, <3>4, <3>6, <3>7, <3>8, <3>9, KeepOne DEF caches
  <2> QED BY <2>1, <2>2
<1>9. CASE Exists(w)
  <2>0. UNCHANGED <<store, caches, late>> /\ At(w, "exists")
    BY <1>9 DEF Exists
  <2>1. CASE Start(w, "delkv")
    BY <2>0, <2>1, <1>d
  <2>2. CASE ~kv.here /\ Loop(w, "delowned")
    <3>1. /\ pass'[w].pc = "delowned" /\ pass'[w].snap = pass[w].snap /\ pass'[w].after = pass[w].after
          /\ pass'[w].todo = 1
          /\ \A v \in Informers \ {w} : pass'[v] = pass[v]
      BY <1>a, <2>2, LoopEffect
    <3>2. ~late => PassOK(w)'
      BY <1>b, <2>0, <2>2, <3>1 DEF PassOK, At, Current, store, Desired
    <3> QED BY <1>a, <1>c, <2>0, <3>1, <3>2
  <2> QED BY <1>9, <2>1, <2>2 DEF Exists
<1>10. CASE DelKV(w)
  <2>1. /\ pass'[w].pc = "delowned" /\ pass'[w].snap = pass[w].snap /\ pass'[w].after = pass[w].after
        /\ \A v \in Informers \ {w} : pass'[v] = pass[v]
    BY <1>10, <1>a, LoopEffect DEF DelKV
  <2>2. kv'.here = kv.here /\ UNCHANGED <<crd, uids, res, nsTerm, caches, late>> /\ At(w, "delkv")
    BY <1>10, <1>t DEF DelKV, TypeInv, TypeOK
  <2>3. ~late => PassOK(w)'
    BY <1>b, <2>1, <2>2 DEF PassOK, At, Current, Desired
  <2>4. Benign /\ CRDShape' /\ (~late => ChildrenProtected')
    BY <1>b, <2>2 DEF Benign, CRDShape, ChildrenProtected
  <2> QED BY <1>a, <1>t, <2>1, <2>2, <2>3, <2>4, KeepOne DEF caches
<1>11. CASE DelOwned(w)
  <2> DEFINE c == OwnedOrder[pass[w].todo]
             p == [pass[w] EXCEPT !.todo = @ + 1]
  <2>1. res' = res \ {c} /\ UNCHANGED <<crd, uids, kv, nsTerm, seen, late>> /\ At(w, "delowned")
    BY <1>11 DEF DelOwned, Without
  <2>2. pass[w].todo \in 1..6 /\ Len(OwnedOrder) = 6
    BY <1>a DEF Passes, OwnedOrder
  <2>3. Benign /\ CRDShape' /\ (~late => ChildrenProtected')
    BY <1>b, <2>1 DEF Benign, CRDShape, ChildrenProtected
  <2>4. CASE pass[w].todo < 6
    <3>1. Step(w, p)
      BY <1>11, <2>2, <2>4 DEF DelOwned, DelOwnedNext
    <3>2. p \in Passes /\ p.pc = "delowned" /\ p.snap = pass[w].snap /\ p.after = pass[w].after
          /\ p.todo = pass[w].todo + 1
      BY <1>a, <2>1, <2>2, <2>4 DEF At, Passes
    <3> HIDE DEF p
    <3>3. /\ pass'[w].pc = "delowned" /\ pass'[w].snap = pass[w].snap /\ pass'[w].after = pass[w].after
          /\ pass'[w].todo = pass[w].todo + 1
          /\ \A v \in Informers \ {w} : pass'[v] = pass[v]
      BY <1>a, <3>1, <3>2, StepEffect
    <3>4. ASSUME ~late, Current(w), pass[w].after = "rmfin"
          PROVE  ~kv.here /\ \A j \in 1..pass[w].todo : OwnedOrder[j] \notin res' \intersect Applied
      <4>1. ~kv.here /\ \A j \in 1..(pass[w].todo - 1) : OwnedOrder[j] \notin res \intersect Applied
        BY <1>b, <2>1, <3>4 DEF PassOK
      <4>2. ASSUME NEW j \in 1..pass[w].todo
            PROVE  OwnedOrder[j] \notin res' \intersect Applied
        <5>1. CASE j = pass[w].todo
          BY <2>1, <5>1
        <5>2. CASE j # pass[w].todo
          <6>1. j \in 1..(pass[w].todo - 1)
            BY <2>2, <4>2, <5>2
          <6> QED BY <2>1, <4>1, <6>1
        <5> QED BY <5>1, <5>2
      <4> QED BY <4>1, <4>2
    <3>5. pass'[w].todo - 1 = pass[w].todo
      BY <2>2, <3>3
    <3> HIDE DEF c
    <3>6. ~late => PassOK(w)'
      BY <1>b, <2>1, <3>3, <3>4, <3>5 DEF PassOK, At, Current, Desired
    <3> QED BY <1>a, <1>t, <2>1, <2>3, <3>3, <3>6, KeepOne
  <2>5. CASE pass[w].todo = 6 /\ pass[w].after = "idle"
    <3>1. Stop(w)
      BY <1>11, <2>2, <2>5 DEF DelOwned, DelOwnedNext
    <3>2. /\ pass'[w].pc = "idle" /\ pass'[w].snap = NoCRD /\ pass'[w].after = "idle"
          /\ \A v \in Informers \ {w} : pass'[v] = pass[v]
      BY <1>a, <3>1, StopEffect
    <3>3. PassOK(w)'
      BY <3>2, FreshOK
    <3> QED BY <1>a, <1>t, <2>1, <2>3, <3>2, <3>3, KeepOne
  <2>6. CASE pass[w].todo = 6 /\ pass[w].after # "idle"
    <3>1. pass[w].after \in {"rmfin", "delcrd"} /\ Loop(w, pass[w].after)
      BY <1>11, <1>a, <2>2, <2>6 DEF DelOwned, DelOwnedNext, Passes
    <3>2. /\ pass'[w].pc = pass[w].after /\ pass'[w].snap = pass[w].snap /\ pass'[w].after = pass[w].after
          /\ \A v \in Informers \ {w} : pass'[v] = pass[v]
      BY <1>a, <3>1, LoopEffect
    <3>3. ASSUME ~late, Current(w), pass[w].after = "rmfin"
          PROVE  ~kv.here /\ res' \intersect Applied = {}
      <4>1. ~kv.here /\ \A j \in 1..5 : OwnedOrder[j] \notin res \intersect Applied
        BY <1>b, <2>1, <2>6, <3>3 DEF PassOK
      <4>2. c = "dv" /\ OwnedOrder[1] = "ingress" /\ OwnedOrder[2] = "service" /\ OwnedOrder[3] = "sshKey"
            /\ OwnedOrder[5] = "cloudInit"
        BY <2>6 DEF OwnedOrder
      <4>3. {"ingress", "service", "sshKey", "cloudInit"} \intersect (res \intersect Applied) = {}
        BY <4>1, <4>2
      <4> QED BY <2>1, <4>1, <4>2, <4>3 DEF Applied, Owned
    <3> HIDE DEF c
    <3>4. ~late => PassOK(w)'
      BY <1>b, <2>1, <3>1, <3>2, <3>3 DEF PassOK, At, Current, Desired
    <3> QED BY <1>a, <1>t, <2>1, <2>3, <3>2, <3>4, KeepOne
  <2> QED BY <2>2, <2>4, <2>5, <2>6
<1>12. CASE RmFin(w)
  <2>1. /\ At(w, "rmfin") /\ Stop(w) /\ UNCHANGED <<uids, kv, res, nsTerm, caches>>
        /\ crd' = IF crd.uid = 0 \/ crd.term THEN NoCRD ELSE [crd EXCEPT !.fin = FALSE]
        /\ late' = (late \/ crd.uid \notin {0, pass[w].snap.uid})
    BY <1>12 DEF RmFin
  <2>2. /\ pass'[w].pc = "idle" /\ pass'[w].snap = NoCRD /\ pass'[w].after = "idle"
        /\ \A v \in Informers \ {w} : pass'[v] = pass[v]
    BY <1>a, <2>1, StopEffect
  <2>3. PassOK(w)'
    BY <2>2, FreshOK
  <2>4. \/ crd'.uid = 0 /\ ~crd'.fin /\ ~crd'.term /\ (crd.uid = 0 \/ crd.term)
        \/ crd.uid # 0 /\ crd'.uid = crd.uid /\ ~crd'.fin /\ ~crd'.term /\ ~crd.term
    BY <1>a, <2>1 DEF CRDs, NoCRD
  <2>5. CRDShape' /\ crd'.uid <= uids
    BY <1>a, <2>4 DEF CRDShape
  <2>6. ASSUME ~late', crd.uid # 0
        PROVE  ~late /\ (crd.term \/ nsTerm) /\ ~kv.here /\ res \intersect Applied = {}
    <3>1. ~late /\ Current(w)
      BY <2>1, <2>6 DEF Current
    <3> QED BY <1>b, <2>1, <3>1 DEF PassOK
  <2>7. ~late' => Benign
    BY <1>b, <2>1, <2>4, <2>6 DEF Benign, CRDShape
  <2>8. ~late' => ChildrenProtected'
    BY <1>b, <2>1, <2>4, <2>6 DEF ChildrenProtected
  <2>9. ~late' => ~late
    BY <2>1
  <2> QED BY <1>a, <1>t, <2>1, <2>2, <2>3, <2>5, <2>7, <2>8, <2>9, KeepOne DEF caches
<1>13. CASE DelCRD(w)
  <2>1. Stop(w) /\ crd' = DeletedCRD /\ UNCHANGED <<uids, kv, res, nsTerm, caches, late>>
    BY <1>13 DEF DelCRD
  <2>2. /\ pass'[w].pc = "idle" /\ pass'[w].snap = NoCRD /\ pass'[w].after = "idle"
        /\ \A v \in Informers \ {w} : pass'[v] = pass[v]
    BY <1>a, <2>1, StopEffect
  <2>3. PassOK(w)'
    BY <2>2, FreshOK
  <2>4. Benign /\ CRDShape' /\ crd'.uid <= uids /\ (~late => ChildrenProtected')
    BY <1>a, <1>b, <2>1 DEF Benign, CRDShape, DeletedCRD, CRDs, NoCRD, ChildrenProtected
  <2> QED BY <1>a, <1>t, <2>1, <2>2, <2>3, <2>4, KeepOne DEF caches
<1> QED
  BY <1>1, <1>2, <1>3, <1>4, <1>5, <1>6, <1>7, <1>8, <1>9, <1>10, <1>11, <1>12, <1>13 DEF PassStep

\* Events, failures, requests and the environment keep Inductive.
LEMMA OtherStepInductive ==
    ASSUME Inductive, [Next]_vars, \A w \in Informers : ~PassStep(w)
    PROVE  Inductive'
<1>t. TypeInv /\ TypeInv'
  BY OtherStepType DEF Inductive, TypeInv
<1>a. /\ pass \in [Informers -> Passes] /\ "vm" \in Informers /\ Watchers \subseteq Informers
      /\ {"get", "delkv"} \subseteq Labels
      /\ uids \in Nat /\ crd \in CRDs /\ crd.uid \in Nat /\ crd.uid <= uids /\ seen.uid <= uids
      /\ NoCRD.uid = 0 /\ Intent(NoCRD).uid = 0 /\ Intent(crd).uid = crd.uid /\ late \in BOOLEAN
  BY <1>t, InformersAssumption
     DEF TypeInv, TypeOK, CRDs, Inductive, UidsBounded, NoCRD, Intent, Labels, Cleanup, Watchers
<1>b. CRDShape /\ ChildrenProtected
  BY DEF Inductive
<1>c. ASSUME NEW w \in Informers, UNCHANGED <<store, late>>, seen'.uid <= uids,
             NEW label \in {"get", "delkv"}, Start(w, label) \/ Stop(w)
      PROVE  Inductive'
  <2>1. label \in Labels
    BY <1>a, <1>c
  <2>2. /\ pass'[w].pc \in {"idle", "get", "delkv"} /\ pass'[w].snap = NoCRD /\ pass'[w].after = "idle"
        /\ \A v \in Informers \ {w} : pass'[v] = pass[v]
    BY <1>a, <1>c, <2>1, StartEffect, StopEffect
  <2>3. PassOK(w)'
    BY <2>2, FreshOK
  <2>4. Benign /\ CRDShape' /\ ChildrenProtected'
    BY <1>b, <1>c DEF Benign, CRDShape, ChildrenProtected, store
  <2> QED BY <1>a, <1>c, <1>t, <2>2, <2>3, <2>4, KeepOne DEF store
<1>d. ASSUME crd' = DeletedCRD, UNCHANGED <<uids, kv, res, nsTerm, seen, pass, late>>
      PROVE  Inductive'
  <2>1. crd'.uid \in {0, crd.uid} /\ crd'.uid <= uids /\ Benign /\ CRDShape' /\ ChildrenProtected'
    BY <1>a, <1>b, <1>d DEF Benign, CRDShape, DeletedCRD, CRDs, NoCRD, ChildrenProtected
  <2> QED BY <1>a, <1>d, <1>t, <2>1, KeepAll
<1>e. ASSUME UNCHANGED <<crd, uids, seen, pass, late>>, nsTerm => nsTerm',
             kv'.here => kv.here, \A c \in Applied : c \in res' => c \in res
      PROVE  Inductive'
  <2>1. Benign /\ CRDShape' /\ ChildrenProtected'
    BY <1>b, <1>e DEF Benign, CRDShape, ChildrenProtected
  <2> QED BY <1>a, <1>e, <1>t, <2>1, KeepAll
<1>1. CASE VMEvent
  BY <1>1, <1>a, <1>c DEF VMEvent
<1>2. CASE VMDeleted
  BY <1>2, <1>a, <1>c DEF VMDeleted
<1>3. ASSUME NEW w \in Watchers, ChildEvent(w)
      PROVE  Inductive'
  <2> DEFINE p == [pass[w] EXCEPT !.pc = "owner", !.deleted = TRUE]
             q == [pass[w] EXCEPT !.pc = "owner", !.run = (w = "kv" /\ kv.run)]
  <2>0. w \in Informers /\ pass[w] \in Passes /\ pass[w].snap.uid <= uids
    BY <1>3, <1>a DEF Inductive, UidsBounded
  <2>1. p \in Passes /\ p.pc = "owner" /\ p.snap = pass[w].snap /\ p.after = pass[w].after
    BY <2>0 DEF Passes, Labels
  <2>2. q \in Passes /\ q.pc = "owner" /\ q.snap = pass[w].snap /\ q.after = pass[w].after
    <3>1. (w = "kv" /\ kv.run) \in BOOLEAN
      OBVIOUS
    <3> QED BY <2>0, <3>1 DEF Passes, Labels
  <2>3. UNCHANGED <<store, seen, late>> /\ (Step(w, p) \/ Step(w, q)) /\ At(w, "idle")
    BY <1>3 DEF ChildEvent
  <2> HIDE DEF p, q
  <2>4. /\ pass'[w].pc = "owner" /\ pass'[w].snap = pass[w].snap /\ pass'[w].after = pass[w].after
        /\ \A v \in Informers \ {w} : pass'[v] = pass[v]
    BY <1>a, <2>0, <2>1, <2>2, <2>3, StepEffect
  <2>5. ~late => PassOK(w)
    BY <2>0 DEF Inductive
  <2>6. ~late => PassOK(w)'
    BY <2>3, <2>4, <2>5 DEF PassOK, At, Current, Desired, store
  <2>7. Benign /\ CRDShape' /\ ChildrenProtected'
    BY <1>b, <2>3 DEF Benign, CRDShape, ChildrenProtected, store
  <2> QED BY <1>a, <1>t, <2>0, <2>3, <2>4, <2>6, <2>7, KeepOne DEF store
<1>4. ASSUME NEW w \in Informers, Fail(w)
      PROVE  Inductive'
  BY <1>4, <1>a, <1>c DEF Fail, caches
<1>5. CASE Restart
  <2>1. \A v \in Informers : pass'[v] = NoPass
    BY <1>5 DEF Restart
  <2>2. UNCHANGED <<store, late>> /\ seen' = Intent(NoCRD)
    BY <1>5 DEF Restart
  <2>3. \A v \in Informers : PassOK(v)'
    <3> SUFFICES ASSUME NEW v \in Informers PROVE PassOK(v)'
      OBVIOUS
    <3>1. pass'[v].pc = "idle" /\ pass'[v].snap = NoCRD /\ pass'[v].after = "idle"
      BY <2>1 DEF NoPass
    <3> QED BY <3>1, FreshOK
  <2>4. UidsBounded'
    BY <1>a, <2>1, <2>2 DEF UidsBounded, store, NoPass
  <2>5. CRDShape' /\ ChildrenProtected'
    BY <1>b, <2>2 DEF CRDShape, ChildrenProtected, store
  <2> QED BY <1>t, <2>3, <2>4, <2>5 DEF Inductive, TypeInv
<1>6. ASSUME NEW r \in Requests,
             (\E on \in BOOLEAN : ApiCreate(r, on)) \/ ApiGuestLogin(r) \/ ApiRollback(r)
                \/ (\E on, del \in BOOLEAN : ApiRead(r, on, del)) \/ ApiWrite(r) \/ ApiFail(r)
      PROVE  Inductive'
  <2>1. ASSUME NEW on \in BOOLEAN, ApiCreate(r, on)
        PROVE  Inductive'
    <3>1. /\ crd.uid = 0 /\ uids' = uids + 1 /\ crd' = [NoCRD EXCEPT !.uid = uids + 1, !.on = on]
          /\ UNCHANGED <<kv, res, nsTerm, seen, pass, late>>
      BY <2>1 DEF ApiCreate, createRecord, caches
    <3>2. NoCRD \in CRDs /\ ~NoCRD.fin /\ ~NoCRD.term
      BY DEF NoCRD, CRDs
    <3>3. crd'.uid = uids + 1 /\ ~crd'.fin /\ ~crd'.term
      BY <1>a, <3>1, <3>2 DEF CRDs
    <3>4. Benign /\ CRDShape' /\ uids' \in Nat /\ uids <= uids' /\ crd'.uid <= uids' /\ seen'.uid <= uids'
      <4>1. seen.uid \in Nat
        BY <1>t DEF TypeInv, TypeOK
      <4> QED BY <1>a, <3>1, <3>3, <4>1 DEF Benign, CRDShape
    <3>5. ChildrenProtected'
      BY <1>b, <3>1 DEF ChildrenProtected
    <3> QED BY <1>a, <1>t, <3>1, <3>4, <3>5, KeepAll
  <2>2. CASE ApiGuestLogin(r)
    <3>1. UNCHANGED <<crd, uids, kv, nsTerm, seen, pass, late>> /\ res' \in {res, res \union {"guestLogin"}}
      BY <2>2 DEF ApiGuestLogin, caches
    <3> QED BY <1>e, <3>1 DEF Applied
  <2>3. CASE ApiRollback(r)
    BY <2>3, <1>d DEF ApiRollback, caches
  <2>4. ASSUME NEW on \in BOOLEAN, NEW del \in BOOLEAN, ApiRead(r, on, del)
        PROVE  Inductive'
    BY <2>4, <1>e DEF ApiRead, store, caches
  <2>5. CASE ApiWrite(r)
    <3>1. /\ crd'.uid = crd.uid /\ crd'.fin = crd.fin /\ crd'.term = crd.term
          /\ UNCHANGED <<uids, kv, res, nsTerm, seen, pass, late>>
      BY <2>5, <1>a DEF ApiWrite, CRDs, caches
    <3>2. Benign /\ CRDShape' /\ ChildrenProtected'
      BY <1>b, <3>1 DEF Benign, CRDShape, ChildrenProtected
    <3> QED BY <1>a, <1>t, <3>1, <3>2, KeepAll
  <2>6. CASE ApiFail(r)
    BY <2>6, <1>e DEF ApiFail, store, caches
  <2> QED BY <1>6, <2>1, <2>2, <2>3, <2>4, <2>5, <2>6
<1>7. CASE ApiHardDelete
  BY <1>7, <1>d DEF ApiHardDelete, caches
<1>8. CASE KubeVirtRemoves
  BY <1>8, <1>e DEF KubeVirtRemoves, NoKV
<1>9. CASE NamespaceTerminate
  BY <1>9, <1>e DEF NamespaceTerminate, caches
<1>10. CASE NamespaceDeleteCRD
  BY <1>10, <1>d DEF NamespaceDeleteCRD, caches
<1>11. ASSUME NEW c \in Owned \union {"kv"}, NamespaceDeleteChild(c)
       PROVE  Inductive'
  <2>1. /\ UNCHANGED <<crd, uids, nsTerm, seen, pass, late>> /\ res' \subseteq res
        /\ kv' = kv \/ kv' = [kv EXCEPT !.term = TRUE]
    BY <1>11 DEF NamespaceDeleteChild, Without
  <2>2. kv'.here = kv.here
    BY <1>t, <2>1 DEF TypeInv, TypeOK
  <2> QED BY <1>e, <2>1, <2>2
<1>12. CASE UNCHANGED vars
  BY <1>12, <1>e DEF vars, store, caches
<1> QED
  BY <1>1, <1>2, <1>3, <1>4, <1>5, <1>6, <1>7, <1>8, <1>9, <1>10, <1>11, <1>12 DEF Next

\* Inductive is an invariant of KiteVM.
THEOREM InductiveInvariant == Spec => []Inductive
<1>1. Init => Inductive
  <2> SUFFICES ASSUME Init PROVE Inductive
    OBVIOUS
  <2>1. TypeOK /\ ApplyInRange
    BY InitType DEF TypeInv
  <2>2. UidsBounded /\ CRDShape
    BY DEF Init, UidsBounded, CRDShape, NoCRD, Intent, NoPass
  <2>3. ChildrenProtected
    BY DEF Init, ChildrenProtected, NoKV
  <2>4. \A w \in Informers : PassOK(w)
    BY DEF Init, PassOK, At, Current, NoPass, NoCRD, Desired
  <2> QED BY <2>1, <2>2, <2>3, <2>4 DEF Inductive
<1>2. Inductive /\ [Next]_vars => Inductive'
  <2> SUFFICES ASSUME Inductive, [Next]_vars PROVE Inductive'
    OBVIOUS
  <2>1. CASE \E w \in Informers : PassStep(w)
    BY <2>1, PassStepInductive
  <2>2. CASE \A w \in Informers : ~PassStep(w)
    BY <2>2, OtherStepInductive
  <2> QED BY <2>1, <2>2
<1> QED
  BY <1>1, <1>2, PTL DEF Spec

\* A child that kite-controller created never outlives the CRD or its
\* cleanup finalizer, unless a pass wrote for a CRD deleted since it was read.
THEOREM ChildrenAreProtected == Spec => []ChildrenProtected
<1>1. Inductive => ChildrenProtected
  BY DEF Inductive
<1> QED
  BY InductiveInvariant, <1>1, PTL
=============================================================================
