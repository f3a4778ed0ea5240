---------------------- MODULE KiteUserNamespace_proofs ----------------------
(***************************************************************************)
(* For any users, namespaces and bounds: kite-controller never touches a   *)
(* namespace that it does not manage, and deletes none that is referenced  *)
(* unless kite-api re-points a user behind its back.                       *)
(***************************************************************************)
EXTENDS KiteUserNamespace, TLAPS

USE NamesAssumption, HomeAssumption, ForeignAssumption, InformersAssumption, BoundsAssumption

\* An idle handler knows nothing and claims nothing.
LEMMA NoPassFits == NoPass \in Passes /\ Fits(NoPass)
<1>1. NoPass \in Passes
  BY DEF NoPass, Passes, Labels
<1>2. Fits(NoPass)
  BY DEF NoPass, Fits, Reconcile, Apply, Delete
<1> QED BY <1>1, <1>2

\* Which users reference a namespace is a matter of the KiteUsers alone.
LEMMA ReferencesFrame ==
    ASSUME UNCHANGED crds, NEW n
    PROVE  kiteUsersForNamespace(n)' = kiteUsersForNamespace(n)
BY DEF crds, kiteUsersForNamespace, Live, Namespace

\* Inductive is kept by a handler whose new locals fit, and by steps of
\* others, as long as the KiteUsers do not change.
LEMMA StepKeeps ==
    ASSUME Inductive, UNCHANGED crds, StoreOK', ForeignUntouched',
           \/ UNCHANGED pass
           \/ \E w \in Informers, p \in Passes : Step(w, p) /\ Fits(p)
    PROVE  Inductive'
<1>1. pass' \in [Informers -> Passes] /\ \A v \in Informers : Fits(pass'[v])
  <2>1. pass \in [Informers -> Passes] /\ \A v \in Informers : Fits(pass[v])
    BY DEF Inductive, TypeOK
  <2>2. CASE UNCHANGED pass
    BY <2>1, <2>2
  <2>3. CASE \E w \in Informers, p \in Passes : Step(w, p) /\ Fits(p)
    <3>1. PICK w \in Informers, p \in Passes : Step(w, p) /\ Fits(p)
      BY <2>3
    <3>2. pass' = [pass EXCEPT ![w] = p]
      BY <3>1 DEF Step
    <3> QED BY <2>1, <3>1, <3>2
  <2> QED BY <2>2, <2>3
<1>2. ASSUME NEW v \in Informers
      PROVE  Fits(pass[v])'
  <2>1. Fits(pass'[v])
    BY <1>1
  <2>2. kiteUsersForNamespace(pass[v].old)' = kiteUsersForNamespace(pass'[v].old)
    BY DEF crds, kiteUsersForNamespace, Live, Namespace
  <2> QED BY <2>1, <2>2 DEF Fits
<1>3. NamedOK' /\ GoneOK'
  BY DEF Inductive, NamedOK, GoneOK, crds
<1> QED
  BY <1>1, <1>2, <1>3 DEF Inductive, TypeOK

\* The initial state satisfies Inductive.
LEMMA InitInductive == Init => Inductive
<1> SUFFICES ASSUME Init PROVE Inductive
  OBVIOUS
<1>1. StoreOK
  BY DEF Init, StoreOK
<1>2. pass \in [Informers -> Passes] /\ \A w \in Informers : Fits(pass[w])
  BY NoPassFits DEF Init
<1>3. NamedOK /\ GoneOK /\ ForeignUntouched
  BY DEF Init, NamedOK, GoneOK, ForeignUntouched
<1> QED
  BY <1>1, <1>2, <1>3 DEF Inductive, TypeOK

(***************************************************************************)
(* The new locals of a handler that moves on.                              *)
(***************************************************************************)
\* Goto keeps what the pass knows.
LEMMA GotoFits ==
    ASSUME Inductive, NEW w \in Informers, NEW label \in Labels, Goto(w, label),
           label \in Reconcile \union {"failed"} => pass[w].pc \in Reconcile,
           label \in Delete => pass[w].old \in Names,
           label # "listRefs" /\ label # "orphan" /\ label # "delNp",
           label \in Apply => pass[w].n \notin Foreign,
           label \in {"delOld", "delOrphan"} => pass[w].old \notin Foreign,
           label \in Delete => pass[w].raced \/ kiteUsersForNamespace(pass[w].old) = {}
    PROVE  \E p \in Passes : Step(w, p) /\ Fits(p)
<1> DEFINE p == [pass[w] EXCEPT !.pc = label]
<1>0. pass[w] \in Passes /\ Fits(pass[w])
  BY DEF Inductive, TypeOK
<1>1. p \in Passes
  BY <1>0 DEF Passes
<1>2. p.pc = label /\ p.u = pass[w].u /\ p.n = pass[w].n /\ p.old = pass[w].old /\ p.raced = pass[w].raced
  BY <1>0 DEF Passes
<1>3. Step(w, p)
  BY DEF Goto
<1> HIDE DEF p
<1>4. Fits(p)
  BY <1>0, <1>2 DEF Fits, Reconcile, Apply, Delete
<1> QED BY <1>1, <1>3, <1>4

\* Checked leaves the previous namespace behind.
LEMMA CheckedFits ==
    ASSUME Inductive, NEW w \in Informers, Checked(w), pass[w].pc \in Reconcile
    PROVE  \E p \in Passes : Step(w, p) /\ Fits(p)
<1> DEFINE p == [pass[w] EXCEPT !.pc = "validate", !.old = NoName, !.raced = FALSE]
<1>0. pass[w] \in Passes /\ Fits(pass[w])
  BY DEF Inductive, TypeOK
<1>1. p \in Passes
  BY <1>0 DEF Passes, Labels, Reconcile
<1>2. p.pc = "validate" /\ p.u = pass[w].u /\ p.n = pass[w].n
  BY <1>0 DEF Passes
<1>3. Step(w, p)
  BY DEF Checked
<1> HIDE DEF p
<1>4. Fits(p)
  BY <1>0, <1>2 DEF Fits, Reconcile, Apply, Delete
<1> QED BY <1>1, <1>3, <1>4

\* A stopped handler fits.
LEMMA StopFits ==
    ASSUME NEW w \in Informers, Stop(w)
    PROVE  \E p \in Passes : Step(w, p) /\ Fits(p)
BY NoPassFits DEF Stop

\* An error ends the pass or has it recorded.
LEMMA ErrorFits ==
    ASSUME Inductive, NEW w \in Informers, Error(w), pass[w].pc \in Reconcile
    PROVE  \E p \in Passes : Step(w, p) /\ Fits(p)
<1> DEFINE p == [pass[w] EXCEPT !.pc = "failed", !.old = NoName, !.raced = FALSE]
<1>0. pass[w] \in Passes /\ Fits(pass[w])
  BY DEF Inductive, TypeOK
<1>1. p \in Passes
  BY <1>0 DEF Passes, Labels
<1>2. p.pc = "failed" /\ p.u = pass[w].u /\ p.n = pass[w].n
  BY <1>0 DEF Passes
<1>3. Step(w, p) \/ Stop(w)
  BY DEF Error
<1> HIDE DEF p
<1>4. Fits(p)
  BY <1>0, <1>2 DEF Fits, Reconcile, Apply, Delete
<1> QED BY <1>1, <1>3, <1>4, StopFits

\* A handler that starts to reconcile user u into namespace n.
LEMMA StartFits ==
    ASSUME NEW w \in Informers, NEW u \in Users, NEW n \in Names, NEW q \in Passes, NEW todo \in SUBSET Users,
           Step(w, [q EXCEPT !.pc = "change", !.u = u, !.n = n, !.todo = todo])
    PROVE  \E p \in Passes : Step(w, p) /\ Fits(p)
<1> DEFINE p == [q EXCEPT !.pc = "change", !.u = u, !.n = n, !.todo = todo]
<1>1. p \in Passes
  BY DEF Passes, Labels, Reconcile
<1>2. p.pc = "change" /\ p.u = u /\ p.n = n
  BY DEF Passes
<1> HIDE DEF p
<1>3. Fits(p)
  BY <1>2 DEF Fits, Apply, Delete
<1> QED BY <1>1, <1>3 DEF p

(***************************************************************************)
(* Steps of a handler.                                                     *)
(***************************************************************************)
\* Every call of a handler keeps Inductive.
LEMMA PassStepInductive ==
    ASSUME Inductive, NEW w \in Informers, PassStep(w)
    PROVE  Inductive'
<1> DEFINE q == pass[w]
<1>0. /\ StoreOK /\ ForeignUntouched
      /\ q \in Passes /\ Fits(q)
  BY DEF Inductive, TypeOK
<1>u. ASSUME UNCHANGED <<crds, status, spaces, events, faults>>,
             \E p \in Passes : Step(w, p) /\ Fits(p)
      PROVE  Inductive'
  <2>1. StoreOK' /\ ForeignUntouched'
    BY <1>0, <1>u DEF StoreOK, ForeignUntouched, crds, status, spaces, events
  <2> QED BY <1>u, <2>1, StepKeeps
<1>l. /\ Labels = Reconcile \union {"idle", "failed", "orphan", "delOrphan", "delNp"}
      /\ {"change", "listRefs", "getOld", "delOld", "validate", "applyNs", "applyNp", "status"} \subseteq Reconcile
  BY DEF Labels, Reconcile, Apply
<1>1. CASE Change(w)
  <2>1. q.pc = "change" /\ q.u \in Users /\ q.n \in Names
    BY <1>0, <1>1, <1>l DEF Change, At, Fits
  <2>2. CASE Live(q.u) /\ obs[q.u] \notin {NoName, q.n}
    <3> DEFINE p == [q EXCEPT !.pc = "listRefs", !.old = obs[q.u]]
    <3>1. Step(w, p)
      BY <1>1, <2>2 DEF Change
    <3>2. obs[q.u] \in Names
      BY <1>0, <2>1, <2>2 DEF StoreOK
    <3>3. p \in Passes
      BY <1>0, <1>l, <3>2 DEF Passes
    <3>4. p.pc = "listRefs" /\ p.u = q.u /\ p.n = q.n /\ p.old = obs[q.u]
      BY <1>0 DEF Passes
    <3> HIDE DEF p
    <3>5. Fits(p)
      BY <2>1, <3>2, <3>4 DEF Fits, Reconcile, Apply, Delete
    <3> QED BY <1>1, <1>u, <3>1, <3>3, <3>5 DEF Change
  <2>3. CASE ~(Live(q.u) /\ obs[q.u] \notin {NoName, q.n})
    <3>1. Goto(w, "validate")
      BY <1>1, <2>3 DEF Change
    <3>2. \E p \in Passes : Step(w, p) /\ Fits(p)
      BY <1>l, <2>1, <3>1, GotoFits DEF Apply, Delete
    <3> QED BY <1>1, <1>u, <3>2 DEF Change
  <2> QED BY <2>2, <2>3
<1>2. CASE ListRefs(w)
  <2>1. q.pc = "listRefs" /\ q.old \in Names
    BY <1>0, <1>2 DEF ListRefs, At, Fits
  <2>2. CASE kiteUsersForNamespace(q.old) # {}
    <3>1. Checked(w)
      BY <1>2, <2>2 DEF ListRefs
    <3> QED BY <1>2, <1>u, <1>l, <2>1, <3>1, CheckedFits DEF ListRefs
  <2>3. CASE kiteUsersForNamespace(q.old) = {}
    <3>1. Goto(w, "getOld")
      BY <1>2, <2>3 DEF ListRefs
    <3>2. \E p \in Passes : Step(w, p) /\ Fits(p)
      BY <1>l, <2>1, <2>3, <3>1, GotoFits DEF Apply
    <3> QED BY <1>2, <1>u, <3>2 DEF ListRefs
  <2> QED BY <2>2, <2>3
<1>3. CASE GetOld(w)
  <2>1. q.pc = "getOld" /\ q.old \in Names /\ (q.raced \/ kiteUsersForNamespace(q.old) = {})
    BY <1>0, <1>3 DEF GetOld, At, Fits, Delete
  <2>2. Checked(w) \/ (managed[q.old] /\ Goto(w, "delOld")) \/ Error(w)
    BY <1>3 DEF GetOld
  <2>3. CASE Checked(w)
    BY <1>3, <1>u, <1>l, <2>1, <2>3, CheckedFits DEF GetOld
  <2>4. CASE managed[q.old] /\ Goto(w, "delOld")
    <3>1. q.old \notin Foreign
      BY <1>0, <2>4 DEF ForeignUntouched
    <3>2. \E p \in Passes : Step(w, p) /\ Fits(p)
      BY <1>l, <2>1, <2>4, <3>1, GotoFits DEF Apply
    <3> QED BY <1>3, <1>u, <3>2 DEF GetOld
  <2>5. CASE Error(w)
    BY <1>3, <1>u, <1>l, <2>1, <2>5, ErrorFits DEF GetOld
  <2> QED BY <2>2, <2>3, <2>4, <2>5
<1>4. CASE DelOld(w) \/ DelOrphan(w)
  <2>1. q.pc \in {"delOld", "delOrphan"} /\ q.old \in Names \ Foreign
    BY <1>0, <1>4 DEF DelOld, DelOrphan, At, Fits, Delete
  <2>2. Ended(q.old) /\ UNCHANGED <<crds, status, managed, policies, events, faults>>
    BY <1>4 DEF DelOld, DelOrphan
  <2>3. /\ phase' \in [Names -> {"absent", "active", "ending"}]
        /\ \A n \in Foreign : phase'[n] = phase[n]
    BY <1>0, <2>1, <2>2 DEF Ended, StoreOK
  <2>4. StoreOK' /\ ForeignUntouched'
    BY <1>0, <2>2, <2>3 DEF StoreOK, ForeignUntouched, crds, status, events
  <2>5. \E p \in Passes : Step(w, p) /\ Fits(p)
    <3>1. CASE DelOld(w)
      <4>1. Checked(w) /\ q.pc = "delOld"
        BY <3>1 DEF DelOld, At
      <4> QED BY <1>l, <4>1, CheckedFits
    <3>2. CASE DelOrphan(w)
      BY <3>2, StopFits DEF DelOrphan
    <3> QED BY <1>4, <3>1, <3>2
  <2> QED BY <2>2, <2>4, <2>5, StepKeeps
<1>5. CASE Validate(w)
  <2>1. q.pc = "validate" /\ q.n \in Names
    BY <1>0, <1>5, <1>l DEF Validate, At, Fits
  <2>2. CASE phase[q.n] = "absent" \/ managed[q.n]
    <3>1. Goto(w, "applyNs")
      BY <1>5, <2>2 DEF Validate
    <3>2. q.n \notin Foreign
      BY <1>0, <2>2 DEF ForeignUntouched
    <3>3. \E p \in Passes : Step(w, p) /\ Fits(p)
      BY <1>l, <2>1, <3>1, <3>2, GotoFits DEF Delete
    <3> QED BY <1>5, <1>u, <3>3 DEF Validate
  <2>3. CASE ~(phase[q.n] = "absent" \/ managed[q.n])
    <3>1. Error(w)
      BY <1>5, <2>3 DEF Validate
    <3> QED BY <1>5, <1>u, <1>l, <2>1, <3>1, ErrorFits DEF Validate
  <2> QED BY <2>2, <2>3
<1>6. CASE ApplyNs(w)
  <2>1. q.pc = "applyNs" /\ q.n \in Names \ Foreign
    BY <1>0, <1>6, <1>l DEF ApplyNs, At, Fits, Apply
  <2>2. StoreOK' /\ ForeignUntouched'
    <3>1. /\ phase' = [phase EXCEPT ![q.n] = IF @ = "absent" THEN "active" ELSE @]
          /\ managed' = [managed EXCEPT ![q.n] = TRUE]
          /\ UNCHANGED <<crds, status, policies, events, faults>>
      BY <1>6 DEF ApplyNs
    <3>2. phase' \in [Names -> {"absent", "active", "ending"}] /\ managed' \in [Names -> BOOLEAN]
      BY <1>0, <2>1, <3>1 DEF StoreOK
    <3>3. \A n \in Foreign : phase'[n] = phase[n] /\ managed'[n] = managed[n]
      BY <1>0, <2>1, <3>1 DEF StoreOK
    <3>4. StoreOK'
      BY <1>0, <3>1, <3>2 DEF StoreOK, crds, status, events
    <3> QED BY <1>0, <3>3, <3>4 DEF ForeignUntouched
  <2>3. \E p \in Passes : Step(w, p) /\ Fits(p)
    <3>1. Goto(w, "applyNp")
      BY <1>6 DEF ApplyNs
    <3> QED BY <1>l, <2>1, <3>1, GotoFits DEF Delete
  <2>4. UNCHANGED crds
    BY <1>6 DEF ApplyNs
  <2> QED BY <2>2, <2>3, <2>4, StepKeeps
<1>7. CASE ApplyNp(w)
  <2>1. q.pc = "applyNp" /\ q.n \in Names \ Foreign
    BY <1>0, <1>7, <1>l DEF ApplyNp, At, Fits, Apply
  <2>2. (Goto(w, "status") \/ Error(w)) /\ policies' \in {policies, policies \union {q.n}}
    BY <1>7 DEF ApplyNp
  <2>3. \E p \in Passes : Step(w, p) /\ Fits(p)
    <3>1. CASE Goto(w, "status")
      BY <1>l, <2>1, <3>1, GotoFits DEF Delete
    <3>2. CASE Error(w)
      BY <1>l, <2>1, <3>2, ErrorFits
    <3> QED BY <2>2, <3>1, <3>2
  <2>4. UNCHANGED <<crds, status, phase, managed, events, faults>>
    BY <1>7 DEF ApplyNp
  <2>5. StoreOK' /\ ForeignUntouched'
    BY <1>0, <2>1, <2>2, <2>4 DEF StoreOK, ForeignUntouched, crds, status, events
  <2> QED BY <2>3, <2>4, <2>5, StepKeeps
<1>8. CASE Status(w) \/ Failed(w)
  <2>1. q.pc \in {"status", "failed"} /\ q.u \in Users /\ q.n \in Names
    BY <1>0, <1>8, <1>l DEF Status, Failed, At, Fits
  <2>2. /\ WriteStatus(q.u, q.n, TRUE) \/ WriteStatus(q.u, q.n, FALSE)
        /\ UNCHANGED <<crds, spaces, events, faults>>
    BY <1>8 DEF Status, Failed
  <2>3. obs' \in [Users -> Names \union {NoName}] /\ ready' \in [Users -> BOOLEAN]
    BY <1>0, <2>1, <2>2 DEF WriteStatus, StoreOK, status
  <2>4. StoreOK' /\ ForeignUntouched'
    BY <1>0, <2>2, <2>3 DEF StoreOK, ForeignUntouched, crds, spaces, events
  <2>5. \E p \in Passes : Step(w, p) /\ Fits(p)
    <3>1. CASE Stop(w)
      BY <3>1, StopFits
    <3>2. CASE Status(w) /\ ~Stop(w)
      <4>1. PICK u \in q.todo : Step(w, [q EXCEPT !.pc = "change", !.u = u, !.todo = @ \ {u}])
        BY <3>2 DEF Status
      <4>2. u \in Users /\ q.todo \ {u} \in SUBSET Users
        BY <1>0 DEF Passes
      <4>3. [q EXCEPT !.pc = "change", !.u = u, !.todo = @ \ {u}]
              = [q EXCEPT !.pc = "change", !.u = u, !.n = q.n, !.todo = q.todo \ {u}]
        BY <1>0 DEF Passes
      <4> HIDE DEF q
      <4> QED BY <1>0, <2>1, <4>1, <4>2, <4>3, StartFits
    <3> QED BY <1>8, <3>1, <3>2 DEF Failed
  <2> QED BY <2>2, <2>4, <2>5, StepKeeps
<1>9. CASE Orphan(w)
  <2>1. q.pc = "orphan" /\ q.old \in Names \ Foreign
    BY <1>0, <1>9 DEF Orphan, At, Fits
  <2>2. CASE kiteUsersForNamespace(q.old) # {}
    <3>1. Stop(w)
      BY <1>9, <2>2 DEF Orphan
    <3> QED BY <1>9, <1>u, <3>1, StopFits DEF Orphan
  <2>3. CASE kiteUsersForNamespace(q.old) = {}
    <3>1. Goto(w, "delOrphan")
      BY <1>9, <2>3 DEF Orphan
    <3>2. "delOrphan" \notin Reconcile \union {"failed"} /\ "delOrphan" \notin Apply
      BY DEF Reconcile, Apply
    <3>3. \E p \in Passes : Step(w, p) /\ Fits(p)
      BY <1>l, <2>1, <2>3, <3>1, <3>2, GotoFits
    <3> QED BY <1>9, <1>u, <3>3 DEF Orphan
  <2> QED BY <2>2, <2>3
<1>10. CASE DelNp(w)
  <2>1. StoreOK' /\ ForeignUntouched'
    BY <1>0, <1>10 DEF DelNp, StoreOK, ForeignUntouched, crds, status
  <2> QED BY <1>10, <2>1, StopFits, StepKeeps DEF DelNp
<1> QED
  BY <1>1, <1>2, <1>3, <1>4, <1>5, <1>6, <1>7, <1>8, <1>9, <1>10 DEF PassStep

(***************************************************************************)
(* Everybody else's steps.                                                 *)
(***************************************************************************)
\* The events that start a handler, and its failures.
LEMMA EventInductive ==
    ASSUME Inductive,
           \/ \E u \in Users : (\E g \in 1..MaxGen : UserEvent(u, g)) \/ UserDeleted(u)
           \/ \E n \in Names : NsEvent(n) \/ NsDeleted(n) \/ NpEvent(n)
           \/ \E w \in Informers : Fail(w)
    PROVE  Inductive'
<1>0. /\ StoreOK /\ NamedOK /\ ForeignUntouched
      /\ pass \in [Informers -> Passes] /\ \A w \in Informers : Fits(pass[w])
  BY DEF Inductive, TypeOK
<1>u. ASSUME UNCHANGED <<crds, status, spaces>>, seen' \in [Users -> 0..MaxGen], faults' \in Nat,
             told' \subseteq Users, lostNs' \subseteq Names, lostNp' \subseteq Names,
             UNCHANGED pass \/ \E w \in Informers, p \in Passes : Step(w, p) /\ Fits(p)
      PROVE  Inductive'
  <2>1. StoreOK' /\ ForeignUntouched'
    BY <1>0, <1>u DEF StoreOK, ForeignUntouched, crds, status, spaces
  <2> QED BY <1>u, <2>1, StepKeeps
<1>r. ASSUME NEW w \in Informers, NEW n \in Names, Restore(w, n)
      PROVE  UNCHANGED pass \/ \E p \in Passes : Step(w, p) /\ Fits(p)
  <2>1. CASE kiteUsersForNamespace(n) = {} /\ UNCHANGED pass
    BY <2>1
  <2>2. CASE \E u \in kiteUsersForNamespace(n) :
                Step(w, [NoPass EXCEPT !.pc = "change", !.u = u, !.n = n, !.todo = kiteUsersForNamespace(n) \ {u}])
    <3>1. PICK u \in kiteUsersForNamespace(n) :
                Step(w, [NoPass EXCEPT !.pc = "change", !.u = u, !.n = n, !.todo = kiteUsersForNamespace(n) \ {u}])
      BY <2>2
    <3>2. kiteUsersForNamespace(n) \subseteq Users
      BY DEF kiteUsersForNamespace
    <3>3. u \in Users /\ kiteUsersForNamespace(n) \ {u} \in SUBSET Users
      BY <3>2
    <3> QED BY <3>1, <3>3, NoPassFits, StartFits
  <2> QED BY <1>r, <2>1, <2>2 DEF Restore
<1>1. ASSUME NEW u \in Users, NEW g \in 1..MaxGen, UserEvent(u, g)
      PROVE  Inductive'
  <2>1. "user" \in Informers /\ g \in 1..gen[u]
    BY <1>1 DEF UserEvent, At
  <2>2. named[u][g] \in Names
    BY <1>0, <2>1 DEF NamedOK
  <2> DEFINE p == [NoPass EXCEPT !.pc = "change", !.u = u, !.n = named[u][g]]
  <2>3. Step("user", p)
    BY <1>1 DEF UserEvent
  <2>4. p \in Passes /\ p.pc = "change" /\ p.u = u /\ p.n = named[u][g]
    BY <2>2, NoPassFits DEF Passes, Labels, Reconcile
  <2>5. \E r \in Passes : Step("user", r) /\ Fits(r)
    <3> HIDE DEF p
    <3>1. Fits(p)
      BY <2>2, <2>4 DEF Fits, Apply, Delete
    <3> QED BY <2>3, <2>4, <3>1
  <2>6. seen' \in [Users -> 0..MaxGen]
    <3>1. g \in 0..MaxGen
      BY BoundsAssumption
    <3>2. seen' = [seen EXCEPT ![u] = g] /\ seen \in [Users -> 0..MaxGen]
      BY <1>0, <1>1 DEF UserEvent, StoreOK
    <3> QED BY <3>1, <3>2
  <2> QED BY <1>0, <1>1, <1>u, <2>1, <2>5, <2>6 DEF UserEvent, StoreOK
<1>2. ASSUME NEW u \in Users, UserDeleted(u)
      PROVE  Inductive'
  <2> DEFINE p == [NoPass EXCEPT !.pc = "delNp", !.n = Namespace(u)]
  <2>1. "user" \in Informers /\ u \in gone
    BY <1>2 DEF UserDeleted, At
  <2>2. UNCHANGED pass \/ Step("user", p)
    BY <1>2 DEF UserDeleted
  <2>3. CASE UNCHANGED pass
    BY <1>0, <1>2, <1>u, <2>3 DEF UserDeleted, StoreOK
  <2>4. CASE Step("user", p)
    <3>1. gen[u] \in 1..gen[u]
      BY <1>0, <2>1 DEF StoreOK, GoneOK, Inductive
    <3>2. Namespace(u) \in Names
      BY <1>0, <3>1 DEF NamedOK, Namespace
    <3>3. p \in Passes /\ p.pc = "delNp" /\ p.n = Namespace(u)
      BY <3>2, NoPassFits DEF Passes, Labels, NoPass
    <3> HIDE DEF p
    <3>4. Fits(p)
      BY <3>2, <3>3 DEF Fits, Reconcile, Apply, Delete
    <3> QED BY <1>0, <1>2, <1>u, <2>1, <2>4, <3>3, <3>4 DEF UserDeleted, StoreOK
  <2> QED BY <2>2, <2>3, <2>4
<1>3. ASSUME NEW n \in Names, NsEvent(n)
      PROVE  Inductive'
  <2> DEFINE p == [NoPass EXCEPT !.pc = "orphan", !.old = n]
  <2>1. "ns" \in Informers /\ Step("ns", p) /\ n \notin Foreign
    BY <1>0, <1>3 DEF NsEvent, At, ForeignUntouched
  <2>2. p \in Passes /\ p.pc = "orphan" /\ p.old = n
    BY NoPassFits DEF Passes, Labels, NoPass
  <2> HIDE DEF p
  <2>3. Fits(p)
    BY <2>1, <2>2 DEF Fits, Reconcile, Apply, Delete
  <2> QED BY <1>0, <1>3, <1>u, <2>1, <2>2, <2>3 DEF NsEvent, StoreOK, events
<1>4. ASSUME NEW n \in Names, NsDeleted(n)
      PROVE  Inductive'
  <2>1. "ns" \in Informers /\ Restore("ns", n)
    BY <1>4 DEF NsDeleted, At
  <2> QED BY <1>0, <1>4, <1>u, <1>r, <2>1 DEF NsDeleted, StoreOK
<1>5. ASSUME NEW n \in Names, NpEvent(n)
      PROVE  Inductive'
  <2>1. "np" \in Informers /\ Restore("np", n)
    BY <1>5 DEF NpEvent, At
  <2> QED BY <1>0, <1>5, <1>u, <1>r, <2>1 DEF NpEvent, StoreOK
<1>6. ASSUME NEW w \in Informers, Fail(w)
      PROVE  Inductive'
  <2>1. (pass[w].pc \in Reconcile /\ Error(w)) \/ Stop(w)
    BY <1>6 DEF Fail
  <2>2. \E p \in Passes : Step(w, p) /\ Fits(p)
    BY <2>1, ErrorFits, StopFits
  <2>3. faults' \in Nat
    BY <1>0, <1>6 DEF Fail, StoreOK
  <2> QED BY <1>0, <1>6, <1>u, <2>2, <2>3 DEF Fail, StoreOK, events
<1> QED
  BY <1>1, <1>2, <1>3, <1>4, <1>5, <1>6

\* Restarts, operators and the namespace controller.
LEMMA OutsideInductive ==
    ASSUME Inductive,
           \/ Restart
           \/ \E n \in Names : OperatorDeletes(n) \/ PolicyDrift(n) \/ NamespaceEmpties(n) \/ NamespaceGone(n)
           \/ UNCHANGED vars
    PROVE  Inductive'
<1>0. /\ StoreOK /\ NamedOK /\ ForeignUntouched
      /\ pass \in [Informers -> Passes] /\ \A w \in Informers : Fits(pass[w])
  BY DEF Inductive, TypeOK
<1>1. CASE Restart
  <2>1. StoreOK' /\ ForeignUntouched' /\ UNCHANGED crds
    BY <1>0, <1>1 DEF Restart, StoreOK, ForeignUntouched, crds, status, spaces
  <2>2. pass' \in [Informers -> Passes] /\ \A w \in Informers : pass'[w] = NoPass
    BY <1>1, NoPassFits DEF Restart
  <2>3. \A w \in Informers : Fits(pass[w])'
    BY <2>2 DEF NoPass, Fits, Reconcile, Apply, Delete
  <2>4. NamedOK' /\ GoneOK'
    BY <2>1 DEF Inductive, NamedOK, GoneOK, crds
  <2> QED BY <2>1, <2>2, <2>3, <2>4 DEF Inductive, TypeOK
<1>2. ASSUME NEW n \in Names, OperatorDeletes(n) \/ PolicyDrift(n) \/ NamespaceEmpties(n) \/ NamespaceGone(n)
      PROVE  Inductive'
  <2>1. UNCHANGED <<crds, pass>>
    BY <1>2 DEF OperatorDeletes, PolicyDrift, NamespaceEmpties, NamespaceGone
  <2>2. CASE OperatorDeletes(n)
    <3>1. /\ phase' \in [Names -> {"absent", "active", "ending"}]
          /\ \A m \in Foreign : phase'[m] = phase[m]
      BY <1>0, <2>2 DEF OperatorDeletes, Ended, StoreOK
    <3>2. StoreOK' /\ ForeignUntouched'
      BY <1>0, <2>2, <3>1 DEF OperatorDeletes, StoreOK, ForeignUntouched, crds, status, events
    <3> QED BY <2>1, <3>2, StepKeeps
  <2>3. CASE PolicyDrift(n) \/ NamespaceEmpties(n)
    <3>1. StoreOK' /\ ForeignUntouched'
      BY <1>0, <2>3 DEF PolicyDrift, NamespaceEmpties, StoreOK, ForeignUntouched, crds, status
    <3> QED BY <2>1, <3>1, StepKeeps
  <2>4. CASE NamespaceGone(n)
    <3>0. n \notin Foreign
      BY <1>0, <2>4 DEF NamespaceGone, ForeignUntouched
    <3>1. /\ phase' \in [Names -> {"absent", "active", "ending"}]
          /\ managed' \in [Names -> BOOLEAN] /\ lostNs' \subseteq Names
          /\ \A m \in Foreign : phase'[m] = phase[m] /\ managed'[m] = managed[m]
      BY <1>0, <2>4, <3>0 DEF NamespaceGone, StoreOK
    <3>2. StoreOK' /\ ForeignUntouched'
      BY <1>0, <2>4, <3>1 DEF NamespaceGone, StoreOK, ForeignUntouched, crds, status
    <3> QED BY <2>1, <3>2, StepKeeps
  <2> QED BY <1>2, <2>2, <2>3, <2>4
<1>3. CASE UNCHANGED vars
  <2>1. StoreOK' /\ ForeignUntouched' /\ UNCHANGED <<crds, pass>>
    BY <1>0, <1>3 DEF vars, StoreOK, ForeignUntouched, crds, status, spaces, events
  <2> QED BY <2>1, StepKeeps
<1> QED BY <1>1, <1>2, <1>3

\* kite-api: a user pointed at a namespace marks the passes about to delete it.
LEMMA ApiInductive ==
    ASSUME Inductive, NEW u \in Users, SignUp(u) \/ (\E n \in Names : Update(u, n)) \/ Remove(u)
    PROVE  Inductive'
<1>0. /\ StoreOK /\ NamedOK /\ ForeignUntouched /\ GoneOK
      /\ pass \in [Informers -> Passes] /\ \A w \in Informers : Fits(pass[w])
  BY DEF Inductive, TypeOK
<1>1. ASSUME NEW n \in Names, NEW g \in 1..MaxGen, g = gen[u] + 1, u \notin gone,
             gen' = [gen EXCEPT ![u] = g], named' = [named EXCEPT ![u][g] = n],
             Raced(n), UNCHANGED <<gone, status, spaces, events, faults>>
      PROVE  Inductive'
  <2>1. /\ gen' \in [Users -> 0..MaxGen] /\ gen'[u] = g
        /\ named' \in [Users -> [1..MaxGen -> Names \union {NoName}]]
        /\ \A v \in Users \ {u} : gen'[v] = gen[v] /\ named'[v] = named[v]
        /\ named'[u][g] = n /\ \A h \in 1..gen[u] : named'[u][h] = named[u][h]
    BY <1>0, <1>1 DEF StoreOK
  <2>2. StoreOK' /\ ForeignUntouched' /\ GoneOK'
    BY <1>0, <1>1, <2>1 DEF StoreOK, ForeignUntouched, GoneOK, status, spaces, events
  <2>3. NamedOK'
    BY <1>0, <1>1, <2>1 DEF NamedOK, StoreOK
  <2>4. ASSUME NEW m, m # n
        PROVE  kiteUsersForNamespace(m)' \subseteq kiteUsersForNamespace(m)
    BY <1>0, <1>1, <2>1, <2>4 DEF kiteUsersForNamespace, Live, Namespace
  <2>5. ASSUME NEW w \in Informers
        PROVE  pass'[w] \in Passes /\ Fits(pass[w])'
    <3>1. pass[w] \in Passes /\ Fits(pass[w])
      BY <1>0
    <3>2. CASE pass[w].pc \in Delete /\ pass[w].old = n
      <4>1. pass'[w] = [pass[w] EXCEPT !.raced = TRUE]
        BY <1>1, <3>2 DEF Raced
      <4>2. /\ pass'[w] \in Passes
            /\ pass'[w].pc = pass[w].pc /\ pass'[w].u = pass[w].u /\ pass'[w].n = pass[w].n
            /\ pass'[w].old = pass[w].old /\ pass'[w].raced
        BY <3>1, <4>1 DEF Passes
      <4> QED BY <3>1, <4>2 DEF Fits
    <3>3. CASE ~(pass[w].pc \in Delete /\ pass[w].old = n)
      <4>1. pass'[w] = pass[w]
        BY <1>1, <3>3 DEF Raced
      <4>2. pass[w].pc \in Delete /\ ~pass[w].raced => kiteUsersForNamespace(pass[w].old)' = {}
        <5>1. SUFFICES ASSUME pass[w].pc \in Delete, ~pass[w].raced
                       PROVE  kiteUsersForNamespace(pass[w].old)' = {}
          OBVIOUS
        <5> DEFINE m == pass[w].old
        <5>2. m # n /\ kiteUsersForNamespace(m) = {} /\ m' = m
          BY <3>1, <3>3, <4>1, <5>1 DEF Fits
        <5>3. kiteUsersForNamespace(m)' = {v \in Users : gen'[v] > 0 /\ v \notin gone' /\ named'[v][gen'[v]] = m}
          BY <4>1 DEF kiteUsersForNamespace, Live, Namespace
        <5>4. kiteUsersForNamespace(m) = {v \in Users : gen[v] > 0 /\ v \notin gone /\ named[v][gen[v]] = m}
          BY DEF kiteUsersForNamespace, Live, Namespace
        <5> HIDE DEF m
        <5> QED BY <1>1, <2>1, <5>2, <5>3, <5>4 DEF m
      <4> QED BY <3>1, <4>1, <4>2 DEF Fits
    <3> QED BY <3>2, <3>3
  <2>6. pass' \in [Informers -> Passes]
    BY <1>1, <2>5 DEF Raced
  <2> QED BY <2>2, <2>3, <2>5, <2>6 DEF Inductive, TypeOK
<1>2. CASE SignUp(u)
  <2>1. 1 \in 1..MaxGen /\ 1 = gen[u] + 1 /\ Home[u] \in Names /\ u \notin gone
    BY <1>0, <1>2 DEF SignUp, GoneOK
  <2> QED BY <1>1, <1>2, <2>1 DEF SignUp
<1>3. ASSUME NEW n \in Names, Update(u, n)
      PROVE  Inductive'
  <2>1. gen[u] + 1 \in 1..MaxGen /\ u \notin gone
    BY <1>0, <1>3 DEF Update, Live, StoreOK
  <2>2. gen' = [gen EXCEPT ![u] = gen[u] + 1]
    BY <1>0, <1>3 DEF Update, StoreOK
  <2> QED BY <1>1, <1>3, <2>1, <2>2 DEF Update
<1>4. CASE Remove(u)
  <2>1. StoreOK' /\ ForeignUntouched' /\ NamedOK' /\ GoneOK'
    BY <1>0, <1>4 DEF Remove, Live, StoreOK, ForeignUntouched, NamedOK, GoneOK, status, spaces, events
  <2>2. ASSUME NEW w \in Informers
        PROVE  Fits(pass[w])'
    <3> DEFINE m == pass[w].old
    <3>1. m' = m /\ pass' = pass
      BY <1>4 DEF Remove
    <3>2. kiteUsersForNamespace(m)' \subseteq kiteUsersForNamespace(m)
      BY <1>4, <3>1 DEF Remove, kiteUsersForNamespace, Live, Namespace
    <3> QED BY <1>0, <3>1, <3>2 DEF Fits
  <2>3. pass' \in [Informers -> Passes]
    BY <1>0, <1>4 DEF Remove
  <2> QED BY <2>1, <2>2, <2>3 DEF Inductive, TypeOK
<1> QED BY <1>2, <1>3, <1>4

\* Every step keeps Inductive.
LEMMA NextInductive == Inductive /\ [Next]_vars => Inductive'
BY PassStepInductive, EventInductive, OutsideInductive, ApiInductive DEF Next

\* What every pass has found out about its namespaces stays true.
THEOREM NamespaceInductive == Spec => []Inductive
BY InitInductive, NextInductive, PTL DEF Spec

\* Whatever namespaces KiteUsers name, kite-controller never labels or
\* deletes one that it does not manage.
THEOREM ForeignNamespacesUntouched == Spec => []ForeignUntouched
<1>1. Inductive => ForeignUntouched
  BY DEF Inductive
<1> QED BY <1>1, NamespaceInductive, PTL

\* Old events and old statuses never cost a referenced namespace: only a
\* write of kite-api between the check and the delete can.
THEOREM ReferencedNamespacesKept == Spec => ReferencedKept
<1> DEFINE Kept(n) ==
        phase[n] = "active" /\ phase'[n] = "ending" /\ faults' = faults =>
            \/ kiteUsersForNamespace(n) = {}
            \/ \E w \in Informers : pass[w].old = n /\ pass[w].raced
<1>1. ASSUME Inductive, [Next]_vars, NEW n \in Names
      PROVE  Kept(n)
  <2>0. StoreOK /\ \A w \in Informers : Fits(pass[w])
    BY <1>1 DEF Inductive, TypeOK
  <2>1. SUFFICES ASSUME phase[n] = "active", phase'[n] = "ending", faults' = faults
                 PROVE  \/ kiteUsersForNamespace(n) = {}
                        \/ \E w \in Informers : pass[w].old = n /\ pass[w].raced
    OBVIOUS
  <2>2. PICK w \in Informers : DelOld(w) \/ DelOrphan(w)
    <3>1. phase' # phase
      BY <2>1
    <3>2. ASSUME NEW v \in Informers, ApplyNs(v)
          PROVE  FALSE
      BY <2>0, <2>1, <3>2 DEF ApplyNs, StoreOK
    <3>3. ASSUME NEW m \in Names, NamespaceGone(m)
          PROVE  FALSE
      BY <2>0, <2>1, <3>3 DEF NamespaceGone, StoreOK
    <3>4. ASSUME NEW m \in Names, OperatorDeletes(m)
          PROVE  FALSE
      BY <2>0, <2>1, <3>4 DEF OperatorDeletes, StoreOK
    <3>5. ASSUME NEW v \in Informers, PassStep(v)
          PROVE  DelOld(v) \/ DelOrphan(v)
      BY <3>1, <3>2, <3>5 DEF PassStep, Change, ListRefs, GetOld, Validate, ApplyNp, Status, Failed, Orphan, DelNp, spaces
    <3>6. \E v \in Informers : PassStep(v)
      BY <1>1, <3>1, <3>3, <3>4 DEF Next, vars, spaces, UserEvent, UserDeleted, NsEvent, NsDeleted, NpEvent,
         Fail, Restart, PolicyDrift, NamespaceEmpties, SignUp, Update, Remove
    <3> QED BY <3>5, <3>6
  <2>3. Ended(pass[w].old) /\ pass[w].pc \in Delete
    BY <2>2 DEF DelOld, DelOrphan, At, Delete
  <2>4. pass[w].old = n
    BY <2>0, <2>1, <2>3 DEF Ended, StoreOK
  <2> QED BY <2>0, <2>3, <2>4 DEF Fits
<1>2. Inductive /\ [Next]_vars => \A n \in Names : Kept(n)
  BY <1>1
<1>3. Inductive /\ [Next]_vars => [\A n \in Names : Kept(n)]_vars
  BY <1>2
<1> QED BY <1>3, NamespaceInductive, PTL DEF Spec, ReferencedKept
=============================================================================
