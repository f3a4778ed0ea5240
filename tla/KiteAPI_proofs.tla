--------------------------- MODULE KiteAPI_proofs ---------------------------
(***************************************************************************)
(* Proof that access levels are only given, and that levels, usernames,    *)
(* sshIds, quota and clean-up fail only for requests that overlapped, for  *)
(* any users, VMs, names and quota and any number of requests.             *)
(***************************************************************************)
EXTENDS KiteAPI, FiniteSetTheorems, TLAPS

(***************************************************************************)
(* Overlaps.                                                               *)
(***************************************************************************)
LEMMA OverlapSymmetric == \A A, B : Overlapped(A, B) => Overlapped(B, A)
<1> SUFFICES ASSUME NEW A, NEW B, NEW a \in A, NEW b \in B, a = b \/ {a, b} \in overlap
             PROVE  Overlapped(B, A)
    BY DEF Overlapped
<1>1. {b, a} = {a, b}
    OBVIOUS
<1>2. QED  BY <1>1 DEF Overlapped

LEMMA OverlapGrows ==
    ASSUME overlap \subseteq overlap'
    PROVE  \A A, B : Overlapped(A, B) => Overlapped(A, B)'
BY DEF Overlapped

\* Requests that are under way have met, and meet whatever the other writes.
LEMMA MeetOverlaps ==
    ASSUME Meet, NEW q \in Reqs, NEW r \in Reqs, q \in UnderWay, r \in UnderWay,
           NEW B, r \in B
    PROVE  Overlapped({q}, B)
<1>1. q = r \/ {q, r} \in overlap
    BY DEF Meet
<1>2. QED  BY <1>1 DEF Overlapped

LEMMA OverlapBoth ==
    ASSUME NEW A, NEW B, NEW C, NEW D, A \subseteq C, B \subseteq D, Overlapped(A, B)
    PROVE  Overlapped(C, D)
BY DEF Overlapped

LEMMA OverlapWider ==
    ASSUME NEW A, NEW B, NEW C, A \subseteq B, Overlapped(A, C)
    PROVE  Overlapped(B, C)
BY DEF Overlapped

(***************************************************************************)
(* Requests.                                                               *)
(***************************************************************************)
LEMMA SpecTypes ==
    /\ NoSpec \in UserSpecs /\ NoVMSpec \in VMSpecs /\ Idle \in Requests /\ Answered \in Requests
    /\ Answered.pc = "done" /\ Idle.pc = "idle"
<1>1. NoSpec \in UserSpecs
    BY DEF NoSpec, UserSpecs, Levels, ReadOnly, Admin
<1>2. NoVMSpec \in VMSpecs
    BY DEF NoVMSpec, VMSpecs
<1>3. Idle \in Requests /\ Idle.pc = "idle"
    BY <1>1, <1>2 DEF Idle, Requests, Steps, Levels, ReadOnly, Admin
<1>4. Answered \in Requests /\ Answered.pc = "done"
    BY <1>3 DEF Answered, Requests, Steps
<1>5. QED  BY <1>1, <1>2, <1>3, <1>4

\* A request that has read nothing yet, or is answered, claims nothing.
LEMMA ResolvedHolds ==
    ASSUME NEW r, NEW q, q.pc \in {"idle", "username", "done"}
    PROVE  RequestHolds(r, q) /\ RequestHolds(r, q)'
BY DEF RequestHolds, UpdateHolds, SignUpHolds, SweepHolds, CreateHolds, ChangeHolds, Deleting

(***************************************************************************)
(* A step as another request q sees it: names, namespaces and origins stay *)
(* what they are, and what is new is of a request that overlaps q.         *)
(***************************************************************************)
UsersSeen(q) ==
    /\ \A n \in Users : Known(n) =>
          /\ Known(n)' /\ user'[n].spec.username = user[n].spec.username
          /\ granted[n].levels \subseteq granted'[n].levels
          /\ \/ granted'[n].last = granted[n].last /\ granted'[n].by = granted[n].by
             \/ Overlapped({q}, granted[n].by)'
    /\ \A n \in Users : Live(n)' =>
          \/ Live(n) /\ origin'[n] = origin[n]
          \/ Overlapped({q}, origin[n])'
    /\ \A n \in Users : Live(n)' =>
          \/ Live(n) /\ user'[n].spec.ns = user[n].spec.ns /\ user'[n].moved = user[n].moved
          \/ Overlapped({q}, user[n].moved)'
    /\ \A n \in Users : user'[n].state = "gone" =>
          \/ user[n].state = "gone" /\ origin'[n] = origin[n]
          \/ Overlapped({q}, origin[n])'

VMsSeen(q) ==
    /\ \A v \in VMs : vm'[v].state = "live" =>
          \/ vm[v].state = "live" /\ vm'[v].ns = vm[v].ns /\ origin'[v] = origin[v]
          \/ Overlapped({q}, origin[v])'
    /\ \A v \in VMs : Listed(v)' =>
          \/ /\ Listed(v) /\ vm'[v].spec.sshId = vm[v].spec.sshId
             /\ vm'[v].spec.blame = vm[v].spec.blame
          \/ Overlapped({q}, vm[v].spec.blame)'
    /\ \A ns \in Namespaces : \A v \in Capped(ns)' :
          \/ v \in Capped(ns) /\ vm'[v].kept = vm[v].kept
          \/ Overlapped({q}, vm[v].kept)'
    /\ \A v \in VMs : vm[v].state # "none" =>
          /\ vm'[v].state # "none" /\ vm'[v].ns = vm[v].ns /\ vm'[v].capped = vm[v].capped
          /\ vm[v].kept \subseteq vm'[v].kept

\* What the objects keep, whoever writes to them.
ObjectsHold ==
    /\ VMsHold /\ NamespacesHold /\ LevelsGranted /\ SignUpsUnique /\ SshIdsUnique
    /\ QuotaKept /\ SweptWithUser

LEMMA CappedFinite ==
    ASSUME VMsHold, NEW n, NEW some \in SUBSET Capped(n)
    PROVE  IsFiniteSet(some) /\ Cardinality(some) \in Nat
<1>1. some \subseteq {v \in VMs : vm[v].state # "none"}
    BY DEF Capped, VMsIn, Listed
<1>2. IsFiniteSet(some)
    BY <1>1, FS_Subset DEF VMsHold
<1>3. QED  BY <1>2, FS_CardinalityType

\* VMs that are apart after a step were so before.
LEMMA ApartBefore ==
    ASSUME NEW q, overlap \subseteq overlap', VMsSeen(q), NEW some \in SUBSET VMs, Apart(some)',
           \A v \in some : vm[v].state # "none"
    PROVE  Apart(some)
<1> SUFFICES ASSUME NEW v \in some, NEW w \in some, v # w, Overlapped(vm[v].kept, vm[w].kept)
             PROVE  FALSE
    BY DEF Apart
<1>1. Overlapped(vm'[v].kept, vm'[w].kept)
    BY DEF VMsSeen, Overlapped
<1>2. Overlapped(vm[v].kept, vm[w].kept)'
    BY <1>1 DEF Overlapped
<1>3. QED  BY <1>2 DEF Apart

LEMMA CountedBefore ==
    ASSUME NEW q, overlap \subseteq overlap', VMsSeen(q), NEW ns \in Namespaces
    PROVE  Counted(q, ns)' \subseteq Counted(q, ns)
<1>1. \A A, B : Overlapped(A, B) => Overlapped(A, B)'
    BY OverlapGrows
<1>2. QED  BY <1>1 DEF Counted, VMsSeen

LEMMA Seen ==
    ASSUME VMsHold, NEW q, NEW p, RequestHolds(q, p), overlap \subseteq overlap', UsersSeen(q), VMsSeen(q)
    PROVE  RequestHolds(q, p)'
<1>1. \A A, B : Overlapped(A, B) => Overlapped(A, B)'
    BY OverlapGrows
<1>2. UpdateHolds(q, p)'
  <2>1. \A B : Overlapped({q}, B)' => Overlapped(p.spec.blame \union {q}, B)'
    BY DEF Overlapped
  <2>2. ASSUME p.pc \in {"dupEmail", "rv", "write"}, p.set # "level", p.spec.level # granted'[p.on].last
        PROVE  Overlapped(p.spec.blame \union {q}, granted[p.on].by)'
    BY <1>1, <2>1, <2>2 DEF RequestHolds, UpdateHolds, UsersSeen
  <2>3. QED  BY <2>2 DEF RequestHolds, UpdateHolds, UsersSeen
<1>3. SignUpHolds(q, p)'
    BY <1>1 DEF RequestHolds, SignUpHolds, UsersSeen, FindByUsername, Known, Live
<1>4. SweepHolds(q, p)'
  <2>1. ASSUME p.pc \in Deleting \ {"delGet"}, Live(p.on)'
        PROVE  p.ns = user'[p.on].spec.ns \/ Overlapped({q}, user[p.on].moved)'
    BY <1>1, <2>1 DEF RequestHolds, SweepHolds, UsersSeen
  <2>2. ASSUME p.pc \in {"delVMs", "delUser"}, NEW v \in VMs, vm'[v].state = "live", vm'[v].ns = p.ns
        PROVE  v \in p.left \/ Overlapped({q}, origin[v])'
    BY <1>1, <2>2 DEF RequestHolds, SweepHolds, VMsSeen
  <2>3. QED  BY <2>1, <2>2 DEF RequestHolds, SweepHolds
<1>5. CreateHolds(q, p)'
  <2>1. ASSUME p.pc \in {"sshId", "createVM"}, p.capped
        PROVE  (Cardinality(Counted(q, p.ns)) < Quota)'
    <3>1. p.ns \in Namespaces /\ Cardinality(Counted(q, p.ns)) < Quota
      BY <2>1 DEF RequestHolds, CreateHolds
    <3>2. Counted(q, p.ns)' \subseteq Counted(q, p.ns)
      BY <3>1, CountedBefore
    <3>3. Counted(q, p.ns) \subseteq Capped(p.ns)
      BY DEF Counted
    <3>4. IsFiniteSet(Counted(q, p.ns)) /\ Cardinality(Counted(q, p.ns)) \in Nat
      BY <3>3, CappedFinite
    <3>5. /\ Cardinality(Counted(q, p.ns)') <= Cardinality(Counted(q, p.ns))
          /\ Cardinality(Counted(q, p.ns)') \in Nat
      BY <3>2, <3>4, FS_Subset, FS_CardinalityType
    <3>6. QED  BY <3>1, <3>4, <3>5, QuotaAssumption
  <2>2. p.pc \in {"quota", "sshId", "createVM"} =>
          /\ p.vm = NoVM /\ p.vmSpec.blame = {q} /\ ~p.vmSpec.delete
          /\ p.caller \in Users /\ p.ns \in Namespaces
          /\ (user[p.caller].state = "gone" => Overlapped({q}, origin[p.caller]))'
    BY <1>1 DEF RequestHolds, CreateHolds, UsersSeen
  <2>3. p.pc = "createVM" =>
          (\A w \in VMs : Listed(w) /\ vm[w].spec.sshId = p.vmSpec.sshId => Overlapped({q}, vm[w].spec.blame))'
    BY <1>1 DEF RequestHolds, CreateHolds, VMsSeen
  <2>4. QED  BY <2>1, <2>2, <2>3 DEF CreateHolds
<1>6. ChangeHolds(q, p)'
  <2>1. \A B : Overlapped({q}, B)' => Overlapped(p.vmSpec.blame \union {q}, B)'
    BY DEF Overlapped
  <2>2. p.pc = "writeVM" =>
          (\A w \in VMs \ {p.vm} : Listed(w) /\ vm[w].spec.sshId = p.vmSpec.sshId =>
             Overlapped(p.vmSpec.blame \union {q}, vm[w].spec.blame))'
    BY <1>1, <2>1 DEF RequestHolds, ChangeHolds, VMsSeen
  <2>3. ASSUME p.pc \in {"sshIdVM", "writeVM"}, ~p.vmSpec.delete
        PROVE  /\ vm'[p.vm].state # "none"
               /\ vm'[p.vm].capped =>
                     (\A some \in SUBSET (Counted(q, vm[p.vm].ns) \union {p.vm}) :
                        Apart(some) => Cardinality(some) <= Quota)'
    <3>1. PICK v \in VMs : v = p.vm
      BY <2>3 DEF RequestHolds, ChangeHolds
    <3>2. PICK ns \in Namespaces : ns = vm[v].ns
      BY <2>3, <3>1 DEF RequestHolds, ChangeHolds, VMsHold
    <3>3. vm[v].state # "none" /\ vm'[v].state # "none" /\ vm'[v].ns = ns /\ vm'[v].capped = vm[v].capped
      BY <2>3, <3>1, <3>2 DEF RequestHolds, ChangeHolds, VMsSeen
    <3>4. ASSUME vm[v].capped, NEW some \in SUBSET (Counted(q, ns)' \union {v}), Apart(some)'
          PROVE  Cardinality(some) <= Quota
      <4>1. some \in SUBSET (Counted(q, ns) \union {v})
        BY <3>4, CountedBefore
      <4>2. \A w \in some : w \in VMs /\ vm[w].state # "none"
        BY <3>3, <4>1 DEF Counted, Capped, VMsIn, Listed
      <4>3. Apart(some)
        BY <3>4, <4>2, ApartBefore
      <4>4. QED  BY <2>3, <3>1, <3>2, <3>4, <4>1, <4>3 DEF RequestHolds, ChangeHolds
    <3>5. QED  BY <3>1, <3>3, <3>4
  <2>4. QED  BY <2>2, <2>3 DEF RequestHolds, ChangeHolds
<1>7. QED  BY <1>2, <1>3, <1>4, <1>5, <1>6 DEF RequestHolds

\* The step of a request r is one that the others see, and ends in a state of
\* its own that holds.
LEMMA OthersSee ==
    ASSUME Inductive, NEW r \in Reqs, NEW n \in Requests, To(r, n), RequestHolds(r, n)',
           overlap \subseteq overlap',
           \A q \in UnderWay \ {r} : UsersSeen(q) /\ VMsSeen(q)
    PROVE  \A q \in Reqs : RequestHolds(q, req[q])'
<1> SUFFICES ASSUME NEW q \in Reqs PROVE RequestHolds(q, req[q])'
    OBVIOUS
<1>1. CASE q = r
  <2>1. req'[r] = n
    BY DEF To, Inductive, TypeOK
  <2>2. QED  BY <1>1, <2>1
<1>2. CASE q # r
  <2>1. PICK p : p = req[q]
    OBVIOUS
  <2>2. req'[q] = p
    BY <1>2, <2>1 DEF To, Inductive, TypeOK
  <2>3. RequestHolds(q, p)
    BY <2>1 DEF Inductive
  <2>4. RequestHolds(q, p)'
    <3>1. CASE q \in UnderWay
      BY <1>2, <2>3, <3>1, Seen DEF Inductive
    <3>2. CASE q \notin UnderWay
      BY <2>1, <3>2, ResolvedHolds DEF UnderWay
    <3>3. QED  BY <3>1, <3>2
  <2>5. QED  BY <2>2, <2>4
<1>3. QED  BY <1>1, <1>2

\* Levels may be given, but none is set.
Given ==
    \A n \in Users : /\ granted[n].levels \subseteq granted'[n].levels
                     /\ granted'[n].last = granted[n].last /\ granted'[n].by = granted[n].by

LEMMA UsersStay ==
    ASSUME NEW q, user' = user, \A n \in Users : origin'[n] = origin[n], Given
    PROVE  UsersSeen(q)
BY DEF UsersSeen, Live, Known, Given

LEMMA VMsStay ==
    ASSUME NEW q, vm' = vm, \A v \in VMs : origin'[v] = origin[v]
    PROVE  VMsSeen(q)
BY DEF VMsSeen, Listed, Capped, VMsIn, Active

(***************************************************************************)
(* Steps that read, and steps that begin a request.                        *)
(***************************************************************************)
\* A request that goes on, or is answered, has met all that are under way.
LEMMA Moved ==
    ASSUME Inductive, NEW r \in Reqs, NEW n \in Requests, To(r, n),
           req[r].pc \notin {"idle", "done"}, overlap' = overlap
    PROVE  req' \in [Reqs -> Requests] /\ Meet' /\ overlap \subseteq overlap'
<1>1. req' \in [Reqs -> Requests]
    BY DEF To, Inductive, TypeOK
<1>2. UnderWay' \subseteq UnderWay
    BY DEF To, Inductive, TypeOK, UnderWay
<1>3. QED  BY <1>1, <1>2 DEF Inductive, Meet

LEMMA Begun ==
    ASSUME Inductive, NEW r \in Reqs, NEW n \in Requests, Begin(r, n)
    PROVE  /\ req' \in [Reqs -> Requests] /\ To(r, n) /\ Meet'
           /\ overlap \subseteq overlap' /\ overlap' \subseteq SUBSET Reqs
<1>1. req' \in [Reqs -> Requests] /\ To(r, n)
    BY DEF Begin, To, Inductive, TypeOK
<1>2. overlap \subseteq overlap' /\ overlap' \subseteq SUBSET Reqs
    BY DEF Begin, Inductive, TypeOK, UnderWay
<1>3. UnderWay' \subseteq UnderWay \union {r}
    BY DEF Begin, Inductive, TypeOK, UnderWay
<1>4. ASSUME NEW p \in UnderWay', NEW q \in UnderWay', p # q PROVE {p, q} \in overlap'
  <2>1. CASE p \in UnderWay /\ q \in UnderWay
      BY <1>2, <1>4, <2>1 DEF Inductive, Meet
  <2>2. CASE p \in UnderWay /\ q = r
      BY <2>2 DEF Begin
  <2>3. CASE p = r /\ q \in UnderWay
    <3>1. {q, r} \in overlap'
      BY <2>3 DEF Begin
    <3>2. {p, q} = {q, r}
      BY <2>3
    <3>3. QED  BY <3>1, <3>2
  <2>4. QED  BY <1>3, <1>4, <2>1, <2>2, <2>3
<1>5. Meet'
    BY <1>4 DEF Meet
<1>6. QED  BY <1>1, <1>2, <1>5

\* The invariants of the objects, while overlaps and grants grow.
LEMMA ObjectsStay ==
    ASSUME Inductive, UNCHANGED <<user, vm, origin>>, overlap \subseteq overlap',
           Given
    PROVE  ObjectsHold'
<1>1. \A A, B : Overlapped(A, B) => Overlapped(A, B)'
    BY OverlapGrows
<1>2. VMsHold' /\ NamespacesHold'
    BY DEF Inductive, VMsHold, NamespacesHold, Known
<1>3. LevelsGranted'
    BY <1>1 DEF Inductive, LevelsGranted, Given
<1>4. SignUpsUnique'
    BY <1>1 DEF Inductive, SignUpsUnique, Live
<1>5. SshIdsUnique'
    BY <1>1 DEF Inductive, SshIdsUnique, Listed
<1>6. SweptWithUser'
    BY <1>1 DEF Inductive, SweptWithUser
<1>7. QuotaKept'
  <2>1. \A ns : Capped(ns)' = Capped(ns)
    BY DEF Capped, VMsIn, Active, Listed
  <2>2. \A some : Apart(some)' => Apart(some)
    BY <1>1 DEF Apart
  <2>3. QED  BY <2>1, <2>2 DEF Inductive, QuotaKept
<1>8. QED  BY <1>2, <1>3, <1>4, <1>5, <1>6, <1>7 DEF ObjectsHold

LEMMA Reads ==
    ASSUME Inductive, NEW r \in Reqs, NEW n \in Requests, To(r, n),
           req[r].pc \notin {"idle", "done"}, UNCHANGED <<user, vm, overlap, granted, origin>>,
           RequestHolds(r, n)
    PROVE  Inductive'
<1>1. req' \in [Reqs -> Requests] /\ Meet' /\ overlap \subseteq overlap'
    BY Moved
<1>2. Given /\ \A q : UsersSeen(q) /\ VMsSeen(q)
    BY UsersStay, VMsStay DEF Given
<1>3. RequestHolds(r, n)'
    BY <1>1, <1>2, Seen DEF Inductive
<1>4. \A q \in Reqs : RequestHolds(q, req[q])'
    BY <1>1, <1>2, <1>3, OthersSee
<1>5. ObjectsHold'
    BY <1>1, <1>2, ObjectsStay
<1>6. TypeOK'
    BY <1>1 DEF Inductive, TypeOK
<1>7. QED  BY <1>1, <1>4, <1>5, <1>6 DEF Inductive, ObjectsHold

LEMMA Begins ==
    ASSUME Inductive, NEW r \in Reqs, NEW n \in Requests, Begin(r, n),
           UNCHANGED <<user, vm, origin>>,
           granted' \in [Users -> Grants], Given,
           RequestHolds(r, n) \/ RequestHolds(r, n)'
    PROVE  Inductive'
<1>1. /\ req' \in [Reqs -> Requests] /\ To(r, n) /\ Meet'
      /\ overlap \subseteq overlap' /\ overlap' \subseteq SUBSET Reqs
    BY Begun
<1>2. Given /\ \A q : UsersSeen(q) /\ VMsSeen(q)
    BY UsersStay, VMsStay DEF Given
<1>3. RequestHolds(r, n)'
    BY <1>1, <1>2, Seen DEF Inductive
<1>4. \A q \in Reqs : RequestHolds(q, req[q])'
    BY <1>1, <1>2, <1>3, OthersSee
<1>5. ObjectsHold'
    BY <1>1, <1>2, ObjectsStay
<1>6. TypeOK'
    BY <1>1 DEF Inductive, TypeOK
<1>7. QED  BY <1>1, <1>4, <1>5, <1>6 DEF Inductive, ObjectsHold

\* The answer.
LEMMA Answers ==
    ASSUME Inductive, NEW r \in Reqs, Answer(r), req[r].pc \notin {"idle", "done"},
           UNCHANGED <<user, vm, overlap, granted, origin>>
    PROVE  Inductive'
<1>1. Answered \in Requests /\ RequestHolds(r, Answered)
    BY SpecTypes, ResolvedHolds
<1>2. QED  BY <1>1, Reads DEF Answer

LEMMA SignUpKeeps ==
    ASSUME Inductive, NEW r \in Reqs, NEW x \in Usernames, NEW e \in Emails, SignUp(r, x, e)
    PROVE  Inductive'
<1>1. [NoSpec EXCEPT !.username = x, !.email = e] \in UserSpecs
    BY SpecTypes DEF UserSpecs
<1>2. PICK n : n = [Idle EXCEPT !.pc = "username", !.spec = [NoSpec EXCEPT !.username = x, !.email = e]]
    OBVIOUS
<1>3. n \in Requests /\ n.pc = "username"
    BY <1>1, <1>2, SpecTypes DEF Requests, Steps
<1>4. RequestHolds(r, n)
    BY <1>3, ResolvedHolds
<1>5. QED  BY <1>2, <1>3, <1>4, Begins DEF SignUp, Inductive, TypeOK, Given

LEMMA LoginKeeps ==
    ASSUME Inductive, NEW r \in Reqs, NEW u \in Users, Login(r, u)
    PROVE  Inductive'
<1>1. user[u].spec \in UserSpecs /\ Live(u)
    BY DEF Login, Inductive, TypeOK, UserObjects
<1>2. PICK spec : spec = [user[u].spec EXCEPT !.hash = "bcrypt"]
    OBVIOUS
<1>3. /\ spec \in UserSpecs /\ spec.username = user[u].spec.username /\ spec.level = user[u].spec.level
      /\ spec.ns = user[u].spec.ns /\ spec.blame = user[u].spec.blame
    BY <1>1, <1>2 DEF UserSpecs
<1>4. /\ spec.level > User => spec.level \in granted[u].levels
      /\ spec.level # granted[u].last => Overlapped(spec.blame \union {r}, granted[u].by)
  <2>1. spec.level # granted[u].last => Overlapped(spec.blame, granted[u].by)
    BY <1>3 DEF Inductive, LevelsGranted
  <2>2. QED  BY <1>3, <2>1, OverlapWider DEF Inductive, LevelsGranted
<1>5. PICK n : n = [Idle EXCEPT !.pc = "rv", !.on = u, !.spec = spec]
    OBVIOUS
<1>6. n \in Requests /\ n.pc = "rv" /\ n.on = u /\ n.spec = spec
    BY <1>3, <1>5, SpecTypes DEF Requests, Steps
<1>7. RequestHolds(r, n)
    BY <1>1, <1>3, <1>4, <1>6 DEF RequestHolds, UpdateHolds, SignUpHolds, SweepHolds, CreateHolds,
                                  ChangeHolds, Deleting, Inductive, NamespacesHold, Live, Known
<1>8. QED  BY <1>2, <1>5, <1>6, <1>7, Begins DEF Login, Inductive, TypeOK, Given

LEMMA PatchUserKeeps ==
    ASSUME Inductive, NEW r \in Reqs, NEW caller \in Users, NEW u \in Users,
           NEW set \in {"email", "password", "namespace"}, NEW e \in Emails, NEW ns \in Namespaces,
           PatchUser(r, caller, u, set, e, ns)
    PROVE  Inductive'
<1>1. PICK spec : spec = [NoSpec EXCEPT !.email = IF set = "email" THEN e ELSE NoEmail]
    OBVIOUS
<1>2. spec \in UserSpecs
    BY <1>1, SpecTypes DEF UserSpecs
<1>3. PICK target \in Namespaces \union {NoNamespace} :
         target = IF set = "namespace" THEN ns ELSE NoNamespace
    OBVIOUS
<1>4. PICK n : n = [Idle EXCEPT !.pc = "get", !.on = u, !.set = set, !.ns = target, !.spec = spec]
    OBVIOUS
<1>5. n \in Requests /\ n.pc = "get" /\ n.on = u /\ n.set = set /\ n.ns = target
    BY <1>2, <1>4, SpecTypes DEF Requests, Steps
<1>6. RequestHolds(r, n)
    BY <1>3, <1>5 DEF RequestHolds, UpdateHolds, SignUpHolds, SweepHolds, CreateHolds, ChangeHolds,
                Deleting, PatchUser
<1>7. QED  BY <1>1, <1>3, <1>4, <1>5, <1>6, Begins DEF PatchUser, Inductive, TypeOK, Given

\* A manager's request asks for no level above 1, an admin's is a grant.
LEMMA SetAccessLevelKeeps ==
    ASSUME Inductive, NEW r \in Reqs, NEW caller \in Users, NEW u \in Users, NEW want \in Wanted,
           SetAccessLevel(r, caller, u, want)
    PROVE  Inductive'
<1>1. PICK n : n = [Idle EXCEPT !.pc = IF Authorized(caller, Admin) THEN "get" ELSE "target",
                                !.on = u, !.set = "level", !.want = want]
    OBVIOUS
<1>2. want \in Levels
    BY WantedAssumption
<1>3. /\ n \in Requests /\ n.on = u /\ n.set = "level" /\ n.want = want
      /\ n.pc = IF Authorized(caller, Admin) THEN "get" ELSE "target"
    BY <1>1, <1>2, SpecTypes DEF Requests, Steps
<1>4. /\ granted' \in [Users -> Grants] /\ Given
      /\ Authorized(caller, Admin) => want \in granted'[u].levels
  <2>1. granted \in [Users -> Grants]
    BY DEF Inductive, TypeOK
  <2>2. CASE Authorized(caller, Admin)
    <3>1. PICK new : new = [granted[u] EXCEPT !.levels = @ \union {want}]
      OBVIOUS
    <3>2. /\ new \in Grants /\ granted[u].levels \subseteq new.levels /\ want \in new.levels
          /\ new.last = granted[u].last /\ new.by = granted[u].by
      BY <1>2, <2>1, <3>1 DEF Grants
    <3>3. granted' = [granted EXCEPT ![u] = new]
      BY <2>1, <2>2, <3>1 DEF SetAccessLevel
    <3>4. QED  BY <2>1, <3>2, <3>3 DEF Given
  <2>3. CASE ~Authorized(caller, Admin)
    BY <2>1, <2>3 DEF SetAccessLevel, Given
  <2>4. QED  BY <2>2, <2>3
<1>5. user' = user /\ Known(u)
    BY DEF SetAccessLevel
<1>6. ~Authorized(caller, Admin) => want <= User
    BY DEF SetAccessLevel, ManagerMayAsk
<1>7. RequestHolds(r, n)'
    BY <1>3, <1>4, <1>5, <1>6 DEF RequestHolds, UpdateHolds, SignUpHolds, SweepHolds, CreateHolds,
                                  ChangeHolds, Deleting, Known
<1>8. QED  BY <1>1, <1>3, <1>4, <1>7, Begins DEF SetAccessLevel

LEMMA DeleteUserKeeps ==
    ASSUME Inductive, NEW r \in Reqs, NEW caller \in Users, NEW u \in Users, DeleteUser(r, caller, u)
    PROVE  Inductive'
<1>1. PICK n : n = [Idle EXCEPT !.pc = "delGet", !.on = u]
    OBVIOUS
<1>2. n \in Requests /\ n.pc = "delGet" /\ n.on = u
    BY <1>1, SpecTypes DEF Requests, Steps
<1>3. RequestHolds(r, n)
    BY <1>2 DEF RequestHolds, UpdateHolds, SignUpHolds, SweepHolds, CreateHolds, ChangeHolds, Deleting
<1>4. QED  BY <1>1, <1>2, <1>3, Begins DEF DeleteUser, Inductive, TypeOK, Given

LEMMA CreateVMKeeps ==
    ASSUME Inductive, NEW r \in Reqs, NEW caller \in Users, NEW s \in SshIds, CreateVM(r, caller, s)
    PROVE  Inductive'
<1>1. PICK spec : spec = [NoVMSpec EXCEPT !.sshId = s, !.blame = {r}]
    OBVIOUS
<1>2. spec \in VMSpecs /\ spec.blame = {r} /\ ~spec.delete
  <2>1. ~NoVMSpec.delete
    BY DEF NoVMSpec
  <2>2. QED  BY <1>1, <2>1, SpecTypes DEF VMSpecs
<1>3. Live(caller)
    BY DEF CreateVM, Authorized
<1>4. PICK ns \in Namespaces : ns = user[caller].spec.ns
    BY <1>3 DEF Inductive, NamespacesHold, Known, Live
<1>5. PICK capped \in BOOLEAN : capped = (user[caller].spec.level = User)
    OBVIOUS
<1>6. PICK n : n = [Idle EXCEPT !.pc = IF capped THEN "quota" ELSE "sshId", !.caller = caller,
                                !.ns = ns, !.capped = capped, !.vmSpec = spec]
    OBVIOUS
<1>7. /\ n \in Requests /\ n.caller = caller /\ n.ns = ns /\ n.capped = capped /\ n.vmSpec = spec
      /\ n.pc = (IF capped THEN "quota" ELSE "sshId") /\ n.vm = NoVM
  <2>1. Idle.vm = NoVM
    BY DEF Idle
  <2>2. PICK label \in {"quota", "sshId"} : label = IF capped THEN "quota" ELSE "sshId"
    OBVIOUS
  <2>3. n = [Idle EXCEPT !.pc = label, !.caller = caller, !.ns = ns, !.capped = capped, !.vmSpec = spec]
    BY <1>6, <2>2
  <2>4. /\ n \in Requests /\ n.caller = caller /\ n.ns = ns /\ n.capped = capped /\ n.vmSpec = spec
        /\ n.pc = label /\ n.vm = NoVM
    BY <1>2, <2>1, <2>3, SpecTypes DEF Requests, Steps
  <2>5. QED  BY <2>2, <2>4
<1>8. RequestHolds(r, n)
    BY <1>2, <1>3, <1>7 DEF RequestHolds, UpdateHolds, SignUpHolds, SweepHolds, CreateHolds, ChangeHolds,
                            Deleting, Live
<1>9. Begin(r, n)
    BY <1>1, <1>4, <1>5, <1>6 DEF CreateVM
<1>10. QED  BY <1>7, <1>8, <1>9, Begins DEF CreateVM, Inductive, TypeOK, Given

LEMMA UpdateVMKeeps ==
    ASSUME Inductive, NEW r \in Reqs, NEW caller \in Users, NEW s \in SshIds, NEW v \in VMs,
           NEW set \in {"sshId", "power", "delete"}, UpdateVM(r, caller, v, set, s)
    PROVE  Inductive'
<1>1. PICK spec : spec = [NoVMSpec EXCEPT !.sshId = IF set = "sshId" THEN s ELSE NoId]
    OBVIOUS
<1>2. spec \in VMSpecs
    BY <1>1, SpecTypes DEF VMSpecs
<1>3. PICK n : n = [Idle EXCEPT !.pc = "getVM", !.vm = v, !.set = set, !.vmSpec = spec]
    OBVIOUS
<1>4. n \in Requests /\ n.pc = "getVM" /\ n.vm = v
    BY <1>2, <1>3, SpecTypes DEF Requests, Steps
<1>5. RequestHolds(r, n)
    BY <1>4 DEF RequestHolds, UpdateHolds, SignUpHolds, SweepHolds, CreateHolds, ChangeHolds, Deleting
<1>6. QED  BY <1>1, <1>3, <1>4, <1>5, Begins DEF UpdateVM, Inductive, TypeOK, Given

\* The request after Goto, as a value.
LEMMA Gone ==
    ASSUME Inductive, NEW r \in Reqs, NEW label \in Steps, Goto(r, label)
    PROVE  \E n \in Requests :
              /\ To(r, n) /\ n.pc = label
              /\ n.caller = req[r].caller /\ n.on = req[r].on /\ n.ns = req[r].ns /\ n.vm = req[r].vm
              /\ n.set = req[r].set /\ n.want = req[r].want /\ n.spec = req[r].spec /\ n.rv = req[r].rv
              /\ n.vmSpec = req[r].vmSpec /\ n.capped = req[r].capped /\ n.left = req[r].left
<1>1. req[r] \in Requests
    BY DEF Inductive, TypeOK
<1>2. PICK n : n = [req[r] EXCEPT !.pc = label]
    OBVIOUS
<1>3. /\ n \in Requests /\ n.pc = label
      /\ n.caller = req[r].caller /\ n.on = req[r].on /\ n.ns = req[r].ns /\ n.vm = req[r].vm
      /\ n.set = req[r].set /\ n.want = req[r].want /\ n.spec = req[r].spec /\ n.rv = req[r].rv
      /\ n.vmSpec = req[r].vmSpec /\ n.capped = req[r].capped /\ n.left = req[r].left
    BY <1>1, <1>2 DEF Requests
<1>4. QED  BY <1>2, <1>3 DEF Goto

LEMMA CheckUsernameKeeps ==
    ASSUME Inductive, NEW r \in Reqs, CheckUsername(r)
    PROVE  Inductive'
<1>1. CASE FindByUsername(req[r].spec.username) = {}
  <2>1. Goto(r, "email")
    BY <1>1 DEF CheckUsername
  <2>2. PICK n \in Requests : To(r, n) /\ n.pc = "email" /\ n.spec = req[r].spec
    BY <2>1, Gone DEF Steps
  <2>3. RequestHolds(r, n)
    BY <1>1, <2>2 DEF RequestHolds, UpdateHolds, SignUpHolds, SweepHolds, CreateHolds, ChangeHolds, Deleting
  <2>4. QED  BY <2>2, <2>3, Reads DEF CheckUsername
<1>2. CASE FindByUsername(req[r].spec.username) # {}
    BY <1>2, Answers DEF CheckUsername
<1>3. QED  BY <1>1, <1>2

LEMMA CheckEmailKeeps ==
    ASSUME Inductive, NEW r \in Reqs, CheckEmail(r)
    PROVE  Inductive'
<1>1. CASE FindByEmail(req[r].spec.email) = {}
  <2>1. Goto(r, "level") /\ RequestHolds(r, req[r]) /\ req[r].pc = "email"
    BY <1>1 DEF CheckEmail, Inductive
  <2>2. PICK n \in Requests : To(r, n) /\ n.pc = "level" /\ n.spec = req[r].spec
    BY <2>1, Gone DEF Steps
  <2>3. RequestHolds(r, n)
    BY <2>1, <2>2 DEF RequestHolds, UpdateHolds, SignUpHolds, SweepHolds, CreateHolds, ChangeHolds, Deleting
  <2>4. QED  BY <2>2, <2>3, Reads DEF CheckEmail
<1>2. CASE FindByEmail(req[r].spec.email) # {}
    BY <1>2, Answers DEF CheckEmail
<1>3. QED  BY <1>1, <1>2

\* Who gets level 3 found nobody.
LEMMA CheckLevelKeeps ==
    ASSUME Inductive, NEW r \in Reqs, CheckLevel(r)
    PROVE  Inductive'
<1>1. req[r] \in Requests /\ RequestHolds(r, req[r]) /\ req[r].pc = "level"
    BY DEF CheckLevel, Inductive, TypeOK
<1>2. PICK n : n = [req[r] EXCEPT !.pc = "create", !.spec.level = AccessLevelForNewUser]
    OBVIOUS
<1>3. AccessLevelForNewUser \in Levels
    BY DEF AccessLevelForNewUser, Levels, Admin, ReadOnly
<1>4. /\ n \in Requests /\ n.pc = "create" /\ n.spec.username = req[r].spec.username
      /\ n.spec.level = AccessLevelForNewUser
  <2>1. PICK spec : spec = [req[r].spec EXCEPT !.level = AccessLevelForNewUser]
    OBVIOUS
  <2>2. req[r].spec \in UserSpecs
    BY <1>1 DEF Requests
  <2>3. /\ spec \in UserSpecs /\ spec.username = req[r].spec.username
        /\ spec.level = AccessLevelForNewUser
    BY <1>3, <2>1, <2>2 DEF UserSpecs
  <2>4. n = [req[r] EXCEPT !.pc = "create", !.spec = spec]
    BY <1>2, <2>1
  <2>5. n \in Requests /\ n.pc = "create" /\ n.spec = spec
    BY <1>1, <2>3, <2>4 DEF Requests, Steps
  <2>6. QED  BY <2>3, <2>5
<1>5. AccessLevelForNewUser = Admin => \A m \in Users : ~Live(m)
    BY DEF AccessLevelForNewUser, Admin, ReadOnly
<1>6. RequestHolds(r, n)
    BY <1>1, <1>4, <1>5 DEF RequestHolds, UpdateHolds, SignUpHolds, SweepHolds, CreateHolds, ChangeHolds,
                            Deleting
<1>7. QED  BY <1>1, <1>2, <1>4, <1>6, Reads DEF CheckLevel

LEMMA CheckTargetKeeps ==
    ASSUME Inductive, NEW r \in Reqs, CheckTarget(r)
    PROVE  Inductive'
<1> DEFINE u == req[r].on
<1>1. CASE Live(u) /\ user[u].spec.level <= User
  <2>1. Goto(r, "get") /\ RequestHolds(r, req[r]) /\ req[r].pc = "target" /\ req[r].want \in Levels
    BY <1>1 DEF CheckTarget, Inductive, TypeOK, Requests
  <2>2. PICK n \in Requests : /\ To(r, n) /\ n.pc = "get" /\ n.on = req[r].on
                              /\ n.set = req[r].set /\ n.want = req[r].want
    BY <2>1, Gone DEF Steps
  <2>3. RequestHolds(r, n)
    BY <2>1, <2>2 DEF RequestHolds, UpdateHolds, SignUpHolds, SweepHolds, CreateHolds, ChangeHolds, Deleting,
                      Levels, User, ReadOnly, Admin
  <2>4. QED  BY <2>2, <2>3, Reads DEF CheckTarget
<1>2. CASE ~(Live(u) /\ user[u].spec.level <= User)
    BY <1>2, Answers DEF CheckTarget
<1>3. QED  BY <1>1, <1>2

\* What Update makes of the spec it has read.
LEMMA AppliedSpec ==
    ASSUME Inductive, NEW r \in Reqs, NEW spec \in UserSpecs, spec.ns \in Namespaces,
           req[r].set = "namespace" => req[r].ns \in Namespaces
    PROVE  /\ Applied(r, spec) \in UserSpecs /\ Applied(r, spec).username = spec.username
           /\ Applied(r, spec).ns \in Namespaces /\ Applied(r, spec).blame = spec.blame
           /\ \/ Applied(r, spec).level = spec.level
              \/ req[r].set = "level" /\ Applied(r, spec).level = req[r].want
<1>1. req[r].want \in Levels /\ req[r].spec \in UserSpecs
    BY DEF Inductive, TypeOK, Requests
<1>2. CASE req[r].set = "level"
    BY <1>1, <1>2 DEF Applied, UserSpecs
<1>3. CASE req[r].set = "email"
    BY <1>1, <1>3 DEF Applied, UserSpecs
<1>4. CASE req[r].set = "namespace"
    BY <1>1, <1>4 DEF Applied, UserSpecs
<1>5. CASE req[r].set \notin {"level", "email", "namespace"}
    BY <1>1, <1>5 DEF Applied, UserSpecs
<1>6. QED  BY <1>2, <1>3, <1>4, <1>5

LEMMA UpdateGetKeeps ==
    ASSUME Inductive, NEW r \in Reqs, UpdateGet(r)
    PROVE  Inductive'
<1> DEFINE u == req[r].on
<1>1. CASE Live(u)
  <2>1. RequestHolds(r, req[r]) /\ req[r].pc = "get" /\ u \in Users
    BY DEF UpdateGet, Inductive, RequestHolds, UpdateHolds
  <2>2. user[u].spec \in UserSpecs /\ user[u].spec.ns \in Namespaces
    BY <1>1, <2>1 DEF Inductive, TypeOK, UserObjects, NamespacesHold, Known, Live
  <2>3. req[r].set = "namespace" => req[r].ns \in Namespaces
    BY <2>1 DEF RequestHolds, UpdateHolds
  <2>4. PICK spec : spec = Applied(r, user[u].spec)
    OBVIOUS
  <2>5. /\ spec \in UserSpecs /\ spec.username = user[u].spec.username
        /\ spec.ns \in Namespaces /\ spec.blame = user[u].spec.blame
        /\ spec.level = user[u].spec.level \/ (req[r].set = "level" /\ spec.level = req[r].want)
    BY <2>2, <2>3, <2>4, AppliedSpec
  <2>6. PICK set \in {"level", "none"} : set = IF req[r].set = "level" THEN "level" ELSE "none"
    OBVIOUS
  <2>7. PICK label \in {"dupEmail", "rv"} : label = IF req[r].set = "email" THEN "dupEmail" ELSE "rv"
    OBVIOUS
  <2>8. PICK n : n = [Idle EXCEPT !.pc = label, !.on = u, !.set = set, !.spec = spec]
    OBVIOUS
  <2>9. n \in Requests /\ n.pc \in {"dupEmail", "rv"} /\ n.on = u /\ n.set = set /\ n.spec = spec
    BY <2>1, <2>5, <2>8, SpecTypes DEF Requests, Steps
  <2>10. /\ spec.level > User => spec.level \in granted[u].levels
         /\ set # "level" /\ spec.level # granted[u].last => Overlapped(spec.blame \union {r}, granted[u].by)
    <3>1. set # "level" /\ spec.level # granted[u].last => Overlapped(spec.blame, granted[u].by)
      BY <2>1, <2>5, <2>6 DEF Inductive, LevelsGranted
    <3>2. spec.level > User => spec.level \in granted[u].levels
      BY <2>1, <2>5 DEF RequestHolds, UpdateHolds, Inductive, LevelsGranted
    <3>3. QED  BY <3>1, <3>2, OverlapWider
  <2>11. RequestHolds(r, n)
    BY <1>1, <2>1, <2>5, <2>9, <2>10 DEF RequestHolds, UpdateHolds, SignUpHolds, SweepHolds, CreateHolds,
                                        ChangeHolds, Deleting, Live, Known
  <2>12. QED  BY <1>1, <2>1, <2>4, <2>6, <2>7, <2>8, <2>9, <2>11, Reads DEF UpdateGet
<1>2. CASE ~Live(u)
    BY <1>2, Answers DEF UpdateGet
<1>3. QED  BY <1>1, <1>2

LEMMA RejectDuplicateEmailKeeps ==
    ASSUME Inductive, NEW r \in Reqs, RejectDuplicateEmail(r)
    PROVE  Inductive'
<1>1. CASE FindByEmail(req[r].spec.email) \subseteq {req[r].on}
  <2>1. Goto(r, "rv") /\ RequestHolds(r, req[r]) /\ req[r].pc = "dupEmail"
    BY <1>1 DEF RejectDuplicateEmail, Inductive
  <2>2. PICK n \in Requests : /\ To(r, n) /\ n.pc = "rv" /\ n.on = req[r].on
                              /\ n.set = req[r].set /\ n.spec = req[r].spec
    BY <2>1, Gone DEF Steps
  <2>3. RequestHolds(r, n)
    BY <2>1, <2>2 DEF RequestHolds, UpdateHolds, SignUpHolds, SweepHolds, CreateHolds, ChangeHolds, Deleting
  <2>4. QED  BY <2>2, <2>3, Reads DEF RejectDuplicateEmail
<1>2. CASE ~(FindByEmail(req[r].spec.email) \subseteq {req[r].on})
    BY <1>2, Answers DEF RejectDuplicateEmail
<1>3. QED  BY <1>1, <1>2

LEMMA UpdateRvKeeps ==
    ASSUME Inductive, NEW r \in Reqs, UpdateRv(r)
    PROVE  Inductive'
<1> DEFINE u == req[r].on
<1>1. CASE Live(u)
  <2>1. req[r] \in Requests /\ RequestHolds(r, req[r]) /\ req[r].pc = "rv" /\ u \in Users
    BY DEF UpdateRv, Inductive, TypeOK, RequestHolds, UpdateHolds
  <2>2. user[u].rv \in Nat
    BY <2>1 DEF Inductive, TypeOK, UserObjects
  <2>3. PICK n : n = [req[r] EXCEPT !.pc = "write", !.rv = user[u].rv]
    OBVIOUS
  <2>4. n \in Requests /\ n.pc = "write" /\ n.on = u /\ n.set = req[r].set /\ n.spec = req[r].spec
    BY <2>1, <2>2, <2>3 DEF Requests, Steps
  <2>5. RequestHolds(r, n)
    BY <2>1, <2>4 DEF RequestHolds, UpdateHolds, SignUpHolds, SweepHolds, CreateHolds, ChangeHolds, Deleting
  <2>6. QED  BY <1>1, <2>1, <2>3, <2>4, <2>5, Reads DEF UpdateRv
<1>2. CASE ~Live(u)
    BY <1>2, Answers DEF UpdateRv
<1>3. QED  BY <1>1, <1>2

LEMMA DeleteGetKeeps ==
    ASSUME Inductive, NEW r \in Reqs, DeleteGet(r)
    PROVE  Inductive'
<1>1. CASE Live(req[r].on)
  <2>1. RequestHolds(r, req[r]) /\ req[r].pc = "delGet" /\ req[r] \in Requests /\ req[r].on \in Users
    BY DEF DeleteGet, Inductive, TypeOK, RequestHolds, SweepHolds, Deleting
  <2>2. PICK ns \in Namespaces : ns = user[req[r].on].spec.ns
    BY <1>1, <2>1 DEF Inductive, NamespacesHold, Known, Live
  <2>3. PICK n : n = [req[r] EXCEPT !.pc = "delList", !.ns = ns]
    OBVIOUS
  <2>4. n \in Requests /\ To(r, n) /\ n.pc = "delList" /\ n.on = req[r].on /\ n.ns = ns
    BY <1>1, <2>1, <2>2, <2>3 DEF DeleteGet, Requests, Steps
  <2>5. RequestHolds(r, n)
    BY <2>1, <2>2, <2>4 DEF RequestHolds, UpdateHolds, SignUpHolds, SweepHolds, CreateHolds, ChangeHolds, Deleting
  <2>6. QED  BY <2>1, <2>4, <2>5, Reads DEF DeleteGet
<1>2. CASE ~Live(req[r].on)
    BY <1>2, Answers DEF DeleteGet
<1>3. QED  BY <1>1, <1>2

LEMMA DeleteListKeeps ==
    ASSUME Inductive, NEW r \in Reqs, DeleteList(r)
    PROVE  Inductive'
<1>1. req[r] \in Requests /\ RequestHolds(r, req[r]) /\ req[r].pc = "delList"
    BY DEF DeleteList, Inductive, TypeOK
<1>2. PICK n : n = [req[r] EXCEPT !.pc = "delVMs", !.left = VMsIn(req[r].ns)]
    OBVIOUS
<1>3. n \in Requests /\ n.pc = "delVMs" /\ n.on = req[r].on /\ n.ns = req[r].ns /\ n.left = VMsIn(req[r].ns)
    BY <1>1, <1>2 DEF Requests, Steps, VMsIn
<1>4. RequestHolds(r, n)
    BY <1>1, <1>3 DEF RequestHolds, UpdateHolds, SignUpHolds, SweepHolds, CreateHolds, ChangeHolds,
                      Deleting, VMsIn, Listed
<1>5. QED  BY <1>1, <1>2, <1>3, <1>4, Reads DEF DeleteList

LEMMA DeleteVMsDoneKeeps ==
    ASSUME Inductive, NEW r \in Reqs, DeleteVMsDone(r)
    PROVE  Inductive'
<1>1. Goto(r, "delUser") /\ RequestHolds(r, req[r]) /\ req[r].pc = "delVMs" /\ req[r].left = {}
    BY DEF DeleteVMsDone, Inductive
<1>2. PICK n \in Requests : /\ To(r, n) /\ n.pc = "delUser" /\ n.on = req[r].on
                            /\ n.ns = req[r].ns /\ n.left = req[r].left
    BY <1>1, Gone DEF Steps
<1>3. RequestHolds(r, n)
    BY <1>1, <1>2 DEF RequestHolds, UpdateHolds, SignUpHolds, SweepHolds, CreateHolds, ChangeHolds, Deleting
<1>4. QED  BY <1>1, <1>2, <1>3, Reads DEF DeleteVMsDone

LEMMA CheckQuotaKeeps ==
    ASSUME Inductive, NEW r \in Reqs, CheckQuota(r)
    PROVE  Inductive'
<1> DEFINE u == req[r].ns
           active == {v \in VMsIn(u) : Active(v)}
<1>1. CASE UnderQuota(u)
  <2>1. Goto(r, "sshId") /\ RequestHolds(r, req[r]) /\ req[r].pc = "quota"
    BY <1>1 DEF CheckQuota, Inductive
  <2>2. PICK n \in Requests : /\ To(r, n) /\ n.pc = "sshId" /\ n.caller = req[r].caller /\ n.ns = u
                              /\ n.vm = req[r].vm /\ n.vmSpec = req[r].vmSpec
    BY <2>1, Gone DEF Steps
  <2>3. Cardinality(Counted(r, u)) < Quota
    <3>1. IsFiniteSet(active)
      <4>1. active \subseteq {v \in VMs : vm[v].state # "none"}
        BY DEF VMsIn, Listed
      <4>2. QED  BY <4>1, FS_Subset DEF Inductive, VMsHold
    <3>2. Counted(r, u) \subseteq active
      BY DEF Counted, Capped
    <3>3. Cardinality(active) < Quota
      BY <1>1 DEF UnderQuota
    <3> HIDE DEF active
    <3>4. Cardinality(Counted(r, u)) <= Cardinality(active) /\ IsFiniteSet(Counted(r, u))
      BY <3>1, <3>2, FS_Subset
    <3>5. Cardinality(Counted(r, u)) \in Nat /\ Cardinality(active) \in Nat
      BY <3>1, <3>4, FS_CardinalityType
    <3>6. QED  BY <3>3, <3>4, <3>5, QuotaAssumption
  <2>4. RequestHolds(r, n)
    BY <2>1, <2>2, <2>3 DEF RequestHolds, UpdateHolds, SignUpHolds, SweepHolds, CreateHolds, ChangeHolds,
                            Deleting
  <2>5. QED  BY <2>2, <2>4, Reads DEF CheckQuota
<1>2. CASE ~UnderQuota(u)
    BY <1>2, Answers DEF CheckQuota
<1>3. QED  BY <1>1, <1>2

LEMMA CheckSSHIDKeeps ==
    ASSUME Inductive, NEW r \in Reqs, CheckSSHID(r)
    PROVE  Inductive'
<1>1. RequestHolds(r, req[r]) /\ req[r].pc \in {"sshId", "sshIdVM"}
    BY DEF CheckSSHID, Inductive
<1>2. CASE ~UniqueSSHID(req[r].vmSpec.sshId, req[r].vm)
    BY <1>1, <1>2, Answers DEF CheckSSHID
<1>3. CASE UniqueSSHID(req[r].vmSpec.sshId, req[r].vm) /\ req[r].pc = "sshId"
  <2>1. Goto(r, "createVM")
    BY <1>3 DEF CheckSSHID
  <2>2. PICK n \in Requests : /\ To(r, n) /\ n.pc = "createVM" /\ n.caller = req[r].caller /\ n.ns = req[r].ns
                              /\ n.vm = req[r].vm /\ n.vmSpec = req[r].vmSpec /\ n.capped = req[r].capped
    BY <2>1, Gone DEF Steps
  <2>3. RequestHolds(r, n)
    BY <1>1, <1>3, <2>2, APINoneAssumption
       DEF RequestHolds, UpdateHolds, SignUpHolds, SweepHolds, CreateHolds, ChangeHolds, Deleting, UniqueSSHID
  <2>4. QED  BY <1>1, <2>2, <2>3, Reads DEF CheckSSHID
<1>4. CASE UniqueSSHID(req[r].vmSpec.sshId, req[r].vm) /\ req[r].pc = "sshIdVM"
  <2>1. Goto(r, "writeVM")
    BY <1>4 DEF CheckSSHID
  <2>2. PICK n \in Requests : To(r, n) /\ n.pc = "writeVM" /\ n.vm = req[r].vm /\ n.vmSpec = req[r].vmSpec
    BY <2>1, Gone DEF Steps
  <2>3. RequestHolds(r, n)
    BY <1>1, <1>4, <2>2
       DEF RequestHolds, UpdateHolds, SignUpHolds, SweepHolds, CreateHolds, ChangeHolds, Deleting, UniqueSSHID
  <2>4. QED  BY <1>1, <2>2, <2>3, Reads DEF CheckSSHID
<1>5. QED  BY <1>1, <1>2, <1>3, <1>4

\* A copy of the sshId is as unique as the sshId.
LEMMA UpdateVMGetKeeps ==
    ASSUME Inductive, NEW r \in Reqs, UpdateVMGet(r)
    PROVE  Inductive'
<1> DEFINE v == req[r].vm
           set == req[r].set
<1>1. CASE Listed(v)
  <2>1. req[r] \in Requests /\ RequestHolds(r, req[r]) /\ req[r].pc = "getVM" /\ v \in VMs
    BY DEF UpdateVMGet, Inductive, TypeOK, RequestHolds, ChangeHolds
  <2>2. vm[v].spec \in VMSpecs /\ req[r].vmSpec \in VMSpecs
    BY <2>1 DEF Inductive, TypeOK, VMObjects, Requests
  <2>3. PICK spec : spec = [sshId |-> IF set = "sshId" THEN req[r].vmSpec.sshId ELSE vm[v].spec.sshId,
                            delete |-> set = "delete" \/ vm[v].spec.delete,
                            blame |-> IF set = "sshId" THEN {r} ELSE vm[v].spec.blame]
    OBVIOUS
  <2>4. /\ spec \in VMSpecs /\ (~spec.delete => ~vm[v].spec.delete)
        /\ set # "sshId" => spec.sshId = vm[v].spec.sshId /\ spec.blame = vm[v].spec.blame
    <3>1. spec.sshId \in SshIds \union {NoId} /\ spec.blame \in SUBSET Reqs
      BY <2>2, <2>3 DEF VMSpecs
    <3>2. spec.delete \in BOOLEAN /\ (~spec.delete => ~vm[v].spec.delete)
      BY <2>3
    <3>3. QED  BY <2>3, <3>1, <3>2 DEF VMSpecs
  <2>5. PICK n : n = [Idle EXCEPT !.pc = IF set = "sshId" THEN "sshIdVM" ELSE "writeVM", !.vm = v,
                                  !.vmSpec = spec]
    OBVIOUS
  <2>6. /\ n \in Requests /\ n.vm = v /\ n.vmSpec = spec
        /\ n.pc = IF set = "sshId" THEN "sshIdVM" ELSE "writeVM"
    <3>1. PICK label \in {"sshIdVM", "writeVM"} : label = IF set = "sshId" THEN "sshIdVM" ELSE "writeVM"
      OBVIOUS
    <3>2. n = [Idle EXCEPT !.pc = label, !.vm = v, !.vmSpec = spec]
      BY <2>5, <3>1
    <3>3. n \in Requests /\ n.vm = v /\ n.vmSpec = spec /\ n.pc = label
      BY <2>1, <2>4, <3>2, SpecTypes DEF Requests, Steps
    <3>4. QED  BY <3>1, <3>3
  <2>7. set # "sshId" => \A w \in VMs \ {v} : Listed(w) /\ vm[w].spec.sshId = spec.sshId =>
                            Overlapped(spec.blame \union {r}, vm[w].spec.blame)
    <3>1. \A w \in VMs \ {v} : Listed(w) /\ vm[w].spec.sshId = vm[v].spec.sshId =>
             Overlapped(vm[v].spec.blame, vm[w].spec.blame)
      BY <1>1, <2>1 DEF Inductive, SshIdsUnique
    <3>2. QED  BY <2>4, <3>1, OverlapWider
  <2>8. ASSUME ~spec.delete, vm[v].capped,
               NEW some \in SUBSET (Counted(r, vm[v].ns) \union {v}), Apart(some)
        PROVE  Cardinality(some) <= Quota
    <3>1. v \in Capped(vm[v].ns) /\ vm[v].ns \in Namespaces
      BY <1>1, <2>1, <2>4, <2>8 DEF Capped, VMsIn, Active, Listed, Inductive, VMsHold
    <3>2. some \in SUBSET Capped(vm[v].ns)
      BY <2>8, <3>1 DEF Counted
    <3>3. QED  BY <2>8, <3>1, <3>2 DEF Inductive, QuotaKept
  <2>9. RequestHolds(r, n)
    <3>1. vm[v].state # "none"
      BY <1>1 DEF Listed
    <3>2. ChangeHolds(r, n)
      BY <2>1, <2>6, <2>7, <2>8, <3>1 DEF ChangeHolds
    <3>3. QED
      BY <2>6, <3>2 DEF RequestHolds, UpdateHolds, SignUpHolds, SweepHolds, CreateHolds, Deleting
  <2>10. To(r, n)
    BY <1>1, <2>3, <2>5 DEF UpdateVMGet
  <2>11. QED  BY <2>1, <2>6, <2>9, <2>10, Reads DEF UpdateVMGet
<1>2. CASE ~Listed(v)
    BY <1>2, Answers DEF UpdateVMGet
<1>3. QED  BY <1>1, <1>2

LEMMA FailKeeps ==
    ASSUME Inductive, NEW r \in Reqs, Fail(r)
    PROVE  Inductive'
BY Answers DEF Fail

(***************************************************************************)
(* Steps that write to a KiteUser.                                         *)
(***************************************************************************)
LEMMA VMInvariantsStay ==
    ASSUME Inductive, vm' = vm, overlap' = overlap, \A v \in VMs : origin'[v] = origin[v]
    PROVE  VMsHold' /\ SshIdsUnique' /\ QuotaKept'
<1>1. \A A, B : Overlapped(A, B)' <=> Overlapped(A, B)
    BY DEF Overlapped
<1>2. VMsHold'
    BY DEF Inductive, VMsHold
<1>3. SshIdsUnique'
    BY <1>1 DEF Inductive, SshIdsUnique, Listed
<1>4. QuotaKept'
  <2>1. \A ns : Capped(ns)' = Capped(ns)
    BY DEF Capped, VMsIn, Active, Listed
  <2>2. \A some : Apart(some)' => Apart(some)
    BY <1>1 DEF Apart
  <2>3. QED  BY <2>1, <2>2 DEF Inductive, QuotaKept
<1>5. QED  BY <1>2, <1>3, <1>4

\* Of a write and its answer, what remains to be shown.
LEMMA Writes ==
    ASSUME Inductive, NEW r \in Reqs, Answer(r), req[r].pc \notin {"idle", "done"}, overlap' = overlap,
           user' \in [Users -> UserObjects], vm' \in [VMs -> VMObjects],
           granted' \in [Users -> Grants], origin' \in [Users \union VMs -> SUBSET Reqs],
           \A q \in UnderWay \ {r} : UsersSeen(q) /\ VMsSeen(q),
           VMsHold', NamespacesHold', LevelsGranted', SignUpsUnique', SshIdsUnique', QuotaKept',
           SweptWithUser'
    PROVE  Inductive'
<1>1. Answered \in Requests /\ RequestHolds(r, Answered)' /\ To(r, Answered)
    BY SpecTypes, ResolvedHolds DEF Answer
<1>2. req' \in [Reqs -> Requests] /\ Meet' /\ overlap \subseteq overlap'
    BY <1>1, Moved
<1>3. \A q \in Reqs : RequestHolds(q, req[q])'
    BY <1>1, <1>2, OthersSee
<1>4. TypeOK'
    BY <1>2 DEF Inductive, TypeOK
<1>5. QED  BY <1>2, <1>3, <1>4 DEF Inductive

LEMMA CreateUserKeeps ==
    ASSUME Inductive, NEW r \in Reqs, NEW u \in Users, CreateUser(r, u)
    PROVE  Inductive'
<1>1. /\ TypeOK /\ Meet /\ RequestHolds(r, req[r]) /\ req[r] \in Requests
      /\ req[r].pc = "create" /\ r \in UnderWay
    BY DEF CreateUser, Inductive, TypeOK, UnderWay
<1>2. user[u].state = "none" /\ Answer(r) /\ UNCHANGED <<vm, overlap>>
    BY DEF CreateUser
<1>3. req[r].spec \in UserSpecs /\ u \in Namespaces
    BY <1>1, NamespaceAssumption DEF Requests
<1>4. PICK spec : spec = [req[r].spec EXCEPT !.ns = u]
    OBVIOUS
<1>5. /\ spec \in UserSpecs /\ spec.username = req[r].spec.username /\ spec.level = req[r].spec.level
      /\ spec.ns = u
    BY <1>3, <1>4 DEF UserSpecs
<1>6. PICK new : new = [state |-> "live", rv |-> 0, spec |-> spec, moved |-> {r}]
    OBVIOUS
<1>7. /\ new \in UserObjects /\ new.state = "live" /\ new.spec = spec /\ new.moved = {r}
      /\ spec.level \in Levels
    BY <1>5, <1>6 DEF UserObjects, UserSpecs
<1>8. PICK grant : grant = [levels |-> {spec.level}, last |-> spec.level, by |-> {r}]
    OBVIOUS
<1>9. grant \in Grants /\ grant.levels = {spec.level} /\ grant.last = spec.level /\ grant.by = {r}
    BY <1>7, <1>8 DEF Grants
<1>10. /\ user' \in [Users -> UserObjects] /\ \A m \in Users : user'[m] = IF m = u THEN new ELSE user[m]
       /\ granted' \in [Users -> Grants]
       /\ \A m \in Users : granted'[m] = IF m = u THEN grant ELSE granted[m]
       /\ origin' \in [Users \union VMs -> SUBSET Reqs]
       /\ \A m \in Users : origin'[m] = IF m = u THEN {r} ELSE origin[m]
       /\ \A v \in VMs : origin'[v] = origin[v]
    BY <1>1, <1>4, <1>5, <1>6, <1>7, <1>8, <1>9, KindsAssumption DEF CreateUser, TypeOK
<1>11. \A A, B : Overlapped(A, B)' <=> Overlapped(A, B)
    BY <1>2 DEF Overlapped
<1>12. ASSUME NEW q \in UnderWay \ {r} PROVE UsersSeen(q) /\ VMsSeen(q)
  <2>1. Overlapped({q}, {r})
    BY <1>1, MeetOverlaps DEF UnderWay
  <2>2. UsersSeen(q)
    BY <1>2, <1>7, <1>10, <1>11, <2>1 DEF UsersSeen, Live, Known
  <2>3. QED  BY <1>2, <1>10, <2>2, VMsStay
<1>13. VMsHold' /\ SshIdsUnique' /\ QuotaKept'
    BY <1>2, <1>10, VMInvariantsStay
<1>14. LevelsGranted' /\ NamespacesHold'
  <2>1. LevelsGranted'
    BY <1>7, <1>9, <1>10, <1>11 DEF Inductive, LevelsGranted
  <2>2. NamespacesHold'
    BY <1>3, <1>5, <1>7, <1>10 DEF Inductive, NamespacesHold, Known
  <2>3. QED  BY <2>1, <2>2
<1>15. SignUpsUnique'
  <2>1. \A m \in Users : Live(m) /\ user[m].spec.username = spec.username => Overlapped({r}, origin[m])
    BY <1>1, <1>5 DEF RequestHolds, SignUpHolds, FindByUsername
  <2>2. \A m \in Users : Live(m) /\ user[m].spec.username = spec.username => Overlapped(origin[m], {r})
    BY <2>1, OverlapSymmetric
  <2>3. ASSUME NEW n \in Users, NEW m \in Users, n # m, Live(n)', Live(m)',
               user'[n].spec.username = user'[m].spec.username
        PROVE  Overlapped(origin'[n], origin'[m])
    <3>1. CASE n = u
      BY <1>7, <1>10, <2>1, <2>3, <3>1 DEF Live
    <3>2. CASE m = u
      BY <1>7, <1>10, <2>2, <2>3, <3>2 DEF Live
    <3>3. CASE n # u /\ m # u
      BY <1>10, <2>3, <3>3 DEF Inductive, SignUpsUnique, Live
    <3>4. QED  BY <3>1, <3>2, <3>3
  <2>4. QED  BY <1>11, <2>3 DEF SignUpsUnique
<1>16. SweptWithUser'
    BY <1>2, <1>7, <1>10, <1>11 DEF Inductive, SweptWithUser, VMsHold
<1>17. vm' \in [VMs -> VMObjects]
    BY <1>1, <1>2 DEF TypeOK
<1>18. QED  BY <1>1, <1>2, <1>10, <1>12, <1>13, <1>14, <1>15, <1>16, <1>17, Writes

\* A stale spec is written: its name is the user's, its level was given, and a
\* level that it brings back is its request's to answer for.
LEMMA UpdateWriteKeeps ==
    ASSUME Inductive, NEW r \in Reqs, UpdateWrite(r)
    PROVE  Inductive'
<1> DEFINE u == req[r].on
<1>1. /\ TypeOK /\ Meet /\ RequestHolds(r, req[r]) /\ req[r] \in Requests
      /\ req[r].pc = "write" /\ u \in Users /\ r \in UnderWay
    BY DEF UpdateWrite, Inductive, TypeOK, RequestHolds, UpdateHolds, UnderWay
<1>2. Answer(r) /\ UNCHANGED <<vm, overlap, origin>>
    BY DEF UpdateWrite
<1>3. CASE ~(Live(u) /\ user[u].rv = req[r].rv)
    BY <1>1, <1>2, <1>3, Answers DEF UpdateWrite
<1>4. CASE Live(u) /\ user[u].rv = req[r].rv
  <2>1. PICK spec \in UserSpecs : spec = req[r].spec
    BY <1>1 DEF Requests
  <2>2. /\ spec.username = user[u].spec.username /\ spec.ns \in Namespaces
        /\ spec.level > User => spec.level \in granted[u].levels
        /\ req[r].set # "level" /\ spec.level # granted[u].last =>
              Overlapped(spec.blame \union {r}, granted[u].by)
    BY <1>1, <2>1 DEF RequestHolds, UpdateHolds
  <2>3. user[u] \in UserObjects /\ user[u].state = "live" /\ granted[u] \in Grants
    BY <1>1, <1>4 DEF TypeOK, Live
  <2>4. PICK blame \in SUBSET Reqs :
           blame = IF user[u].spec.level = spec.level THEN user[u].spec.blame ELSE spec.blame \union {r}
    BY <2>3 DEF UserObjects, UserSpecs
  <2>5. PICK moved \in SUBSET Reqs : moved = IF user[u].spec.ns = spec.ns THEN user[u].moved ELSE {r}
    BY <2>3 DEF UserObjects
  <2>6. PICK nspec : nspec = [spec EXCEPT !.blame = blame]
    OBVIOUS
  <2>7. /\ nspec \in UserSpecs /\ nspec.username = spec.username /\ nspec.level = spec.level
        /\ nspec.ns = spec.ns /\ nspec.blame = blame
    BY <2>6 DEF UserSpecs
  <2>8. PICK new : new = [user[u] EXCEPT !.spec = nspec, !.rv = user[u].rv + 1, !.moved = moved]
    OBVIOUS
  <2>9. new \in UserObjects /\ new.state = "live" /\ new.spec = nspec /\ new.moved = moved
    <3>1. user[u].rv + 1 \in Nat
      BY <2>3 DEF UserObjects
    <3>2. QED  BY <2>3, <2>7, <2>8, <3>1 DEF UserObjects
  <2>10. PICK grant : grant = IF req[r].set = "level" THEN [granted[u] EXCEPT !.last = spec.level, !.by = {r}]
                              ELSE granted[u]
    OBVIOUS
  <2>11. /\ grant \in Grants /\ grant.levels = granted[u].levels
         /\ req[r].set = "level" => grant.last = spec.level /\ grant.by = {r}
         /\ req[r].set # "level" => grant = granted[u]
    BY <2>3, <2>10 DEF Grants, UserSpecs
  <2>12. user' = [user EXCEPT ![u] = new]
    <3>1. user' = [user EXCEPT ![u].spec = nspec, ![u].rv = @ + 1, ![u].moved = moved]
      BY <1>4, <2>1, <2>4, <2>5, <2>6 DEF UpdateWrite, LevelBlame, MovedBy
    <3>2. QED  BY <1>1, <2>3, <2>8, <3>1 DEF TypeOK, UserObjects
  <2>13. granted' = [granted EXCEPT ![u] = grant]
    <3>1. granted' = IF req[r].set = "level"
                     THEN [granted EXCEPT ![u].last = spec.level, ![u].by = {r}] ELSE granted
      BY <1>4, <2>1 DEF UpdateWrite
    <3>2. QED  BY <1>1, <2>3, <2>10, <3>1 DEF TypeOK, Grants
  <2>14. /\ user' \in [Users -> UserObjects] /\ granted' \in [Users -> Grants]
         /\ \A m \in Users : user'[m] = IF m = u THEN new ELSE user[m]
         /\ \A m \in Users : granted'[m] = IF m = u THEN grant ELSE granted[m]
    BY <1>1, <2>9, <2>11, <2>12, <2>13 DEF TypeOK
  <2>15. \A A, B : Overlapped(A, B)' <=> Overlapped(A, B)
    BY <1>2 DEF Overlapped
  <2>16. ASSUME NEW q \in UnderWay \ {r} PROVE UsersSeen(q) /\ VMsSeen(q)
    <3>1. Overlapped({q}, {r})
      BY <1>1, MeetOverlaps DEF UnderWay
    <3>2. (moved = user[u].moved /\ spec.ns = user[u].spec.ns) \/ Overlapped({q}, moved)
      BY <2>5, <3>1
    <3>3. (grant.last = granted[u].last /\ grant.by = granted[u].by) \/ Overlapped({q}, grant.by)
      BY <2>11, <3>1
    <3>4. \A n \in Users : Live(n)' <=> Live(n)
      BY <1>4, <2>9, <2>14 DEF Live
    <3>5. UsersSeen(q)
      BY <1>2, <1>4, <2>2, <2>7, <2>9, <2>11, <2>14, <2>15, <3>2, <3>3, <3>4 DEF UsersSeen, Known
    <3>6. QED  BY <1>2, <3>5, VMsStay
  <2>17. VMsHold' /\ SshIdsUnique' /\ QuotaKept'
    BY <1>2, VMInvariantsStay
  <2>18. LevelsGranted'
    <3>1. spec.level > User => spec.level \in grant.levels
      BY <2>2, <2>11
    <3>2. spec.level # grant.last => Overlapped(blame, grant.by)
      <4>1. CASE req[r].set = "level"
        BY <2>11, <4>1
      <4>2. CASE req[r].set # "level" /\ user[u].spec.level = spec.level
        BY <1>1, <2>4, <2>11, <4>2 DEF Inductive, LevelsGranted
      <4>3. CASE req[r].set # "level" /\ user[u].spec.level # spec.level
        BY <2>2, <2>4, <2>11, <4>3
      <4>4. QED  BY <4>1, <4>2, <4>3
    <3>3. QED  BY <2>7, <2>9, <2>14, <2>15, <3>1, <3>2 DEF Inductive, LevelsGranted
  <2>19. SignUpsUnique'
    BY <1>2, <1>4, <2>2, <2>7, <2>9, <2>14, <2>15 DEF Inductive, SignUpsUnique, Live
  <2>20. SweptWithUser'
    BY <1>2, <2>9, <2>14, <2>15 DEF Inductive, SweptWithUser, VMsHold
  <2>21. NamespacesHold'
    BY <2>2, <2>7, <2>9, <2>14 DEF Inductive, NamespacesHold, Known
  <2>22. vm' \in [VMs -> VMObjects] /\ origin' \in [Users \union VMs -> SUBSET Reqs]
    BY <1>1, <1>2 DEF TypeOK
  <2>23. QED
    BY <1>1, <1>2, <2>14, <2>16, <2>17, <2>18, <2>19, <2>20, <2>21, <2>22, Writes
<1>5. QED  BY <1>3, <1>4

\* What is left in the namespace was created at the same time.
LEMMA RemoveUserKeeps ==
    ASSUME Inductive, NEW r \in Reqs, RemoveUser(r)
    PROVE  Inductive'
<1> DEFINE u == req[r].on
<1>1. /\ TypeOK /\ Meet /\ RequestHolds(r, req[r]) /\ req[r] \in Requests
      /\ req[r].pc = "delUser" /\ u \in Users /\ r \in UnderWay
    BY DEF RemoveUser, Inductive, TypeOK, RequestHolds, SweepHolds, Deleting, UnderWay
<1>2. Answer(r) /\ UNCHANGED <<vm, overlap, granted>>
    BY DEF RemoveUser
<1>3. CASE ~Live(u)
    BY <1>1, <1>2, <1>3, Answers DEF RemoveUser
<1>4. CASE Live(u)
  <2>1. PICK new : new = [user[u] EXCEPT !.state = "gone"]
    OBVIOUS
  <2>2. new \in UserObjects /\ new.state = "gone" /\ new.spec = user[u].spec /\ new.moved = user[u].moved
    BY <1>1, <2>1 DEF TypeOK, UserObjects
  <2>3. /\ user' \in [Users -> UserObjects]
        /\ \A m \in Users : user'[m] = IF m = u THEN new ELSE user[m]
        /\ origin' \in [Users \union VMs -> SUBSET Reqs]
        /\ \A m \in Users : origin'[m] = IF m = u THEN {r} ELSE origin[m]
        /\ \A v \in VMs : origin'[v] = origin[v]
    BY <1>1, <1>4, <2>1, <2>2, KindsAssumption DEF RemoveUser, TypeOK
  <2>4. \A A, B : Overlapped(A, B)' <=> Overlapped(A, B)
    BY <1>2 DEF Overlapped
  <2>5. ASSUME NEW q \in UnderWay \ {r} PROVE UsersSeen(q) /\ VMsSeen(q)
    <3>1. Overlapped({q}, {r})
      BY <1>1, MeetOverlaps DEF UnderWay
    <3>2. UsersSeen(q)
      BY <1>2, <1>4, <2>2, <2>3, <2>4, <3>1 DEF UsersSeen, Live, Known
    <3>3. QED  BY <1>2, <2>3, <3>2, VMsStay
  <2>6. VMsHold' /\ SshIdsUnique' /\ QuotaKept'
    BY <1>2, <2>3, VMInvariantsStay
  <2>7. LevelsGranted' /\ NamespacesHold'
    <3>1. LevelsGranted'
      BY <1>2, <2>2, <2>3, <2>4 DEF Inductive, LevelsGranted
    <3>2. NamespacesHold'
      BY <1>4, <2>2, <2>3 DEF Inductive, NamespacesHold, Known, Live
    <3>3. QED  BY <3>1, <3>2
  <2>8. SignUpsUnique'
    BY <2>2, <2>3, <2>4 DEF Inductive, SignUpsUnique, Live
  <2>9. SweptWithUser'
    <3>1. ASSUME NEW v \in VMs, vm[v].state = "live", vm[v].ns = user[u].spec.ns
          PROVE  Overlapped(origin[v] \union user[u].moved, {r})
      <4>1. req[r].ns = user[u].spec.ns \/ Overlapped({r}, user[u].moved)
        BY <1>1, <1>4 DEF RequestHolds, SweepHolds, Deleting
      <4>2. vm[v].ns = req[r].ns => Overlapped({r}, origin[v])
        BY <1>1, <3>1 DEF RequestHolds, SweepHolds
      <4>3. Overlapped(origin[v], {r}) \/ Overlapped(user[u].moved, {r})
        BY <3>1, <4>1, <4>2, OverlapSymmetric
      <4>4. QED  BY <4>3, OverlapWider
    <3>2. ASSUME NEW v \in VMs, vm[v].state = "live", user'[vm[v].by].state = "gone",
                 vm[v].ns = user'[vm[v].by].spec.ns
          PROVE  Overlapped(origin'[v] \union user'[vm[v].by].moved, origin'[vm[v].by])
      <4>1. vm[v].by \in Users
        BY <3>2 DEF Inductive, VMsHold
      <4>2. CASE vm[v].by = u
        <5>1. /\ user'[u].spec = user[u].spec /\ user'[u].moved = user[u].moved
              /\ origin'[u] = {r} /\ origin'[v] = origin[v]
          BY <1>1, <2>2, <2>3
        <5>2. Overlapped(origin[v] \union user[u].moved, {r})
          BY <3>1, <3>2, <4>2, <5>1
        <5>3. QED  BY <4>2, <5>1, <5>2
      <4>3. CASE vm[v].by # u
        BY <2>3, <3>2, <4>1, <4>3 DEF Inductive, SweptWithUser
      <4>4. QED  BY <4>2, <4>3
    <3>3. QED  BY <1>2, <2>4, <3>2 DEF SweptWithUser
  <2>10. vm' \in [VMs -> VMObjects] /\ granted' \in [Users -> Grants]
    BY <1>1, <1>2 DEF TypeOK
  <2>11. QED  BY <1>1, <1>2, <2>3, <2>5, <2>6, <2>7, <2>8, <2>9, <2>10, Writes
<1>5. QED  BY <1>3, <1>4

(***************************************************************************)
(* Steps that write to a KiteVirtualMachine.                               *)
(***************************************************************************)
LEMMA UserInvariantsStay ==
    ASSUME Inductive, UNCHANGED <<user, overlap, granted>>, \A n \in Users : origin'[n] = origin[n]
    PROVE  NamespacesHold' /\ LevelsGranted' /\ SignUpsUnique' /\ \A q : UsersSeen(q)
<1>1. \A A, B : Overlapped(A, B)' <=> Overlapped(A, B)
    BY DEF Overlapped
<1>2. SignUpsUnique'
    BY <1>1 DEF Inductive, SignUpsUnique, Live
<1>3. LevelsGranted'
    BY <1>1 DEF Inductive, LevelsGranted
<1>4. NamespacesHold'
    BY DEF Inductive, NamespacesHold, Known
<1>5. Given
    BY DEF Given
<1>6. QED  BY <1>2, <1>3, <1>4, <1>5, UsersStay

\* Fewer VMs count for a quota.
LEMMA FewerCapped ==
    ASSUME Inductive, overlap' = overlap,
           \A ns \in Namespaces : \A v \in Capped(ns)' : v \in Capped(ns) /\ vm'[v].kept = vm[v].kept
    PROVE  QuotaKept'
<1>1. \A A, B : Overlapped(A, B)' <=> Overlapped(A, B)
    BY DEF Overlapped
<1>2. SUFFICES ASSUME NEW ns \in Namespaces, NEW some \in SUBSET (Capped(ns)'), Apart(some)'
               PROVE  Cardinality(some) <= Quota
    BY DEF QuotaKept
<1>3. some \in SUBSET Capped(ns) /\ Apart(some)
    BY <1>1, <1>2 DEF Apart
<1>4. QED  BY <1>3 DEF Inductive, QuotaKept

\* The deletion of v goes on.
LEMMA VMFades ==
    ASSUME Inductive, NEW v \in VMs, NEW x,
           (vm[v].state = "live" /\ x = "ending") \/ (vm[v].state = "ending" /\ x = "gone"),
           vm' = [vm EXCEPT ![v].state = x], UNCHANGED <<user, overlap, granted, origin>>
    PROVE  /\ vm' \in [VMs -> VMObjects]
           /\ ObjectsHold'
           /\ \A q : UsersSeen(q) /\ VMsSeen(q)
           /\ vm'[v].state = x
<1>1. PICK new : new = [vm[v] EXCEPT !.state = x]
    OBVIOUS
<1>2. /\ new \in VMObjects /\ new.state = x /\ new.ns = vm[v].ns /\ new.spec = vm[v].spec
      /\ new.by = vm[v].by /\ new.kept = vm[v].kept /\ new.capped = vm[v].capped
    BY <1>1 DEF Inductive, TypeOK, VMObjects
<1>3. vm' \in [VMs -> VMObjects] /\ \A w \in VMs : vm'[w] = IF w = v THEN new ELSE vm[w]
    BY <1>1, <1>2 DEF Inductive, TypeOK
<1>4. \A A, B : Overlapped(A, B)' <=> Overlapped(A, B)
    BY DEF Overlapped
<1>5. \A w \in VMs : Listed(w)' => Listed(w) /\ vm'[w].spec = vm[w].spec
    BY <1>2, <1>3 DEF Listed
<1>6. \A w \in VMs : vm'[w].state = "live" => vm[w] = vm'[w]
    BY <1>2, <1>3
<1>7. \A ns : \A w \in Capped(ns)' : w \in Capped(ns) /\ vm'[w].kept = vm[w].kept
    BY <1>2, <1>3, <1>5 DEF Capped, VMsIn, Active
<1>8. VMsHold'
  <2>1. {w \in VMs : vm[w].state # "none"}' = {w \in VMs : vm[w].state # "none"}
    BY <1>2, <1>3
  <2>2. QED  BY <1>2, <1>3, <2>1 DEF Inductive, VMsHold
<1>9. SshIdsUnique'
    BY <1>4, <1>5 DEF Inductive, SshIdsUnique
<1>10. QuotaKept'
    BY <1>7, FewerCapped
<1>11. SweptWithUser'
    BY <1>4, <1>6 DEF Inductive, SweptWithUser
<1>12. NamespacesHold' /\ LevelsGranted' /\ SignUpsUnique' /\ \A q : UsersSeen(q)
    BY UserInvariantsStay
<1>13. \A q : VMsSeen(q)
  <2>1. \A w \in VMs : vm[w].state # "none" =>
           /\ vm'[w].state # "none" /\ vm'[w].ns = vm[w].ns /\ vm'[w].capped = vm[w].capped
           /\ vm[w].kept \subseteq vm'[w].kept
    BY <1>2, <1>3
  <2>2. QED  BY <1>5, <1>6, <1>7, <2>1 DEF VMsSeen
<1>14. QED  BY <1>2, <1>3, <1>8, <1>9, <1>10, <1>11, <1>12, <1>13 DEF ObjectsHold

LEMMA ControllerKeeps ==
    ASSUME Inductive, NEW v \in VMs, ControllerDelete(v) \/ ControllerRemove(v)
    PROVE  Inductive'
<1>1. PICK x : /\ (vm[v].state = "live" /\ x = "ending") \/ (vm[v].state = "ending" /\ x = "gone")
               /\ vm' = [vm EXCEPT ![v].state = x] /\ UNCHANGED <<user, req, overlap, granted, origin>>
    BY DEF ControllerDelete, ControllerRemove
<1>2. /\ vm' \in [VMs -> VMObjects]
      /\ ObjectsHold'
      /\ \A q : UsersSeen(q) /\ VMsSeen(q)
    BY <1>1, VMFades
<1>3. TypeOK' /\ Meet'
    BY <1>1, <1>2 DEF Inductive, TypeOK, Meet, UnderWay
<1>4. ASSUME NEW q \in Reqs PROVE RequestHolds(q, req[q])'
  <2>1. PICK p : p = req[q]
    OBVIOUS
  <2>2. req'[q] = p /\ RequestHolds(q, p)
    BY <1>1, <2>1 DEF Inductive
  <2>3. RequestHolds(q, p)'
    BY <1>1, <1>2, <2>2, Seen DEF Inductive
  <2>4. QED  BY <2>2, <2>3
<1>5. QED  BY <1>2, <1>3, <1>4 DEF Inductive, ObjectsHold

LEMMA DeleteVMKeeps ==
    ASSUME Inductive, NEW r \in Reqs, NEW v \in VMs, DeleteVM(r, v)
    PROVE  Inductive'
<1>1. /\ req[r] \in Requests /\ RequestHolds(r, req[r]) /\ req[r].pc = "delVMs"
      /\ UNCHANGED <<user, overlap, granted, origin>>
    BY DEF DeleteVM, Inductive, TypeOK
<1>2. PICK n : n = [req[r] EXCEPT !.left = @ \ {v}]
    OBVIOUS
<1>3. /\ n \in Requests /\ n.pc = "delVMs" /\ n.on = req[r].on /\ n.ns = req[r].ns
      /\ n.left = req[r].left \ {v} /\ To(r, n)
    BY <1>1, <1>2 DEF Requests, DeleteVM
<1>4. req' \in [Reqs -> Requests] /\ Meet' /\ overlap \subseteq overlap'
    BY <1>1, <1>3, Moved
<1>5. CASE vm[v].state # "live"
  <2>1. vm' = vm
    BY <1>5 DEF DeleteVM
  <2>2. RequestHolds(r, n)
    BY <1>1, <1>3, <1>5 DEF RequestHolds, UpdateHolds, SignUpHolds, SweepHolds, CreateHolds, ChangeHolds,
                            Deleting
  <2>3. QED  BY <1>1, <1>3, <2>1, <2>2, Reads
<1>6. CASE vm[v].state = "live"
  <2>1. vm' = [vm EXCEPT ![v].state = "ending"]
    BY <1>6 DEF DeleteVM
  <2>2. /\ vm' \in [VMs -> VMObjects]
        /\ ObjectsHold'
        /\ \A q : UsersSeen(q) /\ VMsSeen(q)
        /\ vm'[v].state = "ending"
    BY <1>1, <1>6, <2>1, VMFades
  <2>3. PICK p : p = req[r]
    OBVIOUS
  <2>4. RequestHolds(r, p)'
    BY <1>1, <1>4, <2>2, <2>3, Seen DEF Inductive
  <2>5. RequestHolds(r, n)'
    BY <1>1, <1>3, <2>2, <2>3, <2>4 DEF RequestHolds, UpdateHolds, SignUpHolds, SweepHolds, CreateHolds,
                                        ChangeHolds, Deleting
  <2>6. \A q \in Reqs : RequestHolds(q, req[q])'
    BY <1>3, <1>4, <2>2, <2>5, OthersSee
  <2>7. TypeOK'
    BY <1>1, <1>4, <2>2 DEF Inductive, TypeOK
  <2>8. QED  BY <1>4, <2>2, <2>6, <2>7 DEF Inductive, ObjectsHold
<1>7. QED  BY <1>5, <1>6

\* A VM is created that its request counted, or could have counted, together
\* with all that it did not overlap.
LEMMA StoreVMKeeps ==
    ASSUME Inductive, NEW r \in Reqs, NEW v \in VMs, StoreVM(r, v)
    PROVE  Inductive'
<1> DEFINE u == req[r].caller
           home == req[r].ns
<1>1. /\ TypeOK /\ Meet /\ VMsHold /\ RequestHolds(r, req[r]) /\ req[r] \in Requests
      /\ req[r].pc = "createVM" /\ r \in UnderWay
    BY DEF StoreVM, Inductive, TypeOK, UnderWay
<1>2. vm[v].state = "none" /\ Answer(r) /\ UNCHANGED <<user, overlap, granted>>
    BY DEF StoreVM
<1>3. PICK spec \in VMSpecs : spec = req[r].vmSpec
    BY <1>1 DEF Requests
<1>4. PICK capped \in BOOLEAN : capped = req[r].capped
    BY <1>1 DEF Requests
<1>5. /\ u \in Users /\ home \in Namespaces /\ spec.blame = {r}
      /\ user[u].state = "gone" => Overlapped({r}, origin[u])
      /\ \A w \in VMs : Listed(w) /\ vm[w].spec.sshId = spec.sshId => Overlapped({r}, vm[w].spec.blame)
      /\ capped => Cardinality(Counted(r, home)) < Quota
    BY <1>1, <1>3, <1>4 DEF RequestHolds, CreateHolds
<1>6. PICK new : new = [state |-> "live", ns |-> home, spec |-> spec, by |-> u, kept |-> {r},
                        capped |-> capped]
    OBVIOUS
<1>7. /\ new \in VMObjects /\ new.state = "live" /\ new.ns = home /\ new.spec = spec
      /\ new.by = u /\ new.kept = {r} /\ new.capped = capped
    BY <1>5, <1>6 DEF VMObjects
<1>8. /\ vm' \in [VMs -> VMObjects] /\ \A w \in VMs : vm'[w] = IF w = v THEN new ELSE vm[w]
      /\ origin' \in [Users \union VMs -> SUBSET Reqs]
      /\ \A w \in VMs : origin'[w] = IF w = v THEN {r} ELSE origin[w]
      /\ \A n \in Users : origin'[n] = origin[n]
    BY <1>1, <1>3, <1>4, <1>6, <1>7, KindsAssumption DEF StoreVM, TypeOK
<1>9. \A A, B : Overlapped(A, B)' <=> Overlapped(A, B)
    BY <1>2 DEF Overlapped
<1>10. \A w \in VMs \ {v} : Listed(w)' <=> Listed(w)
    BY <1>8 DEF Listed
<1>11. /\ \A n : \A w \in Capped(n)' : w # v => w \in Capped(n)
       /\ \A n : v \in Capped(n)' => n = home /\ capped
       /\ \A n : v \notin Capped(n) /\ Capped(n) \subseteq VMs
    BY <1>2, <1>7, <1>8, <1>10 DEF Capped, VMsIn, Active, Listed
<1>12. ASSUME NEW q \in UnderWay \ {r} PROVE VMsSeen(q)
  <2>1. Overlapped({q}, {r})
    BY <1>1, MeetOverlaps DEF UnderWay
  <2>2. \A w \in VMs : vm'[w].state = "live" =>
           \/ vm[w].state = "live" /\ vm'[w].ns = vm[w].ns /\ origin'[w] = origin[w]
           \/ Overlapped({q}, origin[w])'
    BY <1>8, <1>9, <2>1
  <2>3. \A w \in VMs : Listed(w)' =>
           \/ /\ Listed(w) /\ vm'[w].spec.sshId = vm[w].spec.sshId
              /\ vm'[w].spec.blame = vm[w].spec.blame
           \/ Overlapped({q}, vm[w].spec.blame)'
    BY <1>5, <1>7, <1>8, <1>9, <1>10, <2>1
  <2>4. ASSUME NEW ns \in Namespaces, NEW w \in Capped(ns)'
        PROVE  (w \in Capped(ns) /\ vm'[w].kept = vm[w].kept) \/ Overlapped({q}, vm[w].kept)'
    <3>1. CASE w = v
      BY <1>7, <1>8, <1>9, <2>1, <3>1
    <3>2. CASE w # v
      BY <1>8, <1>11, <2>4, <3>2
    <3>3. QED  BY <3>1, <3>2
  <2>5. \A w \in VMs : vm[w].state # "none" =>
           /\ vm'[w].state # "none" /\ vm'[w].ns = vm[w].ns /\ vm'[w].capped = vm[w].capped
           /\ vm[w].kept \subseteq vm'[w].kept
    BY <1>2, <1>8
  <2>6. QED  BY <2>2, <2>3, <2>4, <2>5 DEF VMsSeen
<1>13. NamespacesHold' /\ LevelsGranted' /\ SignUpsUnique' /\ \A q : UsersSeen(q)
    BY <1>2, <1>8, UserInvariantsStay
<1>14. VMsHold'
  <2>1. {w \in VMs : vm[w].state # "none"}' = {w \in VMs : vm[w].state # "none"} \union {v}
    BY <1>7, <1>8
  <2>2. IsFiniteSet({w \in VMs : vm[w].state # "none"} \union {v})
    BY <1>1, FS_AddElement DEF VMsHold
  <2>3. QED  BY <1>1, <1>5, <1>7, <1>8, <2>1, <2>2 DEF VMsHold
<1>15. SshIdsUnique'
  <2>1. ASSUME NEW w \in VMs, w # v, Listed(w)', vm'[w].spec.sshId = spec.sshId
        PROVE  Overlapped({r}, vm'[w].spec.blame) /\ Overlapped(vm'[w].spec.blame, {r})
    BY <1>5, <1>8, <1>10, <2>1, OverlapSymmetric
  <2>2. ASSUME NEW w \in VMs, NEW z \in VMs, w # z, Listed(w)', Listed(z)',
               vm'[w].spec.sshId = vm'[z].spec.sshId
        PROVE  Overlapped(vm'[w].spec.blame, vm'[z].spec.blame)
    <3>1. CASE w = v
      BY <1>5, <1>7, <1>8, <2>1, <2>2, <3>1
    <3>2. CASE z = v
      BY <1>5, <1>7, <1>8, <2>1, <2>2, <3>2
    <3>3. CASE w # v /\ z # v
      BY <1>8, <1>10, <2>2, <3>3 DEF Inductive, SshIdsUnique
    <3>4. QED  BY <3>1, <3>2, <3>3
  <2>3. QED  BY <1>9, <2>2 DEF SshIdsUnique
<1>16. QuotaKept'
  <2>1. SUFFICES ASSUME NEW n \in Namespaces, NEW some \in SUBSET (Capped(n)'), Apart(some)'
                 PROVE  Cardinality(some) <= Quota
    BY DEF QuotaKept
  <2>2. \A w, z \in some : w # z => ~Overlapped(vm'[w].kept, vm'[z].kept)
    BY <1>9, <2>1 DEF Apart
  <2>3. some \ {v} \in SUBSET Capped(n)
    BY <1>11
  <2>4. CASE v \notin some
    <3>1. Apart(some)
      BY <1>8, <1>11, <2>2, <2>3, <2>4 DEF Apart
    <3>2. some \in SUBSET Capped(n)
      BY <2>3, <2>4
    <3>3. QED  BY <3>1, <3>2 DEF Inductive, QuotaKept
  <2>5. CASE v \in some
    <3>1. n = home /\ capped
      BY <1>11, <2>5
    <3>2. some \ {v} \in SUBSET Counted(r, home)
      <4>1. ASSUME NEW w \in some, w # v PROVE w \in Counted(r, home)
        <5>1. w \in Capped(home) /\ w \in VMs
          BY <1>11, <2>3, <3>1, <4>1
        <5>2. vm'[w].kept = vm[w].kept /\ vm'[v].kept = {r}
          BY <1>7, <1>8, <4>1, <5>1
        <5>3. ~Overlapped({r}, vm[w].kept)
          BY <2>2, <2>5, <4>1, <5>2
        <5>4. QED  BY <5>1, <5>3 DEF Counted
      <4>2. QED  BY <4>1
    <3>3. IsFiniteSet(Counted(r, home)) /\ Cardinality(Counted(r, home)) \in Nat
      <4>1. Counted(r, home) \in SUBSET Capped(home)
        BY DEF Counted
      <4>2. QED  BY <1>1, <4>1, CappedFinite
    <3>4. IsFiniteSet(some \ {v}) /\ Cardinality(some \ {v}) <= Cardinality(Counted(r, home))
      BY <3>2, <3>3, FS_Subset
    <3>5. Cardinality(some \ {v}) \in Nat
      BY <3>4, FS_CardinalityType
    <3>6. Cardinality((some \ {v}) \union {v}) = Cardinality(some \ {v}) + 1
      BY <3>4, FS_AddElement
    <3>7. (some \ {v}) \union {v} = some
      BY <2>5
    <3>8. Cardinality(Counted(r, home)) < Quota
      BY <1>5, <3>1
    <3>9. Cardinality(some) = Cardinality(some \ {v}) + 1
      BY <3>6, <3>7
    <3> HIDE DEF home
    <3>10. QED  BY <3>3, <3>4, <3>5, <3>8, <3>9, QuotaAssumption
  <2>6. QED  BY <2>4, <2>5
<1>17. SweptWithUser'
  <2>1. ASSUME NEW w \in VMs, vm'[w].state = "live", user'[vm'[w].by].state = "gone",
               vm'[w].ns = user'[vm'[w].by].spec.ns
        PROVE  Overlapped(origin'[w] \union user'[vm'[w].by].moved, origin'[vm'[w].by])
    <3>1. CASE w = v
      <4>1. Overlapped({r} \union user[u].moved, origin[u])
        BY <1>2, <1>5, <1>7, <1>8, <2>1, <3>1, OverlapWider
      <4>2. QED  BY <1>2, <1>5, <1>7, <1>8, <3>1, <4>1
    <3>2. CASE w # v
      BY <1>1, <1>2, <1>8, <2>1, <3>2 DEF Inductive, SweptWithUser, VMsHold
    <3>3. QED  BY <3>1, <3>2
  <2>2. QED  BY <1>9, <2>1 DEF SweptWithUser
<1>18. user' \in [Users -> UserObjects] /\ granted' \in [Users -> Grants]
    BY <1>1, <1>2 DEF TypeOK
<1>19. QED
    BY <1>1, <1>2, <1>8, <1>12, <1>13, <1>14, <1>15, <1>16, <1>17, <1>18, Writes

\* An sshId that a write brings to a VM is its request's to answer for.
LEMMA UpdateVMWriteKeeps ==
    ASSUME Inductive, NEW r \in Reqs, UpdateVMWrite(r)
    PROVE  Inductive'
<1> DEFINE v == req[r].vm
<1>1. /\ TypeOK /\ Meet /\ VMsHold /\ RequestHolds(r, req[r]) /\ req[r] \in Requests
      /\ req[r].pc = "writeVM" /\ r \in UnderWay /\ v \in VMs
    BY DEF UpdateVMWrite, Inductive, TypeOK, UnderWay, RequestHolds, ChangeHolds
<1>2. Answer(r) /\ UNCHANGED <<user, overlap, granted, origin>>
    BY DEF UpdateVMWrite
<1>3. CASE ~Listed(v)
    BY <1>1, <1>2, <1>3, Answers DEF UpdateVMWrite
<1>4. CASE Listed(v)
  <2>1. PICK spec \in VMSpecs : spec = req[r].vmSpec
    BY <1>1 DEF Requests
  <2>2. vm[v] \in VMObjects /\ vm[v].spec \in VMSpecs
    BY <1>1 DEF TypeOK, VMObjects
  <2>3. PICK blame \in SUBSET Reqs :
           blame = IF vm[v].spec.sshId = spec.sshId THEN vm[v].spec.blame ELSE spec.blame \union {r}
    BY <2>1, <2>2 DEF VMSpecs
  <2>4. PICK nspec : nspec = [spec EXCEPT !.blame = blame]
    OBVIOUS
  <2>5. nspec \in VMSpecs /\ nspec.sshId = spec.sshId /\ nspec.blame = blame /\ nspec.delete = spec.delete
    BY <2>1, <2>3, <2>4 DEF VMSpecs
  <2>6. PICK kept \in SUBSET Reqs :
           kept = IF vm[v].spec.delete /\ ~spec.delete THEN vm[v].kept \union {r} ELSE vm[v].kept
    BY <2>2 DEF VMObjects
  <2>7. PICK new : new = [vm[v] EXCEPT !.spec = nspec, !.kept = kept]
    OBVIOUS
  <2>8. /\ new \in VMObjects /\ new.state = vm[v].state /\ new.ns = vm[v].ns /\ new.spec = nspec
        /\ new.by = vm[v].by /\ new.kept = kept /\ new.capped = vm[v].capped
    BY <2>2, <2>5, <2>7 DEF VMObjects
  <2>9. vm' = [vm EXCEPT ![v] = new]
    <3>1. vm' = [vm EXCEPT ![v].spec = nspec,
                           ![v].kept = IF vm[v].spec.delete /\ ~spec.delete THEN @ \union {r} ELSE @]
      BY <1>4, <2>1, <2>3, <2>4 DEF UpdateVMWrite
    <3>2. QED  BY <1>1, <2>2, <2>6, <2>7, <3>1 DEF TypeOK, VMObjects
  <2>10. vm' \in [VMs -> VMObjects] /\ \A w \in VMs : vm'[w] = IF w = v THEN new ELSE vm[w]
    BY <1>1, <2>8, <2>9 DEF TypeOK
  <2>11. \A A, B : Overlapped(A, B)' <=> Overlapped(A, B)
    BY <1>2 DEF Overlapped
  <2>12. \A w \in VMs : Listed(w)' <=> Listed(w)
    BY <2>8, <2>10 DEF Listed
  <2>13. \A ns : \A w \in Capped(ns)' :
            \/ w \in Capped(ns) /\ vm'[w].kept = vm[w].kept
            \/ w = v /\ r \in kept
    <3>1. ~spec.delete => (~vm[v].spec.delete /\ kept = vm[v].kept) \/ r \in kept
      BY <2>6
    <3>2. QED  BY <2>5, <2>8, <2>10, <2>12, <3>1 DEF Capped, VMsIn, Active
  <2>14. ASSUME NEW q \in UnderWay \ {r} PROVE VMsSeen(q)
    <3>1. (blame = vm[v].spec.blame /\ spec.sshId = vm[v].spec.sshId) \/ Overlapped({q}, blame)
      <4>1. r \in blame => Overlapped({q}, blame)
        BY <1>1, MeetOverlaps DEF UnderWay
      <4>2. QED  BY <2>3, <4>1
    <3>2. r \in kept => Overlapped({q}, kept)
      BY <1>1, MeetOverlaps DEF UnderWay
    <3>3. \A ns : \A w \in Capped(ns)' :
             (w \in Capped(ns) /\ vm'[w].kept = vm[w].kept) \/ Overlapped({q}, vm[w].kept)'
      <4>1. vm'[v].kept = kept
        BY <1>1, <2>8, <2>10
      <4>2. \A w : w = v /\ r \in kept => Overlapped({q}, vm[w].kept)'
        BY <2>11, <3>2, <4>1
      <4>3. QED  BY <2>13, <4>2
    <3>4. \A w \in VMs : vm[w].state # "none" =>
             /\ vm'[w].state # "none" /\ vm'[w].ns = vm[w].ns /\ vm'[w].capped = vm[w].capped
             /\ vm[w].kept \subseteq vm'[w].kept
      BY <2>6, <2>8, <2>10
    <3>5. QED  BY <1>2, <2>5, <2>8, <2>10, <2>11, <2>12, <3>1, <3>3, <3>4 DEF VMsSeen
  <2>15. NamespacesHold' /\ LevelsGranted' /\ SignUpsUnique' /\ \A q : UsersSeen(q)
    BY <1>2, UserInvariantsStay
  <2>16. VMsHold'
    <3>1. {w \in VMs : vm[w].state # "none"}' = {w \in VMs : vm[w].state # "none"}
      BY <2>8, <2>10
    <3>2. QED  BY <1>1, <2>8, <2>10, <3>1 DEF VMsHold
  <2>17. SshIdsUnique'
    <3>1. ASSUME NEW w \in VMs, w # v, Listed(w), vm[w].spec.sshId = spec.sshId
          PROVE  Overlapped(blame, vm[w].spec.blame) /\ Overlapped(vm[w].spec.blame, blame)
      <4>1. CASE vm[v].spec.sshId = spec.sshId
        BY <1>1, <1>4, <2>3, <3>1, <4>1 DEF Inductive, SshIdsUnique
      <4>2. CASE vm[v].spec.sshId # spec.sshId
        BY <1>1, <2>1, <2>3, <3>1, <4>2, OverlapSymmetric DEF RequestHolds, ChangeHolds
      <4>3. QED  BY <4>1, <4>2
    <3>2. ASSUME NEW w \in VMs, NEW z \in VMs, w # z, Listed(w)', Listed(z)',
                 vm'[w].spec.sshId = vm'[z].spec.sshId
          PROVE  Overlapped(vm'[w].spec.blame, vm'[z].spec.blame)
      <4>1. CASE w = v
        BY <2>5, <2>8, <2>10, <2>12, <3>1, <3>2, <4>1
      <4>2. CASE z = v
        BY <2>5, <2>8, <2>10, <2>12, <3>1, <3>2, <4>2
      <4>3. CASE w # v /\ z # v
        BY <2>10, <2>12, <3>2, <4>3 DEF Inductive, SshIdsUnique
      <4>4. QED  BY <4>1, <4>2, <4>3
    <3>3. QED  BY <2>11, <3>2 DEF SshIdsUnique
  <2>18. QuotaKept'
    <3>1. CASE r \notin kept
      BY <1>2, <2>13, <3>1, FewerCapped
    <3>2. CASE r \in kept
      <4>1. SUFFICES ASSUME NEW ns \in Namespaces, NEW some \in SUBSET (Capped(ns)'), Apart(some)'
                     PROVE  Cardinality(some) <= Quota
        BY DEF QuotaKept
      <4>2. \A w, z \in some : w # z => ~Overlapped(vm'[w].kept, vm'[z].kept)
        BY <2>11, <4>1 DEF Apart
      <4>3. \A w \in some : w \in VMs /\ vm[w].state # "none"
        BY <2>12, <4>1 DEF Capped, VMsIn, Listed
      <4>4. Apart(some)
        BY <2>6, <2>8, <2>10, <2>14, <4>1, <4>2, <4>3, OverlapBoth DEF Apart
      <4>5. CASE v \notin some
        <5>1. some \in SUBSET Capped(ns)
          BY <2>13, <4>1, <4>5
        <5>2. QED  BY <4>4, <5>1 DEF Inductive, QuotaKept
      <4>6. CASE v \in some
        <5>1. ns = vm[v].ns /\ vm[v].capped /\ ~spec.delete
          BY <2>5, <2>8, <2>10, <4>6 DEF Capped, VMsIn, Active
        <5>2. ASSUME NEW w \in some, w # v PROVE w \in Counted(r, ns)
          <6>1. w \in Capped(ns) /\ vm'[w].kept = vm[w].kept
            BY <2>13, <4>1, <5>2
          <6>2. ~Overlapped(kept, vm[w].kept)
            BY <1>1, <2>8, <2>10, <4>2, <4>6, <5>2, <6>1
          <6>3. ~Overlapped({r}, vm[w].kept)
            BY <3>2, <6>2 DEF Overlapped
          <6>4. QED  BY <6>1, <6>3 DEF Counted
        <5>3. some \in SUBSET (Counted(r, vm[v].ns) \union {v})
          BY <5>1, <5>2
        <5>4. QED  BY <1>1, <2>1, <4>4, <5>1, <5>3 DEF RequestHolds, ChangeHolds
      <4>7. QED  BY <4>5, <4>6
    <3>3. QED  BY <3>1, <3>2
  <2>19. SweptWithUser'
    BY <1>2, <2>8, <2>10, <2>11 DEF Inductive, SweptWithUser
  <2>20. /\ user' \in [Users -> UserObjects] /\ granted' \in [Users -> Grants]
         /\ origin' \in [Users \union VMs -> SUBSET Reqs]
    BY <1>1, <1>2 DEF TypeOK
  <2>21. QED
    BY <1>1, <1>2, <2>10, <2>14, <2>15, <2>16, <2>17, <2>18, <2>19, <2>20, Writes
<1>5. QED  BY <1>3, <1>4

(***************************************************************************)
(* The theorems.                                                           *)
(***************************************************************************)
LEMMA InitInductive == Init => Inductive
<1> SUFFICES ASSUME Init PROVE Inductive
    OBVIOUS
<1>1. PICK seed \in Seeds : user = seed.user /\ vm = seed.vm
    BY DEF Init
<1>2. SeedOK(seed)
    BY SeedsAssumption
<1>3. user \in [Users -> UserObjects] /\ vm \in [VMs -> VMObjects]
    BY <1>1, <1>2 DEF SeedOK
<1>4. \A v \in VMs : /\ vm[v].state \in {"none", "live"}
                     /\ vm[v].state = "live" => vm[v].by \in Users /\ user[vm[v].by].state = "live"
    BY <1>1, <1>2 DEF SeedOK
<1>5. req \in [Reqs -> Requests] /\ \A r \in Reqs : req[r].pc = "idle"
    BY SpecTypes DEF Init
<1>6. TypeOK
  <2>1. \A n \in Users : user[n].spec.level \in Levels
    BY <1>3 DEF UserObjects, UserSpecs
  <2>2. granted \in [Users -> Grants] /\ origin \in [Users \union VMs -> SUBSET Reqs]
    BY <2>1 DEF Init, Grants
  <2>3. QED  BY <1>3, <1>5, <2>2 DEF Init, TypeOK
<1>7. Meet
    BY <1>5 DEF Meet, UnderWay
<1>8. \A r \in Reqs : RequestHolds(r, req[r])
    BY <1>5, ResolvedHolds
<1>9. VMsHold /\ NamespacesHold
    BY <1>1, <1>2, <1>4 DEF VMsHold, NamespacesHold, Known, SeedOK
<1>10. LevelsGranted
    BY DEF Init, LevelsGranted
<1>11. SignUpsUnique
    BY <1>1, <1>2 DEF SeedOK, SignUpsUnique, Live
<1>12. SshIdsUnique
    BY <1>1, <1>2, <1>4 DEF SeedOK, SshIdsUnique, Listed
<1>13. SweptWithUser
    BY <1>4 DEF SweptWithUser
<1>14. QuotaKept
  <2>1. SUFFICES ASSUME NEW n \in Namespaces, NEW some \in SUBSET Capped(n)
                 PROVE  Cardinality(some) <= Quota
    BY DEF QuotaKept
  <2> DEFINE all == {v \in VMs : seed.vm[v].state = "live" /\ seed.vm[v].ns = n /\ seed.vm[v].capped}
  <2>2. Cardinality(all) <= Quota /\ IsFiniteSet(all)
    <3>1. all \in SUBSET {v \in VMs : seed.vm[v].state # "none"}
      OBVIOUS
    <3>2. IsFiniteSet(all)
      BY <1>2, <3>1, FS_Subset DEF SeedOK
    <3>3. QED  BY <1>2, <3>2 DEF SeedOK
  <2>3. some \in SUBSET all
    BY <1>1, <1>4 DEF Capped, VMsIn, Listed
  <2> HIDE DEF all
  <2>4. Cardinality(some) <= Cardinality(all) /\ IsFiniteSet(some)
    BY <2>2, <2>3, FS_Subset
  <2>5. Cardinality(some) \in Nat /\ Cardinality(all) \in Nat
    BY <2>2, <2>4, FS_CardinalityType
  <2>6. QED  BY <2>2, <2>4, <2>5, QuotaAssumption
<1>15. QED  BY <1>6, <1>7, <1>8, <1>9, <1>10, <1>11, <1>12, <1>13, <1>14 DEF Inductive

LEMMA StartKeeps ==
    ASSUME Inductive, NEW r \in Reqs, Start(r)
    PROVE  Inductive'
BY SignUpKeeps, LoginKeeps, PatchUserKeeps, SetAccessLevelKeeps, DeleteUserKeeps, CreateVMKeeps, UpdateVMKeeps
   DEF Start

LEMMA StepKeeps ==
    ASSUME Inductive, NEW r \in Reqs, Step(r)
    PROVE  Inductive'
<1>1. CASE CheckUsername(r) \/ CheckEmail(r) \/ CheckLevel(r) \/ \E n \in Users : CreateUser(r, n)
    BY <1>1, CheckUsernameKeeps, CheckEmailKeeps, CheckLevelKeeps, CreateUserKeeps
<1>2. CASE CheckTarget(r) \/ UpdateGet(r) \/ RejectDuplicateEmail(r) \/ UpdateRv(r) \/ UpdateWrite(r)
    BY <1>2, CheckTargetKeeps, UpdateGetKeeps, RejectDuplicateEmailKeeps, UpdateRvKeeps, UpdateWriteKeeps
<1>3. CASE \/ DeleteGet(r) \/ DeleteList(r) \/ \E v \in VMs : DeleteVM(r, v)
           \/ DeleteVMsDone(r) \/ RemoveUser(r)
    BY <1>3, DeleteGetKeeps, DeleteListKeeps, DeleteVMKeeps, DeleteVMsDoneKeeps, RemoveUserKeeps
<1>4. CASE CheckQuota(r) \/ CheckSSHID(r) \/ \E v \in VMs : StoreVM(r, v)
    BY <1>4, CheckQuotaKeeps, CheckSSHIDKeeps, StoreVMKeeps
<1>5. CASE UpdateVMGet(r) \/ UpdateVMWrite(r) \/ Fail(r)
    BY <1>5, UpdateVMGetKeeps, UpdateVMWriteKeeps, FailKeeps
<1>6. QED  BY <1>1, <1>2, <1>3, <1>4, <1>5 DEF Step

LEMMA NextInductive == Inductive /\ [Next]_vars => Inductive'
<1> SUFFICES ASSUME Inductive, [Next]_vars PROVE Inductive'
    OBVIOUS
<1>1. ASSUME NEW r \in Reqs, Start(r) \/ Step(r) PROVE Inductive'
    BY <1>1, StartKeeps, StepKeeps
<1>2. ASSUME NEW v \in VMs, ControllerDelete(v) \/ ControllerRemove(v) PROVE Inductive'
    BY <1>2, ControllerKeeps
<1>3. CASE UNCHANGED vars
  <2>1. UNCHANGED <<user, vm, req, overlap, granted, origin>>
    BY <1>3 DEF vars
  <2>2. ObjectsHold'
    BY <2>1, ObjectsStay DEF Given
  <2>3. TypeOK' /\ Meet'
    BY <2>1 DEF Inductive, TypeOK, Meet, UnderWay
  <2>4. ASSUME NEW q \in Reqs PROVE RequestHolds(q, req[q])'
    <3>1. PICK p : p = req[q]
      OBVIOUS
    <3>2. req'[q] = p /\ RequestHolds(q, p) /\ UsersSeen(q) /\ VMsSeen(q)
      BY <2>1, <3>1, UsersStay, VMsStay DEF Inductive, Given
    <3>3. RequestHolds(q, p)'
      BY <2>1, <3>2, Seen DEF Inductive
    <3>4. QED  BY <3>2, <3>3
  <2>5. QED  BY <2>2, <2>3, <2>4 DEF Inductive, ObjectsHold
<1>4. QED  BY <1>1, <1>2, <1>3 DEF Next

\* What every request, with all that run beside it, keeps: the facts it has
\* read still hold but for requests that overlapped it.
THEOREM APIInvariant == Spec => []Inductive
<1>1. Init => Inductive
    BY InitInductive
<1>2. Inductive /\ [Next]_vars => Inductive'
    BY NextInductive
<1>3. QED  BY <1>1, <1>2, PTL DEF Spec

\* However many stale specs are written, no user has a level above 1 that no
\* admin gave it, and a level that was replaced comes back only by requests
\* that overlapped the replacement.
THEOREM NoLevelUnasked == Spec => []LevelsGranted
<1>1. Inductive => LevelsGranted
    BY DEF Inductive
<1>2. QED  BY <1>1, APIInvariant, PTL

\* Accounts share a username only if their sign-ups overlapped.
THEOREM UsernamesUnique == Spec => []SignUpsUnique
<1>1. Inductive => SignUpsUnique
    BY DEF Inductive
<1>2. QED  BY <1>1, APIInvariant, PTL

\* VMs share an sshId only if the requests that brought it overlapped.
THEOREM SshIdsHeld == Spec => []SshIdsUnique
<1>1. Inductive => SshIdsUnique
    BY DEF Inductive
<1>2. QED  BY <1>1, APIInvariant, PTL

\* A namespace exceeds the quota only by requests that overlapped: creates, or
\* stale writes that took back a delete intent.
THEOREM QuotaRespected == Spec => []QuotaHeld
<1>1. Inductive => QuotaHeld
  <2> SUFFICES ASSUME Inductive, NEW n \in Namespaces, Apart(Capped(n))
               PROVE  Cardinality(Capped(n)) <= Quota
    BY DEF QuotaHeld, Apart
  <2>1. Capped(n) \in SUBSET Capped(n)
    OBVIOUS
  <2>2. QED  BY <2>1 DEF Inductive, QuotaKept
<1>2. QED  BY <1>1, APIInvariant, PTL

\* No VM in the namespace that its owner had last outlives the owner, but by a
\* create or a change of the namespace that overlapped the deletion.
THEOREM NoVMLeftBehind == Spec => []SweptWithUser
<1>1. Inductive => SweptWithUser
    BY DEF Inductive
<1>2. QED  BY <1>1, APIInvariant, PTL

\* A user comes to be by the last step of a sign-up only.
LEMMA OnlySignUpsCreate ==
    ASSUME Inductive, [Next]_vars, NEW n \in Users, ~Live(n), Live(n)'
    PROVE  \E r \in Reqs : CreateUser(r, n)
<1>1. user \in [Users -> UserObjects]
    BY DEF Inductive, TypeOK
<1>2. ASSUME user' = user PROVE FALSE
    BY <1>2 DEF Live
<1>3. ASSUME NEW r \in Reqs, Start(r) PROVE FALSE
  <2>1. user' = user
    BY <1>3 DEF Start, SignUp, Login, PatchUser, SetAccessLevel, DeleteUser, CreateVM, UpdateVM
  <2>2. QED  BY <1>2, <2>1
<1>4. ASSUME NEW r \in Reqs, Step(r) PROVE CreateUser(r, n)
  <2>1. CASE CheckUsername(r) \/ CheckEmail(r) \/ CheckLevel(r) \/ CheckTarget(r) \/ UpdateGet(r)
             \/ RejectDuplicateEmail(r) \/ UpdateRv(r) \/ Fail(r)
    BY <1>2, <2>1 DEF CheckUsername, CheckEmail, CheckLevel, CheckTarget, UpdateGet, RejectDuplicateEmail,
                      UpdateRv, Fail
  <2>2. CASE DeleteGet(r) \/ DeleteList(r) \/ (\E v \in VMs : DeleteVM(r, v)) \/ DeleteVMsDone(r)
             \/ CheckQuota(r) \/ CheckSSHID(r) \/ (\E v \in VMs : StoreVM(r, v)) \/ UpdateVMGet(r)
             \/ UpdateVMWrite(r)
    BY <1>2, <2>2 DEF DeleteGet, DeleteList, DeleteVM, DeleteVMsDone, CheckQuota, CheckSSHID, StoreVM,
                      UpdateVMGet, UpdateVMWrite
  <2>3. ASSUME NEW m \in Users, CreateUser(r, m) PROVE CreateUser(r, n)
    <3>1. m = n
      BY <1>1, <2>3 DEF CreateUser, Live
    <3>2. QED  BY <2>3, <3>1
  <2>4. CASE UpdateWrite(r)
    <3>1. \A m \in Users : user'[m].state = user[m].state
      BY <1>1, <2>4 DEF UpdateWrite, UserObjects
    <3>2. QED  BY <3>1 DEF Live
  <2>5. CASE RemoveUser(r)
    <3>1. \A m \in Users : user'[m].state \in {user[m].state, "gone"}
      BY <1>1, <2>5 DEF RemoveUser, UserObjects
    <3>2. QED  BY <3>1 DEF Live
  <2>6. QED  BY <1>4, <2>1, <2>2, <2>3, <2>4, <2>5 DEF Step
<1>5. ASSUME NEW v \in VMs, ControllerDelete(v) \/ ControllerRemove(v) PROVE FALSE
    BY <1>2, <1>5 DEF ControllerDelete, ControllerRemove
<1>6. QED  BY <1>2, <1>3, <1>4, <1>5 DEF Next, vars

\* A sign-up makes an administrator beside other users only if it overlapped
\* the sign-ups of them all.
THEOREM FirstAdmin == Spec => FirstIsAdmin
<1>1. Inductive /\ [Next]_vars =>
        [\A n \in Users : ~Live(n) /\ Live(n)' /\ user'[n].spec.level = Admin =>
           \A m \in Users : Live(m) => Overlapped(origin'[n], origin[m])]_vars
  <2> SUFFICES ASSUME Inductive, [Next]_vars, NEW n \in Users, ~Live(n), Live(n)',
                      user'[n].spec.level = Admin, NEW m \in Users, Live(m)
               PROVE  Overlapped(origin'[n], origin[m])
    OBVIOUS
  <2>1. PICK r \in Reqs : CreateUser(r, n)
    BY OnlySignUpsCreate
  <2>2. user'[n].spec.level = req[r].spec.level /\ origin'[n] = {r} /\ req[r].pc = "create"
    BY <2>1 DEF CreateUser, Inductive, TypeOK, Requests, UserSpecs
  <2>3. QED  BY <2>2 DEF Inductive, RequestHolds, SignUpHolds
<1>2. QED  BY <1>1, APIInvariant, PTL DEF Spec, FirstIsAdmin
=============================================================================
