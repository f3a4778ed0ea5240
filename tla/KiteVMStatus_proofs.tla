------------------------- MODULE KiteVMStatus_proofs -------------------------
(***************************************************************************)
(* Proof that no status write takes a VM with a reported runtime state     *)
(* back to Provisioning unless its spec is new, for any number of edits    *)
(* and faults.                                                             *)
(***************************************************************************)
EXTENDS KiteVMStatus, TLAPS

USE StatusActiveAssumption, StatusEditsAssumption, StatusFaultsAssumption

\* What kiteStatusFromKubeVirtVirtualMachine reports is a phase.
LEMMA MirrorType ==
    \A want \in BOOLEAN, m \in Machines :
        Mirror(want, m).phase \in Phases /\ Mirror(want, m).ready \in BOOLEAN
BY DEF Mirror, Machines, Phases, Stable

\* A write through updateKiteVirtualMachineStatus observes the newest
\* generation and keeps a stable phase as the rule says.
LEMMA UpdateStatusKeeps ==
    ASSUME Inductive, NEW phase \in Phases, NEW ready \in BOOLEAN, UpdateStatus(phase, ready), UNCHANGED spec
    PROVE  /\ status' \in Statuses /\ status'.obs = spec.gen
           /\ status.phase \in Stable /\ status'.phase = "Provisioning" => status.obs < spec.gen
<1>1. spec \in Specs /\ status \in Statuses /\ status.obs <= spec.gen /\ status.obs \in Nat /\ spec.gen \in Nat
    BY DEF Inductive, TypeOK, Specs, Statuses, Generations
<1>2. CASE ShouldPreserveRuntimeStatus(phase)
    BY <1>1, <1>2 DEF UpdateStatus, ShouldPreserveRuntimeStatus, Stable
<1>3. CASE ~ShouldPreserveRuntimeStatus(phase)
  <2>1. status' = [phase |-> phase, obs |-> spec.gen, ready |-> ready]
    BY <1>3 DEF UpdateStatus
  <2>2. status' \in Statuses /\ status'.obs = spec.gen /\ status'.phase = phase
    BY <1>1, <2>1 DEF Statuses, Specs
  <2>3. QED
    BY <1>1, <1>3, <2>2 DEF ShouldPreserveRuntimeStatus
<1>4. QED  BY <1>2, <1>3

\* The DataVolume watcher has a rule of its own.
LEMMA UpdateDataVolumeStatusKeeps ==
    ASSUME Inductive, NEW d \in Disks, UpdateDataVolumeStatus(d), UNCHANGED spec
    PROVE  /\ status' \in Statuses /\ status'.obs = spec.gen
           /\ ~(status.phase \in Stable /\ status'.phase = "Provisioning")
BY DEF Inductive, TypeOK, UpdateDataVolumeStatus, Statuses, Specs, Phases, Stable

\* A step that leaves the status alone.
LEMMA StatusAlone ==
    ASSUME Inductive, TypeOK', UNCHANGED status, spec'.gen >= spec.gen
    PROVE  Inductive' /\ (status.phase \in Stable /\ status'.phase = "Provisioning" => status.obs < spec.gen)
BY DEF Inductive, TypeOK, Statuses, Specs, Generations, Stable

\* One step: the invariant, and the phase.
LEMMA StatusStep ==
    ASSUME Inductive, [Next]_vars
    PROVE  Inductive' /\ (status.phase \in Stable /\ status'.phase = "Provisioning" => status.obs < spec.gen)
<1>0. /\ spec.gen \in Nat /\ spec.gen \in Generations /\ spec.on \in BOOLEAN
      /\ Idle \in Passes /\ NotReading \in [reading : BOOLEAN, phase : Phases]
      /\ status.phase \in Phases /\ spec.gen >= spec.gen
  <2>1. spec.gen \in Nat /\ spec.gen \in Generations /\ spec.on \in BOOLEAN /\ status.phase \in Phases
    BY DEF Inductive, TypeOK, Statuses, Specs, Generations
  <2>2. NoMachine \in Machines
    BY DEF NoMachine, Machines
  <2>3. Idle \in Passes /\ NotReading \in [reading : BOOLEAN, phase : Phases]
    BY <2>2 DEF Idle, NotReading, Passes, Phases
  <2>4. QED  BY <2>1, <2>3
<1>1. CASE CRDEvent \/ OldCRDEvent
  <2>1. [Idle EXCEPT !.pc = "apply", !.want = spec.on] \in Passes
    BY <1>0 DEF Passes
  <2>2. seen' \in Generations \union {0}
    BY <1>1, <1>0 DEF CRDEvent, OldCRDEvent, Inductive, TypeOK, Generations, Specs
  <2>3. StartPass
    BY <1>1 DEF CRDEvent, OldCRDEvent
  <2>4. TypeOK'
    BY <2>1, <2>2, <2>3 DEF StartPass, Inductive, TypeOK, cluster, watchers
  <2>5. QED  BY <1>0, <2>3, <2>4, StatusAlone DEF StartPass, cluster
<1>2. CASE ReadLatest
  <2>1. [Idle EXCEPT !.pc = "apply", !.want = spec.on] \in Passes
    BY <1>0 DEF Passes
  <2>2. TypeOK'
    BY <1>2, <2>1 DEF ReadLatest, Inductive, TypeOK, cluster, watchers
  <2>3. QED  BY <1>0, <1>2, <2>2, StatusAlone DEF ReadLatest, cluster
<1>3. CASE KubeVirtEvent
  <2>1. pass["kubevirt"] \in Passes /\ machine \in Machines
    BY DEF Inductive, TypeOK, Handlers
  <2>2. [pass["kubevirt"] EXCEPT !.pc = "owner", !.event = machine] \in Passes
    BY <1>0, <2>1 DEF Passes
  <2>3. TypeOK'
    BY <1>3, <2>2 DEF Inductive, TypeOK, cluster, watchers, KubeVirtEvent
  <2>4. QED  BY <1>0, <1>3, <2>3, StatusAlone DEF KubeVirtEvent, cluster
<1>4. CASE ReadOwner
  <2>1. pass["kubevirt"] \in Passes /\ machine \in Machines
    BY DEF Inductive, TypeOK, Handlers
  <2>2. [pass["kubevirt"] EXCEPT !.pc = "mirror", !.want = spec.on] \in Passes
    BY <1>0, <2>1 DEF Passes
  <2>3. TypeOK'
    BY <1>4, <2>2 DEF Inductive, TypeOK, cluster, watchers, ReadOwner
  <2>4. QED  BY <1>0, <1>4, <2>3, StatusAlone DEF ReadOwner, cluster
<1>5. CASE DataVolumeEvent
  <2>1. TypeOK'
    BY <1>0, <1>5 DEF Inductive, TypeOK, cluster, watchers, DataVolumeEvent
  <2>2. QED  BY <1>0, <1>5, <2>1, StatusAlone DEF DataVolumeEvent, cluster
<1>6. CASE CallFails
  <2>1. TypeOK'
    BY <1>0, <1>6 DEF Inductive, TypeOK, cluster, watchers, CallFails, Fault, End, Disks
  <2>2. QED  BY <1>0, <1>6, <2>1, StatusAlone DEF CallFails, cluster
<1>7. CASE Restart
  <2>1. TypeOK'
    BY <1>0, <1>7 DEF Inductive, TypeOK, cluster, watchers, Restart, Fault, Disks
  <2>2. QED  BY <1>0, <1>7, <2>1, StatusAlone DEF Restart, cluster
<1>8. CASE CreateLogin
  <2>1. TypeOK'
    BY <1>0, <1>8 DEF Inductive, TypeOK, cluster, watchers, CreateLogin
  <2>2. QED  BY <1>0, <1>8, <2>1, StatusAlone DEF CreateLogin, cluster
<1>9. CASE Edit
  <2>1. TypeOK'
    BY <1>0, <1>9 DEF Inductive, TypeOK, cluster, watchers, Edit, Specs, Generations
  <2>2. QED  BY <1>0, <1>9, <2>1, StatusAlone DEF Edit, cluster, Specs, Generations
<1>10. CASE Import
  <2>1. TypeOK'
    BY <1>0, <1>10 DEF Inductive, TypeOK, cluster, watchers, Import, Disks
  <2>2. QED  BY <1>0, <1>10, <2>1, StatusAlone DEF Import, cluster
<1>11. CASE KubeVirtFollows
  <2>1. TypeOK'
    BY <1>0, <1>11 DEF Inductive, TypeOK, cluster, watchers, KubeVirtFollows, Machines
  <2>2. QED  BY <1>0, <1>11, <2>1, StatusAlone DEF KubeVirtFollows, cluster
<1>12. CASE GuestStops
  <2>1. TypeOK'
    BY <1>0, <1>12 DEF Inductive, TypeOK, cluster, watchers, GuestStops, Machines
  <2>2. QED  BY <1>0, <1>12, <2>1, StatusAlone DEF GuestStops, cluster
<1>13. CASE ServiceEvent
  <2>1. service' \in [reading : BOOLEAN, phase : Phases]
    BY <1>0, <1>13 DEF ServiceEvent, Phases
  <2>2. TypeOK'
    BY <1>0, <1>13, <2>1 DEF Inductive, ServiceEvent, TypeOK, cluster
  <2>3. QED  BY <1>0, <1>13, <2>2, StatusAlone DEF ServiceEvent, cluster
<1>14. ASSUME NEW h \in Handlers, Apply(h) \/ ApplyFails(h) \/ PassAborts(h)
      PROVE  Inductive' /\ (status.phase \in Stable /\ status'.phase = "Provisioning" => status.obs < spec.gen)
  <2>1. pass[h] \in Passes /\ machine \in Machines /\ disk \in Disks
    BY DEF Inductive, TypeOK
  <2>2. Rendered(h) \in Machines /\ AppliedDisk \in Disks
    BY <2>1 DEF Rendered, AppliedDisk, Machines, Passes, Disks
  <2>3. [Idle EXCEPT !.pc = "report"] \in Passes /\ [Idle EXCEPT !.pc = "fail"] \in Passes
    BY <1>0 DEF Passes
  <2>4. pass' \in [Handlers -> Passes]
    BY <1>0, <1>14, <2>3 DEF Inductive, TypeOK, Apply, ApplyFails, PassAborts, To, End
  <2>5. machine' \in Machines /\ disk' \in Disks /\ faults' \in 0..MaxFaults
    BY <1>14, <2>1, <2>2 DEF Inductive, TypeOK, Apply, ApplyFails, PassAborts, Fault, cluster
  <2>6. UNCHANGED <<spec, status, login, seen, watchers>>
    BY <1>14 DEF Apply, ApplyFails, PassAborts, cluster
  <2>7. TypeOK'
    BY <2>4, <2>5, <2>6 DEF Inductive, TypeOK, watchers
  <2>8. QED  BY <1>0, <2>6, <2>7, StatusAlone
<1>15. ASSUME NEW h \in Handlers, ReportProvisioning(h) \/ ReportFailed(h)
      PROVE  Inductive' /\ (status.phase \in Stable /\ status'.phase = "Provisioning" => status.obs < spec.gen)
  <2>1. PICK phase \in {"Provisioning", "Failed"} : UpdateStatus(phase, FALSE)
    BY <1>15 DEF ReportProvisioning, ReportFailed
  <2>2. End(h) /\ UNCHANGED <<cluster, seen, watchers, faults>>
    BY <1>15 DEF ReportProvisioning, ReportFailed
  <2>3. /\ status' \in Statuses /\ status'.obs = spec.gen
        /\ status.phase \in Stable /\ status'.phase = "Provisioning" => status.obs < spec.gen
    BY <2>1, <2>2, UpdateStatusKeeps DEF Phases, cluster
  <2>4. TypeOK'
    BY <1>0, <2>2, <2>3 DEF Inductive, TypeOK, End, cluster, watchers
  <2>5. QED  BY <1>0, <2>2, <2>3, <2>4 DEF Inductive, cluster
<1>16. CASE MirrorStatus
  <2> DEFINE want == pass["kubevirt"].want
             s == Mirror(want, pass["kubevirt"].event)
             next == [Idle EXCEPT !.pc = IF want # pass["kubevirt"].event.on THEN "read" ELSE "idle"]
  <2>1. s.phase \in Phases /\ s.ready \in BOOLEAN
    BY MirrorType DEF Inductive, TypeOK, Passes, Handlers
  <2>2. UpdateStatus(s.phase, s.ready) /\ UNCHANGED <<cluster, seen, watchers, faults>>
        /\ pass' = [pass EXCEPT !["kubevirt"] = next]
    BY <1>16 DEF MirrorStatus
  <2>3. /\ status' \in Statuses /\ status'.obs = spec.gen
        /\ status.phase \in Stable /\ status'.phase = "Provisioning" => status.obs < spec.gen
    <3> HIDE DEF s
    <3> QED  BY <2>1, <2>2, UpdateStatusKeeps DEF cluster
  <2>4. next \in Passes
    BY <1>0 DEF Passes
  <2>5. TypeOK'
    <3> HIDE DEF next
    <3> QED  BY <2>2, <2>3, <2>4 DEF Inductive, TypeOK, cluster, watchers
  <2>6. QED  BY <1>0, <2>2, <2>3, <2>5 DEF Inductive, cluster
<1>17. CASE DataVolumeReport
  <2>1. /\ status' \in Statuses /\ status'.obs = spec.gen
        /\ ~(status.phase \in Stable /\ status'.phase = "Provisioning")
    BY <1>17, UpdateDataVolumeStatusKeeps DEF DataVolumeReport, Inductive, TypeOK, cluster
  <2>2. TypeOK'
    BY <1>17, <2>1 DEF DataVolumeReport, Inductive, TypeOK, cluster, Disks
  <2>3. QED  BY <1>0, <1>17, <2>1, <2>2 DEF Inductive, DataVolumeReport, cluster
<1>18. CASE ServiceReport
  <2>1. /\ status' \in Statuses /\ status'.obs = spec.gen
        /\ status.phase \in Stable /\ status'.phase = "Provisioning" => status.obs < spec.gen
    BY <1>18, UpdateStatusKeeps DEF ServiceReport, Inductive, TypeOK, cluster
  <2>2. TypeOK'
    BY <1>0, <1>18, <2>1 DEF ServiceReport, Inductive, TypeOK, cluster
  <2>3. QED  BY <1>0, <1>18, <2>1, <2>2 DEF Inductive, ServiceReport, cluster
<1>19. CASE UNCHANGED vars
  <2>1. UNCHANGED <<cluster, status, seen, pass, watchers, faults>>
    BY <1>19 DEF vars
  <2>2. TypeOK'
    BY <2>1 DEF Inductive, TypeOK, cluster, watchers
  <2>3. QED  BY <1>0, <2>1, <2>2, StatusAlone DEF cluster
<1>20. QED
    BY <1>1, <1>2, <1>3, <1>4, <1>5, <1>6, <1>7, <1>8, <1>9, <1>10, <1>11, <1>12, <1>13, <1>14, <1>15, <1>16, <1>17, <1>18, <1>19 DEF Next

LEMMA StatusInit == Init => Inductive
<1> SUFFICES ASSUME Init PROVE Inductive
    OBVIOUS
<1>1. spec \in Specs /\ spec.gen = 1
    BY DEF Init, Specs, Generations
<1>2. NoStatus \in Statuses /\ NoStatus.obs = 0
    BY DEF NoStatus, Statuses, Phases
<1>3. NoMachine \in Machines
    BY DEF NoMachine, Machines
<1>4. Idle \in Passes /\ NotReading \in [reading : BOOLEAN, phase : Phases]
    BY <1>3 DEF Idle, NotReading, Passes, Phases
<1>5. status.obs <= spec.gen
    BY <1>1, <1>2 DEF Init
<1>6. TypeOK
  <2>1. pass \in [Handlers -> Passes] /\ status \in Statuses /\ machine \in Machines
    BY <1>2, <1>3, <1>4 DEF Init
  <2>2. /\ login = FALSE /\ disk = "none" /\ diskEvent = "none" /\ seen = 0
        /\ active \in Active /\ faults = 0
    BY DEF Init
  <2>3. service \in [reading : BOOLEAN, phase : Phases]
    BY <1>4 DEF Init
  <2>4. login \in BOOLEAN
    BY <2>2
  <2>5. faults \in 0..MaxFaults
    BY <2>2
  <2>6. QED  BY <1>1, <2>1, <2>2, <2>3, <2>4, <2>5 DEF TypeOK, Disks
<1>7. QED
    BY <1>5, <1>6 DEF Inductive

\* The status is well formed and never ahead of the spec.
THEOREM StatusInvariant == Spec => []Inductive
<1>1. Init => Inductive
    BY StatusInit
<1>2. Inductive /\ [Next]_vars => Inductive'
    BY StatusStep
<1>3. QED
    BY <1>1, <1>2, PTL DEF Spec

\* Whatever the order in which the four watchers read and write, a reported
\* runtime phase goes back to Provisioning only for a spec that no status
\* write has seen (shouldPreserveRuntimeStatus).
THEOREM StablePhaseKept == Spec => StableUntilNewSpec
<1>1. Inductive /\ [Next]_vars =>
        [status.phase \in Stable /\ status'.phase = "Provisioning" => status.obs < spec.gen]_vars
    BY StatusStep
<1>2. QED
    BY <1>1, StatusInvariant, PTL DEF Spec, StableUntilNewSpec
=============================================================================
