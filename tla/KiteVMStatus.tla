---------------------------- MODULE KiteVMStatus ----------------------------
(***************************************************************************)
(* The status of one KiteVirtualMachine, from its creation until somebody  *)
(* asks for its deletion.  Four informer goroutines of kite-controller     *)
(* write it, each after reads of its own:                                  *)
(*  - the pass over the desired state, run for events of the CRD, and by   *)
(*    the KubeVirt watcher when the VM does not follow the power intent;   *)
(*  - the KubeVirt watcher, which mirrors the state of the KubeVirt VM;    *)
(*  - the DataVolume and the Service watchers.                             *)
(*                                                                         *)
(* A status write reads the CRD again and is retried on a conflict, so it  *)
(* is one step on the status it finds; what it wants to write was decided  *)
(* earlier.  currentPowerState, domain and node are written along with the *)
(* phase, by the same calls, and left out; the objects a pass applies,     *)
(* finalizers and deletion are the subject of KiteVM.                      *)
(***************************************************************************)
EXTENDS Naturals

CONSTANTS
    Active,      \* sets of the watchers "disk" and "service" that get events
    MaxEdits,    \* bound: changes of the spec
    MaxFaults    \* bound: failed calls and restarts of the controller

ASSUME StatusActiveAssumption == Active \subseteq SUBSET {"disk", "service"}
ASSUME StatusEditsAssumption == MaxEdits \in Nat
ASSUME StatusFaultsAssumption == MaxFaults \in Nat

VARIABLES
    spec,      \* generation and power intent of the CRD
    status,    \* phase, observedGeneration and Ready condition
    login,     \* whether the guest login Secret is there
    machine,   \* the KubeVirt VM: run strategy and printableStatus
    disk,      \* phase of the DataVolume
    seen,      \* generation last handled by the CRD informer; 0: nothing listed yet
    pass,      \* the handlers of the CRD and the KubeVirt informer
    diskEvent, \* the DataVolume phase the DataVolume watcher works on
    service,   \* what the Service watcher has read of the status
    active,    \* the watchers beside those of CRD and KubeVirt that get events
    faults

cluster == <<spec, login, machine, disk>>
watchers == <<diskEvent, service, active>>
vars == <<cluster, status, seen, pass, watchers, faults>>

Generations == 1..(MaxEdits + 1)
Specs == [gen : Generations, on : BOOLEAN]
Stable == {"Running", "Stopped", "Ready"}
Phases == Stable \union {"", "Provisioning", "Failed"}
Statuses == [phase : Phases, obs : Generations \union {0}, ready : BOOLEAN]
NoStatus == [phase |-> "", obs |-> 0, ready |-> FALSE]
Machines == [here : BOOLEAN, on : BOOLEAN, shows : {"Running", "Stopped", "Starting", "Other"}]
NoMachine == [here |-> FALSE, on |-> FALSE, shows |-> "Other"]
Disks == {"none", "Pending", "Succeeded", "Failed"}
Handlers == {"crd", "kubevirt"}

\* want: the power intent in the copy of the CRD; event: the KubeVirt VM of the event.
Passes == [pc : {"idle", "owner", "mirror", "read", "apply", "report", "fail"},
           want : BOOLEAN, event : Machines]
Idle == [pc |-> "idle", want |-> FALSE, event |-> NoMachine]
NotReading == [reading |-> FALSE, phase |-> ""]

TypeOK ==
    /\ spec \in Specs /\ status \in Statuses /\ login \in BOOLEAN
    /\ machine \in Machines /\ disk \in Disks
    /\ seen \in Generations \union {0}
    /\ pass \in [Handlers -> Passes]
    /\ diskEvent \in Disks
    /\ service \in [reading : BOOLEAN, phase : Phases]
    /\ active \in Active
    /\ faults \in 0..MaxFaults

Init ==
    /\ spec \in [gen : {1}, on : BOOLEAN]
    /\ status = NoStatus /\ login = FALSE
    /\ machine = NoMachine /\ disk = "none"
    /\ seen = 0
    /\ pass = [h \in Handlers |-> Idle]
    /\ diskEvent = "none" /\ service = NotReading
    /\ active \in Active
    /\ faults = 0

At(h, pc) == pass[h].pc = pc
To(h, pc) == pass' = [pass EXCEPT ![h] = [Idle EXCEPT !.pc = pc]] \* forgets its copies
End(h) == pass' = [pass EXCEPT ![h] = Idle]
Fault == faults < MaxFaults /\ faults' = faults + 1

-----------------------------------------------------------------------------
(* Status writes *)

\* Mutants: every phase is kept, or none.
PreservesAll(phase) == status.obs = spec.gen /\ status.phase \in Stable
PreservesNothing(phase) == FALSE

\* A stable phase outlives a request for Provisioning at the generation that
\* the status has observed.
ShouldPreserveRuntimeStatus(phase) ==
    phase = "Provisioning" /\ status.obs = spec.gen /\ status.phase \in Stable

UpdateStatus(phase, ready) ==
    status' = IF ShouldPreserveRuntimeStatus(phase)
              THEN status
              ELSE [phase |-> phase, obs |-> spec.gen, ready |-> ready]

\* Mutant: the phase of the DataVolume becomes that of the VM.
UpdateDataVolumeStatusRaw(d) ==
    status' = [status EXCEPT !.obs = spec.gen, !.phase = d, !.ready = FALSE]

\* The DataVolume watcher leaves every phase alone but an empty one and
\* Provisioning, unless the import failed.
UpdateDataVolumeStatus(d) ==
    LET overall == IF d = "Failed" THEN "Failed" ELSE "Provisioning"
        keep == d # "Failed" /\ status.phase \in Stable
    IN  status' = [status EXCEPT
            !.obs = spec.gen,
            !.phase = IF d = "Failed" \/ @ \in {"", "Provisioning"} THEN overall ELSE @,
            !.ready = IF keep THEN @ ELSE FALSE]

-----------------------------------------------------------------------------
(* The pass over the desired state *)

\* Mutant: a pass that failed is not tried again.
NeedsUnlessFailed == status.phase \in {"", "Provisioning"}

NeedsSameGenerationReconcile == status.phase \in {"", "Failed", "Provisioning"}

StartPass ==
    /\ At("crd", "idle")
    /\ pass' = [pass EXCEPT !["crd"] = [Idle EXCEPT !.pc = "apply", !.want = spec.on]]
    /\ UNCHANGED <<cluster, status, watchers, faults>>

\* An add, a change of the generation, or an update or resync that the phase
\* lets through starts a pass, which reads the CRD.
CRDEvent ==
    /\ StartPass
    /\ \/ seen = 0 /\ seen' = spec.gen
       \/ seen # 0 /\ seen < spec.gen /\ seen' = seen + 1
       \/ seen = spec.gen /\ NeedsSameGenerationReconcile /\ UNCHANGED seen

\* The informer hands out copies that may be old; the oldest have no phase.
OldCRDEvent == StartPass /\ seen # 0 /\ UNCHANGED seen

\* The pass of the KubeVirt watcher reads the CRD again.
ReadLatest ==
    /\ At("kubevirt", "read")
    /\ pass' = [pass EXCEPT !["kubevirt"] = [Idle EXCEPT !.pc = "apply", !.want = spec.on]]
    /\ UNCHANGED <<cluster, status, seen, watchers, faults>>

\* The DataVolume is applied first, then the KubeVirt VM.
Rendered(h) == [machine EXCEPT !.here = TRUE, !.on = pass[h].want]
AppliedDisk == IF disk = "none" THEN "Pending" ELSE disk

Apply(h) ==
    /\ At(h, "apply") /\ login
    /\ machine' = Rendered(h)
    /\ disk' = AppliedDisk
    /\ To(h, "report")
    /\ UNCHANGED <<spec, status, login, seen, watchers, faults>>

\* Without the guest login nothing is applied; the call that fails may be the
\* first, that of the KubeVirt VM, or one after it.
ApplyFails(h) ==
    /\ At(h, "apply")
    /\ \/ ~login /\ UNCHANGED <<machine, disk, faults>>
       \/ /\ login /\ Fault
          /\ machine' \in {machine, Rendered(h)} /\ disk' \in {disk, AppliedDisk}
          /\ machine' # machine => disk' = AppliedDisk
    /\ To(h, "fail")
    /\ UNCHANGED <<spec, status, login, seen, watchers>>

\* The reads of namespace, domain and storage class, and the finalizer's
\* update, end the pass without a word in the status.
PassAborts(h) ==
    /\ At(h, "apply") /\ Fault /\ End(h)
    /\ UNCHANGED <<cluster, status, seen, watchers>>

ReportProvisioning(h) ==
    /\ At(h, "report")
    /\ UpdateStatus("Provisioning", FALSE)
    /\ End(h)
    /\ UNCHANGED <<cluster, seen, watchers, faults>>

ReportFailed(h) ==
    /\ At(h, "fail")
    /\ UpdateStatus("Failed", FALSE)
    /\ End(h)
    /\ UNCHANGED <<cluster, seen, watchers, faults>>

-----------------------------------------------------------------------------
(* The KubeVirt watcher *)

\* Any event or resync; the owner is read later.
KubeVirtEvent ==
    /\ At("kubevirt", "idle") /\ machine.here
    /\ pass' = [pass EXCEPT !["kubevirt"] = [@ EXCEPT !.pc = "owner", !.event = machine]]
    /\ UNCHANGED <<cluster, status, seen, watchers, faults>>

ReadOwner ==
    /\ At("kubevirt", "owner")
    /\ pass' = [pass EXCEPT !["kubevirt"] = [@ EXCEPT !.pc = "mirror", !.want = spec.on]]
    /\ UNCHANGED <<cluster, status, seen, watchers, faults>>

\* kiteStatusFromKubeVirtVirtualMachine: want is the intent, m what is.
Mirror(want, m) ==
    CASE m.shows = "Running" -> [phase |-> "Running", ready |-> TRUE]
      [] m.shows = "Stopped" /\ want -> [phase |-> "Provisioning", ready |-> FALSE]
      [] m.shows = "Stopped" /\ ~want -> [phase |-> "Stopped", ready |-> TRUE]
      [] m.shows = "Starting" \/ (m.shows = "Other" /\ m.on) ->
             [phase |-> "Provisioning", ready |-> FALSE]
      [] m.shows = "Other" /\ ~m.on -> [phase |-> "Ready", ready |-> TRUE]

MirrorStatus ==
    /\ At("kubevirt", "mirror")
    /\ LET want == pass["kubevirt"].want
           m == pass["kubevirt"].event
           s == Mirror(want, m)
       IN  /\ UpdateStatus(s.phase, s.ready)
           /\ pass' = [pass EXCEPT !["kubevirt"] = [Idle EXCEPT !.pc = IF want # m.on THEN "read" ELSE "idle"]]
    /\ UNCHANGED <<cluster, seen, watchers, faults>>

-----------------------------------------------------------------------------
(* The DataVolume and the Service watchers *)

DataVolumeEvent ==
    /\ "disk" \in active /\ diskEvent = "none" /\ disk # "none"
    /\ diskEvent' = disk
    /\ UNCHANGED <<cluster, status, seen, pass, service, active, faults>>

DataVolumeReport ==
    /\ diskEvent # "none"
    /\ UpdateDataVolumeStatus(diskEvent)
    /\ diskEvent' = "none"
    /\ UNCHANGED <<cluster, seen, pass, service, active, faults>>

\* The Services come with the KubeVirt VM.  The watcher means to keep the phase
\* and writes the one it has read.
ServiceEvent ==
    /\ "service" \in active /\ ~service.reading /\ machine.here
    /\ service' = [reading |-> TRUE,
                   phase |-> IF status.phase = "" THEN "Provisioning" ELSE status.phase]
    /\ UNCHANGED <<cluster, status, seen, pass, diskEvent, active, faults>>

ServiceReport ==
    /\ service.reading
    /\ UpdateStatus(service.phase, FALSE)
    /\ service' = NotReading
    /\ UNCHANGED <<cluster, seen, pass, diskEvent, active, faults>>

-----------------------------------------------------------------------------
(* Faults, kite-api, CDI and KubeVirt *)

\* A read or a status write fails and ends its handler.
CallFails ==
    /\ Fault
    /\ \/ \E h \in Handlers : pass[h].pc \in {"owner", "mirror", "read", "report", "fail"}
                              /\ End(h) /\ UNCHANGED <<diskEvent, service>>
       \/ diskEvent # "none" /\ diskEvent' = "none" /\ UNCHANGED <<pass, service>>
       \/ service.reading /\ service' = NotReading /\ UNCHANGED <<pass, diskEvent>>
    /\ UNCHANGED <<cluster, status, seen, active>>

\* All watchers die; after the start the CRD informer lists the CRD anew.
Restart ==
    /\ Fault
    /\ pass' = [h \in Handlers |-> Idle] /\ diskEvent' = "none" /\ service' = NotReading
    /\ seen' = 0
    /\ UNCHANGED <<cluster, status, active>>

\* kite-api creates the guest login Secret after the CRD.  It may die before:
\* this action is not fair.  A create that fails deletes the CRD again, as
\* any deletion beyond this module.
CreateLogin ==
    /\ ~login /\ login' = TRUE
    /\ UNCHANGED <<spec, machine, disk, status, seen, pass, watchers, faults>>

Edit ==
    /\ spec.gen <= MaxEdits
    /\ \E on \in BOOLEAN : spec' = [gen |-> spec.gen + 1, on |-> on]
    /\ UNCHANGED <<login, machine, disk, status, seen, pass, watchers, faults>>

\* CDI: an import ends well, or fails and starts over.
Import ==
    /\ \/ disk = "Pending" /\ disk' \in {"Succeeded", "Failed"}
       \/ disk = "Failed" /\ disk' = "Pending"
    /\ UNCHANGED <<spec, login, machine, status, seen, pass, watchers, faults>>

\* KubeVirt follows the run strategy ...
KubeVirtFollows ==
    /\ machine.here
    /\ \/ machine.on /\ machine.shows \in {"Stopped", "Other"} /\ machine' = [machine EXCEPT !.shows = "Starting"]
       \/ machine.on /\ machine.shows = "Starting" /\ machine' = [machine EXCEPT !.shows = "Running"]
       \/ ~machine.on /\ machine.shows = "Running" /\ machine' = [machine EXCEPT !.shows = "Other"]
       \/ ~machine.on /\ machine.shows \in {"Starting", "Other"} /\ machine' = [machine EXCEPT !.shows = "Stopped"]
    /\ UNCHANGED <<spec, login, disk, status, seen, pass, watchers, faults>>

\* ... and a guest may shut down or crash at any time.
GuestStops ==
    /\ machine.shows = "Running" /\ machine' = [machine EXCEPT !.shows = "Stopped"]
    /\ UNCHANGED <<spec, login, disk, status, seen, pass, watchers, faults>>

Next ==
    \/ CRDEvent \/ OldCRDEvent \/ ReadLatest
    \/ \E h \in Handlers :
          Apply(h) \/ ApplyFails(h) \/ PassAborts(h) \/ ReportProvisioning(h) \/ ReportFailed(h)
    \/ KubeVirtEvent \/ ReadOwner \/ MirrorStatus
    \/ DataVolumeEvent \/ DataVolumeReport \/ ServiceEvent \/ ServiceReport
    \/ CallFails \/ Restart
    \/ CreateLogin \/ Edit \/ Import \/ KubeVirtFollows \/ GuestStops

\* Handlers run on, and every informer resyncs every 30 seconds with a copy
\* that comes up to date when the status stops changing.
Fairness ==
    /\ WF_vars(CRDEvent) /\ WF_vars(ReadLatest)
    /\ \A h \in Handlers : WF_vars(Apply(h) \/ ApplyFails(h))
                           /\ WF_vars(ReportProvisioning(h) \/ ReportFailed(h))
    /\ WF_vars(KubeVirtEvent) /\ WF_vars(ReadOwner) /\ WF_vars(MirrorStatus)
    /\ WF_vars(DataVolumeReport) /\ WF_vars(ServiceReport)
    /\ WF_vars(KubeVirtFollows)

Spec == Init /\ [][Next]_vars /\ Fairness

-----------------------------------------------------------------------------
(* Properties *)

\* No write of any of the four watchers takes a VM whose runtime state has
\* been reported back to Provisioning, unless it is the first one to see a
\* new spec (shouldPreserveRuntimeStatus, and the rule of its own that the
\* DataVolume watcher has).
StableUntilNewSpec ==
    [][status.phase \in Stable /\ status'.phase = "Provisioning" => status.obs < spec.gen]_vars

\* No writer is ahead of the spec.
Inductive == TypeOK /\ status.obs <= spec.gen

\* A VM whose guest login is there gets its KubeVirt VM, however early its
\* first passes came and whatever of them failed: the phases that a failed or
\* an unwritten status leaves let resyncs retry.  (A kite-api that dies before
\* it creates the login leaves a VM whose passes fail for good.)
Provisioned == login ~> machine.here

Settled == machine.here /\ machine.on = spec.on
           /\ machine.shows = (IF spec.on THEN "Running" ELSE "Stopped")
Mirrored == status = [phase |-> machine.shows, obs |-> spec.gen, ready |-> TRUE]

\* While the KubeVirt VM does what the newest spec asks, the status comes to
\* say so again and again: no stale write of a pass or a watcher, and no
\* observedGeneration that another watcher moved, hides it for good.  (It
\* does not stay: the Service watcher's resyncs write the Ready condition
\* False, and a failed import the phase Failed, until KubeVirt's next one.)
StatusMirrored == []<>(~Settled \/ Mirrored)
=============================================================================
