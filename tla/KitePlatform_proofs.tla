------------------------- MODULE KitePlatform_proofs -------------------------
(***************************************************************************)
(* Proof that HTTPS is not forced without a certificate and that an        *)
(* uploaded certificate is kept, for any number of admin requests and      *)
(* faults and for all passes of both reconcilers.                          *)
(***************************************************************************)
EXTENDS KitePlatform, TLAPS

USE PlatformNoneAssumption, PlatformFaultsAssumption, PlatformReqsAssumption, PlatformSeedsAssumption

(***************************************************************************)
(* Types.                                                                  *)
(***************************************************************************)
LEMMA RecordTypes ==
    /\ NoConfig \in Configs /\ NoService \in Services /\ NoIngress \in Ingresses
    /\ NoPass \in Passes /\ IdleReq \in Requests /\ Answered \in Requests
    /\ \A w : Finished(w) \in Passes /\ Finished(w).pc \in {"start", "done"}
<1>1. NoConfig \in Configs
    BY DEF NoConfig, Configs
<1>2. NoService \in Services
    BY DEF NoService, Services
<1>3. NoIngress \in Ingresses
    BY DEF NoIngress, Ingresses
<1>4. NoPass \in Passes
    BY <1>1 DEF NoPass, Passes
<1>5. IdleReq \in Requests /\ Answered \in Requests
    BY DEF IdleReq, Answered, Requests, Certificates
<1>6. \A w : Finished(w) \in Passes /\ Finished(w).pc \in {"start", "done"}
    BY <1>4 DEF Finished, NoPass, Passes
<1>7. QED  BY <1>1, <1>2, <1>3, <1>4, <1>5, <1>6

\* A pass that goes on is a pass.
LEMMA PassTypes ==
    ASSUME NEW p \in Passes
    PROVE  /\ p.read \in Configs
           /\ \A label \in {"inner", "patchInner", "service", "observe", "statusGet", "tls", "migrate", "middleware",
                            "redirect", "site", "dropRedirect", "dropMiddleware"} :
                [p EXCEPT !.pc = label] \in Passes
           /\ \A phase \in Phases : [p EXCEPT !.pc = "statusGet", !.phase = phase] \in Passes
           /\ [p EXCEPT !.pc = "statusWrite", !.current = TRUE] \in Passes
           /\ [p EXCEPT !.current = FALSE] \in Passes
           /\ [p EXCEPT !.current = FALSE].pc = p.pc
BY DEF Passes

LEMMA WithTLSType ==
    ASSUME NEW w, work[w] \in Passes, NEW has \in BOOLEAN
    PROVE  /\ WithTLS(w, has) \in Passes
           /\ ~has => WithTLS(w, has).pc \notin {"middleware", "redirect"}
<1>1. work[w].read.force \in BOOLEAN
    BY DEF Passes, Configs
<1>2. CASE work[w].read.force /\ ~has
    BY <1>2, RecordTypes DEF WithTLS
<1>3. CASE ~(work[w].read.force /\ ~has)
  <2>1. WithTLS(w, has) = [work[w] EXCEPT !.pc = IF work[w].read.force THEN "middleware" ELSE "site", !.secure = has]
    BY <1>3 DEF WithTLS
  <2>2. QED  BY <1>3, <2>1 DEF Passes
<1>4. QED  BY <1>2, <1>3

\* What a change of one pass does to all of them.
LEMMA PassTo ==
    ASSUME TypeOK, NEW w \in Workers, NEW next \in Passes, To(w, next)
    PROVE  /\ work' \in [Workers -> Passes] /\ work'[w] = next
           /\ \A v \in Workers : v # w => work'[v] = work[v]
BY DEF TypeOK, To

LEMMA RequestTo ==
    ASSUME TypeOK, NEW r \in Reqs, NEW next \in Requests, ToReq(r, next)
    PROVE  /\ req' \in [Reqs -> Requests] /\ req'[r] = next
           /\ \A q \in Reqs : q # r => req'[q] = req[q]
BY DEF TypeOK, ToReq

(***************************************************************************)
(* The invariant, by what a step does to the certificate.                  *)
(***************************************************************************)
\* A pass moves and the certificate stays: it must not go where a
\* certificate is needed without having seen one.
LEMMA PassKeeps ==
    ASSUME Inductive, NEW w \in Workers, NEW next \in Passes, To(w, next), UNCHANGED settings,
           next.pc \in {"middleware", "redirect"} =>
               work[w].pc \in {"middleware", "redirect"} \/ tls # "none",
           redirect' # NoHost => redirect # NoHost \/ work[w].pc = "redirect"
    PROVE  UploadKept' /\ (~removed' => Covered') /\ work' \in [Workers -> Passes]
<1>1. /\ work' \in [Workers -> Passes] /\ work'[w] = next
      /\ \A v \in Workers : v # w => work'[v] = work[v]
    BY PassTo DEF Inductive
<1>2. UNCHANGED <<config, tls, legacyTLS, req, removed, uploaded>>
    BY DEF settings
<1>3. UploadKept'
    BY <1>2 DEF Inductive, UploadKept
<1>4. ASSUME ~removed' PROVE Covered'
  <2>1. Covered
    BY <1>2, <1>4 DEF Inductive
  <2>2. QED  BY <1>1, <1>2, <2>1 DEF Covered
<1>5. QED  BY <1>1, <1>3, <1>4

\* A request moves; the certificate stays, or a certificate comes.
LEMMA RequestKeeps ==
    ASSUME Inductive, NEW r \in Reqs, NEW next \in Requests, ToReq(r, next),
           UNCHANGED <<legacyTLS, removed, objects, work>>,
           UploadKept', tls # "none" => tls' # "none",
           next.pc = "write" /\ next.set = "force" => tls' # "none",
           config'.force => config.force \/ (req[r].pc = "write" /\ req[r].set = "force")
    PROVE  (~removed' => Covered') /\ req' \in [Reqs -> Requests]
<1>1. /\ req' \in [Reqs -> Requests] /\ req'[r] = next
      /\ \A q \in Reqs : q # r => req'[q] = req[q]
    BY RequestTo DEF Inductive
<1>2. UNCHANGED <<redirect, work>>
    BY DEF objects
<1>3. ASSUME ~removed' PROVE Covered'
  <2>1. Covered
    BY <1>3 DEF Inductive
  <2>2. QED  BY <1>1, <1>2, <2>1 DEF Covered
<1>4. QED  BY <1>1, <1>3

\* The certificate after a migration.
LEMMA MigrationKeeps ==
    ASSUME Inductive, tls' = Migrated, UNCHANGED uploaded
    PROVE  tls' \in Certificates /\ tls' # "none" /\ UploadKept'
BY DEF Inductive, TypeOK, Migrated, UploadKept, Certificates

(***************************************************************************)
(* One lemma per group of actions.                                         *)
(***************************************************************************)
\* The exposure reconciler touches neither certificate nor redirect.
LEMMA ExposureStep ==
    ASSUME Inductive, NEW w \in Workers,
           \/ NormalizeInner(w) \/ PatchInner(w) \/ ReconcileService(w) \/ Observe(w)
           \/ StatusGet(w) \/ StatusWrite(w)
    PROVE  Inductive'
<1>1. work[w] \in Passes /\ TypeOK
    BY DEF Inductive, TypeOK
<1>2. CASE NormalizeInner(w)
  <2>1. PICK label \in {"service", "patchInner"} : To(w, [work[w] EXCEPT !.pc = label])
    BY <1>2 DEF NormalizeInner, Goto
  <2>2. [work[w] EXCEPT !.pc = label] \in Passes /\ [work[w] EXCEPT !.pc = label].pc = label
    BY <1>1 DEF Passes
  <2>3. UploadKept' /\ (~removed' => Covered') /\ work' \in [Workers -> Passes]
    BY <1>2, <2>1, <2>2, PassKeeps DEF NormalizeInner, objects
  <2>4. TypeOK'
    BY <1>1, <1>2, <2>3 DEF NormalizeInner, TypeOK, settings, objects
  <2>5. QED  BY <2>3, <2>4 DEF Inductive
<1>3. CASE PatchInner(w)
  <2>1. PICK next \in Passes : To(w, next) /\ next.pc \in {"service", "statusGet"}
    <3>1. [work[w] EXCEPT !.pc = "service"] \in Passes /\ [work[w] EXCEPT !.pc = "service"].pc = "service"
      BY <1>1 DEF Passes
    <3>2. /\ [work[w] EXCEPT !.pc = "statusGet", !.phase = "Failed"] \in Passes
          /\ [work[w] EXCEPT !.pc = "statusGet", !.phase = "Failed"].pc = "statusGet"
      BY <1>1 DEF Passes, Phases
    <3>3. QED  BY <1>3, <3>1, <3>2 DEF PatchInner, Goto
  <2>2. UploadKept' /\ (~removed' => Covered') /\ work' \in [Workers -> Passes]
    BY <1>3, <2>1, PassKeeps DEF PatchInner
  <2>3. TypeOK'
    BY <1>1, <1>3, <2>2 DEF PatchInner, TypeOK, settings
  <2>4. QED  BY <2>2, <2>3 DEF Inductive
<1>4. CASE ReconcileService(w)
  <2>1. external' \in Services
    BY <1>1, <1>4 DEF ReconcileService, Absent, TypeOK, Services, Passes, Configs
  <2>2. PICK next \in Passes : To(w, next) /\ next.pc \in {"observe", "statusGet"}
    <3>1. \A phase \in Phases : [work[w] EXCEPT !.pc = "statusGet", !.phase = phase].pc = "statusGet"
      BY <1>1 DEF Passes
    <3>2. [work[w] EXCEPT !.pc = "observe"].pc = "observe"
      BY <1>1 DEF Passes
    <3>3. (IF Blocked(work[w].read) THEN "Blocked" ELSE "Disabled") \in Phases
      BY DEF Phases
    <3>4. QED  BY <1>1, <1>4, <3>1, <3>2, <3>3, PassTypes DEF ReconcileService, Goto
  <2>3. UploadKept' /\ (~removed' => Covered') /\ work' \in [Workers -> Passes]
    BY <1>4, <2>2, PassKeeps DEF ReconcileService
  <2>4. TypeOK'
    BY <1>1, <1>4, <2>1, <2>3 DEF ReconcileService, TypeOK, settings
  <2>5. QED  BY <2>3, <2>4 DEF Inductive
<1>5. CASE Observe(w)
  <2>1. PICK phase \in Phases : To(w, [work[w] EXCEPT !.pc = "statusGet", !.phase = phase])
    BY <1>5 DEF Observe, Phases
  <2>2. [work[w] EXCEPT !.pc = "statusGet", !.phase = phase] \in Passes
    BY <1>1, PassTypes
  <2>3. UploadKept' /\ (~removed' => Covered') /\ work' \in [Workers -> Passes]
    BY <1>1, <1>5, <2>1, <2>2, PassKeeps DEF Observe, Passes, objects
  <2>4. TypeOK'
    BY <1>1, <1>5, <2>3 DEF Observe, TypeOK, settings, objects
  <2>5. QED  BY <2>3, <2>4 DEF Inductive
<1>6. CASE StatusGet(w)
  <2>1. [work[w] EXCEPT !.pc = "statusWrite", !.current = TRUE] \in Passes
    BY <1>1, PassTypes
  <2>2. UploadKept' /\ (~removed' => Covered') /\ work' \in [Workers -> Passes]
    BY <1>1, <1>6, <2>1, PassKeeps DEF StatusGet, Passes, objects
  <2>3. TypeOK'
    BY <1>1, <1>6, <2>2 DEF StatusGet, TypeOK, settings, objects
  <2>4. QED  BY <2>2, <2>3 DEF Inductive
<1>7. CASE StatusWrite(w)
  <2>1. status' \in Phases \union {"none"}
    BY <1>1, <1>7 DEF StatusWrite, TypeOK, Passes
  <2>2. /\ work' \in [Workers -> Passes]
        /\ \A v \in Workers : work'[v].pc \in {"middleware", "redirect"} => work[v].pc \in {"middleware", "redirect"}
    <3>1. CASE work[w].current
      <4>1. work' = [v \in Workers |-> IF v = w THEN Finished(w) ELSE [work[v] EXCEPT !.current = FALSE]]
        BY <1>7, <3>1 DEF StatusWrite
      <4>2. \A v \in Workers : /\ [work[v] EXCEPT !.current = FALSE] \in Passes
                               /\ [work[v] EXCEPT !.current = FALSE].pc = work[v].pc
        BY <1>1, PassTypes DEF TypeOK
      <4>3. QED  BY <4>1, <4>2, RecordTypes
    <3>2. CASE ~work[w].current
      BY <1>1, <1>7, <3>2, RecordTypes DEF StatusWrite, Finish, To, TypeOK
    <3>3. QED  BY <3>1, <3>2
  <2>3. UNCHANGED <<settings, inner, external, site, redirect, middleware, active, faults>>
    BY <1>7 DEF StatusWrite
  <2>4. TypeOK'
    BY <1>1, <2>1, <2>2, <2>3 DEF TypeOK, settings
  <2>5. UploadKept' /\ (~removed' => Covered')
    BY <2>2, <2>3 DEF Inductive, UploadKept, Covered, settings
  <2>6. QED  BY <2>4, <2>5 DEF Inductive
<1>8. QED  BY <1>2, <1>3, <1>4, <1>5, <1>6, <1>7

\* The Ingress reconciler forces HTTPS only behind WithTLS.
LEMMA IngressStep ==
    ASSUME Inductive, NEW w \in Workers,
           \/ HasTLS(w) \/ MigrateTLS(w) \/ ApplyMiddleware(w) \/ ApplyRedirect(w) \/ ApplySite(w)
           \/ DropRedirect(w) \/ DropMiddleware(w)
    PROVE  Inductive'
<1>1. work[w] \in Passes /\ TypeOK /\ work[w].read \in Configs
    BY PassTypes DEF Inductive, TypeOK
<1>2. CASE HasTLS(w)
  <2>1. PICK next \in Passes : To(w, next) /\ (next.pc \in {"middleware", "redirect"} => tls # "none")
    <3>1. [work[w] EXCEPT !.pc = "migrate"] \in Passes /\ [work[w] EXCEPT !.pc = "migrate"].pc = "migrate"
      BY <1>1 DEF Passes
    <3>2. QED  BY <1>1, <1>2, <3>1, WithTLSType DEF HasTLS
  <2>2. UploadKept' /\ (~removed' => Covered') /\ work' \in [Workers -> Passes]
    BY <1>2, <2>1, PassKeeps DEF HasTLS, objects
  <2>3. TypeOK'
    BY <1>1, <1>2, <2>2 DEF HasTLS, TypeOK, settings, objects
  <2>4. QED  BY <2>2, <2>3 DEF Inductive
<1>3. CASE MigrateTLS(w)
  <2>1. tls' \in Certificates /\ tls' # "none" /\ UploadKept'
    BY <1>3, MigrationKeeps DEF MigrateTLS
  <2>2. work' \in [Workers -> Passes]
    BY <1>1, <1>3, WithTLSType, PassTo DEF MigrateTLS
  <2>3. TypeOK'
    BY <1>1, <1>3, <2>1, <2>2 DEF MigrateTLS, TypeOK, objects
  <2>4. Covered'
    BY <2>1 DEF Covered
  <2>5. QED  BY <2>1, <2>3, <2>4 DEF Inductive
<1>4. CASE ApplyMiddleware(w)
  <2>1. [work[w] EXCEPT !.pc = "redirect"] \in Passes /\ To(w, [work[w] EXCEPT !.pc = "redirect"])
    BY <1>1, <1>4, PassTypes DEF ApplyMiddleware, Goto
  <2>2. UploadKept' /\ (~removed' => Covered') /\ work' \in [Workers -> Passes]
    BY <1>1, <1>4, <2>1, PassKeeps DEF ApplyMiddleware, Passes
  <2>3. TypeOK'
    BY <1>1, <1>4, <2>2 DEF ApplyMiddleware, TypeOK, settings, Configs
  <2>4. QED  BY <2>2, <2>3 DEF Inductive
<1>5. CASE ApplyRedirect(w)
  <2>1. [work[w] EXCEPT !.pc = "site"] \in Passes /\ To(w, [work[w] EXCEPT !.pc = "site"])
    BY <1>1, <1>5, PassTypes DEF ApplyRedirect, Goto
  <2>2. UploadKept' /\ (~removed' => Covered') /\ work' \in [Workers -> Passes]
    BY <1>1, <1>5, <2>1, PassKeeps DEF ApplyRedirect, Passes
  <2>3. TypeOK'
    BY <1>1, <1>5, <2>2 DEF ApplyRedirect, TypeOK, settings, Configs
  <2>4. QED  BY <2>2, <2>3 DEF Inductive
<1>6. CASE DropRedirect(w)
  <2>1. [work[w] EXCEPT !.pc = "dropMiddleware"] \in Passes /\ To(w, [work[w] EXCEPT !.pc = "dropMiddleware"])
    BY <1>1, <1>6, PassTypes DEF DropRedirect, Goto
  <2>2. UploadKept' /\ (~removed' => Covered') /\ work' \in [Workers -> Passes]
    BY <1>1, <1>6, <2>1, PassKeeps DEF DropRedirect, Passes
  <2>3. TypeOK'
    BY <1>1, <1>6, <2>2 DEF DropRedirect, TypeOK, settings, Configs
  <2>4. QED  BY <2>2, <2>3 DEF Inductive
<1>7. CASE ApplySite(w)
  <2>1. site' \in Ingresses
    BY <1>1, <1>7 DEF ApplySite, Ingresses, Configs, Passes
  <2>2. PICK next \in Passes : To(w, next) /\ next.pc \notin {"middleware", "redirect"}
    <3>1. [work[w] EXCEPT !.pc = "dropRedirect"].pc = "dropRedirect"
      BY <1>1 DEF Passes
    <3>2. QED  BY <1>1, <1>7, <3>1, PassTypes, RecordTypes DEF ApplySite, Goto, Finish
  <2>3. UploadKept' /\ (~removed' => Covered') /\ work' \in [Workers -> Passes]
    BY <1>7, <2>2, PassKeeps DEF ApplySite
  <2>4. TypeOK'
    BY <1>1, <1>7, <2>1, <2>3 DEF ApplySite, TypeOK, settings
  <2>5. QED  BY <2>3, <2>4 DEF Inductive
<1>8. CASE DropMiddleware(w)
  <2>1. Finished(w) \in Passes /\ Finished(w).pc \in {"start", "done"}
    BY RecordTypes
  <2>2. UploadKept' /\ (~removed' => Covered') /\ work' \in [Workers -> Passes]
    BY <1>8, <2>1, PassKeeps DEF DropMiddleware, Finish
  <2>3. TypeOK'
    BY <1>1, <1>8, <2>2 DEF DropMiddleware, TypeOK, settings
  <2>4. QED  BY <2>2, <2>3 DEF Inductive
<1>9. QED  BY <1>2, <1>3, <1>4, <1>5, <1>6, <1>7, <1>8

\* A pass starts, or a call of it fails.
LEMMA StartOrFail ==
    ASSUME Inductive, NEW w \in Workers, ReadConfig(w) \/ Fail(w)
    PROVE  Inductive'
<1>1. work[w] \in Passes /\ TypeOK /\ config \in Configs
    BY DEF Inductive, TypeOK
<1>2. PICK next \in Passes : To(w, next) /\ next.pc \notin {"middleware", "redirect"}
  <2>1. CASE ReadConfig(w)
    <3>1. NoPass \in Passes /\ NoPass.read \in Configs
      BY RecordTypes, PassTypes
    <3>2. CASE w \in Exposers
      <4> DEFINE next == [NoPass EXCEPT !.pc = "inner", !.read.enabled = config.enabled, !.read.port = config.port]
      <4>1. next \in Passes /\ next.pc = "inner"
        BY <1>1, <3>1 DEF Passes, Configs
      <4>2. QED  BY <2>1, <3>2, <4>1 DEF ReadConfig
    <3>3. CASE w \notin Exposers
      <4> DEFINE next(label) == [NoPass EXCEPT !.pc = label, !.read.host = config.host, !.read.force = config.force]
      <4>1. \A label \in {"site", "tls"} : next(label) \in Passes /\ next(label).pc = label
        BY <1>1, <3>1 DEF Passes, Configs
      <4>2. QED  BY <2>1, <3>3, <4>1 DEF ReadConfig
    <3>4. QED  BY <3>2, <3>3
  <2>2. CASE Fail(w)
    <3>1. [work[w] EXCEPT !.pc = "statusGet", !.phase = "Failed"].pc = "statusGet"
      BY <1>1 DEF Passes
    <3>2. "Failed" \in Phases
      BY DEF Phases
    <3>3. QED  BY <1>1, <2>2, <3>1, <3>2, PassTypes, RecordTypes DEF Fail
  <2>3. QED  BY <2>1, <2>2
<1>3. /\ UNCHANGED <<settings, objects, active>>
      /\ faults' \in Nat
    BY <1>1 DEF ReadConfig, Fail, TypeOK
<1>4. UploadKept' /\ (~removed' => Covered') /\ work' \in [Workers -> Passes]
    BY <1>2, <1>3, PassKeeps DEF objects
<1>5. TypeOK'
    BY <1>1, <1>3, <1>4 DEF TypeOK, settings, objects
<1>6. QED  BY <1>4, <1>5 DEF Inductive

\* A request that is about to answer has nothing left to write.
LEMMA AnsweringType ==
    ASSUME TypeOK
    PROVE  Answering \in Requests /\ Answering.pc # "write" /\ Answered \in Requests /\ Answered.pc = "done"
<1>1. \A label \in {"checkTLS", "done"} : /\ [IdleReq EXCEPT !.pc = label] \in Requests
                                         /\ [IdleReq EXCEPT !.pc = label].pc = label
    BY RecordTypes DEF Requests
<1>2. QED  BY <1>1 DEF Answering, Answered

LEMMA WithCertificateType ==
    ASSUME TypeOK, NEW r \in Reqs
    PROVE  WithCertificate(r) \in Requests
<1>1. req[r] \in Requests
    BY DEF TypeOK
<1>2. [req[r] EXCEPT !.pc = "write"] \in Requests
    BY <1>1 DEF Requests
<1>3. QED  BY <1>2, AnsweringType DEF WithCertificate

\* Admin requests: force is written only by one that has seen a certificate.
LEMMA AdminStep ==
    ASSUME Inductive, NEW r \in Reqs, RequestStep(r)
    PROVE  Inductive'
<1>1. req[r] \in Requests /\ TypeOK /\ config \in Configs /\ UploadKept
    BY DEF Inductive, TypeOK
<1>2. CASE \E enabled \in BOOLEAN, port \in Ports \union {NoPort} : UpdateSSHGateway(r, enabled, port)
  <2>1. PICK enabled \in BOOLEAN, port \in Ports \union {NoPort} : UpdateSSHGateway(r, enabled, port)
    BY <1>2
  <2>2. config' \in Configs /\ config'.force = config.force
    BY <1>1, <2>1 DEF UpdateSSHGateway, Configs
  <2>3. UploadKept'
    BY <1>1, <2>1 DEF UpdateSSHGateway, UploadKept
  <2>4. PICK next \in Requests : ToReq(r, next) /\ next.pc # "write"
    BY <1>1, <2>1, AnsweringType DEF UpdateSSHGateway
  <2>5. (~removed' => Covered') /\ req' \in [Reqs -> Requests]
    BY <2>1, <2>2, <2>3, <2>4, RequestKeeps DEF UpdateSSHGateway
  <2>6. QED  BY <1>1, <2>1, <2>2, <2>3, <2>5 DEF UpdateSSHGateway, Inductive, TypeOK, objects
<1>3. CASE \E h \in Hosts : UpdateBaseDomain(r, h)
  <2>1. PICK h \in Hosts : UpdateBaseDomain(r, h)
    BY <1>3
  <2>2. config' \in Configs /\ config'.force = config.force
    BY <1>1, <2>1 DEF UpdateBaseDomain, Configs
  <2>3. UploadKept'
    BY <1>1, <2>1 DEF UpdateBaseDomain, UploadKept
  <2>4. PICK next \in Requests : ToReq(r, next) /\ next.pc # "write"
    BY <1>1, <2>1, AnsweringType DEF UpdateBaseDomain
  <2>5. (~removed' => Covered') /\ req' \in [Reqs -> Requests]
    BY <2>1, <2>2, <2>3, <2>4, RequestKeeps DEF UpdateBaseDomain
  <2>6. QED  BY <1>1, <2>1, <2>2, <2>3, <2>5 DEF UpdateBaseDomain, Inductive, TypeOK, objects
<1>4. CASE \E set \in {"force", "unforce"} : UpdateForceHTTPS(r, set)
  <2>1. PICK next \in Requests : ToReq(r, next) /\ ~(next.pc = "write" /\ next.set = "force")
    <3>1. PICK set \in {"force", "unforce"} : UpdateForceHTTPS(r, set)
      BY <1>4
    <3>2. \A label \in {"checkTLS", "write"} :
            LET next == [IdleReq EXCEPT !.pc = label, !.set = set]
            IN  next \in Requests /\ next.pc = label /\ next.set = set
      BY <3>1, RecordTypes DEF Requests
    <3>3. QED  BY <3>1, <3>2 DEF UpdateForceHTTPS
  <2>2. UNCHANGED <<config, tls, legacyTLS, removed, uploaded, objects, work, active, faults>>
    BY <1>4 DEF UpdateForceHTTPS
  <2>3. UploadKept'
    BY <1>1, <2>2 DEF UploadKept
  <2>4. (~removed' => Covered') /\ req' \in [Reqs -> Requests]
    BY <2>1, <2>2, <2>3, RequestKeeps
  <2>5. QED  BY <1>1, <2>2, <2>3, <2>4 DEF Inductive, TypeOK, objects
<1>5. CASE UploadTLS(r)
  <2>1. PICK next \in Requests : ToReq(r, next) /\ next.pc = "storeTLS"
    <3>1. /\ [IdleReq EXCEPT !.pc = "storeTLS", !.sees = tls] \in Requests
          /\ [IdleReq EXCEPT !.pc = "storeTLS", !.sees = tls].pc = "storeTLS"
      BY <1>1, RecordTypes DEF Requests, TypeOK
    <3>2. QED  BY <1>5, <3>1 DEF UploadTLS
  <2>2. UNCHANGED <<config, tls, legacyTLS, removed, uploaded, objects, work, active, faults>>
    BY <1>5 DEF UploadTLS
  <2>3. UploadKept'
    BY <1>1, <2>2 DEF UploadKept
  <2>4. (~removed' => Covered') /\ req' \in [Reqs -> Requests]
    BY <2>1, <2>2, <2>3, RequestKeeps
  <2>5. QED  BY <1>1, <2>2, <2>3, <2>4 DEF Inductive, TypeOK, objects
<1>6. CASE CheckTLS(r)
  <2>1. PICK next \in Requests : ToReq(r, next) /\ (next.pc = "write" => tls # "none")
    <3>1. /\ [req[r] EXCEPT !.pc = "migrate"] \in Requests
          /\ [req[r] EXCEPT !.pc = "migrate"].pc = "migrate"
      BY <1>1 DEF Requests
    <3>2. QED  BY <1>1, <1>6, <3>1, AnsweringType, WithCertificateType DEF CheckTLS
  <2>2. UNCHANGED <<config, tls, legacyTLS, removed, uploaded, objects, work, active, faults>>
    BY <1>6 DEF CheckTLS
  <2>3. UploadKept'
    BY <1>1, <2>2 DEF UploadKept
  <2>4. (~removed' => Covered') /\ req' \in [Reqs -> Requests]
    BY <2>1, <2>2, <2>3, RequestKeeps
  <2>5. QED  BY <1>1, <2>2, <2>3, <2>4 DEF Inductive, TypeOK, objects
<1>7. CASE CheckMigrates(r)
  <2>1. tls' \in Certificates /\ tls' # "none" /\ UploadKept'
    BY <1>7, MigrationKeeps DEF CheckMigrates
  <2>2. PICK next \in Requests : ToReq(r, next)
    BY <1>1, <1>7, WithCertificateType DEF CheckMigrates
  <2>3. (~removed' => Covered') /\ req' \in [Reqs -> Requests]
    BY <1>7, <2>1, <2>2, RequestKeeps DEF CheckMigrates
  <2>4. QED  BY <1>1, <1>7, <2>1, <2>3 DEF CheckMigrates, Inductive, TypeOK, objects
<1>8. CASE WriteForceHTTPS(r)
  <2>1. config' \in Configs /\ (config'.force => req[r].pc = "write" /\ req[r].set = "force")
    BY <1>1, <1>8 DEF WriteForceHTTPS, Configs
  <2>2. UploadKept'
    BY <1>1, <1>8 DEF WriteForceHTTPS, UploadKept
  <2>3. PICK next \in Requests : ToReq(r, next) /\ next.pc # "write"
    BY <1>1, <1>8, AnsweringType DEF WriteForceHTTPS
  <2>4. (~removed' => Covered') /\ req' \in [Reqs -> Requests]
    BY <1>8, <2>1, <2>2, <2>3, RequestKeeps DEF WriteForceHTTPS
  <2>5. QED  BY <1>1, <1>8, <2>1, <2>2, <2>4 DEF WriteForceHTTPS, Inductive, TypeOK, objects
<1>9. CASE StoreTLS(r)
  <2>1. /\ tls' \in Certificates /\ uploaded' \in Certificates
        /\ UploadKept' /\ (tls # "none" => tls' # "none")
    BY <1>1, <1>9 DEF StoreTLS, TypeOK, UploadKept, Certificates
  <2>2. PICK next \in Requests : ToReq(r, next) /\ next.pc # "write"
    BY <1>1, <1>9, AnsweringType DEF StoreTLS
  <2>3. (~removed' => Covered') /\ req' \in [Reqs -> Requests]
    BY <1>9, <2>1, <2>2, RequestKeeps DEF StoreTLS
  <2>4. QED  BY <1>1, <1>9, <2>1, <2>3 DEF StoreTLS, Inductive, TypeOK, objects
<1>10. CASE GetSettings(r)
  <2>1. PICK next \in Requests : ToReq(r, next) /\ next.pc # "write"
    BY <1>1, <1>10, AnsweringType DEF GetSettings
  <2>2. UNCHANGED <<config, tls, legacyTLS, removed, uploaded, objects, work, active, faults>>
    BY <1>10 DEF GetSettings
  <2>3. UploadKept'
    BY <1>1, <2>2 DEF UploadKept
  <2>4. (~removed' => Covered') /\ req' \in [Reqs -> Requests]
    BY <2>1, <2>2, <2>3, RequestKeeps
  <2>5. QED  BY <1>1, <2>2, <2>3, <2>4 DEF Inductive, TypeOK, objects
<1>11. QED  BY <1>2, <1>3, <1>4, <1>5, <1>6, <1>7, <1>8, <1>9, <1>10 DEF RequestStep

LEMMA PlatformInit == Init => Inductive
<1> SUFFICES ASSUME Init PROVE Inductive
    OBVIOUS
<1>1. TypeOK
  <2>1. PICK seed \in Seeds : /\ config = seed.config /\ legacyTLS = seed.legacyTLS
                             /\ inner = seed.inner /\ active = seed.active
    BY DEF Init
  <2>2. /\ config \in Configs /\ legacyTLS \in BOOLEAN
        /\ inner \in {"ClusterIP", "LoadBalancer"} /\ active \subseteq Workers
    BY <2>1
  <2>3. work \in [Workers -> Passes] /\ req \in [Reqs -> Requests]
    BY RecordTypes DEF Init
  <2>4. external \in Services /\ site \in Ingresses
    BY RecordTypes DEF Init
  <2>5. /\ tls \in Certificates /\ uploaded \in Certificates /\ status \in Phases \union {"none"}
        /\ redirect \in Hosts \union {NoHost} /\ faults \in Nat
    BY DEF Init, Certificates
  <2>6. middleware \in BOOLEAN /\ removed \in BOOLEAN
    BY DEF Init
  <2>7. QED  BY <2>2, <2>3, <2>4, <2>5, <2>6 DEF TypeOK
<1>2. UploadKept
    BY DEF Init, UploadKept
<1>3. Covered
  <2>1. ~config.force
    BY DEF Init
  <2>2. QED  BY <2>1 DEF Init, Covered, NoPass, IdleReq
<1>4. QED  BY <1>1, <1>2, <1>3 DEF Inductive

\* Every step of both reconcilers, the admin requests and the cluster keeps
\* the invariant.
LEMMA PlatformStep ==
    ASSUME Inductive, [Next]_vars
    PROVE  Inductive'
<1>1. CASE \E w \in Workers : ReadConfig(w) \/ PassStep(w) \/ Fail(w)
    BY <1>1, ExposureStep, IngressStep, StartOrFail DEF PassStep
<1>2. CASE \E r \in Reqs : RequestStep(r)
    BY <1>2, AdminStep
<1>3. CASE LoadBalancer
  <2>1. external' \in Services
    BY <1>3 DEF LoadBalancer, Inductive, TypeOK, Services
  <2>2. TypeOK'
    BY <1>3, <2>1 DEF LoadBalancer, Inductive, TypeOK, settings
  <2>3. UploadKept' /\ (~removed' => Covered')
    BY <1>3 DEF LoadBalancer, Inductive, UploadKept, Covered, settings
  <2>4. QED  BY <2>2, <2>3 DEF Inductive
<1>4. CASE RemoveTLS
  <2>1. UploadKept' /\ removed'
    BY <1>4 DEF RemoveTLS, UploadKept
  <2>2. /\ tls' \in Certificates /\ uploaded' \in Certificates /\ faults' \in Nat
    BY <1>4 DEF RemoveTLS, Inductive, TypeOK, Certificates
  <2>3. removed' \in BOOLEAN
    BY <1>4 DEF RemoveTLS
  <2>4. UNCHANGED <<config, legacyTLS, req, objects, work, active>>
    BY <1>4 DEF RemoveTLS
  <2>5. TypeOK'
    BY <2>2, <2>3, <2>4 DEF Inductive, TypeOK, objects
  <2>6. QED  BY <2>1, <2>5 DEF Inductive
<1>5. CASE UNCHANGED vars
    BY <1>5 DEF vars, Inductive, TypeOK, UploadKept, Covered, settings, objects
<1>6. QED  BY <1>1, <1>2, <1>3, <1>4, <1>5 DEF Next

\* Types, and who is about to force HTTPS has seen a certificate.
THEOREM PlatformInvariant == Spec => []Inductive
<1>1. Init => Inductive
    BY PlatformInit
<1>2. Inductive /\ [Next]_vars => Inductive'
    BY PlatformStep
<1>3. QED  BY <1>1, <1>2, PTL DEF Spec

\* UpdateForceHTTPS checks and then writes, and the Ingress pass reads and
\* then redirects, but a certificate does not go away in between unless an
\* operator removes it.
THEOREM ForcedHTTPSHasCertificate == Spec => []ForcedHasCertificate
<1>1. Inductive => ForcedHasCertificate
    BY DEF Inductive, Covered, ForcedHasCertificate
<1>2. QED  BY <1>1, PlatformInvariant, PTL

\* migrateLegacyTLSCertificate never replaces an uploaded certificate.
THEOREM UploadedCertificateKept == Spec => []UploadKept
<1>1. Inductive => UploadKept
    BY DEF Inductive
<1>2. QED  BY <1>1, PlatformInvariant, PTL
=============================================================================
