---------------------------- MODULE KitePlatform ----------------------------
(***************************************************************************)
(* What kite-controller makes of the settings: the external Service of the *)
(* SSH gateway with its status ConfigMap, and the Ingresses of the         *)
(* platform; and the admin requests that change settings and certificate.  *)
(*                                                                         *)
(* Each of the two reconcilers runs the same pass from the handlers of two *)
(* informers, and once after start: three passes may run at once, each     *)
(* from the settings it read first.  One action is one call to the API     *)
(* server; KiteConfig has the writes of the settings in detail.            *)
(***************************************************************************)
EXTENDS Naturals

CONSTANTS
    Hosts, NoHost,   \* values of baseDomain
    Ports, NoPort,   \* values of sshGatewayExternalPort
    Reqs,            \* admin requests
    Seeds,           \* [config, legacyTLS, inner, active] to start from
    MaxFaults        \* bound: failed calls, and certificates an operator removes

ASSUME PlatformNoneAssumption == NoHost \notin Hosts /\ NoPort \notin Ports
ASSUME PlatformFaultsAssumption == MaxFaults \in Nat
ASSUME PlatformReqsAssumption == {"none", "legacy"} \intersect Reqs = {}

VARIABLES
    config,      \* kite-runtime-config
    tls,         \* global-tls-secret: "none", "legacy" or the request that uploaded it
    legacyTLS,   \* whether kube-system has a certificate of an older version
    inner,       \* spec.type of Service kite-gateway
    external,    \* Service kite-gateway-external
    status,      \* phase in ConfigMap kite-gateway-status
    site,        \* Ingress kite-platform
    redirect,    \* host of Ingress kite-platform-http-redirect
    middleware,  \* whether the Traefik Middleware of the redirect exists
    work,        \* the passes of the reconcilers
    active,      \* the goroutines of the reconcilers that take part
    req,         \* the admin requests
    faults,
    removed,     \* ghost: an operator removed the certificate
    uploaded     \* ghost: the last upload that was told it is stored

objects == <<inner, external, status, site, redirect, middleware>>
settings == <<config, tls, legacyTLS, req, removed, uploaded>>
vars == <<settings, objects, work, active, faults>>

Configs == [host : Hosts \union {NoHost}, force : BOOLEAN,
            enabled : BOOLEAN, port : Ports \union {NoPort}]
Certificates == Reqs \union {"none", "legacy"}

\* known: it has been in the Service informer's store.
Services == [exists : BOOLEAN, known : BOOLEAN, port : Ports \union {NoPort}, lb : BOOLEAN]
NoService == [exists |-> FALSE, known |-> FALSE, port |-> NoPort, lb |-> FALSE]
Phases == {"Disabled", "Blocked", "Reconciling", "Ready", "Failed"}
Ingresses == [host : Hosts \union {NoHost}, force : BOOLEAN, secure : BOOLEAN]
NoIngress == [host |-> NoHost, force |-> FALSE, secure |-> FALSE]

Exposers == {"exposureConfig", "exposureService", "exposureInitial"}
Ingressers == {"ingressConfig", "ingressTLS", "ingressInitial"}
Workers == Exposers \union Ingressers

\* No certificate has been uploaded yet, so HTTPS is not forced.
ASSUME PlatformSeedsAssumption ==
    \A seed \in Seeds : /\ seed.config \in Configs /\ ~seed.config.force
                        /\ seed.legacyTLS \in BOOLEAN
                        /\ seed.inner \in {"ClusterIP", "LoadBalancer"}
                        /\ seed.active \subseteq Workers

\* current: the status has not been written since the pass read its version.
Passes == [pc : {"start", "done", "inner", "patchInner", "service", "observe", "statusGet", "statusWrite",
                 "tls", "migrate", "middleware", "redirect", "site", "dropRedirect", "dropMiddleware"},
           read : Configs, secure : BOOLEAN, phase : Phases \union {"none"}, current : BOOLEAN]
NoConfig == [host |-> NoHost, force |-> FALSE, enabled |-> FALSE, port |-> NoPort]
NoPass == [pc |-> "start", read |-> NoConfig, secure |-> FALSE, phase |-> "none", current |-> FALSE]

\* set: what the request changes; sees: the certificate it has read.
Requests == [pc : {"idle", "checkTLS", "migrate", "write", "storeTLS", "done"},
             set : {"none", "force", "unforce"}, sees : Certificates]
IdleReq == [pc |-> "idle", set |-> "none", sees |-> "none"]
Answered == [IdleReq EXCEPT !.pc = "done"]

\* A request ends with Get for its answer, which looks for a certificate too;
\* that changes nothing where there is none of an older version.
Answering == [IdleReq EXCEPT !.pc = IF legacyTLS THEN "checkTLS" ELSE "done"]

TypeOK ==
    /\ config \in Configs /\ tls \in Certificates /\ legacyTLS \in BOOLEAN
    /\ inner \in {"ClusterIP", "LoadBalancer"}
    /\ external \in Services /\ status \in Phases \union {"none"}
    /\ site \in Ingresses /\ redirect \in Hosts \union {NoHost} /\ middleware \in BOOLEAN
    /\ work \in [Workers -> Passes] /\ active \subseteq Workers
    /\ req \in [Reqs -> Requests]
    /\ faults \in Nat /\ removed \in BOOLEAN /\ uploaded \in Certificates

Init ==
    /\ \E seed \in Seeds : /\ config = seed.config /\ legacyTLS = seed.legacyTLS
                           /\ inner = seed.inner /\ active = seed.active
    /\ tls = "none"
    /\ external = NoService
    /\ status = "none"
    /\ site = NoIngress /\ redirect = NoHost /\ middleware = FALSE
    /\ work = [w \in Workers |-> NoPass]
    /\ req = [r \in Reqs |-> IdleReq]
    /\ faults = 0 /\ removed = FALSE /\ uploaded = "none"

(***************************************************************************)
(* A pass.  Events and the resync every 30 s start one at any time; the    *)
(* initial one runs once.                                                  *)
(***************************************************************************)
To(w, next) == work' = [work EXCEPT ![w] = next]
Goto(w, label) == To(w, [work[w] EXCEPT !.pc = label])
Initial(w) == w \in {"exposureInitial", "ingressInitial"}
Finished(w) == IF Initial(w) THEN [NoPass EXCEPT !.pc = "done"] ELSE NoPass
Finish(w) == To(w, Finished(w))

\* Only what the pass will look at is kept.
ReadConfig(w) ==
    /\ w \in active /\ work[w].pc = "start"
    /\ w = "exposureService" => external.known
    /\ w = "ingressTLS" => tls # "none"
    /\ IF w \in Exposers
       THEN To(w, [NoPass EXCEPT !.pc = "inner", !.read.enabled = config.enabled, !.read.port = config.port])
       ELSE To(w, [NoPass EXCEPT !.pc = IF config.host = NoHost THEN "site" ELSE "tls",
                                 !.read.host = config.host, !.read.force = config.force])
    /\ UNCHANGED <<settings, objects, active, faults>>

(***************************************************************************)
(* ReconcileKiteGatewayExposureFromConfigMap.                              *)
(***************************************************************************)
\* normalizeInternalGatewayService, for installations that exposed it.
NormalizeInner(w) ==
    /\ work[w].pc = "inner"
    /\ Goto(w, IF inner = "ClusterIP" THEN "service" ELSE "patchInner")
    /\ UNCHANGED <<settings, objects, active, faults>>

\* When another pass has patched it first, a node port that the JSON patch
\* removes may be gone, and then the patch is refused.
PatchInner(w) ==
    /\ work[w].pc = "patchInner"
    /\ inner' = "ClusterIP"
    /\ \/ Goto(w, "service")
       \/ inner = "ClusterIP" /\ To(w, [work[w] EXCEPT !.pc = "statusGet", !.phase = "Failed"])
    /\ UNCHANGED <<settings, external, status, site, redirect, middleware, active, faults>>

Blocked(read) == read.enabled /\ read.port = NoPort
Absent == [external EXCEPT !.exists = FALSE, !.port = NoPort, !.lb = FALSE]

\* Mutant: only a gateway without a port loses its Service.
ReconcileServiceKeep(w) ==
    LET read == work[w].read
    IN  /\ work[w].pc = "service"
        /\ IF read.enabled /\ ~Blocked(read)
           THEN /\ external' = [external EXCEPT !.exists = TRUE, !.known = TRUE, !.port = read.port]
                /\ Goto(w, "observe")
           ELSE /\ external' = IF Blocked(read) THEN Absent ELSE external
                /\ To(w, [work[w] EXCEPT !.pc = "statusGet",
                                         !.phase = IF Blocked(read) THEN "Blocked" ELSE "Disabled"])
        /\ UNCHANGED <<settings, inner, status, site, redirect, middleware, active, faults>>

\* The Service is deleted, or applied with the port; a load balancer that
\* it has stays.
ReconcileService(w) ==
    LET read == work[w].read
    IN  /\ work[w].pc = "service"
        /\ IF read.enabled /\ ~Blocked(read)
           THEN /\ external' = [external EXCEPT !.exists = TRUE, !.known = TRUE, !.port = read.port]
                /\ Goto(w, "observe")
           ELSE /\ external' = Absent
                /\ To(w, [work[w] EXCEPT !.pc = "statusGet",
                                         !.phase = IF Blocked(read) THEN "Blocked" ELSE "Disabled"])
        /\ UNCHANGED <<settings, inner, status, site, redirect, middleware, active, faults>>

\* Mutant: the reason, which is none of the phases.
ObservePending(w) ==
    /\ work[w].pc = "observe"
    /\ To(w, [work[w] EXCEPT !.pc = "statusGet",
                !.phase = CASE ~external.exists -> "Failed"
                            [] external.exists /\ external.lb -> "Ready"
                            [] OTHER -> "ServicePending"])
    /\ UNCHANGED <<settings, objects, active, faults>>

\* externalGatewayServiceStatus; another pass may have deleted the Service.
Observe(w) ==
    /\ work[w].pc = "observe"
    /\ To(w, [work[w] EXCEPT !.pc = "statusGet",
                !.phase = CASE ~external.exists -> "Failed"
                            [] external.exists /\ external.lb -> "Ready"
                            [] OTHER -> "Reconciling"])
    /\ UNCHANGED <<settings, objects, active, faults>>

\* WriteSSHGatewayStatus: read for the resource version, then write or create.
StatusGet(w) ==
    /\ work[w].pc = "statusGet"
    /\ To(w, [work[w] EXCEPT !.pc = "statusWrite", !.current = TRUE])
    /\ UNCHANGED <<settings, objects, active, faults>>

StatusWrite(w) ==
    /\ work[w].pc = "statusWrite"
    /\ IF work[w].current
       THEN /\ status' = work[w].phase
            /\ work' = [v \in Workers |-> IF v = w THEN Finished(w)
                                         ELSE [work[v] EXCEPT !.current = FALSE]]
       ELSE Finish(w) /\ UNCHANGED status
    /\ UNCHANGED <<settings, inner, external, site, redirect, middleware, active, faults>>

(***************************************************************************)
(* ReconcileKitePlatformIngressFromConfigMap.                              *)
(***************************************************************************)
\* After HasTLSCertificate.  No redirect to HTTPS without a certificate.
WithTLS(w, has) ==
    LET force == work[w].read.force
    IN  IF force /\ ~has
        THEN Finished(w)
        ELSE [work[w] EXCEPT !.pc = IF force THEN "middleware" ELSE "site", !.secure = has]

HasTLS(w) ==
    /\ work[w].pc = "tls"
    /\ To(w, CASE tls # "none" -> WithTLS(w, TRUE)
               [] tls = "none" /\ legacyTLS -> [work[w] EXCEPT !.pc = "migrate"]
               [] OTHER -> WithTLS(w, FALSE))
    /\ UNCHANGED <<settings, objects, active, faults>>

\* Mutant: the older certificate is applied, not created.
MigratedApply == "legacy"

\* migrateLegacyTLSCertificate: a create, and AlreadyExists is fine.
Migrated == IF tls = "none" THEN "legacy" ELSE tls

MigrateTLS(w) ==
    /\ work[w].pc = "migrate"
    /\ tls' = Migrated
    /\ To(w, WithTLS(w, TRUE))
    /\ UNCHANGED <<config, legacyTLS, req, removed, uploaded, objects, active, faults>>

ApplyMiddleware(w) ==
    /\ work[w].pc = "middleware"
    /\ middleware' = TRUE
    /\ Goto(w, "redirect")
    /\ UNCHANGED <<settings, inner, external, status, site, redirect, active, faults>>

ApplyRedirect(w) ==
    /\ work[w].pc = "redirect"
    /\ redirect' = work[w].read.host
    /\ Goto(w, "site")
    /\ UNCHANGED <<settings, inner, external, status, site, middleware, active, faults>>

\* Mutant: a redirect that is there stays.
ApplySiteOnly(w) ==
    LET read == work[w].read
    IN  /\ work[w].pc = "site"
        /\ site' = [host |-> read.host, force |-> read.force /\ read.host # NoHost, secure |-> work[w].secure]
        /\ Finish(w)
        /\ UNCHANGED <<settings, inner, external, status, redirect, middleware, active, faults>>

\* The default Ingress, without a host, has neither redirect nor certificate.
ApplySite(w) ==
    LET read == work[w].read
        forced == read.force /\ read.host # NoHost
    IN  /\ work[w].pc = "site"
        /\ site' = [host |-> read.host, force |-> forced, secure |-> work[w].secure]
        /\ IF forced THEN Finish(w) ELSE Goto(w, "dropRedirect")
        /\ UNCHANGED <<settings, inner, external, status, redirect, middleware, active, faults>>

DropRedirect(w) ==
    /\ work[w].pc = "dropRedirect"
    /\ redirect' = NoHost
    /\ Goto(w, "dropMiddleware")
    /\ UNCHANGED <<settings, inner, external, status, site, middleware, active, faults>>

\* Best effort.
DropMiddleware(w) ==
    /\ work[w].pc = "dropMiddleware"
    /\ middleware' = FALSE
    /\ Finish(w)
    /\ UNCHANGED <<settings, inner, external, status, site, redirect, active, faults>>

\* A call fails.  The exposure pass writes that down, unless it was the
\* status it could not write; there is no retry before the next event.
Fail(w) ==
    /\ work[w].pc \notin {"start", "done"} /\ faults < MaxFaults
    /\ faults' = faults + 1
    /\ To(w, IF work[w].pc \in {"inner", "patchInner", "service", "observe"}
             THEN [work[w] EXCEPT !.pc = "statusGet", !.phase = "Failed"]
             ELSE Finished(w))
    /\ UNCHANGED <<settings, objects, active>>

PassStep(w) ==
    \/ NormalizeInner(w) \/ PatchInner(w) \/ ReconcileService(w) \/ Observe(w)
    \/ StatusGet(w) \/ StatusWrite(w)
    \/ HasTLS(w) \/ MigrateTLS(w) \/ ApplyMiddleware(w) \/ ApplyRedirect(w) \/ ApplySite(w)
    \/ DropRedirect(w) \/ DropMiddleware(w)

(***************************************************************************)
(* Admin requests.                                                         *)
(***************************************************************************)
ToReq(r, next) == req' = [req EXCEPT ![r] = next]

UpdateBaseDomain(r, h) ==
    /\ req[r].pc = "idle"
    /\ config' = [config EXCEPT !.host = h]
    /\ ToReq(r, Answering)
    /\ UNCHANGED <<tls, legacyTLS, removed, uploaded, objects, work, active, faults>>

\* NormalizeSSHGatewayDesired refuses to enable it without a port.
UpdateSSHGateway(r, enabled, port) ==
    /\ req[r].pc = "idle" /\ (enabled => port # NoPort)
    /\ config' = [config EXCEPT !.enabled = enabled, !.port = port]
    /\ ToReq(r, Answering)
    /\ UNCHANGED <<tls, legacyTLS, removed, uploaded, objects, work, active, faults>>

\* UpdateForceHTTPS looks for a certificate before it writes.
UpdateForceHTTPS(r, set) ==
    /\ req[r].pc = "idle" /\ set \in {"force", "unforce"}
    /\ ToReq(r, [IdleReq EXCEPT !.pc = IF set = "force" THEN "checkTLS" ELSE "write", !.set = set])
    /\ UNCHANGED <<config, tls, legacyTLS, removed, uploaded, objects, work, active, faults>>

\* The settings are asked for.
GetSettings(r) ==
    /\ req[r].pc = "idle"
    /\ ToReq(r, Answering)
    /\ UNCHANGED <<config, tls, legacyTLS, removed, uploaded, objects, work, active, faults>>

\* With a certificate, the request that forces HTTPS goes on to write.
WithCertificate(r) == IF req[r].set = "force" THEN [req[r] EXCEPT !.pc = "write"] ELSE Answered

\* Mutant: an older certificate counts before it is migrated.
CheckTLSLegacy(r) ==
    /\ req[r].pc = "checkTLS"
    /\ ToReq(r, IF tls # "none" \/ legacyTLS THEN WithCertificate(r) ELSE Answered)
    /\ UNCHANGED <<config, tls, legacyTLS, removed, uploaded, objects, work, active, faults>>

\* HasTLSCertificate, of UpdateForceHTTPS or of Get.
CheckTLS(r) ==
    /\ req[r].pc = "checkTLS"
    /\ ToReq(r, CASE tls # "none" -> WithCertificate(r)
                  [] tls = "none" /\ legacyTLS -> [req[r] EXCEPT !.pc = "migrate"]
                  [] OTHER -> Answered)
    /\ UNCHANGED <<config, tls, legacyTLS, removed, uploaded, objects, work, active, faults>>

CheckMigrates(r) ==
    /\ req[r].pc = "migrate"
    /\ tls' = Migrated
    /\ ToReq(r, WithCertificate(r))
    /\ UNCHANGED <<config, legacyTLS, removed, uploaded, objects, work, active, faults>>

WriteForceHTTPS(r) ==
    /\ req[r].pc = "write"
    /\ config' = [config EXCEPT !.force = req[r].set = "force"]
    /\ ToReq(r, Answering)
    /\ UNCHANGED <<tls, legacyTLS, removed, uploaded, objects, work, active, faults>>

\* UpdateTLSCertificate reads the Secret, and creates it or updates the
\* version that it has read.
UploadTLS(r) ==
    /\ req[r].pc = "idle"
    /\ ToReq(r, [IdleReq EXCEPT !.pc = "storeTLS", !.sees = tls])
    /\ UNCHANGED <<config, tls, legacyTLS, removed, uploaded, objects, work, active, faults>>

StoreTLS(r) ==
    /\ req[r].pc = "storeTLS"
    /\ IF tls = req[r].sees
       THEN tls' = r /\ uploaded' = r /\ ToReq(r, Answering)
       ELSE UNCHANGED <<tls, uploaded>> /\ ToReq(r, Answered)
    /\ UNCHANGED <<config, legacyTLS, removed, objects, work, active, faults>>

\* Bound: only requests for what a running reconciler reads.
RequestStep(r) ==
    \/ /\ active \intersect Exposers # {}
       /\ \E enabled \in BOOLEAN, port \in Ports \union {NoPort} : UpdateSSHGateway(r, enabled, port)
    \/ /\ active \intersect Ingressers # {}
       /\ \/ \E h \in Hosts : UpdateBaseDomain(r, h)
          \/ \E set \in {"force", "unforce"} : UpdateForceHTTPS(r, set)
          \/ UploadTLS(r) \/ GetSettings(r)
    \/ CheckTLS(r) \/ CheckMigrates(r) \/ WriteForceHTTPS(r) \/ StoreTLS(r)

(***************************************************************************)
(* The cluster.                                                            *)
(***************************************************************************)
\* The load balancer controller gives the Service an address.
LoadBalancer ==
    /\ external.exists /\ ~external.lb
    /\ external' = [external EXCEPT !.lb = TRUE]
    /\ UNCHANGED <<settings, inner, status, site, redirect, middleware, work, active, faults>>

\* An operator removes the certificate; no code of Kite does.
RemoveTLS ==
    /\ tls # "none" /\ faults < MaxFaults
    /\ faults' = faults + 1
    /\ tls' = "none" /\ uploaded' = "none" /\ removed' = TRUE
    /\ UNCHANGED <<config, legacyTLS, req, objects, work, active>>

Next ==
    \/ \E w \in Workers : ReadConfig(w) \/ PassStep(w) \/ Fail(w)
    \/ \E r \in Reqs : RequestStep(r)
    \/ LoadBalancer \/ RemoveTLS

\* Handlers run, and the resync comes.
Fairness == \A w \in Workers : WF_vars(ReadConfig(w)) /\ WF_vars(PassStep(w))

Spec == Init /\ [][Next]_vars /\ Fairness

(***************************************************************************)
(* Properties.                                                             *)
(***************************************************************************)
\* Whoever is redirected to HTTPS, or is told so by the settings, finds a
\* certificate, unless an operator has removed it.
ForcedHasCertificate ==
    (config.force \/ redirect # NoHost) /\ ~removed => tls # "none"

\* A certificate that an admin was told is stored is not replaced by the one
\* of an older version that the controller or another request migrates.
UploadKept == uploaded # "none" => tls = uploaded

\* Why they hold: who is about to force HTTPS, or to redirect, has seen a
\* certificate, and only an operator takes it away.
Covered ==
    /\ config.force \/ redirect # NoHost => tls # "none"
    /\ \A r \in Reqs : req[r].pc = "write" /\ req[r].set = "force" => tls # "none"
    /\ \A w \in Workers : work[w].pc \in {"middleware", "redirect"} => tls # "none"

\* The inductive invariant that the two properties follow from.
Inductive == TypeOK /\ UploadKept /\ (~removed => Covered)

\* However three passes with different settings interleave, fail or write the
\* status after each other, Service and status end as the last settings say.
ExposureSettled ==
    /\ inner = "ClusterIP"
    /\ external.exists = (config.enabled /\ ~Blocked(config))
    /\ external.exists => external.port = config.port
    /\ status = CASE Blocked(config) -> "Blocked"
                        [] ~config.enabled -> "Disabled"
                        [] external.lb -> "Ready"
                        [] OTHER -> "Reconciling"
ExposureConverges == "exposureConfig" \in active => <>[]ExposureSettled

\* The same of the Ingresses; settings that ask for HTTPS without a
\* certificate leave them as they are.
IngressSettled ==
    LET forced == config.force /\ config.host # NoHost
    IN  /\ site = [host |-> config.host, force |-> forced,
                   secure |-> config.host # NoHost /\ tls # "none"]
        /\ redirect = IF forced THEN config.host ELSE NoHost
        /\ forced => middleware
IngressConverges ==
    "ingressConfig" \in active =>
        <>[](IngressSettled \/ (config.force /\ config.host # NoHost /\ tls = "none"))
=============================================================================
