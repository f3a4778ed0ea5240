----------------------------- MODULE KiteConfig -----------------------------
(***************************************************************************)
(* The runtime configuration: ConfigMap kite-runtime-config with the       *)
(* settings, Secret kite-runtime-secret with the JWT secret and the        *)
(* password salt.  Every kite-api creates or repairs them when it starts   *)
(* (Bootstrap), moving secrets out of the ConfigMap where an older version *)
(* kept them; admin requests change settings and rotate secrets; and       *)
(* kite-gateway only loads them.  One action is one call to the API        *)
(* server.  Every update carries the resource version of the read before.  *)
(*                                                                         *)
(* Left out: values that a request rejects before it reads, and the token  *)
(* TTL, which is read and never written.                                   *)
(***************************************************************************)
EXTENDS Naturals

CONSTANTS
    Apis,      \* kite-api processes: two in a rolling update
    Reqs,      \* admin requests
    Seeds,     \* [cm, secret] to start from
    MaxFaults  \* bound: failed calls and crashes

ASSUME FaultsAssumption == MaxFaults \in Nat

VARIABLES
    nsExists,  \* the kite namespace
    cm,        \* kite-runtime-config
    secret,    \* kite-runtime-secret
    api,       \* what each kite-api has read, and its next call
    gateway,   \* the secrets that kite-gateway runs with
    req,       \* what each admin request has read, and its next call
    fresh,     \* the next value of GenerateSecret
    faults,
    last,      \* ghost: the request that wrote a setting last
    started    \* ghost: the values of a secret that processes started with since its rotation

vars == <<nsExists, cm, secret, api, gateway, req, fresh, faults, last, started>>

\* The three sshGateway keys are written and read together.
Settings == {"baseDomain", "forceHttps", "sshGateway"}
SecretKeys == {"jwtSecret", "passwordSalt"}

\* Of a setting it matters which request wrote it; 0 is a missing secret.
Values == Reqs \union {"unset", "default"}
Secrets == [SecretKeys -> Nat]
NoSecrets == [k \in SecretKeys |-> 0]

ConfigMaps == [exists : BOOLEAN, rv : Nat, data : [Settings -> Values], legacy : Secrets]
RuntimeSecrets == [exists : BOOLEAN, rv : Nat, data : Secrets]

ASSUME ConfigSeedsAssumption ==
    /\ {"unset", "default"} \intersect Reqs = {}
    /\ Seeds \subseteq [cm : ConfigMaps, secret : RuntimeSecrets]
    /\ \A seed \in Seeds :
          /\ \A s \in Settings : seed.cm.data[s] \in {"unset", "default"}
          /\ \A k \in SecretKeys :
                \* Values up to 1 are older than what GenerateSecret returns.
                /\ seed.cm.legacy[k] <= 1 /\ seed.secret.data[k] <= 1
                /\ seed.cm.legacy[k] # 0 => seed.cm.exists
                /\ seed.secret.data[k] # 0 => seed.secret.exists

\* rv and data: the ConfigMap as read or written by this process; legacy: the
\* secrets it read there; secretRv: the version of the Secret it read.
Boots == [pc : {"down", "getConfig", "createConfig", "updateConfig",
                "getSecret", "createSecret", "updateSecret", "clear", "run"},
          rv : Nat, data : [Settings -> Values], legacy : Secrets, secretRv : Nat, secret : Secrets]
Down == [pc |-> "down", rv |-> 0, data |-> [s \in Settings |-> "unset"], legacy |-> NoSecrets,
         secretRv |-> 0, secret |-> NoSecrets]

Requests == [pc : {"idle", "write", "rotate", "done"}, rv : Nat,
             data : [Settings -> Values], legacy : Secrets, secret : Secrets,
             set : Settings \union {"none"}, keys : SUBSET SecretKeys]
IdleReq == [pc |-> "idle", rv |-> 0, data |-> [s \in Settings |-> "unset"], legacy |-> NoSecrets,
            secret |-> NoSecrets, set |-> "none", keys |-> {}]
Answered == [IdleReq EXCEPT !.pc = "done"]

TypeOK ==
    /\ nsExists \in BOOLEAN /\ cm \in ConfigMaps /\ secret \in RuntimeSecrets
    /\ api \in [Apis -> Boots] /\ gateway \in Secrets
    /\ req \in [Reqs -> Requests]
    /\ fresh \in Nat /\ faults \in Nat
    /\ last \in [Settings -> Reqs \union {"default"}]
    /\ started \in [SecretKeys -> SUBSET Nat]

\* The version before this one started with the secrets in the ConfigMap.
Init ==
    /\ \E seed \in Seeds : cm = seed.cm /\ secret = seed.secret
    /\ nsExists = (cm.exists \/ secret.exists)
    /\ api = [p \in Apis |-> Down]
    /\ gateway = NoSecrets
    /\ req = [r \in Reqs |-> IdleReq]
    /\ fresh = 2
    /\ faults = 0
    /\ last = [s \in Settings |-> "default"]
    /\ started = [k \in SecretKeys |->
                    {IF secret.data[k] # 0 THEN secret.data[k] ELSE cm.legacy[k]} \ {0}]

(***************************************************************************)
(* Bootstrap.  An error ends the process, which is started again.          *)
(***************************************************************************)
To(p, next) == api' = [api EXCEPT ![p] = next]

\* Mutant: a namespace that is there already is an error.
EnsureNamespaceNew(p) ==
    /\ api[p].pc = "down"
    /\ nsExists' = TRUE
    /\ To(p, IF nsExists THEN Down ELSE [Down EXCEPT !.pc = "getConfig"])
    /\ UNCHANGED <<cm, secret, gateway, req, fresh, faults, last, started>>

EnsureNamespace(p) ==
    /\ api[p].pc = "down"
    /\ nsExists' = TRUE
    /\ To(p, [Down EXCEPT !.pc = "getConfig"])
    /\ UNCHANGED <<cm, secret, gateway, req, fresh, faults, last, started>>

\* defaultRuntimeData has no baseDomain.
Defaulted == Settings \ {"baseDomain"}
NormalizedRuntimeData(data) ==
    [s \in Settings |-> IF s \in Defaulted /\ data[s] = "unset" THEN "default" ELSE data[s]]

GetConfig(p) ==
    /\ api[p].pc = "getConfig"
    /\ LET next == NormalizedRuntimeData(cm.data)
       IN  To(p, IF ~cm.exists
                 THEN [api[p] EXCEPT !.pc = "createConfig"]
                 ELSE [api[p] EXCEPT !.pc = IF next # cm.data THEN "updateConfig" ELSE "getSecret",
                                     !.rv = cm.rv, !.data = next, !.legacy = cm.legacy])
    /\ UNCHANGED <<nsExists, cm, secret, gateway, req, fresh, faults, last, started>>

CreateConfig(p) ==
    LET data == NormalizedRuntimeData(Down.data)
    IN  /\ api[p].pc = "createConfig"
        /\ IF cm.exists
           THEN To(p, Down) /\ UNCHANGED cm
           ELSE /\ cm' = [exists |-> TRUE, rv |-> cm.rv + 1, data |-> data, legacy |-> NoSecrets]
                /\ To(p, [api[p] EXCEPT !.pc = "getSecret", !.rv = cm.rv + 1, !.data = data])
        /\ UNCHANGED <<nsExists, secret, gateway, req, fresh, faults, last, started>>

\* The legacy secrets are still in the copy.
UpdateConfig(p) ==
    /\ api[p].pc = "updateConfig"
    /\ IF cm.rv # api[p].rv
       THEN To(p, Down) /\ UNCHANGED cm
       ELSE /\ cm' = [cm EXCEPT !.rv = @ + 1, !.data = api[p].data, !.legacy = api[p].legacy]
            /\ To(p, [api[p] EXCEPT !.pc = "getSecret", !.rv = cm.rv + 1])
    /\ UNCHANGED <<nsExists, secret, gateway, req, fresh, faults, last, started>>

\* Mutant: what the ConfigMap had is not taken over.
DefaultRuntimeSecretDataNew(legacy) == [k \in SecretKeys |-> fresh]

\* defaultRuntimeSecretData: generated, unless the ConfigMap had it.
DefaultRuntimeSecretData(legacy) == [k \in SecretKeys |-> IF legacy[k] # 0 THEN legacy[k] ELSE fresh]

\* normalizedRuntimeSecretData fills what is missing.
NormalizedRuntimeSecretData(data, legacy) ==
    [k \in SecretKeys |-> IF data[k] = 0 THEN DefaultRuntimeSecretData(legacy)[k] ELSE data[k]]

Complete(data) == \A k \in SecretKeys : data[k] # 0
StartedWith(data) == started' = [k \in SecretKeys |-> started[k] \union {data[k]}]

GetSecret(p) ==
    /\ api[p].pc = "getSecret"
    /\ \/ /\ ~secret.exists
          /\ To(p, [api[p] EXCEPT !.pc = "createSecret"])
          /\ UNCHANGED <<started, fresh>>
       \/ /\ secret.exists /\ Complete(secret.data)
          /\ To(p, [api[p] EXCEPT !.pc = "clear", !.secret = secret.data])
          /\ StartedWith(secret.data)
          /\ UNCHANGED fresh
       \/ /\ secret.exists /\ ~Complete(secret.data)
          /\ To(p, [api[p] EXCEPT !.pc = "updateSecret", !.secretRv = secret.rv,
                                  !.secret = NormalizedRuntimeSecretData(secret.data, api[p].legacy)])
          /\ fresh' = fresh + 1
          /\ UNCHANGED started
    /\ UNCHANGED <<nsExists, cm, secret, gateway, req, faults, last>>

CreateSecret(p) ==
    LET data == DefaultRuntimeSecretData(api[p].legacy)
    IN  /\ api[p].pc = "createSecret"
        /\ IF secret.exists
           THEN To(p, Down) /\ UNCHANGED <<secret, started>>
           ELSE /\ secret' = [exists |-> TRUE, rv |-> secret.rv + 1, data |-> data]
                /\ To(p, [api[p] EXCEPT !.pc = "clear", !.secret = data])
                /\ StartedWith(data)
        /\ fresh' = fresh + 1
        /\ UNCHANGED <<nsExists, cm, gateway, req, faults, last>>

UpdateSecret(p) ==
    /\ api[p].pc = "updateSecret"
    /\ IF secret.rv # api[p].secretRv
       THEN To(p, Down) /\ UNCHANGED <<secret, started>>
       ELSE /\ secret' = [secret EXCEPT !.rv = @ + 1, !.data = api[p].secret]
            /\ To(p, [api[p] EXCEPT !.pc = "clear"])
            /\ StartedWith(api[p].secret)
    /\ UNCHANGED <<nsExists, cm, gateway, req, fresh, faults, last>>

\* Mutant: only the JWT secret is taken out of the ConfigMap.
WithoutJWTSecret(legacy) == [legacy EXCEPT !["jwtSecret"] = 0]

WithoutLegacySecrets(legacy) == NoSecrets

\* clearLegacyRuntimeConfigSecrets, after the Secret is known to be there.
ClearLegacy(p) ==
    /\ api[p].pc = "clear"
    /\ \/ /\ api[p].legacy = NoSecrets
          /\ To(p, [api[p] EXCEPT !.pc = "run"])
          /\ UNCHANGED cm
       \/ /\ api[p].legacy # NoSecrets /\ cm.rv = api[p].rv
          /\ cm' = [cm EXCEPT !.rv = @ + 1, !.data = api[p].data,
                              !.legacy = WithoutLegacySecrets(api[p].legacy)]
          /\ To(p, [api[p] EXCEPT !.pc = "run"])
       \/ /\ api[p].legacy # NoSecrets /\ cm.rv # api[p].rv
          /\ To(p, Down)
          /\ UNCHANGED cm
    /\ UNCHANGED <<nsExists, secret, gateway, req, fresh, faults, last, started>>

Bootstrap(p) ==
    \/ EnsureNamespace(p) \/ GetConfig(p) \/ CreateConfig(p) \/ UpdateConfig(p)
    \/ GetSecret(p) \/ CreateSecret(p) \/ UpdateSecret(p) \/ ClearLegacy(p)

\* kite-gateway creates and repairs nothing.
Load ==
    /\ cm.exists /\ secret.exists /\ Complete(secret.data)
    /\ gateway # secret.data
    /\ gateway' = secret.data
    /\ StartedWith(secret.data)
    /\ UNCHANGED <<nsExists, cm, secret, api, req, fresh, faults, last>>

(***************************************************************************)
(* Admin requests, which some kite-api serves.                             *)
(***************************************************************************)
ToReq(r, next) == req' = [req EXCEPT ![r] = next]
Serving == \E p \in Apis : api[p].pc = "run"

\* updateRuntimeConfigValue and UpdateSSHGateway read the whole map ...
ReadSettings(r, s) ==
    /\ req[r].pc = "idle" /\ Serving
    /\ ToReq(r, [IdleReq EXCEPT !.pc = "write", !.rv = cm.rv, !.data = cm.data,
                                !.legacy = cm.legacy, !.set = s])
    /\ UNCHANGED <<nsExists, cm, secret, api, gateway, fresh, faults, last, started>>

\* Mutant: the update carries no resource version.
SameVersionAny(rv) == TRUE

\* The API server refuses an update of another version.
SameVersion(rv) == cm.rv = rv

\* ... and write it back.
WriteSettings(r) ==
    LET s == req[r].set
    IN  /\ req[r].pc = "write"
        /\ IF SameVersion(req[r].rv)
           THEN /\ cm' = [cm EXCEPT !.rv = @ + 1, !.data = [req[r].data EXCEPT ![s] = r],
                                    !.legacy = req[r].legacy]
                /\ last' = [last EXCEPT ![s] = r]
           ELSE UNCHANGED <<cm, last>>
        /\ ToReq(r, Answered)
        /\ UNCHANGED <<nsExists, secret, api, gateway, fresh, faults, started>>

\* RotateRuntimeSecrets.
ReadSecrets(r, keys) ==
    /\ req[r].pc = "idle" /\ Serving /\ keys # {}
    /\ ToReq(r, [IdleReq EXCEPT !.pc = "rotate", !.rv = secret.rv, !.secret = secret.data, !.keys = keys])
    /\ UNCHANGED <<nsExists, cm, secret, api, gateway, fresh, faults, last, started>>

RotateSecrets(r) ==
    LET keys == req[r].keys
    IN  /\ req[r].pc = "rotate"
        /\ IF secret.rv = req[r].rv
           THEN /\ secret' = [secret EXCEPT !.rv = @ + 1,
                                !.data = [k \in SecretKeys |-> IF k \in keys THEN fresh ELSE req[r].secret[k]]]
                /\ started' = [k \in SecretKeys |-> IF k \in keys THEN {} ELSE started[k]]
                /\ fresh' = fresh + 1
           ELSE UNCHANGED <<secret, started, fresh>>
        /\ ToReq(r, Answered)
        /\ UNCHANGED <<nsExists, cm, api, gateway, faults, last>>

(***************************************************************************)
(* Faults: a process dies, a call fails; what was written stays.           *)
(***************************************************************************)
Crash(p) ==
    /\ faults < MaxFaults /\ api[p].pc # "down"
    /\ faults' = faults + 1
    /\ To(p, Down)
    /\ UNCHANGED <<nsExists, cm, secret, gateway, req, fresh, last, started>>

FailRequest(r) ==
    /\ req[r].pc \in {"write", "rotate"}
    /\ ToReq(r, Answered)
    /\ UNCHANGED <<nsExists, cm, secret, api, gateway, fresh, faults, last, started>>

Next ==
    \/ \E p \in Apis : Bootstrap(p) \/ Crash(p)
    \/ Load
    \/ \E r \in Reqs :
          \/ \E s \in Settings : ReadSettings(r, s)
          \/ \E keys \in SUBSET SecretKeys : ReadSecrets(r, keys)
          \/ WriteSettings(r) \/ RotateSecrets(r) \/ FailRequest(r)

\* Processes run, and kubelet restarts the ones that ended.
Fairness == \A p \in Apis : WF_vars(Bootstrap(p))

Spec == Init /\ [][Next]_vars /\ Fairness

(***************************************************************************)
(* Properties.                                                             *)
(***************************************************************************)
\* A setting keeps the value of the last request that was told it is stored,
\* though every write, of requests and of starting processes, writes the
\* whole map it read before.
SettingsKept == \A s \in Settings : last[s] # "default" => cm.data[s] = last[s]

\* Between two rotations all processes start with one value of each secret,
\* the one of the older version included: hashes and tokens stay valid over
\* crashes, restarts and the move out of the ConfigMap.
SecretsKept == \A k \in SecretKeys : \A a, b \in started[k] : a = b

\* Once a kite-api serves, no secret is in the ConfigMap, and none comes back
\* with the copy of somebody who read it before.
LegacyGone == Serving => cm.legacy = NoSecrets

\* Every kite-api gets to serve, though the others and the requests make its
\* updates fail.
BootsComplete == \A p \in Apis : <>[](api[p].pc = "run")

-----------------------------------------------------------------------------
(* Why the safety properties hold: the inductive invariant.  Its parts are  *)
(* about a process b or a request q, a ConfigMap c and a Secret x.          *)

Holding == {"updateConfig", "getSecret", "createSecret", "updateSecret", "clear"}
Moving == Holding \ {"clear"}

\* The value a secret has, or will have as soon as the Secret holds it; 0 is
\* one that is still to be generated.
Meant(k, c, x) == IF x.data[k] # 0 THEN x.data[k] ELSE c.legacy[k]

\* A copy of the ConfigMap whose version is current is the ConfigMap.
BootConfig(b, c) ==
    /\ b.pc \in Holding \union {"run"} => c.exists
    /\ b.pc \in Holding => b.rv <= c.rv
    /\ b.pc \in Holding /\ b.rv = c.rv =>
          /\ b.legacy = c.legacy
          /\ b.data = (IF b.pc = "updateConfig" THEN NormalizedRuntimeData(c.data) ELSE c.data)

\* A process that is about to fill a gap in the Secret has read the legacy
\* value that belongs there, and a copy of the Secret whose version is
\* current agrees with what is in it.
BootSecret(b, c, x) ==
    /\ b.pc \in {"getConfig", "createConfig"} => b.legacy = NoSecrets
    /\ b.pc \in Moving => \A k \in SecretKeys : x.data[k] = 0 => b.legacy[k] = c.legacy[k]
    /\ b.pc = "updateSecret" => x.exists /\ b.secretRv <= x.rv
    /\ b.pc = "updateSecret" /\ b.secretRv = x.rv =>
          \A k \in SecretKeys : b.secret[k] # 0 /\ Meant(k, c, x) \in {0, b.secret[k]}
    /\ b.pc \in {"clear", "run"} => Complete(x.data)

\* Who found no secret in the ConfigMap, or cleared it, finds none later.
BootLegacy(b, c) ==
    b.pc = "run" \/ (b.pc \in Holding /\ b.legacy = NoSecrets) => c.legacy = NoSecrets

BootHolds(b, c, x) == BootConfig(b, c) /\ BootSecret(b, c, x) /\ BootLegacy(b, c)

RequestHolds(q, c, x) ==
    /\ q.pc = "write" =>
          /\ c.exists /\ q.set \in Settings /\ q.rv <= c.rv
          /\ q.rv = c.rv => q.data = c.data /\ q.legacy = c.legacy
    /\ q.pc = "rotate" =>
          /\ Complete(x.data) /\ q.rv <= x.rv
          /\ q.rv = x.rv => q.secret = x.data

\* Nothing is in an object that does not exist, and every process started
\* with the value that is meant.
StoreHolds ==
    /\ ~cm.exists => cm.legacy = NoSecrets /\ \A s \in Settings : last[s] = "default"
    /\ ~secret.exists => secret.data = NoSecrets
    /\ fresh >= 2
    /\ \A k \in SecretKeys : started[k] \subseteq {Meant(k, cm, secret)} \ {0}

\* The three safety properties follow from this invariant, which every step
\* of a starting process, a request or a fault keeps.
Inductive ==
    /\ TypeOK /\ SettingsKept /\ StoreHolds
    /\ \A p \in Apis : BootHolds(api[p], cm, secret)
    /\ \A r \in Reqs : RequestHolds(req[r], cm, secret)
=============================================================================
