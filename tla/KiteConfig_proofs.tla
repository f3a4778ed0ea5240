-------------------------- MODULE KiteConfig_proofs --------------------------
(***************************************************************************)
(* Proof that settings, secrets and the move of the secrets are safe for   *)
(* any number of kite-api processes and requests, any seeds and any number *)
(* of faults.                                                              *)
(***************************************************************************)
EXTENDS KiteConfig, TLAPS

\* A write of the ConfigMap outdates every copy, and keeps the legacy secrets
\* unless the Secret has taken them over.
LEMMA ConfigWritten ==
    ASSUME NEW c \in ConfigMaps, NEW d \in ConfigMaps, NEW x \in RuntimeSecrets,
           c.exists, d.exists, d.rv = c.rv + 1,
           d.legacy = c.legacy \/ (Complete(x.data) /\ d.legacy = NoSecrets)
    PROVE  /\ \A b \in Boots : BootHolds(b, c, x) => BootHolds(b, d, x)
           /\ \A q \in Requests : RequestHolds(q, c, x) => RequestHolds(q, d, x)
<1>1. ASSUME NEW b \in Boots, BootHolds(b, c, x) PROVE BootHolds(b, d, x)
  <2>1. BootConfig(b, d)
    BY <1>1 DEF BootHolds, BootConfig, ConfigMaps, Boots
  <2>2. BootSecret(b, d, x)
    BY <1>1 DEF BootHolds, BootSecret, Meant, Complete, ConfigMaps, Boots, NoSecrets, Moving, Holding
  <2>3. BootLegacy(b, d)
    BY <1>1 DEF BootHolds, BootLegacy
  <2>4. QED  BY <2>1, <2>2, <2>3 DEF BootHolds
<1>2. ASSUME NEW q \in Requests, RequestHolds(q, c, x) PROVE RequestHolds(q, d, x)
  BY <1>2 DEF RequestHolds, ConfigMaps, Requests
<1>3. QED  BY <1>1, <1>2

\* A write of the Secret outdates every copy, and fills gaps only.
LEMMA SecretWritten ==
    ASSUME NEW c \in ConfigMaps, NEW x \in RuntimeSecrets, NEW y \in RuntimeSecrets,
           y.exists, y.rv = x.rv + 1, \A k \in SecretKeys : x.data[k] # 0 => y.data[k] # 0
    PROVE  /\ \A b \in Boots : BootHolds(b, c, x) => BootHolds(b, c, y)
           /\ \A q \in Requests : RequestHolds(q, c, x) => RequestHolds(q, c, y)
<1>1. ASSUME NEW b \in Boots, BootHolds(b, c, x) PROVE BootHolds(b, c, y)
  BY <1>1 DEF BootHolds, BootSecret, Complete, RuntimeSecrets, Boots
<1>2. ASSUME NEW q \in Requests, RequestHolds(q, c, x) PROVE RequestHolds(q, c, y)
  BY <1>2 DEF RequestHolds, Complete, RuntimeSecrets, Requests
<1>3. QED  BY <1>1, <1>2

LEMMA DownHolds ==
    /\ Down \in Boots
    /\ \A c \in ConfigMaps, x \in RuntimeSecrets : BootHolds(Down, c, x)
BY DEF Down, Boots, Values, Secrets, NoSecrets, BootHolds, BootConfig, BootSecret, BootLegacy,
       Holding, Moving

\* A step of a process that leaves the two objects alone.
LEMMA ProcessMoves ==
    ASSUME Inductive, NEW p \in Apis, NEW n, n \in Boots, To(p, n), BootHolds(n, cm, secret),
           nsExists' \in BOOLEAN, faults' \in Nat, fresh' \in {fresh, fresh + 1},
           UNCHANGED <<cm, secret, gateway, req, last, started>>
    PROVE  Inductive'
<1>1. api' \in [Apis -> Boots] /\ \A q \in Apis : api'[q] = IF q = p THEN n ELSE api[q]
    BY DEF Inductive, TypeOK, To
<1>2. TypeOK'
    BY <1>1 DEF Inductive, TypeOK
<1>3. StoreHolds'
    BY DEF Inductive, TypeOK, StoreHolds, Meant
<1>4. SettingsKept'
    BY DEF Inductive, SettingsKept
<1>5. \A q \in Apis : BootHolds(api'[q], cm', secret')
    BY <1>1 DEF Inductive
<1>6. QED
    BY <1>2, <1>3, <1>4, <1>5 DEF Inductive

\* A step of a process that starts with the values in the Secret.
LEMMA ProcessReadsSecret ==
    ASSUME Inductive, NEW p \in Apis, NEW n, n \in Boots, To(p, n), BootHolds(n, cm, secret),
           Complete(secret.data), StartedWith(secret.data),
           UNCHANGED <<nsExists, cm, secret, gateway, req, fresh, faults, last>>
    PROVE  Inductive'
<1>1. api' \in [Apis -> Boots] /\ \A q \in Apis : api'[q] = IF q = p THEN n ELSE api[q]
    BY DEF Inductive, TypeOK, To
<1>2. /\ started' \in [SecretKeys -> SUBSET Nat]
      /\ \A k \in SecretKeys : started'[k] \subseteq {Meant(k, cm, secret)} \ {0}
  <2>1. started \in [SecretKeys -> SUBSET Nat] /\ secret.data \in [SecretKeys -> Nat]
    BY DEF Inductive, TypeOK, RuntimeSecrets, Secrets
  <2>2. \A k \in SecretKeys : started'[k] = started[k] \union {secret.data[k]}
    BY DEF StartedWith
  <2>3. \A k \in SecretKeys : secret.data[k] # 0 /\ Meant(k, cm, secret) = secret.data[k]
    BY DEF Complete, Meant
  <2>4. started' \in [SecretKeys -> SUBSET Nat]
    BY <2>1 DEF StartedWith
  <2>5. QED
    BY <2>2, <2>3, <2>4 DEF Inductive, StoreHolds
<1>3. TypeOK'
    BY <1>1, <1>2 DEF Inductive, TypeOK
<1>4. StoreHolds'
    BY <1>2 DEF Inductive, StoreHolds, Meant
<1>5. SettingsKept'
    BY DEF Inductive, SettingsKept
<1>6. \A q \in Apis : BootHolds(api'[q], cm', secret')
    BY <1>1 DEF Inductive
<1>7. QED
    BY <1>3, <1>4, <1>5, <1>6 DEF Inductive

LEMMA EnsureNamespaceKeeps ==
    ASSUME Inductive, NEW p \in Apis, EnsureNamespace(p)
    PROVE  Inductive'
<1> DEFINE n == [Down EXCEPT !.pc = "getConfig"]
<1>1. n \in Boots /\ BootHolds(n, cm, secret)
    BY DEF Down, Boots, Values, Secrets, NoSecrets, BootHolds, BootConfig, BootSecret, BootLegacy,
           Holding, Moving
<1>2. QED
    BY <1>1, ProcessMoves DEF EnsureNamespace, Inductive, TypeOK

LEMMA GetConfigKeeps ==
    ASSUME Inductive, NEW p \in Apis, GetConfig(p)
    PROVE  Inductive'
<1> DEFINE next == NormalizedRuntimeData(cm.data)
           a == [api[p] EXCEPT !.pc = "createConfig"]
           b == [api[p] EXCEPT !.pc = IF next # cm.data THEN "updateConfig" ELSE "getSecret",
                               !.rv = cm.rv, !.data = next, !.legacy = cm.legacy]
<1>1. api[p] \in Boots /\ cm \in ConfigMaps /\ api[p].pc = "getConfig" /\ BootHolds(api[p], cm, secret)
    BY DEF Inductive, TypeOK, GetConfig
<1>2. CASE ~cm.exists
  <2>1. a \in Boots /\ BootHolds(a, cm, secret)
    BY <1>1, <1>2 DEF Boots, BootHolds, BootConfig, BootSecret, BootLegacy, Holding, Moving
  <2>2. QED
    BY <2>1, <1>2, ProcessMoves DEF GetConfig, Inductive, TypeOK
<1>3. CASE cm.exists
  <2>1. next \in [Settings -> Values]
    BY <1>1 DEF ConfigMaps, NormalizedRuntimeData, Values
  <2>2. b \in Boots
    BY <1>1, <2>1 DEF Boots, ConfigMaps
  <2>3. BootHolds(b, cm, secret)
    BY <1>1, <1>3, <2>1 DEF Boots, ConfigMaps, BootHolds, BootConfig, BootSecret, BootLegacy, Holding, Moving
  <2>4. QED
    BY <2>2, <2>3, <1>3, ProcessMoves DEF GetConfig, Inductive, TypeOK
<1>4. QED  BY <1>2, <1>3

LEMMA CrashKeeps ==
    ASSUME Inductive, NEW p \in Apis, Crash(p)
    PROVE  Inductive'
BY DownHolds, ProcessMoves DEF Crash, Inductive, TypeOK

\* A step of a process that writes the ConfigMap it has read, or creates it.
LEMMA ProcessWritesConfig ==
    ASSUME Inductive, NEW p \in Apis, NEW n, n \in Boots, To(p, n), BootHolds(n, cm', secret),
           cm' \in ConfigMaps, cm'.exists, cm'.rv = cm.rv + 1,
           \/ cm.exists /\ cm'.data \in {cm.data, NormalizedRuntimeData(cm.data)}
           \/ ~cm.exists,
           cm'.legacy = cm.legacy \/ (Complete(secret.data) /\ cm'.legacy = NoSecrets),
           UNCHANGED <<nsExists, secret, gateway, req, fresh, faults, last, started>>
    PROVE  Inductive'
<1>0. cm \in ConfigMaps /\ secret \in RuntimeSecrets /\ api \in [Apis -> Boots] /\ req \in [Reqs -> Requests]
    BY DEF Inductive, TypeOK
<1>1. api' \in [Apis -> Boots] /\ \A q \in Apis : api'[q] = IF q = p THEN n ELSE api[q]
    BY DEF Inductive, TypeOK, To
<1>2. TypeOK'
    BY <1>1 DEF Inductive, TypeOK
<1>3. StoreHolds'
    BY <1>0 DEF Inductive, TypeOK, StoreHolds, Meant, Complete, NoSecrets, RuntimeSecrets, Secrets
<1>4. SettingsKept'
  <2>1. CASE cm.exists
    BY <1>0, <2>1, ConfigSeedsAssumption DEF Inductive, TypeOK, SettingsKept, NormalizedRuntimeData, ConfigMaps
  <2>2. CASE ~cm.exists
    BY <2>2 DEF Inductive, SettingsKept, StoreHolds
  <2>3. QED  BY <2>1, <2>2
<1>5. /\ \A q \in Apis : BootHolds(api'[q], cm', secret')
      /\ \A r \in Reqs : RequestHolds(req'[r], cm', secret')
  <2>1. CASE cm.exists
    BY <1>0, <1>1, <2>1, ConfigWritten DEF Inductive
  <2>2. CASE ~cm.exists
    <3>1. ASSUME NEW b \in Boots, BootHolds(b, cm, secret) PROVE BootHolds(b, cm', secret)
      BY <2>2, <3>1 DEF BootHolds, BootConfig, BootSecret, BootLegacy, Holding, Moving
    <3>2. ASSUME NEW q \in Requests, RequestHolds(q, cm, secret) PROVE RequestHolds(q, cm', secret)
      BY <2>2, <3>2 DEF RequestHolds
    <3>3. QED  BY <1>0, <1>1, <3>1, <3>2 DEF Inductive
  <2>3. QED  BY <2>1, <2>2
<1>6. QED
    BY <1>2, <1>3, <1>4, <1>5 DEF Inductive

LEMMA CreateConfigKeeps ==
    ASSUME Inductive, NEW p \in Apis, CreateConfig(p)
    PROVE  Inductive'
<1> DEFINE data == NormalizedRuntimeData(Down.data)
           n == [api[p] EXCEPT !.pc = "getSecret", !.rv = cm.rv + 1, !.data = data]
<1>1. /\ api[p] \in Boots /\ cm \in ConfigMaps /\ secret \in RuntimeSecrets
      /\ api[p].pc = "createConfig" /\ BootHolds(api[p], cm, secret)
    BY DEF Inductive, TypeOK, CreateConfig
<1>2. CASE cm.exists
    BY <1>1, <1>2, DownHolds, ProcessMoves DEF CreateConfig, Inductive, TypeOK
<1>3. CASE ~cm.exists
  <2>1. cm' = [exists |-> TRUE, rv |-> cm.rv + 1, data |-> data, legacy |-> NoSecrets]
        /\ To(p, n) /\ UNCHANGED <<nsExists, secret, gateway, req, fresh, faults, last, started>>
    BY <1>3 DEF CreateConfig
  <2>2. data \in [Settings -> Values] /\ NoSecrets \in Secrets /\ cm.rv + 1 \in Nat
    BY <1>1 DEF Down, NormalizedRuntimeData, Values, NoSecrets, Secrets, ConfigMaps
  <2>3. cm' \in ConfigMaps /\ cm'.exists /\ cm'.rv = cm.rv + 1 /\ cm'.legacy = NoSecrets /\ cm'.data = data
    BY <1>1, <2>1, <2>2 DEF ConfigMaps
  <2>4. cm.legacy = NoSecrets
    BY <1>3 DEF Inductive, StoreHolds
  <2>5. n \in Boots
    BY <1>1, <2>2 DEF Boots
  <2>6. BootHolds(n, cm', secret)
    BY <1>1, <2>3 DEF Boots, ConfigMaps, BootHolds, BootConfig, BootSecret, BootLegacy, Holding, Moving
  <2>7. QED
    BY <1>3, <2>1, <2>3, <2>4, <2>5, <2>6, ProcessWritesConfig
<1>4. QED  BY <1>2, <1>3

LEMMA UpdateConfigKeeps ==
    ASSUME Inductive, NEW p \in Apis, UpdateConfig(p)
    PROVE  Inductive'
<1> DEFINE n == [api[p] EXCEPT !.pc = "getSecret", !.rv = cm.rv + 1]
<1>1. /\ api[p] \in Boots /\ cm \in ConfigMaps /\ secret \in RuntimeSecrets
      /\ api[p].pc = "updateConfig" /\ BootHolds(api[p], cm, secret)
    BY DEF Inductive, TypeOK, UpdateConfig
<1>2. CASE cm.rv # api[p].rv
    BY <1>1, <1>2, DownHolds, ProcessMoves DEF UpdateConfig, Inductive, TypeOK
<1>3. CASE cm.rv = api[p].rv
  <2>1. /\ cm' = [cm EXCEPT !.rv = @ + 1, !.data = api[p].data, !.legacy = api[p].legacy]
        /\ To(p, n) /\ UNCHANGED <<nsExists, secret, gateway, req, fresh, faults, last, started>>
    BY <1>3 DEF UpdateConfig
  <2>2. cm.exists /\ api[p].legacy = cm.legacy /\ api[p].data = NormalizedRuntimeData(cm.data)
    BY <1>1, <1>3 DEF BootHolds, BootConfig, Holding
  <2> cm.rv + 1 \in Nat /\ api[p].data \in [Settings -> Values] /\ api[p].legacy \in Secrets
    BY <1>1 DEF ConfigMaps, Boots
  <2>3. /\ cm' \in ConfigMaps /\ cm'.exists /\ cm'.rv = cm.rv + 1 /\ cm'.legacy = cm.legacy
        /\ cm'.data = api[p].data
    BY <1>1, <2>1, <2>2 DEF ConfigMaps
  <2>4. n \in Boots
    BY <1>1 DEF Boots
  <2>5. BootHolds(n, cm', secret)
    BY <1>1, <2>2, <2>3 DEF Boots, ConfigMaps, BootHolds, BootConfig, BootSecret, BootLegacy, Holding, Moving
  <2>6. QED
    BY <2>1, <2>2, <2>3, <2>4, <2>5, ProcessWritesConfig
<1>4. QED  BY <1>2, <1>3

LEMMA ClearLegacyKeeps ==
    ASSUME Inductive, NEW p \in Apis, ClearLegacy(p)
    PROVE  Inductive'
<1> DEFINE n == [api[p] EXCEPT !.pc = "run"]
<1>1. /\ api[p] \in Boots /\ cm \in ConfigMaps /\ secret \in RuntimeSecrets
      /\ api[p].pc = "clear" /\ BootHolds(api[p], cm, secret)
    BY DEF Inductive, TypeOK, ClearLegacy
<1>2. n \in Boots /\ n.pc = "run"
    BY <1>1 DEF Boots
<1>3. Complete(secret.data) /\ cm.exists
    BY <1>1 DEF BootHolds, BootConfig, BootSecret, Holding
<1>4. CASE api[p].legacy = NoSecrets
  <2>1. BootHolds(n, cm, secret)
    BY <1>1, <1>2, <1>3, <1>4 DEF BootHolds, BootConfig, BootSecret, BootLegacy, Holding, Moving
  <2>2. QED
    BY <1>2, <1>4, <2>1, ProcessMoves DEF ClearLegacy, Inductive, TypeOK
<1>5. CASE api[p].legacy # NoSecrets /\ cm.rv = api[p].rv
  <2>1. /\ cm' = [cm EXCEPT !.rv = @ + 1, !.data = api[p].data, !.legacy = NoSecrets]
        /\ To(p, n) /\ UNCHANGED <<nsExists, secret, gateway, req, fresh, faults, last, started>>
    BY <1>5 DEF ClearLegacy, WithoutLegacySecrets
  <2>2. api[p].data = cm.data
    BY <1>1, <1>5 DEF BootHolds, BootConfig, Holding
  <2> cm.rv + 1 \in Nat /\ cm.data \in [Settings -> Values] /\ NoSecrets \in Secrets
    BY <1>1 DEF ConfigMaps, Secrets, NoSecrets
  <2>3. /\ cm' \in ConfigMaps /\ cm'.exists /\ cm'.rv = cm.rv + 1 /\ cm'.legacy = NoSecrets
        /\ cm'.data = cm.data
    BY <1>1, <1>3, <2>1, <2>2 DEF ConfigMaps
  <2>4. BootHolds(n, cm', secret)
    BY <1>2, <1>3, <2>3 DEF BootHolds, BootConfig, BootSecret, BootLegacy, Holding, Moving
  <2>5. QED
    BY <1>2, <1>3, <2>1, <2>3, <2>4, ProcessWritesConfig
<1>6. CASE api[p].legacy # NoSecrets /\ cm.rv # api[p].rv
    BY <1>1, <1>6, DownHolds, ProcessMoves DEF ClearLegacy, Inductive, TypeOK
<1>7. QED  BY <1>4, <1>5, <1>6

\* A step of a process that fills the Secret with the values that are meant.
LEMMA ProcessWritesSecret ==
    ASSUME Inductive, NEW p \in Apis, NEW n, n \in Boots, To(p, n), BootHolds(n, cm, secret'),
           secret' \in RuntimeSecrets, secret'.exists, secret'.rv = secret.rv + 1,
           Complete(secret'.data), StartedWith(secret'.data),
           \A k \in SecretKeys : Meant(k, cm, secret) \in {0, secret'.data[k]},
           fresh' \in {fresh, fresh + 1},
           UNCHANGED <<nsExists, cm, gateway, req, faults, last>>
    PROVE  Inductive'
<1>0. /\ cm \in ConfigMaps /\ secret \in RuntimeSecrets /\ api \in [Apis -> Boots] /\ req \in [Reqs -> Requests]
      /\ started \in [SecretKeys -> SUBSET Nat] /\ secret'.data \in [SecretKeys -> Nat]
    BY DEF Inductive, TypeOK, RuntimeSecrets, Secrets
<1>1. api' \in [Apis -> Boots] /\ \A q \in Apis : api'[q] = IF q = p THEN n ELSE api[q]
    BY DEF Inductive, TypeOK, To
<1>2. started' \in [SecretKeys -> SUBSET Nat] /\ \A k \in SecretKeys : started'[k] = started[k] \union {secret'.data[k]}
    BY <1>0 DEF StartedWith
<1>3. TypeOK'
    BY <1>1, <1>2 DEF Inductive, TypeOK
<1>4. StoreHolds'
  <2>1. \A k \in SecretKeys : Meant(k, cm', secret') = secret'.data[k] /\ secret'.data[k] # 0
    BY DEF Meant, Complete
  <2>2. \A k \in SecretKeys : started[k] \subseteq {secret'.data[k]}
    BY DEF Inductive, StoreHolds
  <2>3. fresh' >= 2
    BY DEF Inductive, TypeOK, StoreHolds
  <2>4. QED
    BY <1>2, <2>1, <2>2, <2>3 DEF Inductive, StoreHolds
<1>5. SettingsKept'
    BY DEF Inductive, SettingsKept
<1>6. /\ \A q \in Apis : BootHolds(api'[q], cm', secret')
      /\ \A r \in Reqs : RequestHolds(req'[r], cm', secret')
  <2>1. \A k \in SecretKeys : secret.data[k] # 0 => secret'.data[k] # 0
    BY DEF Complete
  <2>2. QED
    BY <1>0, <1>1, <2>1, SecretWritten DEF Inductive
<1>7. QED
    BY <1>3, <1>4, <1>5, <1>6 DEF Inductive

LEMMA GetSecretKeeps ==
    ASSUME Inductive, NEW p \in Apis, GetSecret(p)
    PROVE  Inductive'
<1>1. /\ api[p] \in Boots /\ cm \in ConfigMaps /\ secret \in RuntimeSecrets /\ fresh \in Nat /\ fresh >= 2
      /\ api[p].pc = "getSecret" /\ BootHolds(api[p], cm, secret)
    BY DEF Inductive, TypeOK, StoreHolds, GetSecret
<1>2. CASE ~secret.exists
  <2> DEFINE n == [api[p] EXCEPT !.pc = "createSecret"]
  <2>1. n \in Boots
    BY <1>1 DEF Boots
  <2>2. BootHolds(n, cm, secret)
    BY <1>1 DEF Boots, BootHolds, BootConfig, BootSecret, BootLegacy, Holding, Moving
  <2>3. QED
    BY <1>2, <2>1, <2>2, ProcessMoves DEF GetSecret, Inductive, TypeOK
<1>3. CASE secret.exists /\ Complete(secret.data)
  <2> DEFINE n == [api[p] EXCEPT !.pc = "clear", !.secret = secret.data]
  <2>0. secret.data \in Secrets
    BY <1>1 DEF RuntimeSecrets
  <2>1. n \in Boots
    BY <1>1, <2>0 DEF Boots
  <2>2. BootHolds(n, cm, secret)
    BY <1>1, <1>3 DEF Boots, BootHolds, BootConfig, BootSecret, BootLegacy, Holding, Moving
  <2>3. /\ To(p, n) /\ StartedWith(secret.data)
        /\ UNCHANGED <<nsExists, cm, secret, gateway, req, faults, last, fresh>>
    BY <1>3 DEF GetSecret
  <2>4. QED
    BY <1>3, <2>1, <2>2, <2>3, ProcessReadsSecret
<1>4. CASE secret.exists /\ ~Complete(secret.data)
  <2> DEFINE data == NormalizedRuntimeSecretData(secret.data, api[p].legacy)
             n == [api[p] EXCEPT !.pc = "updateSecret", !.secretRv = secret.rv, !.secret = data]
  <2>1. data \in Secrets
    BY <1>1 DEF NormalizedRuntimeSecretData, DefaultRuntimeSecretData, Secrets, RuntimeSecrets, Boots
  <2>2. n \in Boots /\ n.pc = "updateSecret" /\ n.secretRv = secret.rv /\ n.secret = data
        /\ n.rv = api[p].rv /\ n.data = api[p].data /\ n.legacy = api[p].legacy
    BY <1>1, <2>1 DEF Boots, RuntimeSecrets
  <2>3. \A k \in SecretKeys : secret.data[k] = 0 => api[p].legacy[k] = cm.legacy[k]
    BY <1>1 DEF BootHolds, BootSecret, Moving, Holding
  <2>4. \A k \in SecretKeys : data[k] # 0 /\ Meant(k, cm, secret) \in {0, data[k]}
    BY <1>1, <2>3 DEF NormalizedRuntimeSecretData, DefaultRuntimeSecretData, Meant
  <2>5. BootSecret(n, cm, secret)
    <3> HIDE DEF data, n
    <3> QED  BY <1>1, <1>4, <2>2, <2>3, <2>4 DEF BootSecret, RuntimeSecrets, Moving, Holding
  <2>6. BootConfig(n, cm) /\ BootLegacy(n, cm)
    BY <1>1, <2>2 DEF BootHolds, BootConfig, BootLegacy, Holding
  <2>7. QED
    BY <1>4, <2>2, <2>5, <2>6, ProcessMoves DEF GetSecret, Inductive, TypeOK, BootHolds
<1>5. QED  BY <1>2, <1>3, <1>4

LEMMA CreateSecretKeeps ==
    ASSUME Inductive, NEW p \in Apis, CreateSecret(p)
    PROVE  Inductive'
<1> DEFINE data == DefaultRuntimeSecretData(api[p].legacy)
           n == [api[p] EXCEPT !.pc = "clear", !.secret = data]
<1>1. /\ api[p] \in Boots /\ cm \in ConfigMaps /\ secret \in RuntimeSecrets /\ fresh \in Nat /\ fresh >= 2
      /\ api[p].pc = "createSecret" /\ BootHolds(api[p], cm, secret)
    BY DEF Inductive, TypeOK, StoreHolds, CreateSecret
<1>2. CASE secret.exists
    BY <1>1, <1>2, DownHolds, ProcessMoves DEF CreateSecret, Inductive, TypeOK
<1>3. CASE ~secret.exists
  <2>1. /\ secret' = [exists |-> TRUE, rv |-> secret.rv + 1, data |-> data] /\ fresh' = fresh + 1
        /\ To(p, n) /\ StartedWith(data) /\ UNCHANGED <<nsExists, cm, gateway, req, faults, last>>
    BY <1>3 DEF CreateSecret
  <2>2. data \in Secrets /\ secret.rv + 1 \in Nat
    BY <1>1 DEF DefaultRuntimeSecretData, Secrets, RuntimeSecrets, Boots
  <2>3. secret' \in RuntimeSecrets /\ secret'.exists /\ secret'.rv = secret.rv + 1 /\ secret'.data = data
    BY <2>1, <2>2 DEF RuntimeSecrets
  <2>4. \A k \in SecretKeys : secret.data[k] = 0 /\ api[p].legacy[k] = cm.legacy[k]
    BY <1>1, <1>3 DEF Inductive, StoreHolds, NoSecrets, BootHolds, BootSecret, Moving, Holding
  <2>5. Complete(data) /\ \A k \in SecretKeys : Meant(k, cm, secret) \in {0, data[k]}
    BY <1>1, <2>4 DEF Complete, DefaultRuntimeSecretData, Meant
  <2>6. n \in Boots
    BY <1>1, <2>2 DEF Boots
  <2>7. BootHolds(n, cm, secret')
    BY <1>1, <2>3, <2>5 DEF Boots, BootHolds, BootConfig, BootSecret, BootLegacy, Holding, Moving
  <2>8. QED
    BY <2>1, <2>3, <2>5, <2>6, <2>7, ProcessWritesSecret
<1>4. QED  BY <1>2, <1>3

LEMMA UpdateSecretKeeps ==
    ASSUME Inductive, NEW p \in Apis, UpdateSecret(p)
    PROVE  Inductive'
<1> DEFINE n == [api[p] EXCEPT !.pc = "clear"]
<1>1. /\ api[p] \in Boots /\ cm \in ConfigMaps /\ secret \in RuntimeSecrets
      /\ api[p].pc = "updateSecret" /\ BootHolds(api[p], cm, secret)
    BY DEF Inductive, TypeOK, UpdateSecret
<1>2. CASE secret.rv # api[p].secretRv
    BY <1>1, <1>2, DownHolds, ProcessMoves DEF UpdateSecret, Inductive, TypeOK
<1>3. CASE secret.rv = api[p].secretRv
  <2>1. /\ secret' = [secret EXCEPT !.rv = @ + 1, !.data = api[p].secret]
        /\ To(p, n) /\ StartedWith(api[p].secret)
        /\ UNCHANGED <<nsExists, cm, gateway, req, fresh, faults, last>>
    BY <1>3 DEF UpdateSecret
  <2>2. \A k \in SecretKeys : api[p].secret[k] # 0 /\ Meant(k, cm, secret) \in {0, api[p].secret[k]}
    BY <1>1, <1>3 DEF BootHolds, BootSecret
  <2> secret.rv + 1 \in Nat /\ api[p].secret \in Secrets
    BY <1>1 DEF RuntimeSecrets, Boots
  <2>3. /\ secret' \in RuntimeSecrets /\ secret'.exists /\ secret'.rv = secret.rv + 1
        /\ secret'.data = api[p].secret
    BY <1>1, <2>1 DEF RuntimeSecrets, BootHolds, BootSecret
  <2>4. Complete(secret'.data)
    BY <2>2, <2>3 DEF Complete
  <2>5. n \in Boots
    BY <1>1 DEF Boots
  <2>6. BootHolds(n, cm, secret')
    BY <1>1, <2>4 DEF Boots, BootHolds, BootConfig, BootSecret, BootLegacy, Holding, Moving
  <2>7. QED
    BY <2>1, <2>2, <2>3, <2>4, <2>5, <2>6, ProcessWritesSecret
<1>4. QED  BY <1>2, <1>3

\* A step of a request that leaves the two objects alone.
LEMMA RequestMoves ==
    ASSUME Inductive, NEW r \in Reqs, NEW n, n \in Requests, ToReq(r, n), RequestHolds(n, cm, secret),
           UNCHANGED <<nsExists, cm, secret, api, gateway, fresh, faults, last, started>>
    PROVE  Inductive'
<1>1. req' \in [Reqs -> Requests] /\ \A q \in Reqs : req'[q] = IF q = r THEN n ELSE req[q]
    BY DEF Inductive, TypeOK, ToReq
<1>2. TypeOK' /\ StoreHolds' /\ SettingsKept'
    BY <1>1 DEF Inductive, TypeOK, StoreHolds, SettingsKept, Meant
<1>3. QED
    BY <1>1, <1>2 DEF Inductive

LEMMA AnsweredHolds ==
    /\ Answered \in Requests /\ IdleReq \in Requests
    /\ \A c \in ConfigMaps, x \in RuntimeSecrets : RequestHolds(Answered, c, x)
BY DEF Answered, IdleReq, Requests, Values, Secrets, NoSecrets, RequestHolds

LEMMA FailRequestKeeps ==
    ASSUME Inductive, NEW r \in Reqs, FailRequest(r)
    PROVE  Inductive'
BY AnsweredHolds, RequestMoves DEF FailRequest, Inductive, TypeOK

LEMMA ReadSettingsKeeps ==
    ASSUME Inductive, NEW r \in Reqs, NEW s \in Settings, ReadSettings(r, s)
    PROVE  Inductive'
<1> DEFINE n == [IdleReq EXCEPT !.pc = "write", !.rv = cm.rv, !.data = cm.data, !.legacy = cm.legacy, !.set = s]
<1>1. cm \in ConfigMaps /\ cm.exists
  <2>1. PICK p \in Apis : api[p].pc = "run"
    BY DEF ReadSettings, Serving
  <2>2. QED  BY <2>1 DEF Inductive, TypeOK, BootHolds, BootConfig
<1>2. n \in Requests /\ RequestHolds(n, cm, secret)
  <2>1. cm.rv \in Nat /\ cm.data \in [Settings -> Values] /\ cm.legacy \in Secrets
    BY <1>1 DEF ConfigMaps
  <2>2. n \in Requests
    BY <2>1, AnsweredHolds DEF IdleReq, Requests
  <2>3. QED
    BY <1>1, <2>1, <2>2 DEF IdleReq, RequestHolds
<1>3. QED
    BY <1>2, RequestMoves DEF ReadSettings

LEMMA ReadSecretsKeeps ==
    ASSUME Inductive, NEW r \in Reqs, NEW keys \in SUBSET SecretKeys, ReadSecrets(r, keys)
    PROVE  Inductive'
<1> DEFINE n == [IdleReq EXCEPT !.pc = "rotate", !.rv = secret.rv, !.secret = secret.data, !.keys = keys]
<1>1. secret \in RuntimeSecrets /\ Complete(secret.data)
  <2>1. PICK p \in Apis : api[p].pc = "run"
    BY DEF ReadSecrets, Serving
  <2>2. QED  BY <2>1 DEF Inductive, TypeOK, BootHolds, BootSecret
<1>2. n \in Requests /\ RequestHolds(n, cm, secret)
  <2>1. secret.rv \in Nat /\ secret.data \in Secrets
    BY <1>1 DEF RuntimeSecrets
  <2>2. n \in Requests
    BY <2>1, AnsweredHolds DEF IdleReq, Requests
  <2>3. QED
    BY <1>1, <2>1, <2>2 DEF IdleReq, RequestHolds
<1>3. QED
    BY <1>2, RequestMoves DEF ReadSecrets

LEMMA WriteSettingsKeeps ==
    ASSUME Inductive, NEW r \in Reqs, WriteSettings(r)
    PROVE  Inductive'
<1>1. /\ req \in [Reqs -> Requests] /\ api \in [Apis -> Boots] /\ cm \in ConfigMaps /\ secret \in RuntimeSecrets
      /\ req[r].pc = "write" /\ RequestHolds(req[r], cm, secret) /\ last \in [Settings -> Reqs \union {"default"}]
    BY DEF Inductive, TypeOK, WriteSettings
<1>2. CASE cm.rv # req[r].rv
    BY <1>1, <1>2, AnsweredHolds, RequestMoves DEF WriteSettings, SameVersion
<1>3. CASE cm.rv = req[r].rv
  <2> DEFINE s == req[r].set
  <2>1. /\ cm.exists /\ s \in Settings /\ req[r].data = cm.data /\ req[r].legacy = cm.legacy
        /\ cm.rv + 1 \in Nat /\ cm.data \in [Settings -> Values]
    BY <1>1, <1>3 DEF RequestHolds, ConfigMaps
  <2>2. /\ cm' = [cm EXCEPT !.rv = @ + 1, !.data = [cm.data EXCEPT ![s] = r], !.legacy = cm.legacy]
        /\ last' = [last EXCEPT ![s] = r] /\ ToReq(r, Answered)
        /\ UNCHANGED <<nsExists, secret, api, gateway, fresh, faults, started>>
    BY <1>3, <2>1 DEF WriteSettings, SameVersion
  <2>3. [cm.data EXCEPT ![s] = r] \in [Settings -> Values]
    BY <2>1 DEF Values
  <2>4. /\ cm' \in ConfigMaps /\ cm'.exists /\ cm'.rv = cm.rv + 1 /\ cm'.legacy = cm.legacy
        /\ cm'.data = [cm.data EXCEPT ![s] = r]
    <3> DEFINE e == [cm.data EXCEPT ![s] = r]
    <3> HIDE DEF e
    <3>1. cm' = [cm EXCEPT !.rv = @ + 1, !.data = e, !.legacy = cm.legacy] /\ e \in [Settings -> Values]
      BY <2>2, <2>3 DEF e
    <3>2. cm' \in ConfigMaps /\ cm'.exists /\ cm'.rv = cm.rv + 1 /\ cm'.legacy = cm.legacy /\ cm'.data = e
      BY <1>1, <2>1, <3>1 DEF ConfigMaps
    <3>3. QED  BY <3>2 DEF e
  <2>5. req' \in [Reqs -> Requests] /\ \A q \in Reqs : req'[q] = IF q = r THEN Answered ELSE req[q]
    BY <1>1, <2>2, AnsweredHolds DEF ToReq
  <2>6. TypeOK'
    BY <2>1, <2>2, <2>4, <2>5 DEF Inductive, TypeOK
  <2>7. SettingsKept'
    BY <1>1, <2>1, <2>2, <2>4 DEF Inductive, SettingsKept
  <2>8. StoreHolds'
    BY <2>2, <2>4 DEF Inductive, StoreHolds, Meant
  <2>9. /\ \A p \in Apis : BootHolds(api'[p], cm', secret')
        /\ \A q \in Reqs : RequestHolds(req'[q], cm', secret')
    <3>1. /\ \A b \in Boots : BootHolds(b, cm, secret) => BootHolds(b, cm', secret)
          /\ \A q \in Requests : RequestHolds(q, cm, secret) => RequestHolds(q, cm', secret)
      BY <1>1, <2>1, <2>4, ConfigWritten
    <3>2. RequestHolds(Answered, cm', secret)
      BY <1>1, <2>4, AnsweredHolds
    <3>3. \A q \in Reqs : RequestHolds(req[q], cm', secret)
      BY <1>1, <3>1 DEF Inductive
    <3>4. QED
      BY <1>1, <2>2, <2>5, <3>1, <3>2, <3>3 DEF Inductive
  <2>10. QED
    BY <2>6, <2>7, <2>8, <2>9 DEF Inductive
<1>4. QED  BY <1>2, <1>3

LEMMA RotateSecretsKeeps ==
    ASSUME Inductive, NEW r \in Reqs, RotateSecrets(r)
    PROVE  Inductive'
<1>1. /\ req \in [Reqs -> Requests] /\ api \in [Apis -> Boots] /\ cm \in ConfigMaps /\ secret \in RuntimeSecrets
      /\ req[r].pc = "rotate" /\ RequestHolds(req[r], cm, secret)
      /\ fresh \in Nat /\ fresh >= 2 /\ started \in [SecretKeys -> SUBSET Nat]
    BY DEF Inductive, TypeOK, StoreHolds, RotateSecrets
<1>2. CASE secret.rv # req[r].rv
    BY <1>1, <1>2, AnsweredHolds, RequestMoves DEF RotateSecrets
<1>3. CASE secret.rv = req[r].rv
  <2> DEFINE data == [k \in SecretKeys |-> IF k \in req[r].keys THEN fresh ELSE secret.data[k]]
  <2>1. /\ Complete(secret.data) /\ req[r].secret = secret.data
        /\ secret.rv + 1 \in Nat /\ secret.data \in [SecretKeys -> Nat]
    BY <1>1, <1>3 DEF RequestHolds, RuntimeSecrets, Secrets
  <2>2. /\ secret' = [secret EXCEPT !.rv = @ + 1, !.data = data]
        /\ started' = [k \in SecretKeys |-> IF k \in req[r].keys THEN {} ELSE started[k]]
        /\ fresh' = fresh + 1 /\ ToReq(r, Answered)
        /\ UNCHANGED <<nsExists, cm, api, gateway, faults, last>>
    BY <1>3, <2>1 DEF RotateSecrets
  <2>3. data \in Secrets /\ Complete(data)
    BY <1>1, <2>1 DEF Secrets, Complete
  <2>4. secret.exists
    BY <1>1, <2>1 DEF Inductive, StoreHolds, Complete, NoSecrets, SecretKeys
  <2>5. secret' \in RuntimeSecrets /\ secret'.exists /\ secret'.rv = secret.rv + 1 /\ secret'.data = data
    BY <1>1, <2>1, <2>2, <2>3, <2>4 DEF RuntimeSecrets
  <2>6. req' \in [Reqs -> Requests] /\ \A q \in Reqs : req'[q] = IF q = r THEN Answered ELSE req[q]
    BY <1>1, <2>2, AnsweredHolds DEF ToReq
  <2>7. TypeOK'
    BY <1>1, <2>2, <2>5, <2>6 DEF Inductive, TypeOK
  <2>8. SettingsKept'
    BY <2>2 DEF Inductive, SettingsKept
  <2>9. StoreHolds'
    <3>1. \A k \in SecretKeys : Meant(k, cm, secret) = secret.data[k] /\ Meant(k, cm, secret') = data[k]
      BY <2>1, <2>3, <2>5 DEF Meant, Complete
    <3>2. \A k \in SecretKeys : started'[k] \subseteq {data[k]} \ {0}
      <4>1. \A k \in SecretKeys : started[k] \subseteq {secret.data[k]} \ {0}
        BY <3>1 DEF Inductive, StoreHolds
      <4>2. \A k \in SecretKeys : started'[k] = IF k \in req[r].keys THEN {} ELSE started[k]
        BY <2>2
      <4>3. QED  BY <4>1, <4>2
    <3>3. fresh' >= 2
      BY <1>1, <2>2
    <3>4. QED
      BY <2>2, <2>5, <3>1, <3>2, <3>3 DEF Inductive, StoreHolds
  <2>10. /\ \A p \in Apis : BootHolds(api'[p], cm', secret')
         /\ \A q \in Reqs : RequestHolds(req'[q], cm', secret')
    <3>1. \A k \in SecretKeys : secret.data[k] # 0 => secret'.data[k] # 0
      BY <2>3, <2>5 DEF Complete
    <3>2. QED
      <4>1. /\ \A b \in Boots : BootHolds(b, cm, secret) => BootHolds(b, cm, secret')
            /\ \A q \in Requests : RequestHolds(q, cm, secret) => RequestHolds(q, cm, secret')
        BY <1>1, <2>5, <3>1, SecretWritten
      <4>2. RequestHolds(Answered, cm, secret')
        BY <1>1, <2>5, AnsweredHolds
      <4>3. \A q \in Reqs : RequestHolds(req[q], cm, secret')
        BY <1>1, <4>1 DEF Inductive
      <4>4. QED
        BY <1>1, <2>2, <2>6, <4>1, <4>2, <4>3 DEF Inductive
  <2>11. QED
    BY <2>7, <2>8, <2>9, <2>10 DEF Inductive
<1>4. QED  BY <1>2, <1>3

LEMMA LoadKeeps ==
    ASSUME Inductive, Load
    PROVE  Inductive'
<1>1. secret.data \in [SecretKeys -> Nat] /\ started \in [SecretKeys -> SUBSET Nat] /\ Complete(secret.data)
    BY DEF Inductive, TypeOK, RuntimeSecrets, Secrets, Load
<1>2. /\ started' \in [SecretKeys -> SUBSET Nat]
      /\ \A k \in SecretKeys : started'[k] = started[k] \union {secret.data[k]}
    BY <1>1 DEF Load, StartedWith
<1>3. \A k \in SecretKeys : secret.data[k] # 0 /\ Meant(k, cm, secret) = secret.data[k]
    BY <1>1 DEF Complete, Meant
<1>4. TypeOK'
    BY <1>1, <1>2 DEF Inductive, TypeOK, Load, Secrets
<1>5. StoreHolds'
  <2>1. \A k \in SecretKeys : started'[k] \subseteq {Meant(k, cm, secret)} \ {0}
    BY <1>2, <1>3 DEF Inductive, StoreHolds
  <2>2. QED  BY <2>1 DEF Inductive, StoreHolds, Load, Meant
<1>6. QED
    BY <1>4, <1>5 DEF Inductive, Load, SettingsKept

LEMMA InitInductive == Init => Inductive
<1> SUFFICES ASSUME Init PROVE Inductive
    OBVIOUS
<1>1. PICK seed \in Seeds : cm = seed.cm /\ secret = seed.secret
    BY DEF Init
<1>2. /\ cm \in ConfigMaps /\ secret \in RuntimeSecrets
      /\ \A k \in SecretKeys : (cm.legacy[k] # 0 => cm.exists) /\ (secret.data[k] # 0 => secret.exists)
    BY <1>1, ConfigSeedsAssumption
<1>3. /\ cm.legacy \in [SecretKeys -> Nat] /\ secret.data \in [SecretKeys -> Nat]
      /\ cm.exists \in BOOLEAN /\ secret.exists \in BOOLEAN
    BY <1>2 DEF ConfigMaps, RuntimeSecrets, Secrets
<1>4. TypeOK
    BY <1>2, <1>3, DownHolds, AnsweredHolds DEF Init, TypeOK, NoSecrets, Secrets
<1>5. StoreHolds
    BY <1>2, <1>3 DEF Init, StoreHolds, Meant, NoSecrets
<1>6. SettingsKept
    BY DEF Init, SettingsKept
<1>7. /\ \A p \in Apis : BootHolds(api[p], cm, secret)
      /\ \A r \in Reqs : RequestHolds(req[r], cm, secret)
    BY <1>2, DownHolds DEF Init, RequestHolds, IdleReq
<1>8. QED
    BY <1>4, <1>5, <1>6, <1>7 DEF Inductive

LEMMA NextInductive == Inductive /\ [Next]_vars => Inductive'
<1> SUFFICES ASSUME Inductive, [Next]_vars PROVE Inductive'
    OBVIOUS
<1>1. ASSUME NEW p \in Apis, Bootstrap(p) PROVE Inductive'
    BY <1>1, EnsureNamespaceKeeps, GetConfigKeeps, CreateConfigKeeps, UpdateConfigKeeps,
       GetSecretKeeps, CreateSecretKeeps, UpdateSecretKeeps, ClearLegacyKeeps DEF Bootstrap
<1>2. ASSUME NEW p \in Apis, Crash(p) PROVE Inductive'
    BY <1>2, CrashKeeps
<1>3. CASE Load
    BY <1>3, LoadKeeps
<1>4. ASSUME NEW r \in Reqs, NEW s \in Settings, ReadSettings(r, s) PROVE Inductive'
    BY <1>4, ReadSettingsKeeps
<1>5. ASSUME NEW r \in Reqs, NEW keys \in SUBSET SecretKeys, ReadSecrets(r, keys) PROVE Inductive'
    BY <1>5, ReadSecretsKeeps
<1>6. ASSUME NEW r \in Reqs, WriteSettings(r) \/ RotateSecrets(r) \/ FailRequest(r) PROVE Inductive'
    BY <1>6, WriteSettingsKeeps, RotateSecretsKeeps, FailRequestKeeps
<1>7. CASE UNCHANGED vars
    BY <1>7 DEF vars, Inductive, TypeOK, SettingsKept, StoreHolds, Meant
<1>8. QED
    BY <1>1, <1>2, <1>3, <1>4, <1>5, <1>6, <1>7 DEF Next

\* The invariant holds in every reachable state: for any number of kite-api
\* processes, requests, crashes and failed calls.
THEOREM InductiveInvariant == Spec => []Inductive
<1>1. Init => Inductive
    BY InitInductive
<1>2. Inductive /\ [Next]_vars => Inductive'
    BY NextInductive
<1>3. QED
    BY <1>1, <1>2, PTL DEF Spec

\* No setting that a request was told is stored is lost to a write from an
\* older read, by updateRuntimeConfigValue, UpdateSSHGateway or Bootstrap.
THEOREM SettingsAreKept == Spec => []SettingsKept
<1>1. Inductive => SettingsKept
    BY DEF Inductive
<1>2. QED
    BY <1>1, InductiveInvariant, PTL

\* Processes never start with two values of one secret between rotations,
\* whatever crashes interrupt Bootstrap and the move out of the ConfigMap.
THEOREM SecretsAreKept == Spec => []SecretsKept
<1>1. Inductive => SecretsKept
    BY DEF Inductive, StoreHolds, SecretsKept
<1>2. QED
    BY <1>1, InductiveInvariant, PTL

\* No secret is left in, or returns to, the ConfigMap once a kite-api serves.
THEOREM LegacyIsGone == Spec => []LegacyGone
<1>1. Inductive => LegacyGone
  <2> SUFFICES ASSUME Inductive, NEW p \in Apis, api[p].pc = "run" PROVE cm.legacy = NoSecrets
    BY DEF LegacyGone, Serving
  <2> QED  BY DEF Inductive, BootHolds, BootLegacy
<1>2. QED
    BY <1>1, InductiveInvariant, PTL
=============================================================================
