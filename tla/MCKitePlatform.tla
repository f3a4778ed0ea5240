--------------------------- MODULE MCKitePlatform ---------------------------
(* Instance of KitePlatform with two passes of one reconciler at a time:    *)
(* the two reconcilers share nothing but settings that they do not write.   *)
EXTENDS KitePlatform, TLC

CONSTANTS h1, r1, r2

MCHosts == {h1}
MCReqs == {r1, r2}
MCPorts == {1, 2}
Exposed == [config |-> [NoConfig EXCEPT !.enabled = TRUE], legacyTLS |-> FALSE,
            inner |-> "LoadBalancer", active |-> {"exposureConfig", "exposureService"}]
Fresh == [config |-> NoConfig, legacyTLS |-> FALSE, inner |-> "ClusterIP", active |-> {"ingressConfig", "ingressTLS"}]
Older == [Fresh EXCEPT !.config.host = h1, !.legacyTLS = TRUE]
Starting == [Exposed EXCEPT !.active = {"exposureConfig", "exposureInitial"}]
StartingOlder == [Older EXCEPT !.active = {"ingressConfig", "ingressInitial"}]
MCSeeds == {Exposed, Starting, Fresh, Older, StartingOlder}
=============================================================================
