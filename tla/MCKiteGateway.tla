--------------------------- MODULE MCKiteGateway ---------------------------
(* Instance of KiteGateway with three VMs, enough for a third claim to a name. *)
EXTENDS KiteGateway, TLC

CONSTANTS v1, v2, v3, i1, c1

MCVMs == {v1, v2, v3}
MCIds == {i1}
MCConns == {c1}
Live == [state |-> "live", id |-> i1]
MCSeeds == {[v \in MCVMs |-> IF v \in some THEN Live ELSE NoCRD] : some \in {{v1}}}
=============================================================================
