---------------------------- MODULE MCKiteConfig ----------------------------
(* Instance of KiteConfig that starts from an empty cluster, from a version *)
(* that kept its secrets in the ConfigMap, or from one whose migration has  *)
(* come half way.                                                           *)
EXTENDS KiteConfig, TLC

CONSTANTS p1, p2, r1, r2

NothingYet == [cm |-> [exists |-> FALSE, rv |-> 0, data |-> Down.data, legacy |-> NoSecrets],
               secret |-> [exists |-> FALSE, rv |-> 0, data |-> NoSecrets]]
OlderVersion == [NothingYet EXCEPT !.cm.exists = TRUE, !.cm.legacy = [k \in SecretKeys |-> 1]]
HalfWay == [OlderVersion EXCEPT !.secret.exists = TRUE, !.secret.data["jwtSecret"] = 1]
MCSeeds == {NothingYet, OlderVersion, HalfWay}
=============================================================================
