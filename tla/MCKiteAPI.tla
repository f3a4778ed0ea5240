----------------------------- MODULE MCKiteAPI -----------------------------
(* Instance of KiteAPI that starts from an empty cluster, from one with a  *)
(* manager and a level 1 user, or from one with an administrator and a     *)
(* level 1 user who has a VM.                                              *)
EXTENDS KiteAPI, TLC

CONSTANTS a, b, x1, x2, e1, e2, s1, s2, v1, v2, r1, r2, r3

MCUsers == {a, b}
MCUsernames == {x1, x2}
MCEmails == {e1, e2}
MCVMs == {v1, v2}
MCSshIds == {s1, s2}
MCReqs == {r1, r2, r3}

NoUserObject == [state |-> "none", rv |-> 0, spec |-> NoSpec, moved |-> {}]
Account(n, x, e, level, hash) ==
    [NoUserObject EXCEPT !.state = "live",
                         !.spec = [NoSpec EXCEPT !.username = x, !.email = e, !.level = level,
                                                 !.hash = hash, !.ns = n]]

EmptySeed == [user |-> [n \in MCUsers |-> NoUserObject], vm |-> [v \in MCVMs |-> NoVMObject]]
WithManager ==
    [EmptySeed EXCEPT !.user[a] = Account(a, x1, e1, Manager, "bcrypt"),
                      !.user[b] = Account(b, x2, e2, User, "legacy")]
WithVM ==
    [EmptySeed EXCEPT !.user[a] = Account(a, x1, e1, Admin, "bcrypt"),
                      !.user[b] = Account(b, x2, e2, User, "bcrypt"),
                      !.vm[v1] = [NoVMObject EXCEPT !.state = "live", !.ns = b, !.by = b,
                                                    !.spec.sshId = s1, !.capped = TRUE]]
MCSeeds == {EmptySeed, WithManager, WithVM}
MCWanted == {ReadOnly, Admin}

Symmetry == Permutations(MCReqs)
=============================================================================
