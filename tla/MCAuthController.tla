--------------------------- MODULE MCAuthController ---------------------------
(***************************************************************************)
(* Small instances of AuthController for TLC.                              *)
(***************************************************************************)
EXTENDS AuthController

S(conf, policy, access, tls) ==
    [conf |-> conf, claim |-> "class", policy |-> policy, access |-> access, tls |-> tls,
     secret |-> FALSE]

Plain == S("a", "Retain", {}, "none")

Scenario(s, t, f, d, c) ==
    [from |-> s, todo |-> t, faults |-> f, drifts |-> d, crashes |-> c, outages |-> 0]

(* A CR is deleted, with either policy; one of its name follows.           *)
Deletions ==
    {Scenario(NoSpec, <<S("a", p, {}, "none"), NoSpec>>, 1, 0, 0) : p \in {"Retain", "Delete"}}
    \cup {Scenario(Plain, <<NoSpec, S("b", "Delete", {}, "csi"), NoSpec>>, 1, 0, 0)}

(* A config is changed and changed back, TLS turned on and off; some specs *)
(* cannot be applied, for good or until they are changed.                  *)
Edits ==
    {Scenario(Plain, <<S("b", "Retain", {}, "secret"), Plain>>, 0, 0, 1),
     Scenario(Plain, <<[S("b", "Retain", {}, "csi") EXCEPT !.claim = "volume"], Plain>>, 1, 0, 1),
     Scenario(Plain, <<[Plain EXCEPT !.conf = "invalid"]>>, 1, 0, 0),
     Scenario(NoSpec, <<[Plain EXCEPT !.claim = "none"], Plain>>, 0, 0, 0)}

(* External access comes and goes, and others take the names.              *)
Access ==
    {Scenario(Plain, <<S("a", "Retain", {"lb"}, "cert"), Plain>>, 0, 0, 0),
     Scenario(S("a", "Retain", {"nodeport"}, "none"), <<Plain>>, 1, 2, 0),
     Scenario(Plain, <<S("a", "Retain", {"lb"}, "cert")>>, 0, 1, 0)}

(* The Secret of a CR goes, for good or until it is made again: before the *)
(* finalizer is set, while the pod is replaced, while the CR is deleted.   *)
WithSecret == [Plain EXCEPT !.secret = TRUE]

Outages ==
    {[s EXCEPT !.outages = 2] : s \in
        {Scenario(NoSpec, <<WithSecret, NoSpec>>, 0, 0, 0),
         Scenario(WithSecret, <<NoSpec, Plain>>, 0, 0, 0),
         Scenario(WithSecret, <<Plain>>, 0, 0, 1)}}

Stories == Deletions \cup Edits \cup Access \cup Outages
=============================================================================
