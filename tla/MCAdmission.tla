----------------------------- MODULE MCAdmission -----------------------------
(***************************************************************************)
(* Small instances of Admission for TLC.                                   *)
(***************************************************************************)
EXTENDS Admission

Opt(S) == {{}} \cup {{x} : x \in S}

Base ==
    [size |-> {1}, proxy |-> {}, target |-> {}, selectors |-> {"proxy", "target"},
     storage |-> {}, legacyClass |-> {}, prefix |-> TRUE, shutdown |-> FALSE,
     ports |-> TRUE, tls |-> FALSE, certPaths |-> FALSE, fixed |-> "x",
     externalLB |-> FALSE, profile |-> {}, password |-> {}]

(* Sizes, and the selectors that autoscaling needs.                        *)
Sized ==
    [kind |-> "AIStore", turns |-> {},
     specs |-> {[Base EXCEPT !.size = a, !.proxy = p, !.target = t, !.selectors = sel] :
                    a, p, t \in Opt({-1, 0, 2}), sel \in {{"proxy"}, {"proxy", "target"}}}]

(* State storage, by the new fields and by the legacy ones.                *)
Modes == {{}, {"hostPath"}, {"pvc"}, {"emptyDir"}, {"hostPath", "pvc"}}
Stored ==
    [kind |-> "AIStore", turns |-> {<<"class1", "state">>},
     specs |-> {[Base EXCEPT !.storage = st, !.legacyClass = c, !.prefix = b, !.shutdown = ~b] :
                    st \in Opt([modes : Modes, class : {"class1"}]
                               \cup [modes : {{"pvc"}}, class : {"class2"}]),
                    c \in Opt({"class2"}), b \in BOOLEAN}]

(* References to profiles and secrets.                                     *)
Password == [own : {"secret1"}, other : {"secret2"}, ns : Opt({"other"})]
Referring ==
    [kind |-> "AIStore", turns |-> {<<"profile1", "state">>, <<"profile1", "grants">>, <<"secret2", "grants">>},
     specs |-> {[Base EXCEPT !.profile = p, !.password = u] :
                    p \in Opt({"profile1", "profile2"}), u \in Opt(Password)}]

(* What else an AIStore may be refused for.                                *)
Detailed ==
    [kind |-> "AIStore", turns |-> {},
     specs |-> {[Base EXCEPT !.ports = o, !.tls = t, !.certPaths = c, !.fixed = f, !.externalLB = l] :
                    o, t, c, l \in BOOLEAN, f \in {"x", "y"}}]

Authentication ==
    [kind |-> "AIStoreAuth", turns |-> {"secret1", "secret2"} \X {"state"},
     specs |-> [admin : Opt({"secret1"}), hmac : Opt({"secret2"}), rsa : Opt({"secret2"})]]

Profiles ==
    [kind |-> "AIStoreAuthProfile", turns |-> {"secret1", "ca"} \X {"state", "grants", "readable"},
     specs |-> [url : BOOLEAN, endpoint : BOOLEAN, methods : SUBSET {"password", "exchange"},
                secret : {{"secret1"}}, ca : Opt({"ca"})]]

All == {Sized, Stored, Referring, Detailed, Authentication, Profiles}

Names == {"class1", "class2", "profile1", "profile2", "secret1", "secret2", "ca"}
=============================================================================
