--------------------------- MODULE MCClientManager ---------------------------
(***************************************************************************)
(* Small instances of ClientManager for TLC.                               *)
(***************************************************************************)
EXTENDS ClientManager

A(source, method, tls) == [source |-> source, method |-> method, tls |-> tls]

Cluster(auth, mode) == [auth |-> auth, mode |-> mode, https |-> FALSE, skip |-> FALSE]

(* All is well, and every auth service there.                              *)
Well(cr, hosts) ==
    [cr |-> cr, profile |-> TRUE, authCA |-> "good", secret |-> "good",
     subject |-> TRUE, up |-> TRUE, states |-> TRUE, key |-> 1,
     guarded |-> cr.auth.source \in {"inline", "profile"}, ready |-> hosts, ingress |-> TRUE,
     serves |-> cr.https, ca |-> 1, caFile |-> 1, badFile |-> FALSE]

Methods == {A("inline", "authn", FALSE), A("inline", "oauth", TRUE),
            A("profile", "exchange", TRUE), A("profile", "oauth", TRUE)}

Plain  == Well(Cluster(A("none", "unset", FALSE), "service"), Hosts)
With(auth) == Well(Cluster(auth, "service"), Hosts)
Public(hosts) == Well(Cluster(A("profile", "exchange", TRUE), "public"), hosts)

(* The key is rotated, and the auth service is away meanwhile.             *)
Rotations ==
    {<<With(a), [With(a) EXCEPT !.key = 2, !.up = FALSE], [With(a) EXCEPT !.key = 2]>> :
        a \in Methods}

(* Authentication is turned on, in several broken ways first, and off.     *)
TurnedOn ==
    {<<Plain, broken, With(A("profile", "oauth", TRUE)), Plain>> :
        broken \in {[With(A("profile", "oauth", TRUE)) EXCEPT !.profile = FALSE],
                    [With(A("profile", "oauth", TRUE)) EXCEPT !.authCA = "bad"],
                    [With(A("profile", "oauth", TRUE)) EXCEPT !.secret = "incomplete"],
                    [With(A("profile", "exchange", TRUE)) EXCEPT !.subject = FALSE],
                    With(A("inline", "unset", FALSE)),
                    With(A("inline", "nosecret", FALSE)),
                    With(A("legacy", "unset", FALSE))}}

(* The proxies move, and the mode changes.                                 *)
Moves ==
    {<<Public({h}), Public({}), Public(Hosts), Public(Hosts \ {h})>> : h \in Hosts}
    \cup {<<Plain, [Plain EXCEPT !.cr.mode = "balancer", !.ingress = FALSE],
            [Plain EXCEPT !.cr.mode = "balancer"], Public(Hosts)>>}

(* HTTPS is turned on, before and after the daemons serve it; with public  *)
(* mode a new CA is noticed; and the file may be bad at first.             *)
Secure == [Public(Hosts) EXCEPT !.cr.https = TRUE, !.serves = TRUE]
Secured ==
    {<<Plain, [Plain EXCEPT !.cr.https = TRUE],
       [Plain EXCEPT !.cr.https = TRUE, !.serves = TRUE]>>,
     <<Secure, [Secure EXCEPT !.ca = 2], [Secure EXCEPT !.ca = 2, !.badFile = TRUE],
       [Secure EXCEPT !.ca = 2, !.caFile = 2]>>,
     <<Secure, [Secure EXCEPT !.cr.skip = TRUE, !.ca = 2]>>}

(* An issuer that states no lifetime.                                      *)
Silent == {<<[With(a) EXCEPT !.states = FALSE],
             [With(a) EXCEPT !.states = FALSE, !.key = 2]>> : a \in Methods}

Stories == Rotations \cup TurnedOn \cup Moves \cup Secured \cup Silent
=============================================================================
