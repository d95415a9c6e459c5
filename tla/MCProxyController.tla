-------------------------- MODULE MCProxyController --------------------------
(***************************************************************************)
(* Small instances of ProxyController for TLC.                             *)
(***************************************************************************)
EXTENDS ProxyController

W(size, rev, keep) == [size |-> size, rev |-> rev, keep |-> keep]

Play(start, wishes) ==
    [start |-> start, serving |-> [r \in Revs |-> TRUE], wishes |-> wishes]

(* One edit of two proxies: an upgrade, a smaller cluster with and without *)
(* an upgrade and another policy, a larger one.                            *)
OneEdit ==
    {Play(W(2, 1, TRUE), <<w>>) :
        w \in {W(2, 2, TRUE), W(1, 1, FALSE), W(1, 2, FALSE), W(3, 2, TRUE)}}
=============================================================================
