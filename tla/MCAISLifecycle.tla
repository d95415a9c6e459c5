--------------------------- MODULE MCAISLifecycle ---------------------------
(***************************************************************************)
(* Small instances of AISLifecycle for TLC.                                *)
(***************************************************************************)
EXTENDS AISLifecycle, TLC

Opt(meta, host, lb) ==
    [cleanupMetadata |-> meta, hostPath |-> host, externalLB |-> lb]

(* Claims are deleted with the cluster and host paths are swept by jobs.   *)
HostPathOpts == {Opt(TRUE, TRUE, FALSE)}

(* The cluster is reached through load balancers.                          *)
ExternalOpts == {Opt(FALSE, FALSE, TRUE)}

(* No external access, and the claims survive the cluster.                 *)
PlainOpts == {Opt(FALSE, FALSE, FALSE)}

(***************************************************************************)
(* The same system at rest, every cache up to date: from the moment that a *)
(* cluster has become Ready, or that a shutdown of it is complete.  Spec   *)
(* reaches both, and the interleavings of what begins there are explored   *)
(* without those that led there.                                           *)
(***************************************************************************)
ReadyCR ==
    [exists |-> TRUE, deleting |-> FALSE, finalizer |-> TRUE, shutdown |-> FALSE,
     state |-> "Ready", created |-> TRUE, ready |-> TRUE, rebalance |-> TRUE,
     url |-> TRUE, id |-> TRUE]

ShutdownCR ==
    [ReadyCR EXCEPT !.shutdown = TRUE, !.state = "Shutdown", !.rebalance = FALSE]

AtRest(a, n) ==
    /\ opts \in Opts
    /\ cr = a /\ cached = a /\ mem = NewCR
    /\ pc = "idle" /\ updated = FALSE /\ queued = FALSE
    /\ ss = [k \in Kinds |-> [exists |-> TRUE, replicas |-> n, pods |-> n, ready |-> n]]
    /\ ssCached = ss
    /\ res = [r \in Resources |->
                 IF r = "lb" /\ ~opts.externalLB THEN "absent" ELSE "present"]
    /\ lbReady = opts.externalLB /\ stopped = FALSE
    /\ jobs = [h \in Hosts |-> "none"] /\ jobsCached = {}
    /\ faults \in 0..MaxFaults /\ edits \in 0..MaxEdits

ReadyInit == AtRest(ReadyCR, Size)

ShutdownInit == AtRest(ShutdownCR, 0)

(***************************************************************************)
(* Runs that start at several places share their bounds: f faults and e    *)
(* flips of spec.shutdownCluster are left for what begins here.            *)
(***************************************************************************)
Left(f, e) == faults = MaxFaults - f /\ edits = MaxEdits - e

(* One fault anywhere: in a bootstrap behind load balancers and in the     *)
(* teardown of a cluster with host paths, or in the shutdown and restart   *)
(* of one without either; a deletion at any point of all of them.          *)
LifecycleSpec ==
    /\ \/ Init /\ opts \in ExternalOpts /\ Left(1, 0)
       \/ ReadyInit /\ opts \in HostPathOpts /\ Left(1, 0)
       \/ ReadyInit /\ opts \in PlainOpts /\ Left(1, 2)
    /\ [][Next]_vars

(* The bootstrap, the teardown with a fault anywhere, and the teardown in  *)
(* the middle of a shutdown, under fairness.                               *)
DeletionSpec ==
    /\ \/ Init /\ opts \in ExternalOpts /\ Left(0, 0)
       \/ ReadyInit /\ opts \in HostPathOpts /\ Left(1, 0)
       \/ ReadyInit /\ opts \in PlainOpts /\ Left(0, 1)
    /\ [][Next]_vars
    /\ Fairness

(* A bootstrap behind load balancers; two flips, or one fault, in a        *)
(* running cluster; and a restart with a fault anywhere; under fairness.   *)
ServiceSpec ==
    /\ \/ Init /\ opts \in ExternalOpts /\ Left(0, 0)
       \/ ReadyInit /\ opts \in PlainOpts /\ (Left(0, 2) \/ Left(1, 0))
       \/ ShutdownInit /\ opts \in PlainOpts /\ Left(1, 1)
    /\ [][Next]_vars
    /\ Fairness

(* One flip, to a shutdown, under fairness.                                *)
ShutdownSpec == ReadyInit /\ Left(0, 1) /\ [][Next]_vars /\ Fairness

AllOpts == HostPathOpts \cup ExternalOpts \cup PlainOpts

HostSymmetry == Permutations(Hosts)
=============================================================================
