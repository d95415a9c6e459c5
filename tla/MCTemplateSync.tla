---------------------------- MODULE MCTemplateSync ----------------------------
(***************************************************************************)
(* Small instances of TemplateSync for TLC.                                *)
(***************************************************************************)
EXTENDS TemplateSync

(* An operator, one that makes nothing differently that is compared, one  *)
(* with other security contexts, one with other attributes of csi volumes. *)
Version(b, sec, csi) == [build |-> b, security |-> sec, csi |-> csi]
Old      == Version(8, 11, 21)
Patch    == Version(9, 11, 21)
Security == Version(9, 12, 21)
CSI      == Version(9, 11, 22)

(* Some fields are given, others not.                                      *)
Base == [f \in Fields |->
            IF f \in {"sidecar", "annotation", "certificate", "security"} THEN 0 ELSE 1]
Full == [f \in Fields |-> 1]

Scenario(specs, f, v) == [specs |-> specs, faults |-> f, to |-> v]

Change(s, f, v) == [s EXCEPT ![f] = v]

(* Each field by itself is changed, given or taken away; the operator is   *)
(* upgraded meanwhile, or a call fails.                                    *)
Single ==
    {Scenario(<<Full, Change(Full, f, 2)>>, 0, Patch) : f \in Fields}
    \cup {Scenario(<<Base, Change(Base, f, 2)>>, 0, Old) : f \in Fields}
    \cup {Scenario(<<Full, Change(Full, f, 0)>>, 1, Old) :
            f \in {"sidecar", "annotation", "certificate", "security"}}

(* Upgrades that roll the pods, before, during and after that of an edit.  *)
Upgrades ==
    {Scenario(<<Base, Change(Base, f, 2)>>, 0, Security) : f \in {"security", "env", "http"}}
    \cup {Scenario(<<Base, Change(Base, f, 2)>>, 0, CSI) : f \in {"certificate", "env"}}
    \cup {Scenario(<<Full, Change(Full, "certificate", n)>>, 0, CSI) : n \in {0, 2}}
    \cup {Scenario(<<Full>>, 1, v) : v \in {Security, CSI}}

(* Edits of pods and of config, in one and one after the other, and TLS,   *)
(* which is both.  None goes back to an earlier template or restart config.*)
Double ==
    {Scenario(<<Base, [Base EXCEPT !.http = 2, !.nodeImage = 2]>>, 1, Patch),
     Scenario(<<Base, Change(Base, "env", 2), [Base EXCEPT !.http = 2, !.env = 2]>>, 0, Patch),
     Scenario(<<Base, Change(Base, "http", 2), Change(Base, "http", 3)>>, 0, Old),
     Scenario(<<Full, Change(Full, "http", 2), [Full EXCEPT !.http = 2, !.label = 2]>>, 0, Old),
     Scenario(<<Full, Change(Full, "certificate", 2), Change(Full, "certificate", 3)>>, 0, Old),
     Scenario(<<Base, Change(Base, "http", 3)>>, 1, Patch)}

Edits == Single \cup Upgrades \cup Double
=============================================================================
