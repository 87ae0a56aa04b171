-------------------------- MODULE MCInstanceRefresh --------------------------
(* Instances of InstanceRefresh for TLC. *)
EXTENDS InstanceRefresh, TLC

CONSTANTS i1, i2, i3, i4, i5, i6, a1, a2, a3

(* One group of two agents and room for two more instances. *)
OneGroup == [i \in Instances |-> a1]

(* Two groups, one agent each to start with; a1 may shrink to nothing, a2  *)
(* may not shrink at all.                                                  *)
TwoGroups == [i \in Instances |-> IF i \in {i1, i3} THEN a1 ELSE a2]

(* Three groups of one controller each, with a replacement for each. *)
ControllerGroups ==
    [i \in Instances |-> CASE i \in {i1, i4} -> a1
                           [] i \in {i2, i5} -> a2
                           [] OTHER -> a3]

ShrinkFirstOnly == [a \in ASGs |-> IF a = a1 THEN 0 ELSE 1]
Zero == [a \in ASGs |-> 0]
One == [a \in ASGs |-> 1]
Two == [a \in ASGs |-> 2]
Three == [a \in ASGs |-> 3]

AllOptions == OptionType

(* With ask the operator may answer yes throughout; where the cluster      *)
(* check may fail, skipping it adds nothing; where a termination may be    *)
(* refused and no group has to launch anything, min_size adds little.      *)
Attended == {o \in OptionType : o.ask /\ o.check_k8s /\ o.replace}
Unattended == {o \in OptionType : ~o.ask /\ o.check_k8s}
UnattendedReplace == {o \in Unattended : o.replace}

AllFaults == FaultKinds
NoLookupFault == FaultKinds \ {"get_lt_version"}

PodSymmetry == Permutations(Pods)

=============================================================================
