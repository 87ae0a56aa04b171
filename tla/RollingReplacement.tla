-------------------------- MODULE RollingReplacement --------------------------
(***************************************************************************)
(* What replacing the instances of a stack promises to the workload that   *)
(* runs on them, without saying who replaces them, in which order, in how  *)
(* many attempts or with which tools (sysenvs/scripts/instance-refresh.sh  *)
(* is one way).  Instances become outdated at any time.  Only an outdated  *)
(* one is closed to the workload, emptied or retired; it is emptied when   *)
(* it is closed, and within the budget.  Only capacity that is idle may be *)
(* given up whatever its version.                                          *)
(***************************************************************************)
CONSTANTS
    Instances,
    Nowhere,      \* where a pending pod runs
    Pods,
    Enough        \* the disruption budget: the sets of pods it is enough to run

VARIABLES
    stage,        \* coming, serving, leaving or gone
    outdated,     \* the instances that are to be replaced
    closed,       \* the instances that take no pods any more
    pod           \* where each pod runs

vars == <<stage, outdated, closed, pod>>

Init ==
    /\ stage \in [Instances -> {"coming", "serving"}]
    /\ outdated \subseteq {i \in Instances : stage[i] = "serving"}
    /\ closed = {}
    /\ pod \in [Pods -> {i \in Instances : stage[i] = "serving"}]

(* What is launched is current, and stays so until a version is published. *)
Outdate ==
    /\ outdated \subseteq outdated'
    /\ UNCHANGED <<stage, closed, pod>>

Enter(i) ==
    /\ stage[i] = "coming"
    /\ stage' = [stage EXCEPT ![i] = "serving"]
    /\ UNCHANGED <<outdated, closed, pod>>

Close(i) ==
    /\ stage[i] # "gone" /\ i \in outdated
    /\ closed' = closed \cup {i}
    /\ UNCHANGED <<stage, outdated, pod>>

(* Moving a pod away: its instance is closed, and the budget permits it.   *)
Evict(p) ==
    /\ pod[p] \in closed \cap outdated
    /\ {q \in Pods : pod[q] # Nowhere} \ {p} \in Enough
    /\ pod' = [pod EXCEPT ![p] = Nowhere]
    /\ UNCHANGED <<stage, outdated, closed>>

Place(p, i) ==
    /\ pod[p] = Nowhere
    /\ stage[i] # "gone" /\ i \notin closed
    /\ pod' = [pod EXCEPT ![p] = i]
    /\ UNCHANGED <<stage, outdated, closed>>

Retire(i) ==
    /\ stage[i] \in {"coming", "serving"} /\ i \in outdated
    /\ stage' = [stage EXCEPT ![i] = "leaving"]
    /\ UNCHANGED <<outdated, closed, pod>>

(* Idle capacity is given up. *)
GiveUp(i) ==
    /\ stage[i] = "serving" /\ \A p \in Pods : pod[p] # i
    /\ stage' = [stage EXCEPT ![i] = "leaving"]
    /\ closed' = closed \cup {i}
    /\ UNCHANGED <<outdated, pod>>

(* An instance is gone, with the pods that are still on it. *)
Disappear(i) ==
    /\ stage[i] = "leaving"
    /\ stage' = [stage EXCEPT ![i] = "gone"]
    /\ closed' = closed \ {i}
    /\ pod' = [p \in Pods |-> IF pod[p] = i THEN Nowhere ELSE pod[p]]
    /\ UNCHANGED outdated

Next ==
    \/ Outdate
    \/ \E i \in Instances :
          Enter(i) \/ Close(i) \/ Retire(i) \/ GiveUp(i) \/ Disappear(i)
    \/ \E p \in Pods : Evict(p)
    \/ \E p \in Pods, i \in Instances : Place(p, i)

Spec == Init /\ [][Next]_vars

=============================================================================
