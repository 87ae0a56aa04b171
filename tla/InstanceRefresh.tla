--------------------------- MODULE InstanceRefresh ---------------------------
(***************************************************************************)
(* sysenvs/scripts/instance-refresh.sh with the functions of               *)
(* sysenvs/scripts/lib/utils it calls: an operator's script that retires   *)
(* the instances of a stack's Auto Scaling Groups that do not run the      *)
(* current Launch Template version.                                        *)
(*                                                                         *)
(* The script talks to two systems that keep moving while it runs: the     *)
(* Auto Scaling Groups (which launch, and with the cluster autoscaler      *)
(* remove, instances) and the Kubernetes cluster those instances are nodes *)
(* of (which schedules pods).  Both are modelled here only as far as the   *)
(* script observes or changes them.                                        *)
(*                                                                         *)
(* How bash treats a failing command under strictMode (set -eE -o pipefail *)
(* and an ERR trap that writes to stdout) decides three outcomes:          *)
(*   - a plain call that fails ends the script (exit code # 0);            *)
(*   - inside $(...) -e is off, so the function goes on and the trap's     *)
(*     text becomes part of the captured value;                            *)
(*   - inside `if X=$(...)` a failure only takes the else branch.          *)
(***************************************************************************)
EXTENDS Naturals, FiniteSets

CONSTANTS
    ASGs,           \* the groups whose name starts with the stack's name
    Instances,      \* every instance id that may ever exist
    NoInstance,     \* not an instance: a pending pod, or no current instance
    AsgOf,          \* the group an instance id belongs to
    InitialFleet,   \* the instances in service at the start
    Pods,           \* the replicas of one workload with a disruption budget
    MinAvailable,   \* the budget: evictions keep this many of them running
    MinSize,        \* min_size of a group
    MaxSize,        \* max_size of a group
    MaxVersion,     \* bound on the launch template versions published
    MaxRuns,        \* bound on the number of times the script is started
    Stack,          \* what the stack's name starts with
    Options,        \* the command lines explored: records of OptionType
    Faults          \* the failures and concurrent changes allowed to happen

StackKinds == {"k8s-controllers", "k8s-agents", "other"}

(* get_asgs, get_lt_version, current_context, get_nodes, get_node_name,    *)
(* kubectl and terminate are calls of the script that may fail; interrupt  *)
(* is the operator's Ctrl-C; scale_in is the cluster autoscaler removing   *)
(* an empty node meanwhile.                                                *)
FaultKinds == {"get_asgs", "get_lt_version", "current_context", "get_nodes",
               "get_node_name", "kubectl", "terminate", "interrupt", "scale_in"}

OptionType == [replace: BOOLEAN, ask: BOOLEAN, check_k8s: BOOLEAN]

ASSUME NoInstanceAssumption == NoInstance \notin Instances
ASSUME AsgOfAssumption == AsgOf \in [Instances -> ASGs]
ASSUME FleetAssumption == InitialFleet \subseteq Instances /\ IsFiniteSet(InitialFleet)
ASSUME SizeAssumption ==
    /\ MinSize \in [ASGs -> Nat]
    /\ MaxSize \in [ASGs -> Nat]
ASSUME BudgetAssumption ==
    IsFiniteSet(Pods) /\ MinAvailable \in 0..Cardinality(Pods)
(* A stack that is not part of a Kubernetes cluster runs no pods. *)
ASSUME WorkloadAssumption == Stack = "other" => Pods = {}
ASSUME BoundAssumption == MaxVersion \in Nat \ {0} /\ MaxRuns \in Nat
ASSUME ChoiceAssumption ==
    /\ Stack \in StackKinds
    /\ Options \subseteq OptionType
    /\ Faults \subseteq FaultKinds

VARIABLES
    (* the Auto Scaling Groups *)
    life,       \* the lifecycle state of every instance id
    version,    \* the launch template version an instance was launched with
    desired,    \* the desired capacity of every group
    latest,     \* the $Latest launch template version of every group
    (* the Kubernetes cluster *)
    node,       \* the node of an instance: absent, ready or cordoned
    pod,        \* the instance a pod runs on, NoInstance while it is pending
    (* the script *)
    pc,         \* the point the script has reached
    opts,       \* its command line
    asgsLeft,   \* the groups get_old_instances has not come to yet
    described,  \* the instances describe-auto-scaling-groups returned
    INSTANCES,  \* the array of instances left to work on
    cordonLeft, \* what is left of it in the cordon loop
    instance,   \* the loop variable
    IS_K8S_AVAILABLE,
    outcome,    \* none while the script runs; ok or aborted by set -e
    (* history *)
    runs,       \* how often the script has been started
    floor,      \* the latest versions when the current run was started
    killed,     \* the instances the current run has terminated
    missed,     \* the instances whose cordon or drain the current run skipped
    declined,   \* the instances the operator kept it from terminating
    undrained,  \* those any run terminated undrained that had, or then got, pods or a node
    evicted,    \* the pods the current run has evicted
    hasty       \* a run was started while some group had no controller that had joined

cloudVars == <<life, version, desired, latest>>
clusterVars == <<node, pod>>
scriptVars == <<pc, opts, asgsLeft, described, INSTANCES, cordonLeft, instance,
                IS_K8S_AVAILABLE, outcome>>
historyVars == <<runs, floor, killed, missed, declined, undrained, evicted, hasty>>
vars == <<cloudVars, clusterVars, scriptVars, historyVars>>

-----------------------------------------------------------------------------
(* The Auto Scaling Groups and the cluster, as the script sees them        *)

Active(a) == {i \in Instances : AsgOf[i] = a /\ life[i] \in {"pending", "in_service"}}

(* What is not a node yet, but is on its way to be one. *)
Coming == {i \in Instances : \/ life[i] = "pending"
                             \/ life[i] = "in_service" /\ node[i] = "absent"}

(* The controllers of a group that take part in the cluster. *)
Joined(a) == {i \in Instances : AsgOf[i] = a /\ life[i] = "in_service" /\ node[i] # "absent"}

(* describe-auto-scaling-groups also lists instances that are terminating *)
Members == {i \in Instances : life[i] \in {"pending", "in_service", "terminating"}}

Running == {p \in Pods : pod[p] # NoInstance}

Schedulable == {i \in Instances : node[i] = "ready"}

Fails(kind) == kind \in Faults

Init ==
    /\ life = [i \in Instances |-> IF i \in InitialFleet THEN "in_service" ELSE "none"]
    /\ latest \in [ASGs -> 1..MaxVersion]
    /\ version \in {v \in [Instances -> 1..MaxVersion] :
                      \A i \in Instances : IF i \in InitialFleet
                                           THEN v[i] <= latest[AsgOf[i]]
                                           ELSE v[i] = 1}
    /\ desired = [a \in ASGs |-> Cardinality({i \in InitialFleet : AsgOf[i] = a})]
    /\ node = [i \in Instances |->
                 IF i \in InitialFleet /\ Stack # "other" THEN "ready" ELSE "absent"]
    /\ pod \in [Pods -> InitialFleet]
    /\ pc = "idle" /\ outcome = "none" /\ opts \in Options
    /\ asgsLeft = {} /\ described = {} /\ INSTANCES = {} /\ cordonLeft = {}
    /\ instance = NoInstance /\ IS_K8S_AVAILABLE = FALSE
    /\ runs = 0 /\ floor = latest
    /\ killed = {} /\ missed = {} /\ declined = {} /\ undrained = {} /\ evicted = {}
    /\ hasty = FALSE

-----------------------------------------------------------------------------
(* The script                                                              *)

(* Mutant: the exit forgets the loop it was in. *)
Exit_KeepsCordonLeft(result) ==
    /\ pc' = "done" /\ outcome' = result
    /\ INSTANCES' = {} /\ instance' = NoInstance
    /\ asgsLeft' = {} /\ described' = {}
    /\ UNCHANGED cordonLeft

Exit(result) ==
    /\ pc' = "done" /\ outcome' = result
    /\ INSTANCES' = {} /\ cordonLeft' = {} /\ instance' = NoInstance
    /\ asgsLeft' = {} /\ described' = {}

(* The options are parsed and the work starts.  Nothing in the script      *)
(* looks whether what an earlier run terminated has been replaced, or      *)
(* whether the replacement has joined the cluster.                         *)
Start ==
    /\ pc \in {"idle", "done"} /\ runs < MaxRuns
    /\ opts' \in Options
    /\ pc' = "get_asgs" /\ outcome' = "none" /\ runs' = runs + 1
    /\ floor' = latest
    /\ killed' = {} /\ missed' = {} /\ declined' = {} /\ evicted' = {}
    /\ IS_K8S_AVAILABLE' = FALSE
    /\ hasty' = (hasty \/ (Stack = "k8s-controllers" /\ \E a \in ASGs : Joined(a) = {}))
    /\ UNCHANGED <<cloudVars, clusterVars, asgsLeft, described, INSTANCES,
                   cordonLeft, instance, undrained>>

(* One describe call returns all groups with their instances. *)
GetAsgs ==
    /\ pc = "get_asgs"
    /\ asgsLeft' = ASGs /\ described' = Members
    /\ pc' = "get_old_instances"
    /\ UNCHANGED <<cloudVars, clusterVars, historyVars, opts, INSTANCES,
                   cordonLeft, instance, IS_K8S_AVAILABLE, outcome>>

(* The call fails in a process substitution: the script goes on with the   *)
(* trap's text for a list of files, and ends at the first get_instance_id. *)
GetAsgsFails ==
    /\ pc = "get_asgs" /\ Fails("get_asgs")
    /\ Exit("aborted")
    /\ UNCHANGED <<cloudVars, clusterVars, historyVars, opts, IS_K8S_AVAILABLE>>

(* Mutants: the versions are not compared; they are compared with the one  *)
(* that was the latest when the script started.                            *)
OldInstances_NoComparison(a, asg_lt_version) == {i \in described : AsgOf[i] = a}
OldInstances_VersionAtStart(a, asg_lt_version) ==
    {i \in described : AsgOf[i] = a /\ version[i] # floor[a]}

OldInstances(a, asg_lt_version) ==
    {i \in described : AsgOf[i] = a /\ version[i] # asg_lt_version}

(* get_old_instances_in_asg: the groups follow $Latest, so their version   *)
(* is looked up now.  When the lookup fails the captured text equals no    *)
(* version at all (0 stands for it).                                       *)
GetOldInstancesInAsg(a) ==
    /\ pc = "get_old_instances" /\ a \in asgsLeft
    /\ asgsLeft' = asgsLeft \ {a}
    /\ \E v \in {latest[a]} \cup (IF Fails("get_lt_version") THEN {0} ELSE {}) :
          INSTANCES' = INSTANCES \cup OldInstances(a, v)
    /\ UNCHANGED <<cloudVars, clusterVars, historyVars, pc, opts, described,
                   cordonLeft, instance, IS_K8S_AVAILABLE, outcome>>

(* With nothing to do the script says bye; on the controllers it keeps the *)
(* first instance only.                                                    *)
NothingToDo ==
    /\ pc = "get_old_instances" /\ asgsLeft = {} /\ INSTANCES = {}
    /\ Exit("ok")
    /\ UNCHANGED <<cloudVars, clusterVars, historyVars, opts, IS_K8S_AVAILABLE>>

(* Mutants: no stack is limited to one instance; every stack is. *)
LimitInstances_Never(chosen) == chosen = INSTANCES
LimitInstances_Always(chosen) == \E i \in INSTANCES : chosen = {i}

LimitInstances(chosen) ==
    IF Stack = "k8s-controllers" THEN \E i \in INSTANCES : chosen = {i}
                                 ELSE chosen = INSTANCES

SelectInstances ==
    /\ pc = "get_old_instances" /\ asgsLeft = {} /\ INSTANCES # {}
    /\ \E chosen \in SUBSET INSTANCES :
          /\ LimitInstances(chosen)
          /\ INSTANCES' = chosen
    /\ described' = {}
    /\ pc' = "is_k8s_available"
    /\ UNCHANGED <<cloudVars, clusterVars, historyVars, opts, asgsLeft,
                   cordonLeft, instance, IS_K8S_AVAILABLE, outcome>>

(* Mutant: the loop that cordons every instance up front is left out. *)
FirstLoop_RetireAtOnce(answer) == "retire"

FirstLoop(answer) == IF answer THEN "cordon" ELSE "retire"

(* The answer is read once, here.  A failing `kubectl config               *)
(* current-context` leaves the trap's text in front of it, so that it is   *)
(* not 'yes' whatever follows.                                             *)
IsK8sAvailable ==
    /\ pc = "is_k8s_available"
    /\ \E answer \in BOOLEAN :
          /\ answer => Stack # "other" /\ opts.check_k8s
          /\ ~answer => \/ Stack = "other"
                        \/ ~opts.check_k8s
                        \/ Fails("current_context")
                        \/ Fails("get_nodes")
          /\ IS_K8S_AVAILABLE' = answer
          /\ pc' = FirstLoop(answer)
          /\ cordonLeft' = IF answer THEN INSTANCES ELSE {}
    /\ UNCHANGED <<cloudVars, clusterVars, historyVars, opts, asgsLeft, described,
                   INSTANCES, instance, outcome>>

(* get_k8s_node_name finds the node, unless the instance has none or the   *)
(* API server does not answer: both are taken for "not part of the         *)
(* cluster".                                                               *)
NodeFound(i) == node[i] # "absent"
NodeMissed(i) == node[i] = "absent" \/ Fails("get_node_name")

(* cordon_or_drain_instance up to the kubectl call, in the cordon loop:    *)
(* the node is looked up, and the operator may say no.                     *)
CordonLookup(i) ==
    /\ pc = "cordon" /\ i \in cordonLeft
    /\ NodeFound(i)
    /\ instance' = i /\ pc' = "kubectl_cordon"
    /\ UNCHANGED <<cloudVars, clusterVars, historyVars, opts, asgsLeft, described,
                   INSTANCES, cordonLeft, IS_K8S_AVAILABLE, outcome>>

CordonSkipped(i) ==
    /\ pc = "cordon" /\ i \in cordonLeft
    /\ NodeMissed(i) \/ opts.ask
    /\ cordonLeft' = cordonLeft \ {i}
    /\ missed' = missed \cup {i}
    /\ UNCHANGED <<cloudVars, clusterVars, pc, opts, asgsLeft, described, INSTANCES,
                   instance, IS_K8S_AVAILABLE, outcome, runs, floor, killed,
                   declined, undrained, evicted, hasty>>

KubectlCordon ==
    /\ pc = "kubectl_cordon" /\ NodeFound(instance)
    /\ node' = [node EXCEPT ![instance] = "cordoned"]
    /\ cordonLeft' = cordonLeft \ {instance}
    /\ instance' = NoInstance /\ pc' = "cordon"
    /\ UNCHANGED <<cloudVars, pod, historyVars, opts, asgsLeft, described, INSTANCES,
                   IS_K8S_AVAILABLE, outcome>>

(* kubectl cordon or kubectl drain fails: set -e ends the script and the   *)
(* nodes cordoned so far stay cordoned.                                    *)
KubectlFails ==
    /\ pc \in {"kubectl_cordon", "kubectl_drain", "evict"}
    /\ Fails("kubectl") \/ (pc # "evict" /\ ~NodeFound(instance))
    /\ Exit("aborted")
    /\ UNCHANGED <<cloudVars, clusterVars, historyVars, opts, IS_K8S_AVAILABLE>>

CordonDone ==
    /\ pc = "cordon" /\ cordonLeft = {}
    /\ pc' = "retire"
    /\ UNCHANGED <<cloudVars, clusterVars, historyVars, opts, asgsLeft, described,
                   INSTANCES, cordonLeft, instance, IS_K8S_AVAILABLE, outcome>>

(* retire_instance: drain if the cluster was available, then terminate. *)
DrainLookup(i) ==
    /\ pc = "retire" /\ i \in INSTANCES
    /\ IS_K8S_AVAILABLE /\ NodeFound(i)
    /\ instance' = i /\ pc' = "kubectl_drain"
    /\ UNCHANGED <<cloudVars, clusterVars, historyVars, opts, asgsLeft, described,
                   INSTANCES, cordonLeft, IS_K8S_AVAILABLE, outcome>>

DrainSkipped(i) ==
    /\ pc = "retire" /\ i \in INSTANCES
    /\ ~IS_K8S_AVAILABLE \/ NodeMissed(i) \/ opts.ask
    /\ instance' = i /\ pc' = "terminate"
    /\ missed' = missed \cup {i}
    /\ UNCHANGED <<cloudVars, clusterVars, opts, asgsLeft, described, INSTANCES,
                   cordonLeft, IS_K8S_AVAILABLE, outcome, runs, floor, killed,
                   declined, undrained, evicted, hasty>>

(* Mutant: the pods are moved without closing the node to them first. *)
KubectlDrain_NotCordoned ==
    /\ pc = "kubectl_drain" /\ NodeFound(instance)
    /\ pc' = "evict"
    /\ UNCHANGED <<cloudVars, clusterVars, historyVars, opts, asgsLeft, described,
                   INSTANCES, cordonLeft, instance, IS_K8S_AVAILABLE, outcome>>

(* kubectl drain cordons the node, then evicts its pods one by one as the  *)
(* disruption budget allows, retrying for as long as it takes (the script  *)
(* gives no --timeout).                                                    *)
KubectlDrain ==
    /\ pc = "kubectl_drain" /\ NodeFound(instance)
    /\ node' = [node EXCEPT ![instance] = "cordoned"]
    /\ pc' = "evict"
    /\ UNCHANGED <<cloudVars, pod, historyVars, opts, asgsLeft, described, INSTANCES,
                   cordonLeft, instance, IS_K8S_AVAILABLE, outcome>>

(* Mutant: pods are deleted, not evicted (drain --disable-eviction). *)
Evict_IgnoresBudget(p) ==
    /\ pc = "evict" /\ pod[p] = instance
    /\ pod' = [pod EXCEPT ![p] = NoInstance]
    /\ evicted' = evicted \cup {p}
    /\ UNCHANGED <<cloudVars, node, scriptVars, runs, floor, killed, missed,
                   declined, undrained, hasty>>

Evict(p) ==
    /\ pc = "evict" /\ pod[p] = instance
    /\ Cardinality(Running) > MinAvailable
    /\ pod' = [pod EXCEPT ![p] = NoInstance]
    /\ evicted' = evicted \cup {p}
    /\ UNCHANGED <<cloudVars, node, scriptVars, runs, floor, killed, missed,
                   declined, undrained, hasty>>

(* Mutant: the drain is not waited for. *)
DrainDone_InBackground ==
    /\ pc = "evict"
    /\ pc' = "terminate"
    /\ UNCHANGED <<cloudVars, clusterVars, historyVars, opts, asgsLeft, described,
                   INSTANCES, cordonLeft, instance, IS_K8S_AVAILABLE, outcome>>

DrainDone ==
    /\ pc = "evict" /\ \A p \in Pods : pod[p] # instance
    /\ pc' = "terminate"
    /\ UNCHANGED <<cloudVars, clusterVars, historyVars, opts, asgsLeft, described,
                   INSTANCES, cordonLeft, instance, IS_K8S_AVAILABLE, outcome>>

(* terminate_instance: with -r the group keeps its desired capacity,       *)
(* without it the capacity is decremented, which the group refuses at      *)
(* min_size.  Nothing waits for the termination or for a replacement.      *)
TerminateAccepted(i) ==
    /\ life[i] \in {"pending", "in_service"}
    /\ opts.replace \/ desired[AsgOf[i]] > MinSize[AsgOf[i]]

HandleInstance ==
    /\ pc = "terminate" /\ TerminateAccepted(instance)
    /\ life' = [life EXCEPT ![instance] = "terminating"]
    /\ desired' = IF opts.replace THEN desired
                  ELSE [desired EXCEPT ![AsgOf[instance]] = @ - 1]
    /\ killed' = killed \cup {instance}
    /\ undrained' = IF node[instance] = "ready" \/ \E p \in Pods : pod[p] = instance
                    THEN undrained \cup {instance} ELSE undrained
    /\ INSTANCES' = INSTANCES \ {instance}
    /\ instance' = NoInstance /\ pc' = "retire"
    /\ UNCHANGED <<version, latest, clusterVars, opts, asgsLeft, described, cordonLeft,
                   IS_K8S_AVAILABLE, outcome, runs, floor, missed, declined, evicted,
                   hasty>>

(* The operator says no: the instance stays, cordoned and perhaps drained. *)
HandleDeclined ==
    /\ pc = "terminate" /\ opts.ask
    /\ INSTANCES' = INSTANCES \ {instance}
    /\ declined' = declined \cup {instance}
    /\ instance' = NoInstance /\ pc' = "retire"
    /\ UNCHANGED <<cloudVars, clusterVars, opts, asgsLeft, described, cordonLeft,
                   IS_K8S_AVAILABLE, outcome, runs, floor, killed, missed, undrained,
                   evicted, hasty>>

(* The group refuses the call, or the call fails: set -e ends the script. *)
(* Mutants: the failed call is ignored (|| true); it is retried for ever. *)
TerminateFails_Ignored ==
    /\ pc = "terminate"
    /\ Fails("terminate") \/ ~TerminateAccepted(instance)
    /\ INSTANCES' = INSTANCES \ {instance}
    /\ instance' = NoInstance /\ pc' = "retire"
    /\ UNCHANGED <<cloudVars, clusterVars, historyVars, opts, asgsLeft, described,
                   cordonLeft, IS_K8S_AVAILABLE, outcome>>

TerminateFails_Retried ==
    /\ pc = "terminate"
    /\ Fails("terminate") \/ ~TerminateAccepted(instance)
    /\ UNCHANGED vars

TerminateFails ==
    /\ pc = "terminate"
    /\ Fails("terminate") \/ ~TerminateAccepted(instance)
    /\ Exit("aborted")
    /\ UNCHANGED <<cloudVars, clusterVars, historyVars, opts, IS_K8S_AVAILABLE>>

AllRetired ==
    /\ pc = "retire" /\ INSTANCES = {}
    /\ Exit("ok")
    /\ UNCHANGED <<cloudVars, clusterVars, historyVars, opts, IS_K8S_AVAILABLE>>

(* The script is interrupted; its EXIT trap only removes the temporary     *)
(* directory.                                                              *)
Interrupted ==
    /\ pc \notin {"idle", "done"} /\ Fails("interrupt")
    /\ Exit("aborted")
    /\ UNCHANGED <<cloudVars, clusterVars, historyVars, opts, IS_K8S_AVAILABLE>>

Script ==
    \/ GetAsgs \/ GetAsgsFails
    \/ \E a \in ASGs : GetOldInstancesInAsg(a)
    \/ NothingToDo \/ SelectInstances \/ IsK8sAvailable
    \/ \E i \in Instances : CordonLookup(i) \/ CordonSkipped(i)
    \/ KubectlCordon \/ KubectlFails \/ CordonDone
    \/ \E i \in Instances : DrainLookup(i) \/ DrainSkipped(i)
    \/ KubectlDrain
    \/ \E p \in Pods : Evict(p)
    \/ DrainDone \/ HandleInstance \/ HandleDeclined \/ TerminateFails \/ AllRetired

-----------------------------------------------------------------------------
(* What goes on around the script                                          *)

(* A new launch template version: `pulumi up` of the stack. *)
PublishVersion(a) ==
    /\ latest[a] < MaxVersion
    /\ latest' = [latest EXCEPT ![a] = @ + 1]
    /\ UNCHANGED <<life, version, desired, clusterVars, scriptVars, historyVars>>

(* The group launches an instance of the $Latest version when it is below  *)
(* its desired capacity; instances on their way out do not count.          *)
Launch(i) ==
    /\ life[i] = "none"
    /\ Cardinality(Active(AsgOf[i])) < desired[AsgOf[i]]
    /\ life' = [life EXCEPT ![i] = "pending"]
    /\ version' = [version EXCEPT ![i] = latest[AsgOf[i]]]
    /\ UNCHANGED <<desired, latest, clusterVars, scriptVars, historyVars>>

(* The launch hook is completed, or the group has none: the instance is in *)
(* service, whether or not its kubelet has registered.  The user data      *)
(* completes the hook after the node's health check, unless it fails to    *)
(* look up the group; a group's first instances, and the controllers', are *)
(* launched without a hook.                                                *)
EnterService(i) ==
    /\ life[i] = "pending"
    /\ life' = [life EXCEPT ![i] = "in_service"]
    /\ UNCHANGED <<version, desired, latest, clusterVars, scriptVars, historyVars>>

(* The kubelet registers, before or after the instance is in service, and  *)
(* even while the instance is on its way out.                              *)
Join(i) ==
    /\ Stack # "other"
    /\ life[i] \in {"pending", "in_service", "terminating"} /\ node[i] = "absent"
    /\ node' = [node EXCEPT ![i] = "ready"]
    /\ undrained' = IF life[i] = "terminating" THEN undrained \cup {i} ELSE undrained
    /\ UNCHANGED <<cloudVars, pod, scriptVars, runs, floor, killed, missed, declined,
                   evicted, hasty>>

(* The instance and its node are gone, and with them the pods left there. *)
Vanish(i) ==
    /\ life[i] = "terminating"
    /\ life' = [life EXCEPT ![i] = "gone"]
    /\ node' = [node EXCEPT ![i] = "absent"]
    /\ pod' = [p \in Pods |-> IF pod[p] = i THEN NoInstance ELSE pod[p]]
    /\ UNCHANGED <<version, desired, latest, scriptVars, historyVars>>

Schedule(p, i) ==
    /\ pod[p] = NoInstance /\ i \in Schedulable
    /\ pod' = [pod EXCEPT ![p] = i]
    /\ UNCHANGED <<cloudVars, node, scriptVars, historyVars>>

(* The cluster autoscaler of k8s_controllers/cluster_autoscaler.py: pods   *)
(* that fit nowhere raise the desired capacity of a group below its max.   *)
ScaleUp(a) ==
    /\ Stack = "k8s-agents"
    /\ Running # Pods /\ Schedulable = {}
    /\ \A b \in ASGs : Cardinality(Active(b)) >= desired[b]
    /\ Coming = {}
    /\ desired[a] < MaxSize[a]
    /\ desired' = [desired EXCEPT ![a] = @ + 1]
    /\ UNCHANGED <<life, version, latest, clusterVars, scriptVars, historyVars>>

(* It taints and removes a node that runs no pod.  That it also removes    *)
(* instances that never become nodes is in AgentLifecycle.                 *)
ScaleIn(i) ==
    /\ Fails("scale_in") /\ Stack = "k8s-agents"
    /\ life[i] = "in_service" /\ NodeFound(i) /\ \A p \in Pods : pod[p] # i
    /\ desired[AsgOf[i]] > MinSize[AsgOf[i]]
    /\ life' = [life EXCEPT ![i] = "terminating"]
    /\ node' = [node EXCEPT ![i] = "cordoned"]
    /\ desired' = [desired EXCEPT ![AsgOf[i]] = @ - 1]
    /\ UNCHANGED <<version, latest, pod, scriptVars, historyVars>>

Platform ==
    \/ \E i \in Instances : Launch(i) \/ EnterService(i) \/ Join(i) \/ Vanish(i)
    \/ \E p \in Pods, i \in Instances : Schedule(p, i)
    \/ \E a \in ASGs : ScaleUp(a)

(* The script has ended for good: nothing is left to run. *)
Finished ==
    /\ pc = "done" /\ runs = MaxRuns
    /\ UNCHANGED vars

Next ==
    \/ Start
    \/ Script
    \/ Platform
    \/ \E a \in ASGs : PublishVersion(a)
    \/ \E i \in Instances : ScaleIn(i)
    \/ Interrupted
    \/ Finished

Spec == Init /\ [][Next]_vars

(* The script runs until it exits, but a drain that waits does not give up *)
(* by itself.  The groups, the kubelets, the scheduler and the cluster     *)
(* autoscaler keep reconciling; what becomes of instances that never join  *)
(* is in AgentLifecycle.  Nothing obliges anyone to start the script, to   *)
(* publish a version or to scale in.                                       *)
FairSpec ==
    /\ Spec
    /\ WF_vars(Script /\ (pc = "evict" => pc' # "done"))
    /\ \A i \in Instances : /\ WF_vars(Launch(i)) /\ WF_vars(EnterService(i))
                             /\ WF_vars(Join(i)) /\ WF_vars(Vanish(i))
    /\ \A p \in Pods : WF_vars(\E i \in Instances : Schedule(p, i))
    /\ WF_vars(\E a \in ASGs : ScaleUp(a))

-----------------------------------------------------------------------------
(* Type invariant *)

PcType == {"idle", "get_asgs", "get_old_instances", "is_k8s_available", "cordon",
           "kubectl_cordon", "retire", "kubectl_drain", "evict", "terminate", "done"}

(* The points at which the script is working on the instance it picked. *)
AtWork == {"kubectl_cordon", "kubectl_drain", "evict", "terminate"}

Cordoning == {"cordon", "kubectl_cordon"}

Retiring == {"retire", "kubectl_drain", "evict", "terminate"}

TypeOK ==
    /\ life \in [Instances -> {"none", "pending", "in_service", "terminating", "gone"}]
    /\ version \in [Instances -> 1..MaxVersion]
    /\ desired \in [ASGs -> Nat]
    /\ latest \in [ASGs -> 1..MaxVersion]
    /\ node \in [Instances -> {"absent", "ready", "cordoned"}]
    /\ pod \in [Pods -> Instances \cup {NoInstance}]
    /\ pc \in PcType
    /\ opts \in OptionType
    /\ asgsLeft \subseteq IF pc = "get_old_instances" THEN ASGs ELSE {}
    /\ described \subseteq Instances
    /\ INSTANCES \subseteq IF pc \in {"idle", "get_asgs", "done"} THEN {} ELSE Instances
    /\ cordonLeft \subseteq IF pc \in Cordoning THEN INSTANCES ELSE {}
    /\ instance \in IF pc \in AtWork THEN INSTANCES ELSE {NoInstance}
    /\ IS_K8S_AVAILABLE \in BOOLEAN
    /\ outcome \in {"none", "ok", "aborted"}
    /\ runs \in 0..MaxRuns
    /\ floor \in [ASGs -> 1..MaxVersion]
    /\ killed \subseteq Instances /\ missed \subseteq Instances
    /\ declined \subseteq Instances /\ undrained \subseteq Instances /\ evicted \subseteq Pods
    /\ hasty \in BOOLEAN

-----------------------------------------------------------------------------
(* Safety *)

(* instance-refresh.sh:73, "all instances that are NOT on current Launch   *)
(* Template version": no run terminates an instance that runs the version  *)
(* its group would launch, however the versions move during the run.       *)
OnlyOutdatedTerminated ==
    \A i \in killed : version[i] < latest[AsgOf[i]]

(* The purpose of cordoning every instance up front: a pod that this run   *)
(* has evicted is never placed on an instance the run is still to retire,  *)
(* unless cordoning that instance was skipped or refused.                  *)
EvictedPodsStayPut ==
    IS_K8S_AVAILABLE =>
        \A p \in evicted : pod[p] \notin INSTANCES \ missed

(* The workload keeps its disruption budget through any number of runs,    *)
(* failures and concurrent scaling, as long as no run terminated an        *)
(* instance that still had pods or could still be given some.              *)
BudgetKept ==
    undrained = {} => Cardinality(Running) >= MinAvailable

(* The only way a run terminates an instance without draining it is that   *)
(* the lookup of its node failed or came before the instance had joined,   *)
(* the operator refused the drain, or the cluster was not reachable when   *)
(* the run asked.                                                          *)
UndrainedOnlyIfMissed == killed \cap undrained \subseteq missed

(* instance-refresh.sh:108, "Drain and terminate/replace instances": with  *)
(* the cluster reachable and nobody saying no, an instance is drained      *)
(* before it is terminated.                                                *)
DrainedBeforeTerminated ==
    IS_K8S_AVAILABLE /\ ~opts.ask => killed \cap undrained = {}

(* instance-refresh.sh:85, the limit of one instance on the controllers:   *)
(* any number of runs, each started when every group's controller is in    *)
(* service and has joined, leave a majority of the one-controller groups,  *)
(* and so etcd's quorum, with their controller throughout.                 *)
ControllerQuorum ==
    Stack = "k8s-controllers" /\ ~hasty =>
        2 * Cardinality({a \in ASGs : Joined(a) = {}}) < Cardinality(ASGs)

(* A run that ends well has renewed the fleet: every instance that is in   *)
(* service or about to be, but for those the operator kept, runs at least  *)
(* the version that was current when the run started.                      *)
FleetRenewed ==
    outcome = "ok" /\ Stack # "k8s-controllers" =>
        \A a \in ASGs : \A i \in Active(a) \ declined : version[i] >= floor[a]

(* What a run leaves behind when kubectl, the groups or the operator stop  *)
(* it (utils:325, strict-mode:25) a later run can find: an instance its    *)
(* group keeps whose node is cordoned is still outdated, however the       *)
(* versions moved since, so that comparing versions selects it again.      *)
OnlyOutdatedCordoned ==
    \A a \in ASGs : \A i \in Active(a) :
        node[i] = "cordoned" => version[i] < latest[a]

(* A run that ends well leaves no instance it would have to come back to:  *)
(* what this or an earlier, aborted run cordoned its group has given up.   *)
NothingLeftCordoned ==
    outcome = "ok" /\ Stack # "k8s-controllers" =>
        \A a \in ASGs : \A i \in Active(a) \ declined : node[i] # "cordoned"

-----------------------------------------------------------------------------
(* Refinement *)

Stage(i) ==
    CASE life[i] \in {"none", "pending"} -> "coming"
      [] life[i] = "in_service" -> "serving"
      [] life[i] = "terminating" -> "leaving"
      [] life[i] = "gone" -> "gone"

Outdated(i) == life[i] # "none" /\ version[i] < latest[AsgOf[i]]

Replacement == INSTANCE RollingReplacement WITH
    Nowhere <- NoInstance,
    Enough <- {pods \in SUBSET Pods : Cardinality(pods) >= MinAvailable},
    stage <- [i \in Instances |-> Stage(i)],
    outdated <- {i \in Instances : Outdated(i)},
    closed <- {i \in Instances : node[i] = "cordoned"}

(* Any number of runs, aborted wherever they may be, together with the     *)
(* groups, the scheduler and the autoscaler, replace instances as          *)
(* RollingReplacement says: the script touches outdated instances only,    *)
(* and moves pods only off instances it has closed (instance-refresh.sh:73 *)
(* and :94-113).                                                           *)
ReplacesRolling == Replacement!Spec

-----------------------------------------------------------------------------
(* Liveness *)

(* The drain waits for the budget, but what it has evicted cannot run      *)
(* anywhere: all nodes are cordoned, no instance is coming and no group    *)
(* may grow.                                                               *)
NoRoom ==
    /\ pc = "evict" /\ Cardinality(Running) <= MinAvailable /\ Schedulable = {}
    /\ Coming = {}
    /\ \A a \in ASGs : desired[a] >= MaxSize[a] /\ Cardinality(Active(a)) >= desired[a]

(* How far a run is from its end: the stages to come, what the loop of     *)
(* this stage has left, and the steps of the loop's body.                  *)
StagesLeft ==
    CASE pc = "get_asgs" -> 5
      [] pc = "get_old_instances" -> 4
      [] pc = "is_k8s_available" -> 3
      [] pc \in Cordoning -> 2
      [] pc \in Retiring -> 1
      [] OTHER -> 0

LoopLeft ==
    CASE pc = "get_old_instances" -> asgsLeft
      [] pc \in Cordoning -> cordonLeft
      [] pc \in Retiring -> INSTANCES
      [] OTHER -> {}

BodyLeft ==
    CASE pc = "retire" -> 3
      [] pc = "kubectl_drain" -> 2
      [] pc \in {"evict", "cordon"} -> 1
      [] OTHER -> 0

PodsLeft == {p \in Pods : pod[p] = instance}

Shrinks(before, after) == after \subseteq before /\ after # before

Nearer ==
    \/ StagesLeft' < StagesLeft
    \/ /\ StagesLeft' = StagesLeft
       /\ \/ Shrinks(LoopLeft, LoopLeft')
          \/ LoopLeft' = LoopLeft /\ BodyLeft' < BodyLeft
          \/ LoopLeft' = LoopLeft /\ BodyLeft' = BodyLeft /\ Shrinks(PodsLeft, PodsLeft')

(* A run does not go round in circles, whatever fails, is skipped or moves *)
(* meanwhile: each of its steps brings it nearer to its end, and while a   *)
(* drain waits (utils:325) no pod comes back to its node, though the       *)
(* script looked at that node one step earlier and other instances join.   *)
RunProgresses ==
    [][/\ Script \/ Interrupted => Nearer
       /\ pc = "evict" /\ pc' = "evict" => PodsLeft' \subseteq PodsLeft]_vars

(* A run that was started ends, provided the budget lets some pod be       *)
(* moved: the drains wait for the budget, and the replacements or the      *)
(* autoscaler make the room they wait for.  Only with every instance       *)
(* outdated, all of them cordoned up front, and the groups at max_size     *)
(* does a drain wait for ever.                                             *)
RunEnds ==
    Pods = {} \/ MinAvailable < Cardinality(Pods) =>
        (pc \notin {"idle", "done"} ~> (pc = "done" \/ NoRoom))

=============================================================================
