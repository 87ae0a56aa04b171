---------------------------- MODULE AgentLifecycle ----------------------------
(***************************************************************************)
(* The agents of one node group over their life: k8s_agents declares an    *)
(* Auto Scaling Group with a hook on launch and one on termination, and    *)
(* the user data that completes the first; k8s_controllers declares the    *)
(* queue, the rules that fill it, the node termination handler that        *)
(* empties it and completes the second, and the cluster autoscaler.        *)
(*                                                                         *)
(* The group does not replace what becomes unhealthy (ReplaceUnhealthy is  *)
(* suspended), so that the hooks and the autoscaler are all that gets a    *)
(* failed agent replaced.                                                  *)
(*                                                                         *)
(* An instance id stands for another instance once the one before is gone. *)
(* Disruption budgets are left out (see InstanceRefresh), and so is the    *)
(* room on a node.                                                         *)
(***************************************************************************)
EXTENDS Naturals, FiniteSets

CONSTANTS
    Instances,
    Pods,
    NoInstance,   \* not an instance: where a pending pod runs
    MinSize,      \* nodegroup.min_size
    MaxSize       \* nodegroup.max_size

ASSUME NoInstanceAssumption == NoInstance \notin Instances
ASSUME FiniteAssumption == IsFiniteSet(Instances)
ASSUME SizeAssumption == MinSize \in Nat /\ MaxSize \in Nat /\ MinSize <= MaxSize
ASSUME EnoughAssumption == MaxSize <= Cardinality(Instances)

VARIABLES
    (* the group *)
    hooks,        \* the lifecycle hooks Pulumi has created by now
    desired,      \* the desired capacity
    life,         \* the lifecycle state of every instance
    (* the instances *)
    boot,         \* how far the user data has come; dead when EC2 has taken the instance
    node,         \* absent, ready or cordoned
    pod,          \* the instance a pod runs on
    (* the node termination handler *)
    queue,        \* the messages SQS keeps
    handling,     \* those the handler is working on
    (* history *)
    unwaited,     \* the instances whose termination nobody waited with
    undrained     \* the instances terminated with pods, or ready for some

groupVars == <<hooks, desired, life>>
nodeVars == <<boot, node, pod>>
handlerVars == <<queue, handling>>
history == <<unwaited, undrained>>
vars == <<groupVars, nodeVars, handlerVars, history>>

Message == [kind : {"lifecycle", "notice"}, of : Instances]

Lifecycle(i) == [kind |-> "lifecycle", of |-> i]
Notice(i) == [kind |-> "notice", of |-> i]

Active == {i \in Instances : life[i] \in {"pending", "in_service"}}
PodsOn(i) == {p \in Pods : pod[p] = i}
Pending == PodsOn(NoInstance)
Schedulable == {i \in Instances : node[i] = "ready"}

Init ==
    /\ hooks = {} /\ desired = MinSize
    /\ life = [i \in Instances |-> "none"]
    /\ boot = [i \in Instances |-> "off"]
    /\ node = [i \in Instances |-> "absent"]
    /\ pod = [p \in Pods |-> NoInstance]
    /\ queue = {} /\ handling = {}
    /\ unwaited = {} /\ undrained = {}

-----------------------------------------------------------------------------
(* Launch                                                                  *)

(* The hooks have the group for a parent: it exists first.                 *)
CreateLifecycleHook(hook) ==
    /\ hook \notin hooks
    /\ hooks' = hooks \cup {hook}
    /\ UNCHANGED <<desired, life, nodeVars, handlerVars, history>>

Wanted(i) ==
    /\ life[i] = "none" /\ Cardinality(Active) < desired
    /\ \A m \in queue : m.of # i

(* Without the launch hook it is in service at once, whether it boots or  *)
(* not.                                                                    *)
Launch(i) ==
    /\ Wanted(i)
    /\ life' = [life EXCEPT ![i] = IF "launch" \in hooks THEN "pending" ELSE "in_service"]
    /\ boot' = [boot EXCEPT ![i] = "setup"]
    /\ UNCHANGED <<hooks, desired, node, pod, handlerVars, history>>

Runs(i) == boot[i] \notin {"off", "dead"}

(* The user data is run without -e: it gets past everything it downloads   *)
(* and configures, starts the kubelet and looks up its group and the hook; *)
(* without a group the lifecycle action is skipped.                        *)
SetUp(i, then) ==
    /\ Runs(i) /\ boot[i] = "setup"
    /\ boot' = [boot EXCEPT ![i] = then]
    /\ UNCHANGED <<groupVars, node, pod, handlerVars, history>>

StartKubelet(i) == SetUp(i, "wait")

LookupAsgFails(i) == SetUp(i, "done")

(* A kubelet with an empty CA file never registers, and so the script      *)
(* waits for ever.                                                         *)
SetupFails(i) == SetUp(i, "broken")

Register(i) ==
    /\ Runs(i) /\ boot[i] \in {"wait", "done"} /\ node[i] = "absent"
    /\ node' = [node EXCEPT ![i] = "ready"]
    /\ UNCHANGED <<groupVars, boot, pod, handlerVars, history>>

(* Then k8s-check.sh until it succeeds, and complete_lf, whose failure     *)
(* nobody sees.                                                            *)
K8sCheck(i) == Runs(i) /\ boot[i] = "wait" /\ node[i] # "absent"

CompleteLf(i) ==
    /\ K8sCheck(i)
    /\ boot' = [boot EXCEPT ![i] = "done"]
    /\ life' = [life EXCEPT ![i] = IF @ = "pending" THEN "in_service" ELSE @]
    /\ UNCHANGED <<hooks, desired, node, pod, handlerVars, history>>

CompleteLfFails(i) ==
    /\ K8sCheck(i)
    /\ boot' = [boot EXCEPT ![i] = "done"]
    /\ UNCHANGED <<groupVars, node, pod, handlerVars, history>>

-----------------------------------------------------------------------------
(* Termination                                                             *)

(* The group terminates an instance: the hook holds it, and a rule sends   *)
(* its event to the queue.                                                 *)
Terminate(i) ==
    IF "termination" \in hooks
    THEN /\ life' = [life EXCEPT ![i] = "terminating_wait"]
         /\ queue' = queue \cup {Lifecycle(i)}
         /\ UNCHANGED unwaited
    ELSE /\ life' = [life EXCEPT ![i] = "terminating"]
         /\ unwaited' = unwaited \cup {i}
         /\ UNCHANGED queue

(* default_result of the launch hook, ABANDON, after 900 seconds.          *)
(* Mutant: CONTINUE.                                                       *)
Abandon_Continue(i) ==
    /\ life[i] = "pending"
    /\ life' = [life EXCEPT ![i] = "in_service"]
    /\ UNCHANGED <<hooks, desired, nodeVars, handlerVars, history>>

Abandon(i) ==
    /\ life[i] = "pending"
    /\ Terminate(i)
    /\ UNCHANGED <<hooks, desired, nodeVars, handling, undrained>>

(* Nothing is left that would complete the hook.                           *)
Overdue(i) == life[i] = "pending" /\ boot[i] \in {"broken", "done"}

LaunchTimesOut(i) == Overdue(i) /\ Abandon(i)

(* Or the boot has taken too long.                                         *)
LaunchTimesOutEarly(i) == boot[i] \notin {"broken", "done"} /\ Abandon(i)

(* An operator terminates an instance, or the refresh script does, and     *)
(* leaves the desired capacity alone.                                      *)
Retire(i) ==
    /\ life[i] = "in_service"
    /\ Terminate(i)
    /\ UNCHANGED <<hooks, desired, nodeVars, handling, undrained>>

(* default_result of the termination hook, CONTINUE, after 300 seconds,    *)
(* however far the handler has come.                                       *)
TerminationTimesOut(i) ==
    /\ life[i] = "terminating_wait"
    /\ life' = [life EXCEPT ![i] = "terminating"]
    /\ unwaited' = unwaited \cup {i}
    /\ UNCHANGED <<hooks, desired, nodeVars, handlerVars, undrained>>

(* The instance is gone, and with it its node and the pods left there.     *)
Vanish(i) ==
    /\ life[i] = "terminating"
    /\ life' = [life EXCEPT ![i] = "none"]
    /\ boot' = [boot EXCEPT ![i] = "off"]
    /\ node' = [node EXCEPT ![i] = "absent"]
    /\ pod' = [p \in Pods |-> IF pod[p] = i THEN NoInstance ELSE pod[p]]
    /\ undrained' = IF (node[i] = "ready" \/ PodsOn(i) # {}) /\ i \notin unwaited
                    THEN undrained \cup {i} ELSE undrained
    /\ unwaited' = unwaited \ {i}
    /\ UNCHANGED <<hooks, desired, handlerVars>>

-----------------------------------------------------------------------------
(* Spot interruptions, rebalance recommendations, scheduled changes        *)

(* The rules send these events to the queue as well.                       *)
Warn(i) ==
    /\ Runs(i) /\ life[i] = "in_service" /\ Notice(i) \notin queue
    /\ queue' = queue \cup {Notice(i)}
    /\ UNCHANGED <<groupVars, nodeVars, handling, history>>

(* EC2 takes the instance, two minutes after the warning whatever goes on, *)
(* or without one; for the group it stays in service, and counts.          *)
Reclaim(i) ==
    /\ Runs(i) /\ life[i] = "in_service"
    /\ boot' = [boot EXCEPT ![i] = "dead"]
    /\ node' = [node EXCEPT ![i] = "absent"]
    /\ pod' = [p \in Pods |-> IF pod[p] = i THEN NoInstance ELSE pod[p]]
    /\ UNCHANGED <<groupVars, handlerVars, history>>

-----------------------------------------------------------------------------
(* The node termination handler                                            *)

(* A message is received, perhaps again, and its node cordoned. An         *)
(* instance that is no node is an error, and its message stays.            *)
Receive(m) ==
    /\ m \in queue \ handling /\ node[m.of] # "absent"
    /\ handling' = handling \cup {m}
    /\ node' = [node EXCEPT ![m.of] = "cordoned"]
    /\ UNCHANGED <<groupVars, boot, pod, queue, history>>

Evict(m, p) ==
    /\ m \in handling /\ pod[p] = m.of
    /\ pod' = [pod EXCEPT ![p] = NoInstance]
    /\ UNCHANGED <<groupVars, boot, node, handlerVars, history>>

(* Mutant: cordonOnly.                                                     *)
Drained_CordonOnly(m) == m \in handling

Drained(m) == m \in handling /\ node[m.of] # "ready" /\ PodsOn(m.of) = {}

(* The lifecycle action is completed, and the message deleted.             *)
Handled(m) ==
    /\ Drained(m)
    /\ handling' = handling \ {m} /\ queue' = queue \ {m}
    /\ life' = [life EXCEPT ![m.of] =
                  IF m.kind = "lifecycle" /\ @ = "terminating_wait" THEN "terminating" ELSE @]
    /\ UNCHANGED <<hooks, desired, nodeVars, history>>

(* The handler restarts: the messages it had not deleted come again.       *)
HandlerRestarts ==
    /\ handling # {}
    /\ handling' = {}
    /\ UNCHANGED <<groupVars, nodeVars, queue, history>>

(* message_retention_seconds=300.                                          *)
MessageExpires(m) ==
    /\ m \in queue \ handling
    /\ queue' = queue \ {m}
    /\ UNCHANGED <<groupVars, nodeVars, handling, history>>

-----------------------------------------------------------------------------
(* The scheduler and the cluster autoscaler                                *)

Schedule(p, i) ==
    /\ pod[p] = NoInstance /\ i \in Schedulable
    /\ pod' = [pod EXCEPT ![p] = i]
    /\ UNCHANGED <<groupVars, boot, node, handlerVars, history>>

(* An instance that will be a node soon, as far as anybody can tell.       *)
Coming(i) == i \in Active /\ node[i] = "absent" /\ boot[i] \notin {"broken", "dead"}

(* Mutant: the tags of the group are not those of autoDiscovery.           *)
Grows_Undiscovered == FALSE

Grows ==
    /\ Pending # {} /\ Schedulable = {}
    /\ desired < MaxSize
    /\ Cardinality(Active) >= desired /\ \A i \in Instances : ~Coming(i)

ScaleUp ==
    /\ Grows
    /\ desired' = desired + 1
    /\ UNCHANGED <<hooks, life, nodeVars, handlerVars, history>>

(* What runs no pod and is not waited for by any is removed, but not below *)
(* min_size: a node, or an instance that has not become one in time.       *)
(* Mutant: only nodes.                                                     *)
Unneeded_Node(i) ==
    PodsOn(i) = {} /\ (node[i] = "cordoned" \/ (node[i] = "ready" /\ Pending = {}))

Unneeded(i) ==
    /\ PodsOn(i) = {}
    /\ \/ node[i] = "cordoned"
       \/ node[i] = "ready" /\ Pending = {}
       \/ node[i] = "absent" /\ boot[i] \in {"broken", "dead"}

(* Mutant: one instance too many.                                          *)
Removable_BelowMin(i) == i \in Active /\ Unneeded(i) /\ desired >= MinSize

Removable(i) == i \in Active /\ Unneeded(i) /\ desired > MinSize

ScaleDown(i) ==
    /\ Removable(i)
    /\ desired' = desired - 1
    /\ node' = [node EXCEPT ![i] = IF @ = "ready" THEN "cordoned" ELSE @]
    /\ Terminate(i)
    /\ UNCHANGED <<hooks, boot, pod, handling, undrained>>

-----------------------------------------------------------------------------

(* What goes wrong, or comes from outside.                                 *)
Disturb(i) ==
    \/ SetupFails(i) \/ LookupAsgFails(i) \/ CompleteLfFails(i)
    \/ LaunchTimesOutEarly(i) \/ Retire(i) \/ Warn(i) \/ Reclaim(i)

Disturbance ==
    \/ \E i \in Instances : Disturb(i)
    \/ HandlerRestarts

UserData(i) == StartKubelet(i) \/ Register(i) \/ CompleteLf(i)

Group(i) == Launch(i) \/ LaunchTimesOut(i) \/ TerminationTimesOut(i) \/ Vanish(i)

Handler(m) == Receive(m) \/ (\E p \in Pods : Evict(m, p)) \/ Handled(m)

Next ==
    \/ \E hook \in {"launch", "termination"} : CreateLifecycleHook(hook)
    \/ \E i \in Instances : UserData(i) \/ Group(i) \/ ScaleDown(i)
    \/ \E m \in Message : Handler(m) \/ MessageExpires(m)
    \/ \E p \in Pods, i \in Instances : Schedule(p, i)
    \/ ScaleUp
    \/ Disturbance

Spec == Init /\ [][Next]_vars

(* Everything but disturbances goes on; hooks may never be created.        *)
FairSpec ==
    /\ Spec
    /\ \A i \in Instances : WF_vars(UserData(i)) /\ WF_vars(Group(i))
    /\ WF_vars(\E m \in Message : Handler(m))
    /\ WF_vars(\E m \in Message : MessageExpires(m))
    /\ WF_vars(\E p \in Pods, i \in Instances : Schedule(p, i))
    /\ WF_vars(ScaleUp)
    /\ WF_vars(\E i \in Instances : ScaleDown(i))

-----------------------------------------------------------------------------

(* Type invariant; pods run on nodes, and nodes on what has booted.         *)
TypeOK ==
    /\ hooks \subseteq {"launch", "termination"}
    /\ desired \in MinSize..MaxSize
    /\ life \in [Instances -> {"none", "pending", "in_service", "terminating_wait", "terminating"}]
    /\ boot \in [Instances -> {"off", "setup", "broken", "wait", "done", "dead"}]
    /\ node \in [Instances -> {"absent", "ready", "cordoned"}]
    /\ pod \in [Pods -> Instances \cup {NoInstance}]
    /\ queue \subseteq Message /\ handling \subseteq queue
    /\ \A i \in Instances :
         /\ life[i] = "none" <=> boot[i] = "off"
         /\ node[i] # "absent" => boot[i] \in {"wait", "done"}
         /\ PodsOn(i) # {} => node[i] # "absent"

(* No agent is taken away with its pods, however messages are lost,        *)
(* repeated or handled out of order, unless the hook on termination timed   *)
(* out or was not there yet.                                               *)
DrainedBeforeGone == undrained = {}

(* Nothing goes on by itself any more: no boot, no launch, no time limit   *)
(* and no message is outstanding, and neither the scheduler nor the        *)
(* autoscaler has anything to do.  FairSpec excludes staying anywhere else.*)
AtRest ==
    /\ queue = {} /\ ~Grows /\ (Pending = {} \/ Schedulable = {})
    /\ \A i \in Instances :
         /\ boot[i] \notin {"setup", "wait"} /\ (boot[i] = "done" => node[i] # "absent")
         /\ life[i] \notin {"terminating_wait", "terminating"}
         /\ ~Overdue(i) /\ ~Wanted(i) /\ ~Removable(i)

(* Cordoned for a notice that expired while the handler was down: nobody   *)
(* moves the pods there, and nobody uncordons the node.                    *)
Stranded ==
    {i \in Instances : /\ life[i] = "in_service" /\ node[i] = "cordoned" /\ PodsOn(i) # {}
                       /\ \A m \in queue : m.of # i}

(* Every agent the group may have is stranded.                             *)
NoRoom == Stranded = Active /\ Cardinality(Active) = MaxSize

(* Whatever went wrong, in whatever order: as long as a pod is pending,    *)
(* somebody has something to do about it, although the group itself        *)
(* replaces nothing.  Up to min_size failed agents are never replaced, so  *)
(* that the autoscaler needs room above them; and it has none when all     *)
(* agents are stranded.                                                    *)
GetsOn == AtRest /\ MinSize < MaxSize => Pending = {} \/ NoRoom

(* Once nothing goes wrong any more, every pod runs in the end, with the   *)
(* same exceptions.                                                        *)
WorkloadRecovers ==
    MinSize < MaxSize /\ <>[][~Disturbance]_vars => <>[](Pending = {} \/ NoRoom)

(* An agent that has failed to boot under the hook is replaced in any      *)
(* case.                                                                   *)
BrokenReplaced ==
    \A i \in Instances : (life[i] = "pending" /\ boot[i] = "broken") ~> life[i] = "none"

=============================================================================
