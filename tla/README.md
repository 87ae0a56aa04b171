# Verification of Thunder

TLA+ models of the parts of this repository whose behaviour depends on what happens when: the script
that replaces running instances, the order in which `pulumi up` and `pulumi destroy` create and
delete what the modules declare, the first boot of a Kubernetes cluster, and the life of its agents.
TLC checks them on small instances; the `*_proofs` modules hold TLAPS proofs of the safety
properties for every instance.

Line numbers refer to the sources; `PROJECT.json` maps every definition to the lines it models.

## 1. The system

Thunder is a library of Pulumi programs. A *module* (`src/infra_thunder/modules/*`) declares the
cloud resources of one stack of one *SysEnv* (an environment: one AWS account and region, or one
Azure subscription). The engine of `pulumi up` creates them in parallel, in the order that
`depends_on`, `parent` and outputs passed along impose. Instances run *user data* at first boot.
Operators use scripts (`src/sysenvs/scripts`) on what is running.

There is hardly any concurrency *inside* a process; the concurrency is between the processes: the
engine's creations, several instances booting, Auto Scaling Groups, the Kubernetes control plane,
the cluster autoscaler, an operator with a shell script.

### Inventory

| Component | State | Operations | Interacts with | What is hard | What makes it correct |
|---|---|---|---|---|---|
| Instance refresh (`sysenvs/scripts/instance-refresh.sh`, `lib/utils`) | the array `INSTANCES`, options, whether the cluster was available; bash's error mode | list the groups, compare versions, limit the selection, cordon, drain, terminate, exit | EC2/ASG API, Kubernetes API, the operator's answers | failures bash lets through, a list that grows stale, evicted pods, no waiting for replacements, aborts that leave nodes cordoned | only outdated instances go; no pod is moved twice; the budget holds; etcd keeps its quorum; the fleet is renewed; a run ends |
| Transit gateway (`modules/aws/transitgateway`) | connections and `allowed_sysenvs`; the resources in several accounts | build: share, attach, routes, prefix lists | Pulumi engine, AWS API of every account | AWS refuses concurrent changes of one list; updates that fail half-way; one side configured before the other | only mutual peers connect, both ways; entries of a list are never created at once; reruns converge |
| Kubernetes controllers (`modules/aws/k8s_controllers`, `lib/kubernetes`) | PKI, SSM parameters, groups, IAM, the personalised cluster | create cluster, personalise it; user data of a controller | Pulumi engine, SSM, etcd, API server, kube-controller-manager | the update waits for pods, pods for a secret, the controllers for a role of the same update; user data runs once | nothing waits for itself; nothing recorded is lost; reruns bring the cluster up |
| Kubernetes agents (`modules/aws/k8s_agents`) | groups, lifecycle hooks, termination queue | launch, register, complete the hook, be interrupted | ASG, EventBridge, SQS, node termination handler, autoscaler | the hook exists after the first instances; at-least-once notices with 300 s retention; ReplaceUnhealthy suspended | what the hook holds goes drained; what is broken is replaced; the workload runs again |
| Pulumi engine (external) | what exists, what is under way, what depends on what | up: create, refuse, fail, end, rerun; destroy: delete in the opposite order, refuse, fail, rerun | every module | parallelism, failures, reruns | (assumed) |
| VPC, subnets, security groups (`modules/aws/vpc`, `lib/subnets`, `lib/security_groups`) | VPC, subnets per AZ, NAT, routes, prefix list with 20 entries | build | EC2 API, stack outputs | NAT per AZ lookups, list capacity | updates get over what is not ordered |
| RDS (`modules/aws/rds_*`), other AWS modules | databases, roles, clusters, queues, buckets | build | provider inside the database | grants on one database collide; bucket settings collide; the server is in the same stack as what it holds | rivals are never created or deleted at once; the server outlives what it holds |
| Azure modules (`modules/azure`, `lib/azure`) | network, firewall, storage, key vaults, scale sets, gateways | build | Azure API, API server | subnets of one network must be chained (`network.py:180`); names and built identifiers instead of outputs | chains hold in updates and destroys; what is named is there or a rerun gets over it |
| IAM policies, tags, user data rendering, lookups (`lib/iam`, `lib/tags`, `lib/user_data`, ...) | none | pure functions and API lookups | the modules | `generate_instance_profile` discards the policies it generates | a profile is usable when an instance has it |
| Launcher and configuration (`module_manager`, `lib/config`, `lib/stack`) | cached stack outputs | merge configuration levels, load a module, export | Pulumi stacks | cached outputs, stale references between stacks | a stack sees one consistent set of outputs |

The hazards that follow from this, each at its line, are in `PROJECT.json`.

## 2. The modules

| Module | Models | Checked by | Proved in |
|---|---|---|---|
| `InstanceRefresh` | the refresh script against groups, cluster, autoscaler and operator | `MCInstanceRefresh`: agents, controllers, run_ends, lookup_fails, node_lookup_fails | `InstanceRefresh_proofs` |
| `RollingReplacement` | what replacing instances promises to a workload, abstractly; `InstanceRefresh` implements it (`ReplacesRolling`) | `MCInstanceRefresh`: run_ends | `InstanceRefresh_proofs` |
| `PulumiUp` | the engine, parameterised by what waits for what | through its two instances | through its two instances |
| `TransitGateway` | the program of the transit gateway; `INSTANCE PulumiUp` | `MCTransitGateway`: peering, local_list; `MCStacks`: stacks | `TransitGateway_proofs` |
| `ClusterBootstrap` | controllers and personalisation, with their user data; `INSTANCE PulumiUp` | `MCClusterBootstrap`: bootstrap, comes_up, late_policy | `ClusterBootstrap_proofs` |
| `AgentLifecycle` | agents from launch to termination, with hooks, notices, handler, autoscaler | `MCAgentLifecycle`: lifecycle | `AgentLifecycle_proofs` |
| `Stacks` | `pulumi up` and `pulumi destroy` over any programs; `EXTENDS PulumiUp` | `MCStacks`: stacks | `Stacks_proofs` |
| `Programs` | the vocabulary of a program: needs, awaits, uses, paths, reads, rivals | through `MCStacks` | `Programs_proofs` |
| `AwsNetwork`, `AwsInstances` | the `build()` methods of AWS modules | `MCStacks`: stacks | (data, see section 4) |
| `AwsData`, `AwsControllers` | the same for databases, buckets and queues, and for the Kubernetes controllers | `MCStacks`: stacks | `AwsPrograms_proofs` |
| `Kubernetes` | what the personalizers and charts of `lib/kubernetes` declare in a cluster | `MCStacks`: stacks | `AwsPrograms_proofs`, `AzurePrograms_proofs` (with the controllers) |
| `AzureSysEnv`, `AzureClusters` | the `build()` methods of the Azure modules | `MCStacks`: stacks | `AzurePrograms_proofs` |

### InstanceRefresh

The state is that of the script (`pc`, `INSTANCES`, `instance`, `IS_K8S_AVAILABLE`, the options), of
the groups (`life`, `version`, `desired`, `latest`) and of the cluster (`node`, `pod`). History
variables record what the current run did. Every call the script makes to AWS or Kubernetes is one
action, so that everything around it can move between two calls; the loops are unordered where the
array's order is that of the AWS answer. What bash does with a failing command decides the error
actions: a plain call ends the script (`KubectlFails`, `TerminateFails`); in `$(...)` the function
goes on with the ERR trap's text as its result (`GetOldInstancesInAsg` with version 0); in `if
X=$(...)` the else branch is taken (`NodeMissed`). The cloud side is modelled from the groups'
configuration in `k8s_agents` and `k8s_controllers`: groups launch up to `desired`, instances that
terminate are still listed, the autoscaler raises `desired` when pods are pending and removes empty
nodes. Being in service and being a node are two things: `EnterService` is the launch hook being
completed, or there being none (`autoscaling_group.py:178`), and `Join` the kubelet registering,
which may come before, after, or as late as on the instance's way out.

`RollingReplacement` says the same without the script: instances become outdated at any time; only
outdated ones are closed to the workload, emptied (once closed, within the budget) and retired; idle
capacity may be given up. The mapping shows it the cloud and the cluster only (`Stage` of `life`,
`Outdated` of `version` and `latest`, the cordoned nodes, `pod`), so that what the script knows, and
any run it aborts, is invisible.

### PulumiUp, TransitGateway, ClusterBootstrap

`PulumiUp` is external code: an update creates any ready resource, any number at a time; a creation
may be refused (a *rival* is under way) or fail; a failing update starts nothing more, ends when
what is under way is done, and the operator runs it again. `TransitGateway` supplies the resources
`build()` declares for a configuration and their dependencies, and lets peers be allowed between
updates. Only creations that hold others up take time. This is sound because dependencies and
refusals are all that other creations can observe.

`ClusterBootstrap` adds what is in the cluster (`objects`), how far each controller's user data is
(`script`), and the nodes that have the label of the control plane. The API server answers when a
majority of controllers has started etcd. Services are awaited (pulumi-kubernetes gives up after ten
minutes); Deployments and charts are not, because of `pulumi.com/skipAwait` and `_noawait`.
`TokenController` is kube-controller-manager, which fills the token secret of an account and deletes
that of an account that does not exist, so that the order in which the update creates the two
matters. `NodesRegister` is the API server answering kubelets and `kubectl label` through the
endpoint, which their kubeconfigs name (`user_data.sh.j2:315`), where `ApiUp` is it answering on the
machine itself. `Policy` is the policy to read the SSM parameters; nothing but the role precedes it,
and nothing waits for it: that is what the code declares (`instance_policies.py:108-113`). Outside
the run late_policy a controller boots once the policy exists.

### Programs and Stacks

A program module is a set of operators, one per method that declares resources, named after it. Its
parameters are the parts of the configuration that add or connect resources; its value is a record
of six relations, each a set of pairs of a resource and what it is related to (a set rather than a
function, so that the provers can take a program apart into the parts it is put together from).
`Programs` distinguishes them because they differ in what they guarantee: `needs` (parent,
`depends_on`, outputs passed along: ordered in updates and recorded for destroys), `awaits`
(`Output.future()`: the program waits, but the engine records no dependency), `uses` (configured
names and identifiers put together by the program: not ordered at all), `paths` (calls that go to a
server in the network: the API server of the cluster, PostgreSQL), `reads` (what user data reads
once at first boot), and `rivals` (parts of one thing, of which the cloud refuses two at once).

`Stacks` runs updates and destroys over these. A creation fails when something it uses or passes is
missing, and is refused when a rival is under way; both end the run as *refused*. A failure for a
reason of its own ends it as *failing*. The difference matters for liveness: `ComesUp` and
`TearsDown` assume only that the second kind stops, so that they are about whether refusals alone
can keep a stack from getting anywhere.

A behaviour follows the resources of one *view*: a set of rivals, a resource with one that it uses,
passes or reads, and per program everything that uses names with all that is named. This loses
nothing. Whether a resource is created or deleted at a moment is decided by relations that are
closed under transitivity, so that resources outside the view only delay those inside it, and every
property of `Stacks` compares resources inside one view. 29 programs, in configurations with every
option that adds a resource, give 396 views.

Some orders the programs leave open, and there the properties cannot hold: `MCStacks` lists these
pairs of kinds in `Unordered`, `UnorderedPaths` and `KnownCuts`. Each entry is there because without
it TLC finds the violation. They are exempt from the safety properties and stay part of the
behaviour, so that `ComesUp` shows that updates get over them; `GetsOn` excuses no update by them,
and a destroy only by a cut way. What the exemptions leave to check: `RivalsApart` of subnets,
grants, bucket settings outside `k8s_agents` and spokes' entries; `NamesResolve` of a key vault's
secrets, shared attachments, the token of the nodes, and of everything that is made inside a server
(the objects of a cluster: its groups or scale set, on AWS also the endpoint; databases, roles and
grants: their instance); `PathsKept` of the servers themselves, that is the groups, the scale set
and the database instance. The way to a server is exempt from `PathsKept` everywhere. In the order
of `Unordered`: entries of the hub's own list; routes before the attachment; subnets before their
address range (`subnets.py:48`); NAT gateways before the internet gateway (`nat_gateway.py:43`); the
Elasticsearch domain before the service-linked role (`elasticsearch.py:79`); queues before their
dead letter queue (`sqs.py:57`); the ALB before the policy of its log bucket (`alb.py:120`) and
HTTPS listeners before the certificate's validation (`alb.py:129`); policy and access block of the
log bucket (`k8s_agents.py:172`, `:227`); groups before the policies of their profile
(`instance_policies.py:108`) and before their own hooks (`autoscaling_group.py:178`); extra secrets
before their namespace (`extra_secrets.py:25`); Azure machines before the roles their boot needs
(`assign_sysenv_vm_roles.py:37`), scale sets before the load balancer (`vmss.py:125`), gateways
before their identity's access, node groups before their gateway's pool (`node_group.py:109`).

### AgentLifecycle

One group of agents. The state is that of the group (`hooks`, `desired`, `life`), of the instances
(`boot`, `node`, `pod`), and of the node termination handler (`queue`, `handling`). The user data is
run without `-e`: whatever fails before `instance_lifecycle_hook`, the kubelet is started, and an
instance that could not download its CA waits for ever in `k8s-check.sh` (`SetupFails`). A failed
lookup of the group skips the lifecycle action (`LookupAsgFails`). Messages are received any number
of times until one handler finishes, and expire; both hooks time out at any moment, the launch hook
with ABANDON, the one on termination with CONTINUE. The group counts an instance that EC2 has taken
(ReplaceUnhealthy is suspended), so that only the autoscaler makes up for it. The handler, the
autoscaler, the scheduler and EC2 are external code, modelled from the values the modules give to
their charts.

## 3. What the runs show

| Run | Bounds | Shows |
|---|---|---|
| agents | 2 groups of agents, 4 instance ids, 2 pods with a budget of 1, 2 template versions, 2 starts of the script with `-r`, questions and the check of the cluster (`Attended`), every fault but the template lookup's; 4.8 M states | `OnlyOutdatedTerminated`, `EvictedPodsStayPut`, `BudgetKept`, `UndrainedOnlyIfMissed`, `FleetRenewed`, `NothingLeftCordoned`, `OnlyOutdatedCordoned` |
| controllers | 3 groups of one controller, a replacement for each, every option, two starts; 1.2 M states | `ControllerQuorum` |
| run_ends | 1 group of at most 2, 5 ids, every option, one start; node lookups, `kubectl`, terminations may fail and the run be interrupted; fairness; 0.5 M states | `RunProgresses`, `RunEnds`, `ReplacesRolling` |
| lookup_fails | only `get_lt_version` may fail | **violated**: `OnlyOutdatedTerminated` |
| node_lookup_fails | only `get_node_name` may fail | **violated**: `DrainedBeforeTerminated` |
| peering | 2 spokes and the hub, one route table each, one-way configuration that may become mutual, failures at any point | `SpokesIsolated`, `Bidirectional`, `SpokeListsSerial` |
| local_list | 2 spokes and the hub, no route tables, fairness | **violated**: `ListsSerial` |
| bootstrap | 3 controllers, `--parallel 3`, all faults; 0.9 M states | `NothingLost`, `NoCyclicWait`, `GetsOn` |
| comes_up | 2 controllers, faults of the scripts, fairness | `ClusterComesUp` |
| late_policy | 1 controller, the policy may come late | **violated**: `ClusterComesUp` |
| lifecycle | 2 instance ids, 2 pods, min_size 1, max_size 2, every fault, fairness; 0.3 M states | `DrainedBeforeGone`, `GetsOn`, `WorkloadRecovers`, `BrokenReplaced` |
| stacks | 29 programs of all modules, 396 views, updates and destroys with failures at any point, fairness; 16 k states | `RivalsApart`, `NamesResolve`, `BootsComplete`, `PathsKept`, `GetsOn`, `ComesUp`, `TearsDown` |

Why the bounds suffice. *agents*: two groups are needed for evicted pods to land on another outdated
node and for one group to shrink while the other cannot; two starts for a run to find what an
aborted one left; two versions because the code only compares for equality with the current one. Two
pods and a budget of one are the smallest workload that one drain may disturb and two may not. The
operator who is asked may answer as if not asked, and the cluster check may fail as if not made; a
termination may be refused for reasons of its own as it is at `min_size` without `-r`. So the other
command lines add little; *run_ends* and *controllers* have them, and the proofs cover them.
*run_ends*: a group of at most two is the smallest in which the autoscaler may make room for a
drain, and in which the room may be used up while all instances are outdated; three replacements
cover both. The proof of the refinement covers any number of starts. *controllers*: three is the
code's own limit (`subnets[:3]`); a second start is what meets a replacement that has not joined.
*peering*: the protocol between two spokes and the hub does not involve a third spoke; the proof
covers any number. *bootstrap*: three controllers is the limit again; two Services and three slots
are the tightest case the assumption allows. *comes_up* uses two controllers, the smallest number of
which one may fail, because temporal checking is costly; *late_policy* needs only one. *lifecycle*:
two instances are the one that fails and the one that takes its pods, and the room between the sizes
is what the autoscaler needs; two pods can be on different agents. The exception `NoRoom` takes one
pod more than the group may have agents, so that these bounds show the properties without it; a
group of at most one agent shows that it is needed, and `GetsOn` and `DrainedBeforeGone` are proved
for any sizes. *stacks*: the size of a view is that of the largest set of rivals or of named
resources of a program; where a program repeats resources (databases, subnets, groups) two are the
smallest number that can collide, and `Stacks_proofs` covers any number. `MaxRuns` and `MaxVersion`
bound counters that nothing in the code bounds. No run disables the deadlock check; `Finished`
stutters where the system is at rest for good.

### Findings

Four runs show the code doing something other than what its documentation says (details in
`PROJECT.json`):

1. *lookup_fails*: when the lookup of the template version fails, every instance of the group is
   taken for outdated. `-e` is off in `$(...)`, and the ERR trap writes to stdout.
2. *node_lookup_fails*: an API server that does not answer the lookup of one node makes the script
   terminate that instance without draining it.
3. *local_list*: entries of the hub's own prefix list are not chained, unlike those of the spokes,
   and run into the refusal the chaining works around.
4. *late_policy*: instances do not wait for the policies of their role. A controller that boots too
   early, or although the policy's creation failed, never starts the API server; rerunning `pulumi
   up`, as the README of the module advises, does not help.

What *node_lookup_fails* shows needs no failure in a longer history: with three template versions,
two starts of the script and no faults at all, an outdated instance that has not joined yet when its
node is looked up is no node to the script; it joins, takes pods, and is terminated with them.
`UndrainedOnlyIfMissed` counts it as missed.

The passing runs show four more things by what they have to assume or except.

`WorkloadRecovers` and `GetsOn` of the agents need `MinSize < MaxSize`: with equal sizes, an agent
that EC2 has taken (a spot interruption) or that failed to boot in service is never replaced,
because the group replaces nothing and the autoscaler has no room; an operator has to terminate it.

They also except `NoRoom`, which the proof of `GetsOn` turned up: the termination handler cordons a
node when it receives a notice, and when it then restarts and the notice expires (300 seconds)
before it is received again, nobody drains or uncordons the node. Its pods keep it from being
scaled down, and it counts against `max_size`. With all agents stranded like this, a pending pod
waits for ever.

`RunEnds` excepts the `NoRoom` of `InstanceRefresh`: the script cordons every outdated instance
before it drains the first (`instance-refresh.sh:101-103`). When that is all of them and the groups
are at `max_size`, evicted pods have nowhere to go, and once the budget is exhausted `kubectl
drain`, which is given no timeout (`utils:325`), waits for ever. One instance of the current version
keeps a drain going only if it is a node, or becomes one: one in service that never joins does not
help, and the fairness of `Join` leaves it out of `RunEnds`. `RunEnds` also assumes that the budget
lets some pod be moved. With one that covers all pods (`MinAvailable` equal to their number) the
first drain never ends, whatever room there is.

`ControllerQuorum` assumes that each run on the controllers is started with all of them joined
(`hasty` records one that is not). What it checks is the limit of one instance per run; nothing in
the code keeps the next run from coming too early. The script does not look: it limits itself to one
instance (`instance-refresh.sh:85-91`) and waits for no replacement, so that two runs in a row may
terminate two of three controllers.

And what `MCStacks` exempts from `PathsKept` is what can keep a destroy from ending, which
`TearsDown` excludes (`Severed`): the endpoint of an AWS cluster is created before anything in the
cluster, but `kubeconfig.future()` (`personalizers/__init__.py:51`) leaves no dependency, so that a
destroy may delete it first, as the caveats of the module's README warn
(`k8s_controllers/README.md:60`); the load balancer of an Azure cluster
(`azure/k8s_controllers/k8s_controllers.py:166`) and the ingress rules of a PostgreSQL instance
(`rds_postgres.py:108`) are not ordered at all.

Seen while reading, without a run: the README of the transit gateway says that the module does not
add entries to the prefix lists of the spokes, but `transitgateway.py:196-209` does;
`collections.Mapping` in `helm_chart_stack.py:16` exists only up to Python 3.9;
`rds_postgres.py:218` exports the last database only; `k8s_agents.py:154` reads the certificate of
every extra target group, which one that is configured with a certificate of its own does not have;
`firewall.py:244` declares a connection without required arguments; `documentdb.py:144` gives
instances the cluster's resource id for its identifier; `KubeWaiter` (`kube_wait.py:23-32`, unused)
would wait for ever once the cluster answers; `route53.py:55` creates no delegation for zones below
another extra zone.

### Fairness

- `InstanceRefresh`: weak fairness of the script as a whole (a process that runs), and of launching,
  entering service, joining, vanishing, scheduling and scaling up (controllers that reconcile). The
  safety properties include instances that never join; what becomes of these is in `AgentLifecycle`.
  Nobody is obliged to start the script, publish a version or scale in. A drain that waits is not
  obliged to fail: fairness of the script leaves that step out, so that a wait only ends when there
  is room.
- `TransitGateway`: weak fairness of the update, so that the counterexample of local_list is one of
  an update that goes on.
- `Stacks`: weak fairness of a run and of its being started again, strong fairness of creating and
  of deleting something. The operator may turn from `up` to `destroy` for ever; `ComesUp` and
  `TearsDown` are about one who stays with either, and assume that resources stop failing for
  reasons of their own. Refusals go on. Strong fairness stands for the engine starting everything
  that is ready at once: a run in which one resource is refused still creates others, which a model
  that takes one step at a time would otherwise never be obliged to do.
- `AgentLifecycle`: weak fairness of each instance's boot, of the group (launches, time limits,
  terminations), of the handler, of the retention limit, of the scheduler and of the autoscaler:
  processes that run, and clocks. The hooks need never be created. `WorkloadRecovers` assumes that
  disturbances stop (failures, interruptions, restarts of the handler, operators); `BrokenReplaced`
  does not.
- `ClusterBootstrap`: weak fairness of each user data script, of starting and ending updates, and of
  the end of each await (by endpoints or by timeout); strong fairness of creating something that is
  ready, separately for Services and the rest. The engine starts everything that is ready at about
  the same time, so a refusal or a timeout in each update does not keep the others from being
  created for ever. Faults strike all but one controller; if every controller were struck, nobody
  would label a node or create the secret, and the property would be false for a reason the code
  accepts.

## 4. What is proved

All proofs hold for every value of the constants under the assumptions named in the modules (a
finite fleet and workload, a budget no larger than the workload, distinct connections that do not
name the hub, more than two slots, as many instance ids as a group may have instances).

`InstanceRefresh_proofs` (12 theorems). `TypeCorrect` is inductive. The others need: `VersionsInv`
(what is described, selected or at hand has the version it was launched with, never above the
latest) and `OutdatedInv` for `OnlyOutdatedTerminatedHolds`, which assumes that the template lookup
does not fail; `GraceInv` (a terminating instance with pods was terminated undrained) for
`BudgetKeptHolds`, with the cardinality argument of an eviction; `NodesInv` and `DrainInv` (what has
been drained is cordoned and stays empty) for `UndrainedOnlyIfMissedHolds`; `CordonInv` (past the
cordon loop every selected instance is cordoned or was missed) for `EvictedPodsStayPutHolds`;
`RenewalInv` (an instance older than the run's start is still selected, killed or declined) for
`FleetRenewedHolds`; `LeftCordonedInv` (a cordoned instance its group keeps is outdated, so that the
next run selects it again) for `NothingLeftCordonedHolds` and `OnlyOutdatedCordonedHolds`, which
assume that the lookup does not fail. `QuorumInv` (a group without its controller lost it to the
current run, which works on one instance) is for `ControllerQuorumHolds`, over any number of runs;
it assumes at least three groups of one controller each. `RunProgressesHolds` is the safety core of
`RunEnds`: a step of the script goes down in the order of stages, what the loop has left, steps of
the loop's body, pods left on the node; with `CordonListedInv` (the cordon loop is at an instance it
has not passed) and `DrainInv` (what is being drained takes no pods). `FiniteWork` adds that these
sets are finite, because the instances ever launched are. So a run that does not end waits; that it
waits only in a drain is what `RunEnds` checks. `ImplementsReplacement` uses `OutdatedInv` (what is
closed or retired is outdated), `NodesInv` and `DrainInv` (a pod that is evicted is on a cordoned
node) for the guards of `RollingReplacement`, step by step; it assumes that the template lookup does
not fail, without which it is false (lookup_fails).

`TransitGateway_proofs` (4 theorems). `TypeCorrect`; `ChainInv`, an entry under way waited for all
those before it in its list, for `SpokeListsSerialHolds`; `SpokesIsolatedHolds` follows from what
`build()` declares and `exists \subseteq declared`; `BidirectionalHolds` from what it declares being
complete, and assumes that every VPC has a route table.

`ClusterBootstrap_proofs` (4 theorems). `TypeCorrect` uses that the set of serving controllers only
grows. `NothingIsLost` needs `ClosedInv` (what exists found all it waits for) and `InClusterInv`
together: the secret of the nodes cannot be deleted because its account is there.
`NoUpdateWaitsForItself` adds `SecretInv` (a controller free of faults that is done has left the
secret behind) and is then an argument about one state: whatever the cluster agent lacks can be
started now, or some controller is on its way to create it. `UpdatesGetOn` extends
the argument to every resource: what is missing comes in layers (what the controllers need, then the
cluster, within it the ENIConfigs after their CRD), the first missing one of a layer is ready and
accepted, and unless every slot is taken by an awaited Service there is one for it. It is the safety
core of `ClusterComesUp`: as long as no controller was broken at its start (late_policy), no state
of an update is one from which it cannot get on.

`Stacks_proofs` (6 theorems) is about any programs and views, so that it covers configurations of
any size. `TypeCorrect` says that no update overlaps a destroy. The lemma `OrderKept` is the
inductive invariant `TypeOK /\ OrderInv`: whatever the engine has recorded a resource to depend on
is there from before its creation until after its deletion, over any sequence of updates, destroys
and failures; it needs that `Recorded` is transitive and part of `WaitsFor`. It says nothing of any
program by itself; the theorems add a rule that a program may keep or break: of two rivals one is
recorded to depend on the other (`RivalsChained`, for `RivalsApart`); what is used or passed is
waited for (`NamesAwaited`, for `NamesResolve`); what is read at boot, and what calls pass, is
recorded (`ReadsRecorded`, `PathsRecorded`, for `BootsComplete` and `PathsKept`). `NeverStuck`, for
`GetsOn`, the safety core of `ComesUp` and `TearsDown`, needs `Orderly`: an order that has no circle
contains `WaitsFor`, `Names` and `Paths` together. Then the first missing resource of that order is
ready and finds all it needs, although the engine knows of `WaitsFor` only; with `PathsRecorded`,
the last existing one can be deleted. The rules, with the exemptions, are conditions on constants.

`Programs_proofs` connects them to what the modules declare. `Deploys(p)` says that the constants of
`Stacks` are those of program `p`: what is declared is recorded and waited for, transitively.
`DeploysOnly(p)` adds that nothing else is: `WaitsFor` is the least such relation.
The theorems on `GetsOn` need it, and that zones, roles, secrets and namespaces are tuples, which is
how the modules name resources (`IsTuple`).
`Depends` and its siblings turn one pair of a program into these facts; `PartsApart` turns a chain
into `RivalsApart`. So a theorem about `p` holds in every configuration, whatever its zones,
databases, subnets, roles, namespaces or charts, while TLC checks the few `MCStacks` lists.

`AwsPrograms_proofs` (7 theorems). `GrantsApart`: all statements about the access list of one
PostgreSQL database form one chain, from the first grant over the roles to the last, so that no two
meet. `BucketSettingsApart`: the same for the access block and the policy of a bucket.
`InstanceGoesLast`: all that is made inside the database server goes back to the provider, which is
recorded to depend on the instance. `ControllersBoot`: a group's parameters and its interface are
recorded. `ClusterComesLast` and `ControllersGoLast`: everything in the cluster goes back to the
provider, and the provider waits for the groups; the endpoint, which is awaited only, is exempt in
destroys. `ControllersGetOn`: the order that puts the extra secrets after everything else contains
what is waited for, named and passed, because nothing is declared to wait for a secret (`Spares`).

`AzurePrograms_proofs` (6 theorems). `SubnetsApart`: each subnet waits for those before it
(`network.py:180`); the least subnet of which this were false would have one before it that it does
not wait for. `VaultComesFirst`, `AzureControllersBoot` and `MachinesGoLast` are what their AWS
counterparts are, for key vaults and scale sets, and `AzurePritunlBoots` is the same for the machine
of pritunl. `AzureControllersGetOn` is the one with something to order: the scale set is given the
name of the load balancer's pool, and the cluster's calls pass the balancer, while neither waits for
it; the order puts the balancer and its name first, since they wait for the stack's component alone,
and what waits for these alone makes no calls to the cluster (`AzureWayLeads`). Where a program
leaves an order open, the theorem names the exempt pair as a hypothesis on `Races` or `Cuts`; the
`KnownRaces` and `KnownCuts` of `MCStacks` satisfy it.

`AgentLifecycle_proofs` (3 theorems). `TypeCorrect`; `AgentsDrained` needs `DrainInv`: a node the
handler works on is cordoned, or gone for good, and an instance whose hook the handler completed is
cordoned and empty. An abandoned instance may register its node late, and a message may outlive the
instance it is about; the invariant is what excludes that either undoes a drain. `WorkloadGetsOn`
needs `CapacityInv` (never more active instances than desired) and enough ids: in a state of rest
the group is full, so that with a pod pending the autoscaler must be at `max_size`; then every
active instance is a node that is cordoned, since a ready one would take the pod, and has pods,
since an empty one would be removed, for which there is room above `min_size`.

Only model-checked: the liveness properties `RunEnds`, `ClusterComesUp`, `ComesUp`, `TearsDown`,
`WorkloadRecovers` and `BrokenReplaced` (fairness and ENABLED are beyond the prover); the three
`GetsOn` and `RunProgresses` are what is proved of them. The programs without a theorem of their own
(VPC, instances, the agents' stack, the other data stores and Azure modules) are data that TLC
checks against the rules in the configurations of `MCStacks`. No module uses recursion.

## 5. Not modelled, and why

- Updates in place and replacements of resources: which property forces one is the providers'
  knowledge, not this code's.
- Loss of a controller once it serves (etcd snapshots by e2d are a vendored program).
- Formatting: IAM documents, tags, rendered user data, kubeconfigs, command-line colours.
- Groups selected by `starts_with` of a stack's name (`utils:83`): a naming convention.
- The capacity of 20 entries of the prefix list: a constant of the cloud.
- Azure controllers: the injection of secrets and the cluster agent are commented out there.
- Cloudflare CDN and the shared seed (`modules/cloudflare`, `modules/shared`): a handful of
  resources without order among them; `modules/aws/_deprecated`: not referenced.
- The launcher, configuration levels and stack outputs (`module_manager`, `lib/config`,
  `lib/stack`): sequential merging and lookups. A stack reads another one's outputs as of its last
  update; nothing in the code reacts to their changing.
- IAM policy generators, tags, user data rendering, AMI, subnet and key pair lookups, the lookups of
  `lib/azure`: functions without state, or questions to the cloud.
- `poetry-sync.sh`, `show-user-data.sh`, `common.envrc`: read-only or developers' conveniences.

## 6. Plan

Done: refresh script, transit gateway, bootstrap, agents' life, and the programs of all current
modules under updates and destroys, each with its proofs. What would come next:

1. `StackOutputs`: stacks that read each other's outputs, with replacements between their updates.
2. The groups of `InstanceRefresh` with the hooks of `AgentLifecycle`: the script's terminations
   pass through the termination hook, and `AgentLifecycle` implements `RollingReplacement` with
   failures added.
3. Loss and replacement of a controller after bootstrap, with the snapshots of etcd.
