--------------------------- MODULE ClusterBootstrap ---------------------------
(***************************************************************************)
(* How a new Kubernetes cluster comes up: `pulumi up` of the stack         *)
(* k8s_controllers creates the controllers and, as soon as their groups    *)
(* exist, personalises the cluster those controllers have yet to form; the *)
(* user data of every controller starts etcd and the API server, and then  *)
(* waits for something that same update creates.                           *)
(*                                                                         *)
(* Left out: what nothing here waits for (certificates, IAM roles, queues, *)
(* the personalisations that are not awaited and carry no credentials),    *)
(* and the loss of a controller once it serves.                            *)
(***************************************************************************)
EXTENDS Naturals, FiniteSets

CONSTANTS
    Controllers,  \* one per private subnet, three at most
    Cluster,      \* what a resource belongs to that is not one controller's
    Slots,        \* pulumi up --parallel
    Faults        \* the shell commands that may fail, and what may come late

(* label and apply are kubectl calls of the user data that are not retried, *)
(* reboot ends the user data (it runs on the first boot only), late_policy  *)
(* is a controller that boots before its role may read the parameters.      *)
FaultKinds == {"label", "apply", "reboot", "late_policy"}

ASSUME ControllersAssumption ==
    IsFiniteSet(Controllers) /\ Controllers # {} /\ Cluster \notin Controllers
ASSUME SlotsAssumption == Slots \in Nat /\ Slots > 2
ASSUME FaultsAssumption == Faults \subseteq FaultKinds

VARIABLES
    exists, creating, up,  \* the engine: see PulumiUp
    objects,      \* what is in the cluster, whoever created it
    script,       \* how far the user data of every controller has come
    labelled,     \* the controllers whose node has the control-plane label
    faulty        \* history: the controllers a fault has struck

engineVars == <<exists, creating, up>>
vars == <<engineVars, objects, script, labelled, faulty>>

-----------------------------------------------------------------------------
(* The resources of the stack *)

Resource(kind, c) == [kind |-> kind, of |-> c]

Eni(c) == Resource("eni", c)
Asg(c) == Resource("asg", c)
Params == Resource("ssm parameters", Cluster)
Policy == Resource("ssm policy", Cluster)
Endpoint == Resource("endpoint", Cluster)

Sa == Resource("monitoring serviceaccount", Cluster)
Role == Resource("monitoring role", Cluster)
Binding == Resource("monitoring rolebinding", Cluster)
NodeSa == Resource("node monitoring serviceaccount", Cluster)
NodeSecret == Resource("node monitoring secret", Cluster)
KubeProxy == Resource("kube-proxy", Cluster)
Cni == Resource("aws-cni", Cluster)
Crd == Resource("eniconfig crd", Cluster)
EniConfig == Resource("eniconfig", Cluster)
ClusterAgent == Resource("cluster agent", Cluster)
MetricsService == Resource("externalmetrics service", Cluster)
AdmissionService == Resource("admission service", Cluster)
ApiService == Resource("apiservice", Cluster)

(* What the provider "k8s" waits for: its kubeconfig names the endpoint,   *)
(* and it depends on the groups.                                           *)
ProviderNeeds == {Params, Endpoint} \cup {Eni(c) : c \in Controllers} \cup {Asg(c) : c \in Controllers}

CloudResources == ProviderNeeds \cup {Policy}

(* Services are awaited until they have endpoints; everything else either  *)
(* needs no waiting for or has pulumi.com/skipAwait.                       *)
Services == {MetricsService, AdmissionService}

K8sResources ==
    {Sa, Role, Binding, NodeSa, NodeSecret, KubeProxy, Cni, Crd, EniConfig,
     ClusterAgent, ApiService} \cup Services

Resources == CloudResources \cup K8sResources

(* Mutant: the secret does not depend on the account it belongs to. *)
NodeSecretNeeds_Nothing == {}

NodeSecretNeeds == {NodeSa}

(* Mutant: the CRD comes after what is of its kind. *)
CrdNeeds_EniConfig == {EniConfig}

CrdNeeds == {}

(* Dependencies are transitive.  The chart that brings the CRD is one of   *)
(* the ENIConfigs, but not the CRD itself ("this doesn't wait for the CNI  *)
(* stack to complete?").                                                   *)
DependsOn(r, d) ==
    \/ r.kind = "asg" /\ d \in {Params, Eni(r.of)}
    \/ r = Endpoint /\ d \in {Eni(c) : c \in Controllers}
    \/ r \in K8sResources /\ d \in ProviderNeeds
    \/ r = Binding /\ d \in {Sa, Role}
    \/ r = NodeSecret /\ d \in NodeSecretNeeds
    \/ r = Crd /\ d \in CrdNeeds
    \/ r = ApiService /\ d = MetricsService

WaitsFor == [r \in Resources |-> {d \in Resources : DependsOn(r, d)}]

Rivals == [r \in Resources |-> {}]

INSTANCE PulumiUp WITH declared <- Resources

(* The secret with the Datadog keys, which the controllers create, and the *)
(* token in the secret of the nodes.                                       *)
DatadogSecret == Resource("datadog secret", Cluster)
NodeToken == Resource("node monitoring token", Cluster)

-----------------------------------------------------------------------------
(* The cluster *)

(* The user data has started etcd, the API server and the kubelet. *)
Serving == {"wait_apiserver", "wait_role", "done", "cut_short"}

(* etcd answers when a majority of its members are there. *)
ApiUp == 2 * Cardinality({c \in Controllers : script[c] \in Serving}) > Cardinality(Controllers)

(* The kubelets register, and their nodes can be labelled: the kubeconfig  *)
(* of a kubelet names the endpoint.                                        *)
NodesRegister == ApiUp /\ Endpoint \in exists

(* Who is in the group thunder:controller-monitoring may use secrets. *)
CanListSecrets == ApiUp /\ {Role, Binding} \subseteq objects

(* The cluster agent runs: a node is ready (the network is there), its     *)
(* account exists and has its role, and the keys it is given exist.        *)
ClusterAgentRuns ==
    ApiUp /\ {KubeProxy, Cni, Sa, Binding, ClusterAgent, DatadogSecret} \subseteq objects

(* kube-controller-manager fills the token secret of an account, and       *)
(* deletes that of an account that does not exist.                         *)
TokenController ==
    /\ NodeSecret \in objects
    /\ objects' = IF NodeSa \in objects THEN objects \cup {NodeToken}
                                        ELSE objects \ {NodeSecret}
    /\ UNCHANGED <<engineVars, script, labelled, faulty>>

-----------------------------------------------------------------------------
(* The update *)

Init ==
    /\ InitEngine
    /\ objects = {} /\ labelled = {} /\ faulty = {}
    /\ script = [c \in Controllers |-> "off"]

SlotFree == Cardinality(creating) < Slots

(* A controller's group, the parameters, the policy, the endpoint. *)
CreateInCloud(r) ==
    /\ r \in CloudResources /\ SlotFree
    /\ CreateAtOnce(r)
    /\ UNCHANGED <<objects, script, labelled, faulty>>

Acceptable(r) == ApiUp /\ (r = EniConfig => Crd \in objects)

CreateInCluster(r) ==
    /\ r \in K8sResources \ Services /\ SlotFree /\ Acceptable(r)
    /\ CreateAtOnce(r)
    /\ objects' = objects \cup {r}
    /\ UNCHANGED <<script, labelled, faulty>>

(* "Configured Kubernetes cluster is unreachable", "no matches for kind    *)
(* ENIConfig".                                                             *)
RefusedByCluster(r) ==
    /\ r \in K8sResources /\ SlotFree /\ ~Acceptable(r)
    /\ up' = "refused"
    /\ UNCHANGED <<exists, creating, objects, script, labelled, faulty>>

(* A Service is in the cluster from the start; the resource exists for     *)
(* Pulumi once it has endpoints.                                           *)
CreateService(r) ==
    /\ r \in Services /\ SlotFree /\ Acceptable(r)
    /\ creating' = creating \cup {r}
    /\ objects' = objects \cup {r}
    /\ UNCHANGED <<exists, up, script, labelled, faulty>>

ServiceReady(r) ==
    /\ ClusterAgentRuns
    /\ Created(r)
    /\ UNCHANGED <<objects, script, labelled, faulty>>

(* "Timeout waiting for the Service to become ready", after ten minutes. *)
ServiceTimesOut(r) ==
    /\ ~ClusterAgentRuns
    /\ CreateFails(r)
    /\ UNCHANGED <<objects, script, labelled, faulty>>

StartsOrEnds ==
    /\ StartUp \/ UpEnds
    /\ UNCHANGED <<objects, script, labelled, faulty>>

(* A creation fails for a reason that has nothing to do with the cluster. *)
UpdateFails ==
    /\ CreateFailsAtOnce
    /\ UNCHANGED <<objects, script, labelled, faulty>>

CreateStarts(r) == CreateInCloud(r) \/ CreateInCluster(r) \/ CreateService(r)

-----------------------------------------------------------------------------
(* The user data of a controller *)

Fault(kind, c) ==
    /\ kind \in Faults /\ faulty \cup {c} # Controllers
    /\ faulty' = faulty \cup {c}

(* The group launches the controller; its script downloads the parameters  *)
(* and starts the services.                                                *)
StartServices(c) ==
    /\ script[c] = "off" /\ {Asg(c), Policy} \subseteq exists
    /\ script' = [script EXCEPT ![c] = "wait_apiserver"]
    /\ UNCHANGED <<engineVars, objects, labelled, faulty>>

(* Without the policy the files are empty, and nothing that needs the      *)
(* certificates ever starts: the script has no -e and goes on to wait.     *)
StartServicesWithoutParams(c) ==
    /\ script[c] = "off" /\ Asg(c) \in exists /\ Policy \notin exists
    /\ "late_policy" \in Faults
    /\ script' = [script EXCEPT ![c] = "broken"]
    /\ faulty' = faulty \cup {c}
    /\ UNCHANGED <<engineVars, objects, labelled>>

(* Mutants: mark_controller_kubelet does not wait, and its call fails; the *)
(* kubelet labels its node when it starts (--node-labels), which needs no  *)
(* API server that answers.                                                *)
MarkControllerKubelet_OneTry(c) ==
    /\ script[c] = "wait_apiserver"
    /\ script' = [script EXCEPT ![c] = "wait_role"]
    /\ labelled' = IF NodesRegister THEN labelled \cup {c} ELSE labelled
    /\ UNCHANGED <<engineVars, objects, faulty>>

MarkControllerKubelet_AtStart(c) ==
    /\ script[c] = "wait_apiserver"
    /\ script' = [script EXCEPT ![c] = "wait_role"]
    /\ labelled' = labelled \cup {c}
    /\ UNCHANGED <<engineVars, objects, faulty>>

(* The loop ends when the node is registered; the label is tried once. *)
MarkControllerKubelet(c) ==
    /\ script[c] = "wait_apiserver" /\ NodesRegister
    /\ script' = [script EXCEPT ![c] = "wait_role"]
    /\ labelled' = labelled \cup {c}
    /\ UNCHANGED <<engineVars, objects, faulty>>

LabelFails(c) ==
    /\ script[c] = "wait_apiserver" /\ NodesRegister
    /\ Fault("label", c)
    /\ script' = [script EXCEPT ![c] = "wait_role"]
    /\ UNCHANGED <<engineVars, objects, labelled>>

(* Mutant: inject_datadog_secrets does not wait for the role, as on Azure. *)
InjectDatadogSecrets_OneTry(c) ==
    /\ script[c] = "wait_role"
    /\ script' = [script EXCEPT ![c] = "done"]
    /\ objects' = IF CanListSecrets THEN objects \cup {DatadogSecret} ELSE objects
    /\ UNCHANGED <<engineVars, labelled, faulty>>

InjectDatadogSecrets(c) ==
    /\ script[c] = "wait_role" /\ CanListSecrets
    /\ script' = [script EXCEPT ![c] = "done"]
    /\ objects' = objects \cup {DatadogSecret}
    /\ UNCHANGED <<engineVars, labelled, faulty>>

(* apply ... || true *)
ApplyFails(c) ==
    /\ script[c] = "wait_role" /\ CanListSecrets
    /\ Fault("apply", c)
    /\ script' = [script EXCEPT ![c] = "done"]
    /\ UNCHANGED <<engineVars, objects, labelled>>

(* The services are enabled and come back, the user data does not. *)
Reboot(c) ==
    /\ script[c] \in {"wait_apiserver", "wait_role"}
    /\ Fault("reboot", c)
    /\ script' = [script EXCEPT ![c] = "cut_short"]
    /\ UNCHANGED <<engineVars, objects, labelled>>

UserData(c) == StartServices(c) \/ MarkControllerKubelet(c) \/ InjectDatadogSecrets(c)

UserDataFails(c) == StartServicesWithoutParams(c) \/ LabelFails(c) \/ ApplyFails(c) \/ Reboot(c)

-----------------------------------------------------------------------------

Finished ==
    /\ Resources \subseteq exists /\ up = "idle"
    /\ \A c \in Controllers : script[c] \in {"done", "cut_short", "broken"}
    /\ UNCHANGED vars

Next ==
    \/ StartsOrEnds \/ UpdateFails
    \/ \E r \in Ready : CreateStarts(r) \/ RefusedByCluster(r)
    \/ \E r \in creating : ServiceReady(r) \/ ServiceTimesOut(r)
    \/ \E c \in Controllers : UserData(c) \/ UserDataFails(c)
    \/ TokenController
    \/ Finished

Spec == Init /\ [][Next]_vars

(* Scripts run, updates end and are run again while something is missing,  *)
(* and the await of a Service ends, by its endpoints or by its timeout.  An *)
(* update starts all that is ready at about the same time, so that neither *)
(* a refusal nor a timeout keeps every one of them from creating more.     *)
FairSpec ==
    /\ Spec
    /\ WF_vars(StartsOrEnds)
    /\ SF_vars(\E r \in Ready \ Services : CreateStarts(r))
    /\ SF_vars(\E r \in Ready \cap Services : CreateStarts(r))
    /\ \A r \in Services : WF_vars(r \in creating /\ (ServiceReady(r) \/ ServiceTimesOut(r)))
    /\ \A c \in Controllers : WF_vars(UserData(c))

-----------------------------------------------------------------------------

(* Type invariant; only Services are ever being created, nothing of the    *)
(* cluster exists before its API server has answered.                      *)
TypeOK ==
    /\ exists \subseteq Resources
    /\ creating \subseteq Services \ exists
    /\ up \in {"idle", "running", "refused", "failing"}
    /\ up = "idle" => creating = {}
    /\ objects \subseteq K8sResources \cup {DatadogSecret, NodeToken}
    /\ script \in [Controllers -> Serving \cup {"off", "broken"}]
    /\ labelled \subseteq Controllers /\ faulty \subseteq Controllers
    /\ creating \cup objects \cup labelled # {} => ApiUp

(* What Pulumi has recorded as created stays in the cluster: above all the *)
(* secret of monitoring_roles.py, which is deleted behind Pulumi's back    *)
(* when it comes before its account.                                       *)
NothingLost == exists \cap K8sResources \subseteq objects

(* The update has something else it can start. *)
CanStart ==
    /\ SlotFree
    /\ \E r \in Ready \ Services : r \in K8sResources => Acceptable(r)

(* Some controller's script gets on by itself. *)
CanMove ==
    \E c \in Controllers :
        \/ script[c] = "off" /\ {Asg(c), Policy} \subseteq exists
        \/ script[c] = "wait_apiserver" /\ NodesRegister
        \/ script[c] = "wait_role" /\ CanListSecrets

(* An update that awaits the Services of the cluster agent awaits pods     *)
(* that need a secret, which the controllers create once the same update   *)
(* has created their role: it is never left waiting for itself, unless     *)
(* every single controller has been struck by a fault.                     *)
NoCyclicWait ==
    up = "running" /\ creating # {} /\ ~ClusterAgentRuns /\ faulty # Controllers =>
        CanStart \/ CanMove

(* Whatever was refused, failed or timed out before, an update finds       *)
(* something to create, awaits a Service or gives way to a controller's    *)
(* script, until everything is there: reruns are never for nothing, as     *)
(* long as no controller has booted too early (broken).                    *)
GetsOn ==
    up = "running" /\ ~(Resources \subseteq exists) /\ (\A c \in Controllers : script[c] # "broken") =>
        \/ SlotFree /\ \E r \in Ready : r \in K8sResources => Acceptable(r)
        \/ creating # {}
        \/ CanMove

(* README of the module, Caveats: the Kubernetes resources may fail to     *)
(* create, but running `pulumi up` again brings the cluster up: everything *)
(* is created, and there is a node for what selects the control plane.     *)
ClusterComesUp ==
    <>[][~UpdateFails]_vars => <>[](Resources \subseteq exists /\ labelled # {})

=============================================================================
