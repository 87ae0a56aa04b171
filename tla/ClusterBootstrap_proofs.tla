----------------------- MODULE ClusterBootstrap_proofs -----------------------
(***************************************************************************)
(* What ClusterBootstrap promises for any number of controllers, any       *)
(* degree of parallelism that leaves a slot beside the awaited Services,   *)
(* and every combination of faults.                                        *)
(***************************************************************************)
EXTENDS ClusterBootstrap, FiniteSetTheorems, TLAPS

-----------------------------------------------------------------------------
(* The parts of the inductive invariant.                                   *)

(* What exists or is being created found all it waits for.                 *)
ClosedInv == \A r \in exists \cup creating : WaitsFor[r] \subseteq exists

(* What Pulumi has recorded or awaits is in the cluster.                   *)
InClusterInv == (exists \cap K8sResources) \cup creating \subseteq objects

(* A controller no fault has struck leaves the secret behind.              *)
SecretInv ==
    \A c \in Controllers \ faulty :
        /\ script[c] \notin {"cut_short", "broken"}
        /\ script[c] = "done" => DatadogSecret \in objects

-----------------------------------------------------------------------------
(* The resources *)

(* Resources of different kinds are different.                             *)
LEMMA Kinds ==
    /\ Sa.kind = "monitoring serviceaccount" /\ Role.kind = "monitoring role"
    /\ Binding.kind = "monitoring rolebinding" /\ NodeSa.kind = "node monitoring serviceaccount"
    /\ NodeSecret.kind = "node monitoring secret" /\ KubeProxy.kind = "kube-proxy"
    /\ Cni.kind = "aws-cni" /\ Crd.kind = "eniconfig crd" /\ EniConfig.kind = "eniconfig"
    /\ ClusterAgent.kind = "cluster agent" /\ MetricsService.kind = "externalmetrics service"
    /\ AdmissionService.kind = "admission service" /\ ApiService.kind = "apiservice"
    /\ DatadogSecret.kind = "datadog secret" /\ Endpoint.kind = "endpoint"
    /\ Params.kind = "ssm parameters" /\ Policy.kind = "ssm policy"
    /\ \A c : Eni(c).kind = "eni" /\ Asg(c).kind = "asg" /\ Eni(c).of = c /\ Asg(c).of = c
  BY DEF Sa, Role, Binding, NodeSa, NodeSecret, KubeProxy, Cni, Crd, EniConfig, ClusterAgent,
         MetricsService, AdmissionService, ApiService, DatadogSecret, Endpoint, Params, Policy,
         Eni, Asg, Resource

LEMMA GroupKinds ==
    \A c : Eni(c).kind = "eni" /\ Asg(c).kind = "asg" /\ Eni(c).of = c /\ Asg(c).of = c
  BY DEF Eni, Asg, Resource

(* Where the kinds of two resources differ, so do they.                    *)
LEMMA KindsApart ==
    ASSUME NEW S, NEW T, NEW ks, \A r \in S : r.kind \in ks, \A r \in T : r.kind \notin ks
    PROVE  S \cap T = {}
  OBVIOUS

(* The resources of the cluster are none of the cloud's.                   *)
LEMMA Disjoint ==
    /\ K8sResources \cap CloudResources = {}
    /\ Services \subseteq K8sResources
    /\ DatadogSecret \notin Resources
    /\ {Sa, Role, Binding, NodeSa, NodeSecret, KubeProxy, Cni, Crd, ClusterAgent, EniConfig} \cap Services = {}
<1> DEFINE cloudKinds == {"eni", "asg", "ssm parameters", "ssm policy", "endpoint"}
<1>1. \A r \in CloudResources : r.kind \in cloudKinds
  <2>1. \A c : Eni(c).kind = "eni" /\ Asg(c).kind = "asg"
    BY GroupKinds
  <2>2. \A r \in {Params, Endpoint, Policy} : r.kind \in cloudKinds
    BY Kinds
  <2>3. \A r \in {Eni(c) : c \in Controllers} \cup {Asg(c) : c \in Controllers} : r.kind \in cloudKinds
    BY <2>1
  <2> QED
    BY <2>2, <2>3 DEF CloudResources, ProviderNeeds
<1>2. \A r \in K8sResources : r.kind \notin cloudKinds /\ r.kind # "datadog secret"
  <2>1. \A r \in Services : r.kind \in {"externalmetrics service", "admission service"}
    BY Kinds DEF Services
  <2>2. \A r \in K8sResources \ Services : r.kind \notin cloudKinds /\ r.kind # "datadog secret"
    BY Kinds DEF K8sResources
  <2> QED
    BY <2>1, <2>2
<1>3. K8sResources \cap CloudResources = {}
  BY <1>1, <1>2
<1>4. DatadogSecret \notin Resources
  BY <1>1, <1>2, Kinds DEF Resources
<1>5. Services \subseteq K8sResources
  BY DEF K8sResources
<1>6. {Sa, Role, Binding, NodeSa, NodeSecret, KubeProxy, Cni, Crd, ClusterAgent, EniConfig} \cap Services = {}
  <2> DEFINE others == {Sa, Role, Binding, NodeSa, NodeSecret, KubeProxy, Cni, Crd, ClusterAgent, EniConfig}
             kinds == {"externalmetrics service", "admission service"}
  <2>1. \A r \in Services : r.kind \in kinds
    BY Kinds DEF Services
  <2>2. \A r \in others : r.kind \notin kinds
    BY Kinds
  <2> HIDE DEF others, kinds
  <2>3. Services \cap others = {}
    BY <2>1, <2>2, KindsApart
  <2> QED
    BY <2>3 DEF others
<1> QED
  BY <1>3, <1>4, <1>5, <1>6

(* What a dependency of a resource is.                                     *)
LEMMA Needs ==
    \A r \in Resources : WaitsFor[r] = {d \in Resources : DependsOn(r, d)}
  BY DEF WaitsFor

(* Whatever is in the cluster needs the provider, and the secret of the    *)
(* nodes also needs its account.                                           *)
LEMMA ClusterNeeds ==
    /\ \A r \in K8sResources : ProviderNeeds \subseteq WaitsFor[r]
    /\ NodeSa \in WaitsFor[NodeSecret]
<1>1. K8sResources \subseteq Resources /\ ProviderNeeds \subseteq Resources
  BY DEF Resources, CloudResources
<1>2. NodeSa \in Resources /\ NodeSecret \in Resources
  BY DEF Resources, K8sResources
<1> QED
  BY <1>1, <1>2, Needs DEF DependsOn, NodeSecretNeeds

(* Most of what is in the cluster waits for nothing but the provider.      *)
LEMMA PlainNeeds ==
    ASSUME NEW r, NEW d, DependsOn(r, d),
           r.kind \notin {"asg", "endpoint", "monitoring rolebinding", "node monitoring secret", "apiservice"}
    PROVE  d \in ProviderNeeds
<1>1. Endpoint.kind = "endpoint" /\ ApiService.kind = "apiservice"
  BY DEF Endpoint, ApiService, Resource
<1>2. Binding.kind = "monitoring rolebinding" /\ NodeSecret.kind = "node monitoring secret"
  BY DEF Binding, NodeSecret, Resource
<1>3. r.kind # "asg" /\ r # Endpoint /\ r # ApiService /\ r # Binding /\ r # NodeSecret
  BY <1>1, <1>2
<1> QED
  BY <1>3 DEF DependsOn, CrdNeeds

(* What the cluster agent takes waits for nothing that takes time.         *)
LEMMA AgentNeeds ==
    /\ WaitsFor[Policy] = {}
    /\ \A r \in {Sa, Role, KubeProxy, Cni, ClusterAgent} : WaitsFor[r] \subseteq ProviderNeeds
    /\ WaitsFor[Binding] \subseteq ProviderNeeds \cup {Sa, Role}
<1>1. {Policy, Sa, Role, KubeProxy, Cni, ClusterAgent, Binding} \subseteq Resources
  BY DEF Resources, CloudResources, K8sResources
<1>2. Policy \notin K8sResources
  BY Disjoint DEF CloudResources
<1>3. \A d : ~DependsOn(Policy, d)
  BY <1>2, Kinds DEF DependsOn
<1>4. \A r \in {Sa, Role, KubeProxy, Cni, ClusterAgent} :
        \A d : DependsOn(r, d) => d \in ProviderNeeds
  <2>1. \A r \in {Sa, Role, KubeProxy, Cni, ClusterAgent} :
          r.kind \notin {"asg", "endpoint", "monitoring rolebinding", "node monitoring secret", "apiservice"}
    BY Kinds
  <2> QED
    BY <2>1, PlainNeeds
<1>5. \A d : DependsOn(Binding, d) => d \in ProviderNeeds \cup {Sa, Role}
  BY Kinds DEF DependsOn, CrdNeeds
<1> QED
  BY <1>1, <1>3, <1>4, <1>5, Needs

-----------------------------------------------------------------------------
(* Type correctness *)

(* A script that has started its services keeps them.                      *)
LEMMA ScriptMoves ==
    ASSUME TypeOK, [Next]_vars
    PROVE  /\ script' \in [Controllers -> Serving \cup {"off", "broken"}]
           /\ \A c \in Controllers : script[c] \in Serving => script'[c] \in Serving
<1>1. CASE UNCHANGED script
  BY <1>1 DEF TypeOK
<1>2. CASE \E c \in Controllers : UserData(c) \/ UserDataFails(c)
  <2>1. PICK c \in Controllers : UserData(c) \/ UserDataFails(c)
    BY <1>2
  <2>2. \E to \in Serving \cup {"broken"} :
            /\ script' = [script EXCEPT ![c] = to]
            /\ to = "broken" => script[c] \notin Serving
    BY <2>1 DEF UserData, UserDataFails, StartServices, StartServicesWithoutParams,
                MarkControllerKubelet, NodesRegister, LabelFails, InjectDatadogSecrets, ApplyFails, Reboot, Serving
  <2> QED
    BY <2>2 DEF TypeOK
<1> QED
  BY <1>1, <1>2 DEF Next, vars, StartsOrEnds, UpdateFails, CreateStarts, CreateInCloud,
                    CreateInCluster, CreateService, RefusedByCluster, ServiceReady,
                    ServiceTimesOut, TokenController, Finished

(* Once the API server answers, it goes on to: no controller is lost.      *)
LEMMA ApiStaysUp ==
    ASSUME TypeOK, [Next]_vars, ApiUp
    PROVE  ApiUp'
<1> DEFINE S == {c \in Controllers : script[c] \in Serving}
           T == {c \in Controllers : script'[c] \in Serving}
<1>1. S \subseteq T
  BY ScriptMoves
<1>2. IsFiniteSet(T) /\ IsFiniteSet(Controllers)
  BY ControllersAssumption, FS_Subset
<1>3. Cardinality(S) \in Nat /\ Cardinality(T) \in Nat /\ Cardinality(Controllers) \in Nat
  BY <1>1, <1>2, FS_Subset, FS_CardinalityType
<1>4. Cardinality(S) <= Cardinality(T)
  BY <1>1, <1>2, FS_Subset
<1>5. 2 * Cardinality(S) > Cardinality(Controllers)
  BY DEF ApiUp
<1>6. 2 * Cardinality(T) > Cardinality(Controllers)
  BY <1>3, <1>4, <1>5
<1> QED
  BY <1>6 DEF ApiUp, Serving

(* Every step keeps the type invariant.                                    *)
LEMMA TypeStep ==
    ASSUME TypeOK, [Next]_vars
    PROVE  TypeOK'
<1>1. script' \in [Controllers -> Serving \cup {"off", "broken"}]
  BY ScriptMoves
<1>2. ApiUp => ApiUp'
  BY ApiStaysUp
<1>3. CASE UNCHANGED vars
  BY <1>1, <1>2, <1>3 DEF TypeOK, vars, engineVars, Serving
<1>4. CASE StartsOrEnds
  BY <1>1, <1>2, <1>4 DEF TypeOK, StartsOrEnds, StartUp, UpEnds, Serving
<1>5. CASE UpdateFails
  <2>1. up = "running"
    BY <1>5 DEF UpdateFails, CreateFailsAtOnce, Ready
  <2> QED
    BY <1>1, <1>2, <1>5, <2>1 DEF TypeOK, UpdateFails, CreateFailsAtOnce, Serving
<1>6. ASSUME NEW r \in Ready, CreateInCloud(r)
      PROVE  TypeOK'
  <2>1. r \in Resources /\ r \notin Services
    BY <1>6, Disjoint DEF Ready, CreateInCloud
  <2> QED
    BY <1>1, <1>2, <1>6, <2>1 DEF TypeOK, CreateInCloud, CreateAtOnce, Serving
<1>7. ASSUME NEW r \in Ready, CreateInCluster(r)
      PROVE  TypeOK'
  <2>1. r \in Resources
    BY DEF Ready
  <2> QED
    BY <1>1, <1>2, <1>7, <2>1 DEF TypeOK, CreateInCluster, Acceptable, CreateAtOnce, Serving
<1>8. ASSUME NEW r \in Ready, CreateService(r)
      PROVE  TypeOK'
  <2>1. r \in Resources \ exists /\ r \in K8sResources /\ up = "running"
    BY <1>8, Disjoint DEF Ready, CreateService
  <2> QED
    BY <1>1, <1>2, <1>8, <2>1 DEF TypeOK, CreateService, Acceptable, Serving
<1>9. ASSUME NEW r \in Ready, RefusedByCluster(r)
      PROVE  TypeOK'
  BY <1>1, <1>2, <1>9 DEF TypeOK, RefusedByCluster, Serving
<1>10. ASSUME NEW r \in creating, ServiceReady(r)
       PROVE  TypeOK'
  <2>1. r \in Resources /\ ApiUp
    BY <1>10, Disjoint DEF TypeOK, Resources, ServiceReady, ClusterAgentRuns
  <2> QED
    BY <1>1, <1>2, <1>10, <2>1 DEF TypeOK, ServiceReady, Created, Serving
<1>11. ASSUME NEW r \in creating, ServiceTimesOut(r)
       PROVE  TypeOK'
  BY <1>1, <1>2, <1>11 DEF TypeOK, ServiceTimesOut, CreateFails, Serving
<1>12. CASE \E c \in Controllers : UserData(c) \/ UserDataFails(c)
  <2>1. PICK c \in Controllers : UserData(c) \/ UserDataFails(c)
    BY <1>12
  <2>2. /\ UNCHANGED engineVars
        /\ labelled' \subseteq Controllers /\ faulty' \subseteq Controllers
        /\ objects' \in {objects, objects \cup {DatadogSecret}}
        /\ objects' # objects \/ labelled' # labelled => ApiUp
    BY <2>1 DEF TypeOK, UserData, UserDataFails, StartServices, StartServicesWithoutParams,
                MarkControllerKubelet, NodesRegister, LabelFails, InjectDatadogSecrets, ApplyFails, Reboot,
                Fault, CanListSecrets
  <2> QED
    BY <1>1, <1>2, <2>2 DEF TypeOK, engineVars, Serving
<1>13. CASE TokenController
  BY <1>1, <1>2, <1>13 DEF TypeOK, TokenController, engineVars, Serving
<1> QED
  BY <1>3, <1>4, <1>5, <1>6, <1>7, <1>8, <1>9, <1>10, <1>11, <1>12, <1>13
     DEF Next, CreateStarts, Finished

(* The type invariant holds: nothing of the cluster exists, and no Service *)
(* is awaited, before the API server has answered.                         *)
THEOREM TypeCorrect == Spec => []TypeOK
<1>1. Init => TypeOK
  BY DEF Init, InitEngine, TypeOK, Serving
<1>2. TypeOK /\ [Next]_vars => TypeOK'
  BY TypeStep
<1> QED
  BY <1>1, <1>2, PTL DEF Spec

-----------------------------------------------------------------------------
(* Nothing is lost                                                         *)

(* How a step changes what exists, what is being created and what is in    *)
(* the cluster.                                                            *)
LEMMA EngineMoves ==
    ASSUME TypeOK, [Next]_vars
    PROVE  \/ UNCHANGED <<exists, creating>> /\ objects \subseteq objects'
           \/ TokenController
           \/ \E r \in Ready :
                 /\ exists' \cup creating' = exists \cup creating \cup {r}
                 /\ exists \subseteq exists' /\ creating \subseteq creating'
                 /\ objects \subseteq objects'
                 /\ r \in K8sResources => r \in objects'
           \/ /\ exists \subseteq exists' /\ creating' \subseteq creating
              /\ exists' \subseteq exists \cup creating
              /\ objects' = objects
<1>1. CASE UNCHANGED vars \/ StartsOrEnds \/ UpdateFails
  BY <1>1 DEF vars, engineVars, StartsOrEnds, StartUp, UpEnds, UpdateFails, CreateFailsAtOnce
<1>2. ASSUME NEW r \in Ready, RefusedByCluster(r)
      PROVE  UNCHANGED <<exists, creating>> /\ objects \subseteq objects'
  BY <1>2 DEF RefusedByCluster
<1>3. ASSUME NEW r \in Ready, CreateStarts(r)
      PROVE  /\ exists' \cup creating' = exists \cup creating \cup {r}
             /\ exists \subseteq exists' /\ creating \subseteq creating'
             /\ objects \subseteq objects'
             /\ r \in K8sResources => r \in objects'
  BY <1>3, Disjoint DEF CreateStarts, CreateInCloud, CreateInCluster, CreateService, CreateAtOnce
<1>4. ASSUME NEW r \in creating, ServiceReady(r) \/ ServiceTimesOut(r)
      PROVE  /\ exists \subseteq exists' /\ creating' \subseteq creating
             /\ exists' \subseteq exists \cup creating
             /\ objects' = objects
  BY <1>4 DEF ServiceReady, ServiceTimesOut, Created, CreateFails
<1>5. ASSUME NEW c \in Controllers, UserData(c) \/ UserDataFails(c)
      PROVE  UNCHANGED <<exists, creating>> /\ objects \subseteq objects'
  BY <1>5 DEF UserData, UserDataFails, StartServices, StartServicesWithoutParams,
              MarkControllerKubelet, NodesRegister, LabelFails, InjectDatadogSecrets, ApplyFails, Reboot, engineVars
<1> QED
  BY <1>1, <1>2, <1>3, <1>4, <1>5 DEF Next, Finished, vars, engineVars

(* What is ready finds all it waits for.                                   *)
LEMMA ReadyIsClosed ==
    ASSUME NEW r \in Ready
    PROVE  WaitsFor[r] \subseteq exists
<1>1. r \in Resources /\ WaitsFor[r] \subseteq Resources
  BY Needs DEF Ready
<1> QED
  BY <1>1 DEF Ready

(* Every step keeps the two parts.                                         *)
LEMMA InClusterStep ==
    ASSUME TypeOK, ClosedInv, InClusterInv, [Next]_vars
    PROVE  ClosedInv' /\ InClusterInv'
<1>1. CASE UNCHANGED <<exists, creating>> /\ objects \subseteq objects'
  BY <1>1 DEF ClosedInv, InClusterInv
<1>2. CASE TokenController
  <2>1. CASE NodeSa \in objects
    BY <1>2, <2>1 DEF TokenController, engineVars, ClosedInv, InClusterInv
  <2>2. CASE NodeSa \notin objects
    <3>1. NodeSa \notin exists
      BY <2>2 DEF InClusterInv, K8sResources
    <3>2. NodeSecret \notin exists \cup creating
      BY <3>1, ClusterNeeds DEF ClosedInv
    <3> QED
      BY <1>2, <2>2, <3>2 DEF TokenController, engineVars, ClosedInv, InClusterInv
  <2> QED
    BY <2>1, <2>2
<1>3. ASSUME NEW r \in Ready,
             exists' \cup creating' = exists \cup creating \cup {r},
             exists \subseteq exists', creating \subseteq creating',
             objects \subseteq objects', r \in K8sResources => r \in objects'
      PROVE  ClosedInv' /\ InClusterInv'
  <2>1. WaitsFor[r] \subseteq exists
    BY ReadyIsClosed
  <2>2. ClosedInv'
    BY <1>3, <2>1 DEF ClosedInv
  <2>3. creating' \subseteq creating \cup {r} \cup exists
    BY <1>3
  <2>4. TypeOK'
    BY TypeStep
  <2>5. creating' \subseteq K8sResources
    BY <2>4, Disjoint DEF TypeOK
  <2> QED
    BY <1>3, <2>2, <2>5 DEF InClusterInv
<1>4. CASE /\ exists \subseteq exists' /\ creating' \subseteq creating
           /\ exists' \subseteq exists \cup creating
           /\ objects' = objects
  BY <1>4 DEF ClosedInv, InClusterInv
<1> QED
  BY <1>1, <1>2, <1>3, <1>4, EngineMoves

(* What Pulumi has recorded stays in the cluster: the secret of the nodes  *)
(* comes after its account, and kube-controller-manager has no reason to   *)
(* delete it.                                                              *)
THEOREM NothingIsLost == Spec => []NothingLost
<1>1. Init => ClosedInv /\ InClusterInv
  BY DEF Init, InitEngine, ClosedInv, InClusterInv
<1>2. TypeOK /\ ClosedInv /\ InClusterInv /\ [Next]_vars => (ClosedInv /\ InClusterInv)'
  BY InClusterStep
<1>3. ClosedInv /\ InClusterInv => NothingLost
  BY DEF InClusterInv, NothingLost
<1> QED
  BY <1>1, <1>2, <1>3, TypeCorrect, PTL DEF Spec

-----------------------------------------------------------------------------
(* Nobody waits for itself                                                 *)

(* Every step keeps the secret where an unstruck controller has left it.   *)
LEMMA SecretStep ==
    ASSUME TypeOK, SecretInv, [Next]_vars
    PROVE  SecretInv'
<1>1. DatadogSecret \in objects => DatadogSecret \in objects'
  <2>1. DatadogSecret # NodeSecret
    BY Kinds
  <2> QED
    BY <2>1, EngineMoves DEF TokenController
<1>2. CASE UNCHANGED <<script, faulty>>
  BY <1>1, <1>2 DEF SecretInv
<1>3. CASE \E c \in Controllers : UserData(c) \/ UserDataFails(c)
  <2>1. PICK c \in Controllers : UserData(c) \/ UserDataFails(c)
    BY <1>3
  <2>2. CASE InjectDatadogSecrets(c)
    BY <1>1, <2>2 DEF InjectDatadogSecrets, SecretInv, TypeOK
  <2>3. CASE UserDataFails(c)
    <3>1. /\ c \in faulty' /\ faulty \subseteq faulty'
          /\ \A d \in Controllers \ {c} : script'[d] = script[d]
      BY <2>3 DEF UserDataFails, StartServicesWithoutParams, LabelFails, ApplyFails, Reboot, Fault, TypeOK
    <3> QED
      BY <1>1, <3>1 DEF SecretInv
  <2>4. CASE StartServices(c) \/ MarkControllerKubelet(c)
    <3>1. /\ faulty' = faulty /\ script'[c] \in {"wait_apiserver", "wait_role"}
          /\ \A d \in Controllers \ {c} : script'[d] = script[d]
      BY <2>4 DEF StartServices, MarkControllerKubelet, TypeOK
    <3> QED
      BY <1>1, <3>1 DEF SecretInv
  <2> QED
    BY <2>1, <2>2, <2>3, <2>4 DEF UserData
<1> QED
  BY <1>2, <1>3 DEF Next, vars, StartsOrEnds, UpdateFails, CreateStarts, CreateInCloud,
                    CreateInCluster, CreateService, RefusedByCluster, ServiceReady,
                    ServiceTimesOut, TokenController, Finished

(* The awaited Services leave a slot free.                                 *)
LEMMA SlotLeft ==
    ASSUME TypeOK
    PROVE  SlotFree
<1>1. IsFiniteSet(Services) /\ Cardinality(Services) <= 2
  <2>1. IsFiniteSet({AdmissionService}) /\ Cardinality({AdmissionService}) = 1
    BY FS_Singleton
  <2>2. Services = {AdmissionService} \cup {MetricsService}
    BY DEF Services
  <2> QED
    BY <2>1, <2>2, FS_AddElement
<1>2. Cardinality(creating) \in Nat /\ Cardinality(creating) <= Cardinality(Services)
  BY <1>1, FS_Subset, FS_CardinalityType DEF TypeOK
<1>3. Cardinality(Services) \in Nat
  BY <1>1, FS_CardinalityType
<1> QED
  BY <1>1, <1>2, <1>3, SlotsAssumption DEF SlotFree

(* What is missing although all it waits for exists can be started.        *)
LEMMA Startable ==
    ASSUME TypeOK, ApiUp, up = "running",
           NEW r \in Resources \ Services, r \notin exists, r # EniConfig,
           WaitsFor[r] \subseteq exists
    PROVE  CanStart
<1>1. r \in Ready
  BY DEF Ready, TypeOK
<1> QED
  BY <1>1, SlotLeft DEF CanStart, Acceptable

(* An update that awaits a Service has something to start, or a controller *)
(* has something to do.                                                    *)
LEMMA NobodyWaits ==
    ASSUME TypeOK, ClosedInv, InClusterInv, SecretInv
    PROVE  NoCyclicWait
<1> SUFFICES ASSUME up = "running", creating # {}, ~ClusterAgentRuns, faulty # Controllers, ~CanStart
             PROVE  CanMove
  BY DEF NoCyclicWait
<1>1. ApiUp
  BY DEF TypeOK
<1>2. ProviderNeeds \subseteq exists
  <2>1. PICK s \in creating : TRUE
    OBVIOUS
  <2>2. s \in K8sResources
    BY Disjoint DEF TypeOK
  <2> QED
    BY <2>2, ClusterNeeds DEF ClosedInv
<1>3. Policy \in exists
  <2>1. Policy \in Resources \ Services /\ Policy # EniConfig
    BY Disjoint, Kinds DEF Resources, CloudResources
  <2> QED
    BY <1>1, <2>1, AgentNeeds, Startable
<1>4. {Sa, Role, KubeProxy, Cni, ClusterAgent} \subseteq exists
  <2>1. \A r \in {Sa, Role, KubeProxy, Cni, ClusterAgent} :
          r \in K8sResources /\ r # EniConfig
    BY Kinds DEF K8sResources
  <2>2. \A r \in {Sa, Role, KubeProxy, Cni, ClusterAgent} : r \in Resources \ Services
    BY <2>1, Disjoint DEF Resources
  <2> QED
    BY <1>1, <1>2, <2>1, <2>2, AgentNeeds, Startable
<1>5. Binding \in exists
  <2>1. Binding \in Resources \ Services /\ Binding # EniConfig
    BY Disjoint, Kinds DEF Resources, K8sResources
  <2> QED
    BY <1>1, <1>2, <1>4, <2>1, AgentNeeds, Startable
<1>6. {Sa, Role, KubeProxy, Cni, ClusterAgent, Binding} \subseteq objects
  BY <1>4, <1>5 DEF InClusterInv, K8sResources
<1>7. DatadogSecret \notin objects
  BY <1>1, <1>6 DEF ClusterAgentRuns
<1>8. PICK c \in Controllers : c \notin faulty
  BY DEF TypeOK
<1>9. script[c] \in {"off", "wait_apiserver", "wait_role"}
  BY <1>7, <1>8 DEF SecretInv, TypeOK, Serving
<1>10. Asg(c) \in exists
  BY <1>2, <1>8 DEF ProviderNeeds
<1>11. CanListSecrets /\ NodesRegister
  BY <1>1, <1>2, <1>6 DEF CanListSecrets, NodesRegister, ProviderNeeds
<1> QED
  BY <1>3, <1>8, <1>9, <1>10, <1>11 DEF CanMove

(* An update that awaits pods which need what the controllers create after *)
(* the same update has created their role, is never left waiting for       *)
(* itself while one controller is free of faults.                          *)
THEOREM NoUpdateWaitsForItself == Spec => []NoCyclicWait
<1>1. Init => ClosedInv /\ InClusterInv /\ SecretInv
  BY DEF Init, InitEngine, ClosedInv, InClusterInv, SecretInv
<1>2. TypeOK /\ ClosedInv /\ InClusterInv /\ [Next]_vars => (ClosedInv /\ InClusterInv)'
  BY InClusterStep
<1>3. TypeOK /\ SecretInv /\ [Next]_vars => SecretInv'
  BY SecretStep
<1>4. TypeOK /\ ClosedInv /\ InClusterInv /\ SecretInv => NoCyclicWait
  BY NobodyWaits
<1> QED
  BY <1>1, <1>2, <1>3, <1>4, TypeCorrect, PTL DEF Spec

-----------------------------------------------------------------------------
(* Reruns are not for nothing: what is missing is missing in layers, the   *)
(* lowest of which waits for nothing that is missing.                      *)

FirstInCloud == {Params, Policy} \cup {Eni(c) : c \in Controllers}

FirstInCluster == K8sResources \ {Binding, NodeSecret, ApiService, EniConfig}

LEMMA Layers ==
    /\ \A r \in FirstInCloud : WaitsFor[r] = {}
    /\ \A r \in CloudResources : WaitsFor[r] \subseteq FirstInCloud
    /\ \A r \in FirstInCluster : WaitsFor[r] \subseteq ProviderNeeds
    /\ \A r \in K8sResources : WaitsFor[r] \subseteq ProviderNeeds \cup FirstInCluster
<1>1. FirstInCloud \subseteq CloudResources /\ CloudResources \subseteq Resources /\ K8sResources \subseteq Resources
  BY DEF FirstInCloud, CloudResources, ProviderNeeds, Resources
<1>0. \A r \in K8sResources : r.kind # "asg" /\ r # Endpoint
  <2>1. \A r \in Services : r.kind \notin {"asg", "endpoint"}
    BY Kinds DEF Services
  <2>2. \A r \in K8sResources \ Services : r.kind \notin {"asg", "endpoint"}
    BY Kinds DEF K8sResources
  <2>3. Endpoint.kind = "endpoint"
    BY Kinds
  <2> QED
    BY <2>1, <2>2, <2>3
<1>2. \A r \in FirstInCloud : r.kind \in {"ssm parameters", "ssm policy", "eni"}
  <2>1. Params.kind = "ssm parameters" /\ Policy.kind = "ssm policy"
    BY Kinds
  <2>2. \A r \in {Eni(c) : c \in Controllers} : r.kind = "eni"
    BY GroupKinds
  <2> QED
    BY <2>1, <2>2 DEF FirstInCloud
<1>3. \A r \in CloudResources : r \notin K8sResources
  BY Disjoint
<1>4. \A r \in FirstInCloud : \A d : ~DependsOn(r, d)
  <2>1. Endpoint.kind = "endpoint"
    BY Kinds
  <2>2. \A r \in FirstInCloud : r.kind # "asg" /\ r # Endpoint
    BY <1>2, <2>1
  <2>3. \A r \in FirstInCloud : r \notin K8sResources /\ r \notin {Binding, NodeSecret, Crd, ApiService}
    BY <1>1, <1>3 DEF K8sResources
  <2> QED
    BY <2>2, <2>3 DEF DependsOn
<1>5. \A r \in CloudResources : \A d : DependsOn(r, d) => d \in FirstInCloud
  <2> SUFFICES ASSUME NEW r \in CloudResources, NEW d, DependsOn(r, d) PROVE d \in FirstInCloud
    OBVIOUS
  <2>1. r \notin {Binding, NodeSecret, Crd, ApiService}
    BY <1>3 DEF K8sResources
  <2>2. \/ r.kind = "asg" /\ d \in {Params, Eni(r.of)}
        \/ r = Endpoint /\ d \in {Eni(c) : c \in Controllers}
    BY <1>3, <2>1 DEF DependsOn
  <2>3. ASSUME r.kind = "asg" PROVE r.of \in Controllers
    <3>1. r \notin {Params, Endpoint, Policy}
      BY <2>3, Kinds
    <3>2. \E c \in Controllers : r = Eni(c) \/ r = Asg(c)
      BY <3>1 DEF CloudResources, ProviderNeeds
    <3> QED
      BY <2>3, <3>2, GroupKinds
  <2> QED
    BY <2>2, <2>3 DEF FirstInCloud
<1>6. \A r \in FirstInCluster : \A d : DependsOn(r, d) => d \in ProviderNeeds
  <2> SUFFICES ASSUME NEW r \in FirstInCluster, NEW d, DependsOn(r, d) PROVE d \in ProviderNeeds
    OBVIOUS
  <2>1. r \in K8sResources /\ r \notin {Binding, NodeSecret, ApiService}
    BY DEF FirstInCluster
  <2>2. r.kind # "asg" /\ r # Endpoint
    BY <1>0, <2>1
  <2> QED
    BY <2>1, <2>2 DEF DependsOn, CrdNeeds
<1>7. \A r \in K8sResources : \A d : DependsOn(r, d) => d \in ProviderNeeds \cup FirstInCluster
  <2> SUFFICES ASSUME NEW r \in K8sResources, NEW d, DependsOn(r, d)
               PROVE  d \in ProviderNeeds \cup FirstInCluster
    OBVIOUS
  <2> DEFINE kinds == {"monitoring rolebinding", "node monitoring secret", "apiservice", "eniconfig"}
             first == {Sa, Role, NodeSa, MetricsService}
             later == {Binding, NodeSecret, ApiService, EniConfig}
  <2>1. first \subseteq FirstInCluster
    <3>1. \A x \in later : x.kind \in kinds
      BY Kinds
    <3>2. \A x \in first : x.kind \notin kinds
      BY Kinds
    <3>3. first \subseteq K8sResources
      BY DEF K8sResources, Services
    <3> HIDE DEF kinds, first, later
    <3>4. later \cap first = {}
      BY <3>1, <3>2, KindsApart
    <3> QED
      BY <3>3, <3>4 DEF FirstInCluster, later
  <2>2. r.kind # "asg" /\ r # Endpoint
    BY <1>0
  <2> QED
    BY <2>1, <2>2 DEF DependsOn, CrdNeeds, NodeSecretNeeds
<1> QED
  BY <1>1, <1>4, <1>5, <1>6, <1>7, Needs DEF FirstInCluster

LEMMA NobodyStuck ==
    ASSUME TypeOK, InClusterInv
    PROVE  GetsOn
<1> SUFFICES ASSUME up = "running", ~(Resources \subseteq exists),
                    \A c \in Controllers : script[c] # "broken", creating = {}, ~CanMove
             PROVE  \E r \in Ready : r \in K8sResources => Acceptable(r)
  BY SlotLeft DEF GetsOn
<1>1. ASSUME NEW r \in Resources, r \notin exists, WaitsFor[r] \subseteq exists PROVE r \in Ready
  BY <1>1 DEF Ready
<1>2. CASE ~(CloudResources \subseteq exists)
  <2>1. \A r \in CloudResources : r \in Resources /\ r \notin K8sResources
    BY Disjoint DEF Resources
  <2>2. FirstInCloud \subseteq CloudResources
    BY DEF FirstInCloud, CloudResources, ProviderNeeds
  <2>3. CASE FirstInCloud \subseteq exists
    BY <1>1, <1>2, <2>1, <2>3, Layers
  <2>4. CASE ~(FirstInCloud \subseteq exists)
    BY <1>1, <2>1, <2>2, <2>4, Layers
  <2> QED
    BY <2>3, <2>4
<1>3. CASE CloudResources \subseteq exists
  <2>1. ApiUp
    <3>1. \A c \in Controllers : {Asg(c), Policy} \subseteq exists
      BY <1>3 DEF CloudResources, ProviderNeeds
    <3>2. \A c \in Controllers : script[c] \in Serving
      BY <3>1 DEF CanMove, TypeOK
    <3>3. {c \in Controllers : script[c] \in Serving} = Controllers
      BY <3>2
    <3>4. Cardinality(Controllers) \in Nat /\ Cardinality(Controllers) # 0
      BY ControllersAssumption, FS_CardinalityType, FS_EmptySet
    <3> QED
      BY <3>3, <3>4 DEF ApiUp
  <2>2. ~(K8sResources \subseteq exists) /\ ProviderNeeds \subseteq exists
    BY <1>3 DEF Resources, CloudResources
  <2>3. CASE ~(FirstInCluster \subseteq exists)
    <3>1. PICK r \in FirstInCluster : r \notin exists
      BY <2>3
    <3>2. r \in K8sResources /\ r # EniConfig
      BY DEF FirstInCluster
    <3>3. r \in Ready
      BY <1>1, <2>2, <3>1, <3>2, Layers DEF Resources
    <3> QED
      BY <2>1, <3>2, <3>3 DEF Acceptable
  <2>4. CASE FirstInCluster \subseteq exists
    <3>1. PICK r \in K8sResources : r \notin exists
      BY <2>2
    <3>2. r \in Ready
      BY <1>1, <2>2, <2>4, <3>1, Layers DEF Resources
    <3>3. Crd \in FirstInCluster
      BY Kinds DEF FirstInCluster, K8sResources
    <3>4. Crd \in objects
      BY <2>4, <3>3 DEF InClusterInv, FirstInCluster
    <3> QED
      BY <2>1, <3>2, <3>4 DEF Acceptable
  <2> QED
    BY <2>3, <2>4
<1> QED
  BY <1>2, <1>3

(* However many controllers there are and whatever went wrong before: an   *)
(* update has something to create, to await or to give way to, until       *)
(* everything is there, unless a controller booted too early.              *)
THEOREM UpdatesGetOn == Spec => []GetsOn
<1>1. Init => ClosedInv /\ InClusterInv
  BY DEF Init, InitEngine, ClosedInv, InClusterInv
<1>2. TypeOK /\ ClosedInv /\ InClusterInv /\ [Next]_vars => (ClosedInv /\ InClusterInv)'
  BY InClusterStep
<1> QED
  BY <1>1, <1>2, NobodyStuck, TypeCorrect, PTL DEF Spec

=============================================================================
