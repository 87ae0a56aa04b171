------------------------ MODULE InstanceRefresh_proofs ------------------------
(***************************************************************************)
(* What InstanceRefresh promises for every fleet, workload, launch         *)
(* template history, set of options and combination of faults.             *)
(***************************************************************************)
EXTENDS InstanceRefresh, FiniteSetTheorems, TLAPS

-----------------------------------------------------------------------------
(* The parts of the inductive invariants the safety properties rest on.    *)

(* Launch template versions only grow, and nothing runs a later one than   *)
(* the latest; what the script holds has been launched.                    *)
VersionsInv ==
    /\ \A a \in ASGs : floor[a] <= latest[a]
    /\ \A i \in Instances : life[i] # "none" => version[i] <= latest[AsgOf[i]]
    /\ \A i \in described \cup INSTANCES \cup killed : life[i] # "none"

(* Everything the run has terminated or is about to is outdated. *)
OutdatedInv ==
    \A i \in INSTANCES \cup killed : version[i] < latest[AsgOf[i]]

(* Nodes belong to instances that have been launched and are not gone,     *)
(* pods run on nodes.                                                      *)
NodesInv ==
    /\ \A i \in Instances : node[i] # "absent" => life[i] \notin {"none", "gone"}
    /\ \A p \in Pods : pod[p] # NoInstance => node[pod[p]] # "absent"

(* Once the cordon loop has passed an instance without skipping it, its    *)
(* node takes no pods any more; nothing is evicted before the loop ends.   *)
CordonInv ==
    /\ pc \in Cordoning \cup Retiring /\ IS_K8S_AVAILABLE =>
          \A i \in INSTANCES \ (missed \cup cordonLeft) :
              node[i] = "cordoned" \/ life[i] = "gone"
    /\ pc \notin Retiring \cup {"done"} => evicted = {}

(* An instance that takes no pods, and never will again.                   *)
Closed(i) == node[i] = "cordoned" \/ life[i] = "gone"

(* While it is being drained, and after, an instance takes no pods.        *)
DrainInv ==
    /\ pc = "evict" => Closed(instance)
    /\ pc = "terminate" /\ instance \notin missed =>
          Closed(instance) /\ \A p \in Pods : pod[p] # instance
    /\ \A i \in killed \ missed : Closed(i)
    /\ \A i \in undrained : life[i] \in {"terminating", "gone"}

(* As long as no run terminated an instance undrained, an instance on its  *)
(* way out has no pods and gets none.                                      *)
GraceInv ==
    undrained = {} =>
        \A i \in Instances : life[i] = "terminating" =>
            node[i] # "ready" /\ \A p \in Pods : pod[p] # i

(* Every outdated instance is still to be looked at, still to be retired,  *)
(* or kept by the operator.                                                *)
RenewalInv ==
    /\ outcome = "ok" => pc = "done"
    /\ Stack # "k8s-controllers" /\ (pc \notin {"idle", "get_asgs", "done"} \/ outcome = "ok") =>
          \A i \in Instances :
              life[i] \in {"pending", "in_service"} /\ version[i] < floor[AsgOf[i]] =>
                  \/ i \in described /\ AsgOf[i] \in asgsLeft
                  \/ i \in INSTANCES \cup declined

(* An instance its group keeps whose node is cordoned was cordoned by this *)
(* run or an earlier one for being outdated: this run is to retire it too. *)
LeftCordonedInv ==
    \A i \in Instances : life[i] \in {"pending", "in_service"} /\ node[i] = "cordoned" =>
        /\ version[i] < latest[AsgOf[i]]
        /\ Stack # "k8s-controllers"
              /\ (pc \notin {"idle", "get_asgs", "done"} \/ outcome = "ok") =>
              \/ i \in described /\ AsgOf[i] \in asgsLeft
              \/ i \in INSTANCES \cup declined

(* While every run on the controllers was started with all of them joined, *)
(* a group without a controller lost it to the current run, and            *)
(* that run works on one instance only.                                    *)
QuorumInv ==
    ~hasty =>
        /\ \A a \in ASGs : Joined(a) = {} => \E i \in killed : AsgOf[i] = a
        /\ pc \in {"idle", "get_asgs", "get_old_instances"} => killed = {}
        /\ pc # "get_old_instances" => \E i \in Instances : killed \cup INSTANCES \subseteq {i}

-----------------------------------------------------------------------------
(* Every step keeps the types.  The conjunct on `instance` ties the loop   *)
(* variable to the array the loop runs over.                               *)
LEMMA TypeInit == Init => TypeOK
<1> SUFFICES ASSUME Init PROVE TypeOK
  OBVIOUS
<1>1. \A a \in ASGs : Cardinality({i \in InitialFleet : AsgOf[i] = a}) \in Nat
  BY FleetAssumption, FS_CardinalityType, FS_Subset
<1>2. desired \in [ASGs -> Nat]
  BY <1>1 DEF Init
<1>3. latest \in [ASGs -> 1..MaxVersion] /\ version \in [Instances -> 1..MaxVersion]
  BY DEF Init
<1>4. pod \in [Pods -> Instances \cup {NoInstance}]
  BY FleetAssumption DEF Init
<1>5. opts \in OptionType /\ runs \in 0..MaxRuns
  BY ChoiceAssumption, BoundAssumption DEF Init
<1> QED
  BY <1>2, <1>3, <1>4, <1>5 DEF Init, TypeOK, AtWork, Cordoning, PcType

(* Every handler of the script and of its surroundings keeps the types.    *)
LEMMA TypeStep == TypeOK /\ [Next]_vars => TypeOK'
<1> SUFFICES ASSUME TypeOK, [Next]_vars PROVE TypeOK'
  OBVIOUS
<1> USE NoInstanceAssumption, AsgOfAssumption, SizeAssumption, BoundAssumption, ChoiceAssumption
<1> USE DEF TypeOK, AtWork, Cordoning, PcType, cloudVars, clusterVars, scriptVars, historyVars, Exit
<1>1. CASE Start
  <2>1. runs' \in 0..MaxRuns
    BY <1>1 DEF Start
  <2>2. opts' \in OptionType
    BY <1>1 DEF Start
  <2>3. pc \in {"idle", "done"} /\ pc' = "get_asgs" /\ UNCHANGED instance
    BY <1>1 DEF Start
  <2>4. UNCHANGED <<life, version, desired, latest, node, pod, asgsLeft, described,
                    INSTANCES, cordonLeft, undrained>>
    BY <1>1 DEF Start
  <2>5. /\ outcome' = "none" /\ IS_K8S_AVAILABLE' = FALSE /\ floor' = latest
        /\ killed' = {} /\ missed' = {} /\ declined' = {} /\ evicted' = {}
    BY <1>1 DEF Start
  <2>6. hasty' \in BOOLEAN
    BY <1>1, Zenon DEF Start
  <2> QED
    BY <2>1, <2>2, <2>3, <2>4, <2>5, <2>6
<1>2. CASE GetAsgs
  BY <1>2 DEF GetAsgs, Members
<1>3. CASE GetAsgsFails
  BY <1>3 DEF GetAsgsFails
<1>4. ASSUME NEW a \in ASGs, GetOldInstancesInAsg(a) PROVE TypeOK'
  BY <1>4 DEF GetOldInstancesInAsg, OldInstances
<1>5. CASE NothingToDo
  BY <1>5 DEF NothingToDo
<1>6. CASE SelectInstances
  <2>1. INSTANCES' \subseteq Instances
    BY <1>6 DEF SelectInstances
  <2>2. pc = "get_old_instances" /\ asgsLeft = {} /\ pc' = "is_k8s_available" /\ described' = {}
    BY <1>6 DEF SelectInstances
  <2>3. UNCHANGED <<life, version, desired, latest, node, pod, opts, asgsLeft, cordonLeft,
                    instance, IS_K8S_AVAILABLE, outcome, runs, floor, killed, missed,
                    declined, undrained, evicted, hasty>>
    BY <1>6 DEF SelectInstances
  <2> QED
    BY <2>1, <2>2, <2>3
<1>7. CASE IsK8sAvailable
  BY <1>7 DEF IsK8sAvailable, FirstLoop
<1>8. ASSUME NEW i \in Instances, CordonLookup(i) PROVE TypeOK'
  BY <1>8 DEF CordonLookup
<1>9. ASSUME NEW i \in Instances, CordonSkipped(i) PROVE TypeOK'
  BY <1>9 DEF CordonSkipped
<1>10. CASE KubectlCordon
  BY <1>10 DEF KubectlCordon
<1>11. CASE KubectlFails
  BY <1>11 DEF KubectlFails
<1>12. CASE CordonDone
  BY <1>12 DEF CordonDone
<1>13. ASSUME NEW i \in Instances, DrainLookup(i) PROVE TypeOK'
  BY <1>13 DEF DrainLookup
<1>14. ASSUME NEW i \in Instances, DrainSkipped(i) PROVE TypeOK'
  BY <1>14 DEF DrainSkipped
<1>15. CASE KubectlDrain
  BY <1>15 DEF KubectlDrain
<1>16. ASSUME NEW p \in Pods, Evict(p) PROVE TypeOK'
  BY <1>16 DEF Evict
<1>17. CASE DrainDone
  BY <1>17 DEF DrainDone
<1>18. CASE HandleInstance
  BY <1>18 DEF HandleInstance, TerminateAccepted
<1>19. CASE HandleDeclined
  BY <1>19 DEF HandleDeclined
<1>20. CASE TerminateFails
  BY <1>20 DEF TerminateFails
<1>21. CASE AllRetired
  BY <1>21 DEF AllRetired
<1>22. CASE Interrupted
  BY <1>22 DEF Interrupted
<1>23. ASSUME NEW a \in ASGs, PublishVersion(a) PROVE TypeOK'
  BY <1>23 DEF PublishVersion
<1>24. ASSUME NEW i \in Instances, Launch(i) PROVE TypeOK'
  BY <1>24 DEF Launch
<1>25. ASSUME NEW i \in Instances, EnterService(i) PROVE TypeOK'
  BY <1>25 DEF EnterService
<1>26. ASSUME NEW i \in Instances, Vanish(i) PROVE TypeOK'
  BY <1>26 DEF Vanish
<1>27. ASSUME NEW p \in Pods, NEW i \in Instances, Schedule(p, i) PROVE TypeOK'
  BY <1>27 DEF Schedule
<1>28. ASSUME NEW a \in ASGs, ScaleUp(a) PROVE TypeOK'
  BY <1>28 DEF ScaleUp
<1>29. ASSUME NEW i \in Instances, ScaleIn(i) PROVE TypeOK'
  BY <1>29 DEF ScaleIn
<1>30. CASE UNCHANGED vars
  BY <1>30 DEF vars
<1>31. ASSUME NEW i \in Instances, Join(i) PROVE TypeOK'
  BY <1>31 DEF Join
<1> QED
  BY <1>1, <1>2, <1>3, <1>4, <1>5, <1>6, <1>7, <1>8, <1>9, <1>10, <1>11, <1>12,
     <1>13, <1>14, <1>15, <1>16, <1>17, <1>18, <1>19, <1>20, <1>21, <1>22, <1>23,
     <1>24, <1>25, <1>26, <1>27, <1>28, <1>29, <1>30, <1>31
     DEF Next, Script, Platform, Finished

(* Type correctness, whatever the constants and however the script ends. *)
THEOREM TypeCorrect == Spec => []TypeOK
BY TypeInit, TypeStep, PTL DEF Spec

-----------------------------------------------------------------------------
(* Versions.  Launch template versions only grow and an instance keeps the *)
(* version it was launched with, so an instance found outdated stays so;   *)
(* an instance can only be launched while the script does not hold it.     *)
LEMMA VersionsInit == Init => VersionsInv /\ OutdatedInv
<1> SUFFICES ASSUME Init PROVE VersionsInv /\ OutdatedInv
  OBVIOUS
<1>1. \A a \in ASGs : floor[a] <= latest[a]
  BY BoundAssumption DEF Init
<1>2. \A i \in Instances : life[i] # "none" => version[i] <= latest[AsgOf[i]]
  BY FleetAssumption DEF Init
<1> QED
  BY <1>1, <1>2 DEF Init, VersionsInv, OutdatedInv

(* Publishing a version only raises the latest one, and an instance is     *)
(* launched with it.                                                       *)
LEMMA VersionsStep == TypeOK /\ VersionsInv /\ [Next]_vars => VersionsInv'
<1> SUFFICES ASSUME TypeOK, VersionsInv, [Next]_vars PROVE VersionsInv'
  OBVIOUS
<1> USE AsgOfAssumption, BoundAssumption
<1> USE DEF TypeOK, VersionsInv, cloudVars, clusterVars, scriptVars, historyVars
<1>1. CASE Start
  <2>1. \A a \in ASGs : floor'[a] <= latest'[a]
    BY <1>1 DEF Start
  <2>2. UNCHANGED <<life, version, latest, described, INSTANCES>> /\ killed' = {}
    BY <1>1 DEF Start
  <2> QED
    BY <2>1, <2>2
<1>2. CASE GetAsgs
  BY <1>2 DEF GetAsgs, Members
<1>3. ASSUME NEW a \in ASGs, GetOldInstancesInAsg(a) PROVE VersionsInv'
  BY <1>3 DEF GetOldInstancesInAsg, OldInstances
<1>4. ASSUME NEW i \in Instances, Launch(i) PROVE VersionsInv'
  BY <1>4 DEF Launch
<1>5. ASSUME NEW i \in Instances, EnterService(i) \/ Join(i) \/ Vanish(i) \/ ScaleIn(i)
      PROVE VersionsInv'
  BY <1>5 DEF EnterService, Join, Vanish, ScaleIn
<1>6. ASSUME NEW a \in ASGs, PublishVersion(a) PROVE VersionsInv'
  BY <1>6 DEF PublishVersion
<1>7. CASE HandleInstance
  BY <1>7 DEF HandleInstance, TerminateAccepted
<1>8. CASE \/ SelectInstances \/ HandleDeclined \/ \E i \in Instances : DrainSkipped(i)
  BY <1>8 DEF SelectInstances, HandleDeclined, DrainSkipped
<1>9. CASE \/ GetAsgsFails \/ NothingToDo \/ KubectlFails \/ TerminateFails
           \/ AllRetired \/ Interrupted
  BY <1>9 DEF GetAsgsFails, NothingToDo, KubectlFails, TerminateFails, AllRetired,
              Interrupted, Exit
<1>10. CASE \/ IsK8sAvailable \/ KubectlCordon \/ CordonDone \/ KubectlDrain \/ DrainDone
            \/ \E i \in Instances : CordonLookup(i) \/ CordonSkipped(i) \/ DrainLookup(i)
            \/ \E p \in Pods : Evict(p)
            \/ \E p \in Pods, i \in Instances : Schedule(p, i)
            \/ \E a \in ASGs : ScaleUp(a)
            \/ UNCHANGED vars
  BY <1>10 DEF IsK8sAvailable, KubectlCordon, CordonDone, KubectlDrain, DrainDone,
               CordonLookup, CordonSkipped, DrainLookup, Evict, Schedule, ScaleUp, vars
<1> QED
  BY <1>1, <1>2, <1>3, <1>4, <1>5, <1>6, <1>7, <1>8, <1>9, <1>10
     DEF Next, Script, Platform, Finished

(* The comparison picks instances below the latest version, unless it is   *)
(* made against the text of a failed lookup: the reason for the assumption.*)
LEMMA OutdatedStep ==
    ASSUME ~Fails("get_lt_version")
    PROVE TypeOK /\ VersionsInv /\ OutdatedInv /\ [Next]_vars => OutdatedInv'
<1> SUFFICES ASSUME TypeOK, VersionsInv, OutdatedInv, [Next]_vars PROVE OutdatedInv'
  OBVIOUS
<1> USE AsgOfAssumption, BoundAssumption
<1> USE DEF TypeOK, OutdatedInv, cloudVars, clusterVars, scriptVars, historyVars
<1>1. ASSUME NEW a \in ASGs, GetOldInstancesInAsg(a) PROVE OutdatedInv'
  <2>1. INSTANCES' = INSTANCES \cup OldInstances(a, latest[a])
    BY <1>1 DEF GetOldInstancesInAsg
  <2>2. \A i \in OldInstances(a, latest[a]) : version[i] < latest[AsgOf[i]]
    BY DEF OldInstances, VersionsInv
  <2>3. UNCHANGED <<version, latest, killed>>
    BY <1>1 DEF GetOldInstancesInAsg
  <2> QED
    BY <2>1, <2>2, <2>3
<1>2. ASSUME NEW i \in Instances, Launch(i) PROVE OutdatedInv'
  BY <1>2 DEF Launch, VersionsInv
<1>3. ASSUME NEW a \in ASGs, PublishVersion(a) PROVE OutdatedInv'
  BY <1>3 DEF PublishVersion
<1>4. CASE HandleInstance
  BY <1>4 DEF HandleInstance, AtWork
<1>5. CASE \/ Start \/ SelectInstances \/ HandleDeclined \/ \E i \in Instances : DrainSkipped(i)
  BY <1>5 DEF Start, SelectInstances, HandleDeclined, DrainSkipped
<1>6. CASE \/ GetAsgsFails \/ NothingToDo \/ KubectlFails \/ TerminateFails
           \/ AllRetired \/ Interrupted
  BY <1>6 DEF GetAsgsFails, NothingToDo, KubectlFails, TerminateFails, AllRetired,
              Interrupted, Exit
<1>7. CASE \/ GetAsgs \/ IsK8sAvailable \/ KubectlCordon \/ CordonDone \/ KubectlDrain
           \/ DrainDone
           \/ \E i \in Instances : CordonLookup(i) \/ CordonSkipped(i) \/ DrainLookup(i)
           \/ \E p \in Pods : Evict(p)
  BY <1>7 DEF GetAsgs, IsK8sAvailable, KubectlCordon, CordonDone, KubectlDrain, DrainDone,
              CordonLookup, CordonSkipped, DrainLookup, Evict
<1>8. CASE \/ \E i \in Instances : EnterService(i) \/ Join(i) \/ Vanish(i) \/ ScaleIn(i)
           \/ \E p \in Pods, i \in Instances : Schedule(p, i)
           \/ \E a \in ASGs : ScaleUp(a)
           \/ UNCHANGED vars
  BY <1>8 DEF EnterService, Join, Vanish, ScaleIn, Schedule, ScaleUp, vars
<1> QED
  BY <1>1, <1>2, <1>3, <1>4, <1>5, <1>6, <1>7, <1>8 DEF Next, Script, Platform, Finished

(* No run terminates a current instance, as long as the lookups of the     *)
(* launch template version answer; MCLookupFails shows what happens when   *)
(* one does not.                                                           *)
THEOREM OnlyOutdatedTerminatedHolds ==
    ASSUME ~Fails("get_lt_version")
    PROVE Spec => []OnlyOutdatedTerminated
<1>1. Init => TypeOK /\ VersionsInv /\ OutdatedInv
  BY TypeInit, VersionsInit
<1>2. TypeOK /\ VersionsInv /\ OutdatedInv /\ [Next]_vars
        => (TypeOK /\ VersionsInv /\ OutdatedInv)'
  BY TypeStep, VersionsStep, OutdatedStep
<1>3. OutdatedInv => OnlyOutdatedTerminated
  BY DEF OutdatedInv, OnlyOutdatedTerminated
<1> QED
  BY <1>1, <1>2, <1>3, PTL DEF Spec

-----------------------------------------------------------------------------
(* The disruption budget.  An eviction leaves the budget; the only other   *)
(* step that takes a pod away is the end of an instance, which has none as *)
(* long as every terminated instance was drained (GraceInv).               *)
LEMMA GraceStep == TypeOK /\ GraceInv /\ [Next]_vars => GraceInv'
<1> SUFFICES ASSUME TypeOK, GraceInv, [Next]_vars PROVE GraceInv'
  OBVIOUS
<1> USE NoInstanceAssumption, AsgOfAssumption
<1> USE DEF TypeOK, GraceInv, cloudVars, clusterVars, scriptVars, historyVars
<1>1. CASE HandleInstance
  BY <1>1 DEF HandleInstance, TerminateAccepted, AtWork
<1>2. ASSUME NEW i \in Instances, Launch(i) \/ EnterService(i) \/ Join(i) PROVE GraceInv'
  BY <1>2 DEF Launch, EnterService, Join
<1>3. ASSUME NEW i \in Instances, Vanish(i) \/ ScaleIn(i) PROVE GraceInv'
  BY <1>3 DEF Vanish, ScaleIn
<1>4. ASSUME NEW p \in Pods, NEW i \in Instances, Schedule(p, i) PROVE GraceInv'
  BY <1>4 DEF Schedule, Schedulable
<1>5. ASSUME NEW p \in Pods, Evict(p) PROVE GraceInv'
  BY <1>5 DEF Evict
<1>6. CASE KubectlCordon \/ KubectlDrain
  BY <1>6 DEF KubectlCordon, KubectlDrain, AtWork
<1>7. UNCHANGED <<life, node, pod, undrained>> => GraceInv'
  OBVIOUS
<1>8. CASE \/ Start \/ GetAsgs \/ SelectInstances \/ HandleDeclined \/ IsK8sAvailable
           \/ CordonDone \/ DrainDone
           \/ \E a \in ASGs : GetOldInstancesInAsg(a) \/ ScaleUp(a) \/ PublishVersion(a)
           \/ \E i \in Instances : \/ CordonLookup(i) \/ CordonSkipped(i)
                                   \/ DrainLookup(i) \/ DrainSkipped(i)
           \/ UNCHANGED vars
  BY <1>7, <1>8 DEF Start, GetAsgs, SelectInstances, HandleDeclined, IsK8sAvailable,
        CordonDone, DrainDone, GetOldInstancesInAsg, ScaleUp, PublishVersion,
        CordonLookup, CordonSkipped, DrainLookup, DrainSkipped, vars
<1>9. CASE \/ GetAsgsFails \/ NothingToDo \/ KubectlFails \/ TerminateFails
           \/ AllRetired \/ Interrupted
  BY <1>7, <1>9 DEF GetAsgsFails, NothingToDo, KubectlFails, TerminateFails, AllRetired,
                    Interrupted
<1> QED
  BY <1>1, <1>2, <1>3, <1>4, <1>5, <1>6, <1>8, <1>9 DEF Next, Script, Platform, Finished

(* Every pod runs on an instance of the initial fleet.                     *)
LEMMA BudgetInit == Init => BudgetKept
<1> SUFFICES ASSUME Init PROVE BudgetKept
  OBVIOUS
<1>1. Running = Pods
  BY FleetAssumption, NoInstanceAssumption DEF Init, Running
<1>2. Cardinality(Pods) \in Nat
  BY BudgetAssumption, FS_CardinalityType
<1> QED
  BY <1>1, <1>2, BudgetAssumption DEF BudgetKept

(* Only evictions, which the budget guards, and instances that vanish take *)
(* running pods away; the latter have none left to take.                   *)
LEMMA BudgetStep == TypeOK /\ GraceInv /\ BudgetKept /\ [Next]_vars => BudgetKept'
<1> SUFFICES ASSUME TypeOK, GraceInv, BudgetKept, [Next]_vars PROVE BudgetKept'
  OBVIOUS
<1> USE NoInstanceAssumption
<1>0. /\ Running \subseteq Pods /\ IsFiniteSet(Running)
      /\ Cardinality(Running) \in Nat /\ MinAvailable \in Nat
  <2>1. Running \subseteq Pods
    BY DEF Running
  <2>2. IsFiniteSet(Running)
    BY <2>1, BudgetAssumption, FS_Subset
  <2> QED
    BY <2>1, <2>2, BudgetAssumption, FS_CardinalityType
<1>1. ASSUME NEW p \in Pods, Evict(p) PROVE BudgetKept'
  <2>1. Running' = Running \ {p}
    BY <1>1 DEF Evict, Running, TypeOK
  <2>2. p \in Running
    BY <1>1 DEF Evict, Running, TypeOK, AtWork
  <2>3. Cardinality(Running') = Cardinality(Running) - 1
    BY <1>0, <2>1, <2>2, FS_RemoveElement
  <2>4. Cardinality(Running) > MinAvailable
    BY <1>1 DEF Evict
  <2> QED
    BY <1>0, <2>3, <2>4 DEF BudgetKept
<1>2. ASSUME NEW i \in Instances, Vanish(i) PROVE BudgetKept'
  <2>1. undrained' = undrained
    BY <1>2 DEF Vanish, historyVars
  <2>2. undrained = {} => Running' = Running
    <3> SUFFICES ASSUME undrained = {} PROVE Running' = Running
      OBVIOUS
    <3>1. \A p \in Pods : pod[p] # i
      BY <1>2 DEF Vanish, GraceInv
    <3>2. \A p \in Pods : pod'[p] = pod[p]
      BY <1>2, <3>1 DEF Vanish
    <3> QED
      BY <3>2 DEF Running
  <2> QED
    BY <2>1, <2>2 DEF BudgetKept
<1>3. ASSUME NEW p \in Pods, NEW i \in Instances, Schedule(p, i) PROVE BudgetKept'
  <2>1. Running' = Running \cup {p}
    BY <1>3 DEF Schedule, Running, TypeOK
  <2>2. Cardinality(Running') \in Nat /\ Cardinality(Running') >= Cardinality(Running)
    <3>1. IsFiniteSet(Running) /\ Cardinality(Running) \in Nat
      BY <1>0, FS_CardinalityType
    <3>2. Cardinality(Running \cup {p}) = Cardinality(Running) \/ Cardinality(Running \cup {p}) = Cardinality(Running) + 1
      BY <3>1, FS_AddElement, Zenon
    <3> QED
      BY <2>1, <3>1, <3>2
  <2>3. undrained' = undrained
    BY <1>3 DEF Schedule, historyVars
  <2> QED
    BY <1>0, <2>2, <2>3 DEF BudgetKept
<1>4. CASE HandleInstance
  <2>1. Running' = Running
    BY <1>4 DEF HandleInstance, Running, clusterVars
  <2>2. undrained' = {} => undrained = {}
    BY <1>4 DEF HandleInstance
  <2> QED
    BY <2>1, <2>2 DEF BudgetKept
<1>5. pod' = pod /\ undrained' = undrained => BudgetKept'
  BY DEF BudgetKept, Running
<1>6. CASE \/ \E i \in Instances : Launch(i) \/ EnterService(i) \/ ScaleIn(i)
           \/ KubectlCordon \/ KubectlDrain
  BY <1>5, <1>6 DEF Launch, EnterService, ScaleIn, KubectlCordon, KubectlDrain,
                    clusterVars, historyVars
<1>9. ASSUME NEW i \in Instances, Join(i) PROVE BudgetKept'
  BY <1>9 DEF Join, BudgetKept, Running
<1>7. CASE \/ Start \/ GetAsgs \/ SelectInstances \/ HandleDeclined \/ IsK8sAvailable
           \/ CordonDone \/ DrainDone
           \/ \E a \in ASGs : GetOldInstancesInAsg(a) \/ ScaleUp(a) \/ PublishVersion(a)
           \/ \E i \in Instances : \/ CordonLookup(i) \/ CordonSkipped(i)
                                   \/ DrainLookup(i) \/ DrainSkipped(i)
           \/ UNCHANGED vars
  BY <1>5, <1>7 DEF Start, GetAsgs, SelectInstances, HandleDeclined, IsK8sAvailable,
        CordonDone, DrainDone, GetOldInstancesInAsg, ScaleUp, PublishVersion,
        CordonLookup, CordonSkipped, DrainLookup, DrainSkipped, vars,
        clusterVars, historyVars
<1>8. CASE \/ GetAsgsFails \/ NothingToDo \/ KubectlFails \/ TerminateFails
           \/ AllRetired \/ Interrupted
  BY <1>5, <1>8 DEF GetAsgsFails, NothingToDo, KubectlFails, TerminateFails, AllRetired,
                    Interrupted, clusterVars, historyVars
<1> QED
  BY <1>1, <1>2, <1>3, <1>4, <1>6, <1>7, <1>8, <1>9 DEF Next, Script, Platform, Finished

(* The workload keeps its budget through any number of runs, aborted or    *)
(* not, as long as none of them terminated an instance undrained.          *)
THEOREM BudgetKeptHolds == Spec => []BudgetKept
<1>1. Init => TypeOK /\ GraceInv /\ BudgetKept
  <2>1. Init => GraceInv
    BY DEF Init, GraceInv
  <2> QED
    BY <2>1, TypeInit, BudgetInit
<1>2. TypeOK /\ GraceInv /\ BudgetKept /\ [Next]_vars => (TypeOK /\ GraceInv /\ BudgetKept)'
  BY TypeStep, GraceStep, BudgetStep
<1> QED
  BY <1>1, <1>2, PTL DEF Spec

-----------------------------------------------------------------------------
(* Nodes.                                                                  *)
LEMMA NodesStep == TypeOK /\ NodesInv /\ [Next]_vars => NodesInv'
<1> SUFFICES ASSUME TypeOK, NodesInv, [Next]_vars PROVE NodesInv'
  OBVIOUS
<1> USE NoInstanceAssumption
<1> USE DEF TypeOK, NodesInv, cloudVars, clusterVars, scriptVars, historyVars
<1>1. CASE HandleInstance
  BY <1>1 DEF HandleInstance, TerminateAccepted, AtWork
<1>2. ASSUME NEW i \in Instances, Launch(i) \/ EnterService(i) \/ Join(i) PROVE NodesInv'
  BY <1>2 DEF Launch, EnterService, Join
<1>3. ASSUME NEW i \in Instances, Vanish(i) \/ ScaleIn(i) PROVE NodesInv'
  BY <1>3 DEF Vanish, ScaleIn
<1>4. ASSUME NEW p \in Pods, NEW i \in Instances, Schedule(p, i) PROVE NodesInv'
  BY <1>4 DEF Schedule, Schedulable
<1>5. ASSUME NEW p \in Pods, Evict(p) PROVE NodesInv'
  BY <1>5 DEF Evict
<1>6. CASE KubectlCordon \/ KubectlDrain
  BY <1>6 DEF KubectlCordon, KubectlDrain, AtWork, NodeFound
<1>7. UNCHANGED <<life, node, pod>> => NodesInv'
  OBVIOUS
<1>8. CASE \/ Start \/ GetAsgs \/ SelectInstances \/ HandleDeclined \/ IsK8sAvailable
           \/ CordonDone \/ DrainDone
           \/ \E a \in ASGs : GetOldInstancesInAsg(a) \/ ScaleUp(a) \/ PublishVersion(a)
           \/ \E i \in Instances : \/ CordonLookup(i) \/ CordonSkipped(i)
                                   \/ DrainLookup(i) \/ DrainSkipped(i)
           \/ UNCHANGED vars
  BY <1>7, <1>8 DEF Start, GetAsgs, SelectInstances, HandleDeclined, IsK8sAvailable,
        CordonDone, DrainDone, GetOldInstancesInAsg, ScaleUp, PublishVersion,
        CordonLookup, CordonSkipped, DrainLookup, DrainSkipped, vars
<1>9. CASE \/ GetAsgsFails \/ NothingToDo \/ KubectlFails \/ TerminateFails
           \/ AllRetired \/ Interrupted
  BY <1>7, <1>9 DEF GetAsgsFails, NothingToDo, KubectlFails, TerminateFails, AllRetired,
                    Interrupted
<1> QED
  BY <1>1, <1>2, <1>3, <1>4, <1>5, <1>6, <1>8, <1>9 DEF Next, Script, Platform, Finished

(* The initial instances are nodes from the start.                         *)
LEMMA NodesInit == Init => NodesInv
BY FleetAssumption, NoInstanceAssumption, WorkloadAssumption DEF Init, NodesInv

-----------------------------------------------------------------------------
(* Draining.  A node being drained takes no pods, before the instance is   *)
(* terminated it has none; an instance on its way out never comes back.    *)
LEMMA DrainStep == TypeOK /\ NodesInv /\ DrainInv /\ [Next]_vars => DrainInv'
<1> SUFFICES ASSUME TypeOK, NodesInv, DrainInv, [Next]_vars PROVE DrainInv'
  OBVIOUS
<1> USE NoInstanceAssumption
<1> USE DEF TypeOK, DrainInv, Closed, cloudVars, clusterVars, scriptVars, historyVars
<1>1. CASE HandleInstance
  BY <1>1 DEF HandleInstance, TerminateAccepted, AtWork
<1>2. ASSUME NEW i \in Instances, Launch(i) \/ EnterService(i) \/ Join(i) PROVE DrainInv'
  BY <1>2 DEF Launch, EnterService, Join, AtWork
<1>3. ASSUME NEW i \in Instances, Vanish(i) PROVE DrainInv'
  BY <1>3 DEF Vanish, AtWork
<1>4. ASSUME NEW i \in Instances, ScaleIn(i) PROVE DrainInv'
  BY <1>4 DEF ScaleIn, AtWork
<1>5. ASSUME NEW p \in Pods, NEW i \in Instances, Schedule(p, i) PROVE DrainInv'
  BY <1>5 DEF Schedule, Schedulable, AtWork, NodesInv
<1>6. ASSUME NEW p \in Pods, Evict(p) PROVE DrainInv'
  BY <1>6 DEF Evict, AtWork
<1>7. CASE KubectlDrain
  BY <1>7 DEF KubectlDrain, AtWork, NodeFound, NodesInv
<1>8. CASE DrainDone
  BY <1>8 DEF DrainDone, AtWork
<1>9. ASSUME NEW i \in Instances, DrainSkipped(i) PROVE DrainInv'
  BY <1>9 DEF DrainSkipped, AtWork
<1>10. /\ UNCHANGED <<life, undrained>> /\ pc' \notin {"evict", "terminate"}
       /\ killed' \subseteq killed /\ killed' \cap missed \subseteq missed'
       /\ node' = node \/ node' = [node EXCEPT ![instance] = "cordoned"]
       => DrainInv'
  OBVIOUS
<1>11. CASE \/ Start \/ GetAsgs \/ SelectInstances \/ HandleDeclined
            \/ IsK8sAvailable \/ KubectlCordon \/ CordonDone
            \/ \E a \in ASGs : GetOldInstancesInAsg(a)
            \/ \E i \in Instances : CordonLookup(i) \/ CordonSkipped(i) \/ DrainLookup(i)
  <2>1. /\ UNCHANGED <<life, undrained>>
        /\ killed' \subseteq killed /\ killed' \cap missed \subseteq missed'
        /\ node' = node \/ node' = [node EXCEPT ![instance] = "cordoned"]
    BY <1>11 DEF Start, GetAsgs, SelectInstances, HandleDeclined, IsK8sAvailable,
          KubectlCordon, CordonDone, GetOldInstancesInAsg, CordonLookup, CordonSkipped,
          DrainLookup
  <2>2. pc' \notin {"evict", "terminate"}
    BY <1>11 DEF Start, GetAsgs, SelectInstances, HandleDeclined, IsK8sAvailable, FirstLoop,
          KubectlCordon, CordonDone, GetOldInstancesInAsg, CordonLookup, CordonSkipped,
          DrainLookup
  <2> QED
    BY <1>10, <2>1, <2>2
<1>12. CASE \/ GetAsgsFails \/ NothingToDo \/ KubectlFails \/ TerminateFails
            \/ AllRetired \/ Interrupted
  BY <1>10, <1>12 DEF GetAsgsFails, NothingToDo, KubectlFails, TerminateFails, AllRetired,
                      Interrupted, Exit
<1>13. CASE UNCHANGED vars \/ \E a \in ASGs : ScaleUp(a) \/ PublishVersion(a)
  BY <1>13 DEF ScaleUp, PublishVersion, vars
<1> QED
  BY <1>1, <1>2, <1>3, <1>4, <1>5, <1>6, <1>7, <1>8, <1>9, <1>11, <1>12, <1>13
     DEF Next, Script, Platform, Finished

(* A terminated instance that has or may get pods is one the drain skipped.*)
LEMMA UndrainedStep ==
    TypeOK /\ DrainInv /\ UndrainedOnlyIfMissed /\ [Next]_vars => UndrainedOnlyIfMissed'
<1> SUFFICES ASSUME TypeOK, DrainInv, UndrainedOnlyIfMissed, [Next]_vars
             PROVE UndrainedOnlyIfMissed'
  OBVIOUS
<1> USE DEF UndrainedOnlyIfMissed, historyVars
<1>1. CASE HandleInstance
  BY <1>1 DEF HandleInstance, TerminateAccepted, DrainInv, Closed, AtWork, TypeOK
<1>2. CASE Start
  BY <1>2 DEF Start
<1>3. UNCHANGED <<killed, undrained>> /\ missed \subseteq missed' => UndrainedOnlyIfMissed'
  OBVIOUS
<1>4. CASE \/ GetAsgs \/ SelectInstances \/ HandleDeclined \/ IsK8sAvailable
           \/ CordonDone \/ KubectlCordon \/ KubectlDrain \/ DrainDone
           \/ \E a \in ASGs : GetOldInstancesInAsg(a)
           \/ \E i \in Instances : \/ CordonLookup(i) \/ CordonSkipped(i)
                                   \/ DrainLookup(i) \/ DrainSkipped(i)
           \/ \E p \in Pods : Evict(p)
           \/ UNCHANGED vars
  BY <1>3, <1>4 DEF GetAsgs, SelectInstances, HandleDeclined, IsK8sAvailable,
        CordonDone, KubectlCordon, KubectlDrain, DrainDone, GetOldInstancesInAsg,
        CordonLookup, CordonSkipped, DrainLookup, DrainSkipped, Evict, vars
<1>5. CASE \/ GetAsgsFails \/ NothingToDo \/ KubectlFails \/ TerminateFails
           \/ AllRetired \/ Interrupted
  BY <1>3, <1>5 DEF GetAsgsFails, NothingToDo, KubectlFails, TerminateFails, AllRetired,
                    Interrupted
<1>6. CASE \/ \E i \in Instances : Launch(i) \/ EnterService(i) \/ Vanish(i) \/ ScaleIn(i)
           \/ \E p \in Pods, i \in Instances : Schedule(p, i)
           \/ \E a \in ASGs : ScaleUp(a) \/ PublishVersion(a)
  BY <1>3, <1>6 DEF Launch, EnterService, Vanish, ScaleIn, Schedule, ScaleUp, PublishVersion
<1>7. ASSUME NEW i \in Instances, Join(i) PROVE UndrainedOnlyIfMissed'
  BY <1>7 DEF Join, DrainInv, Closed
<1> QED
  BY <1>1, <1>2, <1>4, <1>5, <1>6, <1>7 DEF Next, Script, Platform, Finished

(* An instance is terminated undrained only where its drain was skipped:   *)
(* by the operator, for want of a node, or because the cluster was not     *)
(* reachable when the run asked.                                           *)
THEOREM UndrainedOnlyIfMissedHolds == Spec => []UndrainedOnlyIfMissed
<1>1. Init => TypeOK /\ NodesInv /\ DrainInv /\ UndrainedOnlyIfMissed
  <2>1. Init => DrainInv /\ UndrainedOnlyIfMissed
    BY DEF Init, DrainInv, UndrainedOnlyIfMissed
  <2> QED
    BY <2>1, TypeInit, NodesInit
<1>2. TypeOK /\ NodesInv /\ DrainInv /\ UndrainedOnlyIfMissed /\ [Next]_vars
        => (TypeOK /\ NodesInv /\ DrainInv /\ UndrainedOnlyIfMissed)'
  BY TypeStep, NodesStep, DrainStep, UndrainedStep
<1> QED
  BY <1>1, <1>2, PTL DEF Spec

-----------------------------------------------------------------------------
(* Cordoning first.  What the cordon loop has passed stays cordoned until  *)
(* it is gone, so the scheduler cannot move an evicted pod onto it.        *)
LEMMA CordonStep == TypeOK /\ NodesInv /\ CordonInv /\ [Next]_vars => CordonInv'
<1> SUFFICES ASSUME TypeOK, NodesInv, CordonInv, [Next]_vars PROVE CordonInv'
  OBVIOUS
<1> USE NoInstanceAssumption
<1> USE DEF TypeOK, CordonInv, Cordoning, Retiring, AtWork,
            cloudVars, clusterVars, scriptVars, historyVars
<1>1. CASE Start \/ GetAsgs \/ SelectInstances \/ \E a \in ASGs : GetOldInstancesInAsg(a)
  BY <1>1 DEF Start, GetAsgs, SelectInstances, GetOldInstancesInAsg
<1>2. CASE IsK8sAvailable
  BY <1>2 DEF IsK8sAvailable, FirstLoop
<1>3. ASSUME NEW i \in Instances, CordonLookup(i) \/ CordonSkipped(i) PROVE CordonInv'
  BY <1>3 DEF CordonLookup, CordonSkipped
<1>4. CASE KubectlCordon
  BY <1>4 DEF KubectlCordon
<1>5. CASE CordonDone
  BY <1>5 DEF CordonDone
<1>6. ASSUME NEW i \in Instances, DrainLookup(i) \/ DrainSkipped(i) PROVE CordonInv'
  BY <1>6 DEF DrainLookup, DrainSkipped
<1>7. CASE KubectlDrain
  BY <1>7 DEF KubectlDrain
<1>8. CASE DrainDone \/ \E p \in Pods : Evict(p)
  BY <1>8 DEF DrainDone, Evict
<1>9. CASE HandleInstance \/ HandleDeclined
  BY <1>9 DEF HandleInstance, HandleDeclined, TerminateAccepted
<1>10. CASE \/ GetAsgsFails \/ NothingToDo \/ KubectlFails \/ TerminateFails
            \/ AllRetired \/ Interrupted
  BY <1>10 DEF GetAsgsFails, NothingToDo, KubectlFails, TerminateFails, AllRetired,
               Interrupted, Exit
<1>11. ASSUME NEW i \in Instances, Launch(i) \/ EnterService(i) \/ Join(i) PROVE CordonInv'
  BY <1>11 DEF Launch, EnterService, Join, NodesInv
<1>12. ASSUME NEW i \in Instances, Vanish(i) \/ ScaleIn(i) PROVE CordonInv'
  BY <1>12 DEF Vanish, ScaleIn
<1>13. CASE \/ UNCHANGED vars
            \/ \E p \in Pods, i \in Instances : Schedule(p, i)
            \/ \E a \in ASGs : ScaleUp(a) \/ PublishVersion(a)
  BY <1>13 DEF Schedule, ScaleUp, PublishVersion, vars
<1> QED
  BY <1>1, <1>2, <1>3, <1>4, <1>5, <1>6, <1>7, <1>8, <1>9, <1>10, <1>11, <1>12, <1>13
     DEF Next, Script, Platform, Finished

(* The scheduler places pods on ready nodes only, and those the run is to  *)
(* retire are ready only where the cordon was skipped.                     *)
LEMMA StayPutStep ==
    TypeOK /\ NodesInv /\ CordonInv /\ EvictedPodsStayPut /\ [Next]_vars => EvictedPodsStayPut'
<1> SUFFICES ASSUME TypeOK, NodesInv, CordonInv, EvictedPodsStayPut, [Next]_vars
             PROVE EvictedPodsStayPut'
  OBVIOUS
<1> USE NoInstanceAssumption
<1> USE DEF EvictedPodsStayPut, cloudVars, clusterVars, scriptVars, historyVars
<1>1. ASSUME NEW p \in Pods, NEW i \in Instances, Schedule(p, i) PROVE EvictedPodsStayPut'
  <2>1. evicted # {} /\ IS_K8S_AVAILABLE => i \notin INSTANCES \ missed
    <3> SUFFICES ASSUME evicted # {}, IS_K8S_AVAILABLE, i \in INSTANCES \ missed
                 PROVE FALSE
      OBVIOUS
    <3>1. pc \in Retiring
      BY DEF TypeOK, CordonInv, Retiring
    <3>2. node[i] = "cordoned" \/ life[i] = "gone"
      BY <3>1 DEF CordonInv, TypeOK, Retiring, Cordoning
    <3>3. node[i] = "ready"
      BY <1>1 DEF Schedule, Schedulable
    <3> QED
      BY <3>2, <3>3 DEF NodesInv
  <2>2. /\ pod' = [pod EXCEPT ![p] = i]
        /\ UNCHANGED <<evicted, INSTANCES, missed, IS_K8S_AVAILABLE>>
    BY <1>1 DEF Schedule
  <2> QED
    BY <2>1, <2>2 DEF TypeOK
<1>2. CASE Start \/ GetAsgs \/ \E a \in ASGs : GetOldInstancesInAsg(a)
  BY <1>2 DEF Start, GetAsgs, GetOldInstancesInAsg, CordonInv, Retiring
<1>3. CASE IsK8sAvailable
  BY <1>3 DEF IsK8sAvailable, CordonInv, Retiring
<1>4. ASSUME NEW p \in Pods, Evict(p) PROVE EvictedPodsStayPut'
  BY <1>4 DEF Evict, TypeOK
<1>5. ASSUME NEW i \in Instances, Vanish(i) PROVE EvictedPodsStayPut'
  BY <1>5 DEF Vanish, TypeOK
<1>6. /\ UNCHANGED <<pod, evicted, IS_K8S_AVAILABLE>>
      /\ INSTANCES' \subseteq INSTANCES /\ missed \subseteq missed'
      => EvictedPodsStayPut'
  OBVIOUS
<1>7. CASE \/ SelectInstances \/ HandleInstance \/ HandleDeclined
           \/ KubectlCordon \/ CordonDone \/ KubectlDrain \/ DrainDone
           \/ \E i \in Instances : \/ CordonLookup(i) \/ CordonSkipped(i)
                                   \/ DrainLookup(i) \/ DrainSkipped(i)
  BY <1>6, <1>7 DEF SelectInstances, HandleInstance, HandleDeclined, KubectlCordon,
        CordonDone, KubectlDrain, DrainDone, CordonLookup, CordonSkipped, DrainLookup,
        DrainSkipped
<1>8. CASE \/ GetAsgsFails \/ NothingToDo \/ KubectlFails \/ TerminateFails
           \/ AllRetired \/ Interrupted
  BY <1>6, <1>8 DEF GetAsgsFails, NothingToDo, KubectlFails, TerminateFails, AllRetired,
                    Interrupted, Exit
<1>9. CASE \/ UNCHANGED vars
           \/ \E i \in Instances : Launch(i) \/ EnterService(i) \/ Join(i) \/ ScaleIn(i)
           \/ \E a \in ASGs : ScaleUp(a) \/ PublishVersion(a)
  BY <1>6, <1>9 DEF Launch, EnterService, Join, ScaleIn, ScaleUp, PublishVersion, vars
<1> QED
  BY <1>1, <1>2, <1>3, <1>4, <1>5, <1>7, <1>8, <1>9 DEF Next, Script, Platform, Finished

(* A pod is not evicted twice by one run for having been put on the next   *)
(* instance to go.                                                         *)
THEOREM EvictedPodsStayPutHolds == Spec => []EvictedPodsStayPut
<1>1. Init => TypeOK /\ NodesInv /\ CordonInv /\ EvictedPodsStayPut
  <2>1. Init => CordonInv /\ EvictedPodsStayPut
    BY DEF Init, CordonInv, EvictedPodsStayPut, Cordoning, Retiring
  <2> QED
    BY <2>1, TypeInit, NodesInit
<1>2. TypeOK /\ NodesInv /\ CordonInv /\ EvictedPodsStayPut /\ [Next]_vars
        => (TypeOK /\ NodesInv /\ CordonInv /\ EvictedPodsStayPut)'
  BY TypeStep, NodesStep, CordonStep, StayPutStep
<1> QED
  BY <1>1, <1>2, PTL DEF Spec

-----------------------------------------------------------------------------
(* Renewal.  The snapshot holds every outdated instance, each group is     *)
(* compared with the version then current, and nothing outdated can enter  *)
(* a group later.                                                          *)
LEMMA RenewalStep == TypeOK /\ VersionsInv /\ RenewalInv /\ [Next]_vars => RenewalInv'
<1> SUFFICES ASSUME TypeOK, VersionsInv, RenewalInv, [Next]_vars PROVE RenewalInv'
  OBVIOUS
<1> USE AsgOfAssumption, BoundAssumption
<1> USE DEF TypeOK, RenewalInv, cloudVars, clusterVars, scriptVars, historyVars
<1>1. CASE Start
  BY <1>1 DEF Start
<1>2. CASE GetAsgs
  BY <1>2 DEF GetAsgs, Members
<1>3. ASSUME NEW a \in ASGs, GetOldInstancesInAsg(a) PROVE RenewalInv'
  <2>1. PICK v \in {latest[a], 0} : INSTANCES' = INSTANCES \cup OldInstances(a, v)
    BY <1>3 DEF GetOldInstancesInAsg
  <2>2. ASSUME NEW i \in Instances, version[i] < floor[AsgOf[i]], AsgOf[i] = a,
               i \in described
        PROVE i \in INSTANCES'
    <3>1. floor[a] <= latest[a] /\ version[i] \in 1..MaxVersion
          /\ floor[a] \in 1..MaxVersion /\ latest[a] \in 1..MaxVersion
      BY <2>2 DEF VersionsInv
    <3>2. version[i] # v
      BY <2>1, <2>2, <3>1
    <3> QED
      BY <2>1, <2>2, <3>2 DEF OldInstances
  <2>3. /\ pc = "get_old_instances" /\ pc' = pc /\ asgsLeft' = asgsLeft \ {a}
        /\ UNCHANGED <<life, version, floor, described, declined, outcome>>
    BY <1>3 DEF GetOldInstancesInAsg
  <2>4. INSTANCES \subseteq INSTANCES'
    BY <2>1
  <2> QED
    BY <2>2, <2>3, <2>4
<1>4. CASE NothingToDo \/ AllRetired
  BY <1>4 DEF NothingToDo, AllRetired, Exit
<1>5. CASE SelectInstances
  BY <1>5 DEF SelectInstances, LimitInstances
<1>6. CASE HandleInstance
  BY <1>6 DEF HandleInstance, TerminateAccepted, AtWork
<1>7. CASE HandleDeclined
  BY <1>7 DEF HandleDeclined
<1>8. CASE GetAsgsFails \/ KubectlFails \/ TerminateFails \/ Interrupted
  BY <1>8 DEF GetAsgsFails, KubectlFails, TerminateFails, Interrupted, Exit
<1>9. CASE IsK8sAvailable
  BY <1>9 DEF IsK8sAvailable, FirstLoop
<1>10. CASE \/ KubectlCordon \/ CordonDone \/ KubectlDrain \/ DrainDone
            \/ \E i \in Instances : \/ CordonLookup(i) \/ CordonSkipped(i)
                                    \/ DrainLookup(i) \/ DrainSkipped(i)
            \/ \E p \in Pods : Evict(p)
  BY <1>10 DEF KubectlCordon, CordonDone, KubectlDrain, DrainDone, CordonLookup,
               CordonSkipped, DrainLookup, DrainSkipped, Evict
<1>11. ASSUME NEW i \in Instances, Launch(i) PROVE RenewalInv'
  BY <1>11 DEF Launch, VersionsInv
<1>12. ASSUME NEW i \in Instances, EnterService(i) \/ Join(i) \/ Vanish(i) \/ ScaleIn(i)
       PROVE RenewalInv'
  BY <1>12 DEF EnterService, Join, Vanish, ScaleIn
<1>13. CASE \/ UNCHANGED vars
            \/ \E p \in Pods, i \in Instances : Schedule(p, i)
            \/ \E a \in ASGs : ScaleUp(a) \/ PublishVersion(a)
  BY <1>13 DEF Schedule, ScaleUp, PublishVersion, vars
<1> QED
  BY <1>1, <1>2, <1>3, <1>4, <1>5, <1>6, <1>7, <1>8, <1>9, <1>10, <1>11, <1>12, <1>13
     DEF Next, Script, Platform, Finished

(* A run that exits with success leaves its groups nothing older than the  *)
(* versions that were current when it was started, faults and all.         *)
THEOREM FleetRenewedHolds == Spec => []FleetRenewed
<1>1. Init => TypeOK /\ VersionsInv /\ RenewalInv
  <2>1. Init => RenewalInv
    BY DEF Init, RenewalInv
  <2> QED
    BY <2>1, TypeInit, VersionsInit
<1>2. TypeOK /\ VersionsInv /\ RenewalInv /\ [Next]_vars
        => (TypeOK /\ VersionsInv /\ RenewalInv)'
  BY TypeStep, VersionsStep, RenewalStep
<1>3. TypeOK /\ RenewalInv => FleetRenewed
  <2> SUFFICES ASSUME TypeOK, RenewalInv, outcome = "ok", Stack # "k8s-controllers",
                      NEW a \in ASGs, NEW i \in Active(a) \ declined
               PROVE version[i] >= floor[a]
    BY DEF FleetRenewed
  <2>1. i \in Instances /\ AsgOf[i] = a /\ life[i] \in {"pending", "in_service"}
    BY DEF Active
  <2>2. INSTANCES = {} /\ asgsLeft = {}
    BY DEF RenewalInv, TypeOK
  <2>3. ~(version[i] < floor[a])
    BY <2>1, <2>2 DEF RenewalInv
  <2>4. version[i] \in Nat /\ floor[a] \in Nat
    BY <2>1, BoundAssumption DEF TypeOK
  <2> QED
    BY <2>3, <2>4
<1> QED
  BY <1>1, <1>2, <1>3, PTL DEF Spec

-----------------------------------------------------------------------------
(* Quorum.  A healthy control plane has a controller in each of its groups.*)
HealthyControlPlane ==
    /\ Stack = "k8s-controllers"
    /\ \A a \in ASGs : \E i \in InitialFleet : AsgOf[i] = a
    /\ IsFiniteSet(ASGs) /\ Cardinality(ASGs) >= 3

(* Every group has its controller to start with.                           *)
LEMMA QuorumInit ==
    ASSUME HealthyControlPlane
    PROVE Init => QuorumInv
<1> SUFFICES ASSUME Init PROVE QuorumInv
  OBVIOUS
<1>1. \A a \in ASGs : Joined(a) # {}
  BY FleetAssumption DEF Init, Joined, HealthyControlPlane
<1>2. ASGs # {}
  BY FS_EmptySet DEF HealthyControlPlane
<1>3. \E i \in Instances : TRUE
  BY <1>2, FleetAssumption DEF HealthyControlPlane
<1> QED
  BY <1>1, <1>3 DEF Init, QuorumInv

(* A run terminates the one instance it selected, and nothing else takes a *)
(* controller out of service; a later run starts from all of them again.   *)
LEMMA QuorumStep ==
    ASSUME HealthyControlPlane
    PROVE TypeOK /\ QuorumInv /\ [Next]_vars => QuorumInv'
<1> SUFFICES ASSUME TypeOK, QuorumInv, [Next]_vars PROVE QuorumInv'
  OBVIOUS
<1> USE BoundAssumption
<1> USE DEF TypeOK, QuorumInv, Joined, AtWork, cloudVars, clusterVars, scriptVars, historyVars
<1>1. CASE Start
  <2>1. killed' = {} /\ INSTANCES' = {} /\ UNCHANGED <<life, node>> /\ pc' = "get_asgs"
    BY <1>1 DEF Start
  <2>2. ~hasty' => \A a \in ASGs : Joined(a) # {}
    BY <1>1 DEF Start, HealthyControlPlane
  <2>3. \E i \in Instances : TRUE
    BY FS_EmptySet, FleetAssumption DEF HealthyControlPlane
  <2> QED
    BY <2>1, <2>2, <2>3
<1>2. CASE GetAsgs \/ \E a \in ASGs : GetOldInstancesInAsg(a)
  BY <1>2 DEF GetAsgs, GetOldInstancesInAsg
<1>3. CASE SelectInstances
  <2>1. PICK i \in INSTANCES : INSTANCES' = {i}
    BY <1>3 DEF SelectInstances, LimitInstances, HealthyControlPlane
  <2>2. ~hasty => killed = {}
    BY <1>3 DEF SelectInstances
  <2>3. i \in Instances /\ pc' = "is_k8s_available" /\ UNCHANGED <<life, node, killed, hasty>>
    BY <1>3 DEF SelectInstances
  <2> QED
    BY <1>3, <2>1, <2>2, <2>3 DEF SelectInstances
<1>4. CASE HandleInstance
  <2>1. /\ pc = "terminate" /\ pc' = "retire" /\ instance \in INSTANCES
        /\ killed' = killed \cup {instance} /\ INSTANCES' = INSTANCES \ {instance}
        /\ life' = [life EXCEPT ![instance] = "terminating"] /\ UNCHANGED <<node, hasty>>
    BY <1>4 DEF HandleInstance
  <2>2. killed' \cup INSTANCES' = killed \cup INSTANCES
    BY <2>1
  <2>3. ASSUME NEW a \in ASGs, Joined(a)' = {}, ~hasty
        PROVE \E i \in killed' : AsgOf[i] = a
    <3>1. CASE AsgOf[instance] = a
      BY <2>1, <3>1
    <3>2. CASE AsgOf[instance] # a
      <4>1. Joined(a) = {}
        BY <2>1, <2>3, <3>2
      <4> QED
        BY <2>1, <2>3, <4>1
    <3> QED
      BY <3>1, <3>2
  <2> QED
    BY <2>1, <2>2, <2>3
<1>5. CASE HandleDeclined
  BY <1>5 DEF HandleDeclined
<1>6. CASE \/ GetAsgsFails \/ NothingToDo \/ KubectlFails \/ TerminateFails
           \/ AllRetired \/ Interrupted
  <2>1. UNCHANGED <<life, node, killed, hasty>> /\ INSTANCES' = {} /\ pc' = "done" /\ pc # "idle"
    BY <1>6 DEF GetAsgsFails, NothingToDo, KubectlFails, TerminateFails, AllRetired,
                Interrupted, Exit
  <2>2. ~hasty => \E i \in Instances : killed \subseteq {i}
    <3>1. CASE pc = "get_old_instances"
      <4>1. \E i \in Instances : TRUE
        BY FS_EmptySet, FleetAssumption DEF HealthyControlPlane
      <4> QED
        BY <3>1, <4>1
    <3>2. CASE pc # "get_old_instances"
      BY <3>2
    <3> QED
      BY <3>1, <3>2
  <2> QED
    BY <2>1, <2>2
<1>7. CASE IsK8sAvailable
  BY <1>7 DEF IsK8sAvailable, FirstLoop
<1>8. CASE \/ CordonDone \/ DrainDone
           \/ \E i \in Instances : \/ CordonLookup(i) \/ CordonSkipped(i)
                                   \/ DrainLookup(i) \/ DrainSkipped(i)
           \/ \E p \in Pods : Evict(p)
  BY <1>8 DEF CordonDone, DrainDone, CordonLookup, CordonSkipped, DrainLookup,
              DrainSkipped, Evict
<1>12. CASE KubectlCordon \/ KubectlDrain
  <2>1. \A a \in ASGs : Joined(a)' = Joined(a)
    BY <1>12 DEF KubectlCordon, KubectlDrain, NodeFound
  <2>2. UNCHANGED <<INSTANCES, killed, hasty>> /\ pc \in AtWork /\ pc' \in {"cordon", "evict"}
    BY <1>12 DEF KubectlCordon, KubectlDrain
  <2> QED
    BY <2>1, <2>2
<1>9. ASSUME NEW i \in Instances, Launch(i) \/ EnterService(i) \/ Join(i) \/ Vanish(i)
      PROVE QuorumInv'
  <2>1. \A a \in ASGs : Joined(a) \subseteq Joined(a)'
    BY <1>9 DEF Launch, EnterService, Join, Vanish
  <2>2. UNCHANGED <<pc, INSTANCES, killed, hasty>>
    BY <1>9 DEF Launch, EnterService, Join, Vanish
  <2>3. \A a \in ASGs : Joined(a)' = {} => Joined(a) = {}
    BY <2>1
  <2> QED
    BY <2>2, <2>3
<1>10. CASE \/ UNCHANGED vars
            \/ \E p \in Pods, i \in Instances : Schedule(p, i)
            \/ \E a \in ASGs : ScaleUp(a) \/ PublishVersion(a)
  BY <1>10 DEF Schedule, ScaleUp, PublishVersion, vars
<1>11. \A i \in Instances : ~ScaleIn(i)
  BY DEF ScaleIn, HealthyControlPlane
<1> QED
  BY <1>1, <1>2, <1>3, <1>4, <1>5, <1>6, <1>7, <1>8, <1>9, <1>10, <1>11, <1>12
     DEF Next, Script, Platform, Finished

(* Any number of runs on a control plane with a controller in each of its  *)
(* three or more groups, each started when all of them have joined,        *)
(* keep the majority of the groups, and so etcd's quorum.                  *)
THEOREM ControllerQuorumHolds ==
    ASSUME HealthyControlPlane
    PROVE Spec => []ControllerQuorum
<1>1. Init => TypeOK /\ QuorumInv
  BY TypeInit, QuorumInit
<1>2. TypeOK /\ QuorumInv /\ [Next]_vars => (TypeOK /\ QuorumInv)'
  BY TypeStep, QuorumStep
<1>3. QuorumInv => ControllerQuorum
  <2> SUFFICES ASSUME QuorumInv, ~hasty
               PROVE 2 * Cardinality({a \in ASGs : Joined(a) = {}}) < Cardinality(ASGs)
    BY DEF ControllerQuorum
  <2> DEFINE Empty == {a \in ASGs : Joined(a) = {}}
  <2>1. PICK i \in Instances : killed \subseteq {i}
    <3>1. CASE pc = "get_old_instances"
      BY <3>1, FS_EmptySet, FleetAssumption DEF HealthyControlPlane, QuorumInv
    <3> QED
      BY <3>1 DEF QuorumInv
  <2>2. Empty \subseteq {AsgOf[i]}
    BY <2>1 DEF QuorumInv
  <2>3. Cardinality(Empty) <= 1 /\ Cardinality(Empty) \in Nat
    <3>1. IsFiniteSet({AsgOf[i]}) /\ Cardinality({AsgOf[i]}) = 1
      BY FS_Singleton
    <3>2. IsFiniteSet(Empty) /\ Cardinality(Empty) <= Cardinality({AsgOf[i]})
      BY <2>2, <3>1, FS_Subset
    <3>3. Cardinality(Empty) \in Nat
      BY <3>2, FS_CardinalityType
    <3> QED
      BY <3>1, <3>2, <3>3
  <2>4. Cardinality(ASGs) \in Nat /\ Cardinality(ASGs) >= 3
    BY FS_CardinalityType DEF HealthyControlPlane
  <2> QED
    BY <2>3, <2>4
<1> QED
  BY <1>1, <1>2, <1>3, PTL DEF Spec

-----------------------------------------------------------------------------
(* Nothing left behind.  Only outdated instances are cordoned, so what an  *)
(* aborted run left cordoned is found by the comparison of the next one.   *)
LEMMA LeftCordonedStep ==
    ASSUME ~Fails("get_lt_version")
    PROVE /\ TypeOK /\ VersionsInv /\ OutdatedInv /\ NodesInv /\ RenewalInv /\ LeftCordonedInv
          /\ [Next]_vars
          => LeftCordonedInv'
<1> SUFFICES ASSUME TypeOK, VersionsInv, OutdatedInv, NodesInv, RenewalInv, LeftCordonedInv,
                    [Next]_vars
             PROVE LeftCordonedInv'
  OBVIOUS
<1> USE AsgOfAssumption, BoundAssumption
<1> USE DEF TypeOK, LeftCordonedInv, cloudVars, clusterVars, scriptVars, historyVars
<1>1. CASE Start
  BY <1>1 DEF Start
<1>2. CASE GetAsgs
  BY <1>2 DEF GetAsgs, Members
<1>3. ASSUME NEW a \in ASGs, GetOldInstancesInAsg(a) PROVE LeftCordonedInv'
  <2>1. INSTANCES' = INSTANCES \cup OldInstances(a, latest[a])
    BY <1>3 DEF GetOldInstancesInAsg
  <2>2. ASSUME NEW i \in Instances, version[i] < latest[AsgOf[i]], AsgOf[i] = a,
               i \in described
        PROVE i \in INSTANCES'
    <3>1. version[i] \in Nat /\ latest[a] \in Nat
      OBVIOUS
    <3> QED
      BY <2>1, <2>2, <3>1 DEF OldInstances
  <2>3. /\ pc = "get_old_instances" /\ pc' = pc /\ asgsLeft' = asgsLeft \ {a}
        /\ UNCHANGED <<life, node, version, latest, described, declined, outcome>>
    BY <1>3 DEF GetOldInstancesInAsg
  <2>4. INSTANCES \subseteq INSTANCES'
    BY <2>1
  <2> QED
    BY <2>2, <2>3, <2>4
<1>4. CASE NothingToDo \/ AllRetired
  BY <1>4 DEF NothingToDo, AllRetired, Exit
<1>5. CASE SelectInstances
  BY <1>5 DEF SelectInstances, LimitInstances
<1>6. CASE HandleInstance
  BY <1>6 DEF HandleInstance, TerminateAccepted, AtWork
<1>7. CASE HandleDeclined
  BY <1>7 DEF HandleDeclined
<1>8. CASE GetAsgsFails \/ KubectlFails \/ TerminateFails \/ Interrupted
  BY <1>8 DEF GetAsgsFails, KubectlFails, TerminateFails, Interrupted, Exit
<1>9. CASE IsK8sAvailable
  BY <1>9 DEF IsK8sAvailable, FirstLoop
<1>10. CASE KubectlCordon \/ KubectlDrain
  BY <1>10 DEF KubectlCordon, KubectlDrain, OutdatedInv, AtWork
<1>11. CASE \/ CordonDone \/ DrainDone
            \/ \E i \in Instances : \/ CordonLookup(i) \/ CordonSkipped(i)
                                    \/ DrainLookup(i) \/ DrainSkipped(i)
            \/ \E p \in Pods : Evict(p)
  BY <1>11 DEF CordonDone, DrainDone, CordonLookup, CordonSkipped, DrainLookup,
               DrainSkipped, Evict
<1>12. ASSUME NEW i \in Instances, Launch(i) PROVE LeftCordonedInv'
  BY <1>12 DEF Launch, VersionsInv, NodesInv
<1>13. ASSUME NEW i \in Instances, EnterService(i) \/ Join(i) \/ Vanish(i) \/ ScaleIn(i)
       PROVE LeftCordonedInv'
  BY <1>13 DEF EnterService, Join, Vanish, ScaleIn
<1>14. ASSUME NEW a \in ASGs, PublishVersion(a) PROVE LeftCordonedInv'
  BY <1>14 DEF PublishVersion
<1>15. CASE \/ UNCHANGED vars
            \/ \E p \in Pods, i \in Instances : Schedule(p, i)
            \/ \E a \in ASGs : ScaleUp(a)
  BY <1>15 DEF Schedule, ScaleUp, vars
<1> QED
  BY <1>1, <1>2, <1>3, <1>4, <1>5, <1>6, <1>7, <1>8, <1>9, <1>10, <1>11, <1>12, <1>13,
     <1>14, <1>15
     DEF Next, Script, Platform, Finished

(* The invariant the two properties of cordoned nodes share.               *)
LEMMA LeftCordonedReached ==
    ASSUME ~Fails("get_lt_version")
    PROVE Spec => [](TypeOK /\ RenewalInv /\ LeftCordonedInv)
<1> DEFINE Inv == /\ TypeOK /\ VersionsInv /\ OutdatedInv /\ NodesInv
                  /\ RenewalInv /\ LeftCordonedInv
<1>1. Init => Inv
  <2>1. Init => RenewalInv /\ LeftCordonedInv
    BY DEF Init, RenewalInv, LeftCordonedInv
  <2> QED
    BY <2>1, TypeInit, VersionsInit, NodesInit
<1>2. Inv /\ [Next]_vars => Inv'
  BY TypeStep, VersionsStep, OutdatedStep, NodesStep, RenewalStep, LeftCordonedStep
<1> QED
  BY <1>1, <1>2, PTL DEF Spec

(* A run that exits with success has dealt with everything that it or an   *)
(* earlier, aborted run cordoned.                                          *)
THEOREM NothingLeftCordonedHolds ==
    ASSUME ~Fails("get_lt_version")
    PROVE Spec => []NothingLeftCordoned
<1>1. TypeOK /\ RenewalInv /\ LeftCordonedInv => NothingLeftCordoned
  BY DEF TypeOK, RenewalInv, LeftCordonedInv, NothingLeftCordoned, Active
<1> QED
  BY <1>1, LeftCordonedReached, PTL

(* Wherever a run stops, what it leaves cordoned in a group is outdated,   *)
(* and stays so until a run selects it: on every kind of stack.            *)
THEOREM OnlyOutdatedCordonedHolds ==
    ASSUME ~Fails("get_lt_version")
    PROVE Spec => []OnlyOutdatedCordoned
<1>1. LeftCordonedInv => OnlyOutdatedCordoned
  BY DEF LeftCordonedInv, OnlyOutdatedCordoned, Active
<1> QED
  BY <1>1, LeftCordonedReached, PTL

-----------------------------------------------------------------------------
(* Progress.  Each step of the script leaves a stage, shortens the list    *)
(* its loop works on, goes on in the loop's body, or moves a pod.  The     *)
(* instance the cordon loop is at is one it has not passed.                *)
CordonListedInv == pc = "kubectl_cordon" => instance \in cordonLeft

(* Only the lookup in the cordon loop leads to kubectl cordon.             *)
LEMMA CordonsListed == TypeOK /\ CordonListedInv /\ [Next]_vars => CordonListedInv'
<1> SUFFICES ASSUME TypeOK, CordonListedInv, [Next]_vars, pc' = "kubectl_cordon"
             PROVE  instance' \in cordonLeft'
  BY DEF CordonListedInv
<1> USE DEF CordonListedInv, cloudVars, clusterVars, scriptVars, historyVars
<1>1. CASE Script
  <2>1. \E i \in Instances : CordonLookup(i)
    BY <1>1 DEF Script, GetAsgs, GetAsgsFails, GetOldInstancesInAsg, NothingToDo, SelectInstances,
                IsK8sAvailable, FirstLoop, CordonSkipped, KubectlCordon, KubectlFails, CordonDone,
                DrainLookup, DrainSkipped, KubectlDrain, Evict, DrainDone, HandleInstance,
                HandleDeclined, TerminateFails, AllRetired, Exit
  <2> QED
    BY <2>1 DEF CordonLookup
<1>2. CASE Start \/ Interrupted
  BY <1>2 DEF Start, Interrupted, Exit
<1>3. CASE Platform
  BY <1>3 DEF Platform, Launch, EnterService, Join, Vanish, Schedule, ScaleUp
<1>4. CASE \/ UNCHANGED vars
           \/ \E a \in ASGs : PublishVersion(a)
           \/ \E i \in Instances : ScaleIn(i)
  BY <1>4 DEF PublishVersion, ScaleIn, vars
<1> QED
  BY <1>1, <1>2, <1>3, <1>4 DEF Next, Finished

(* Handler by handler: which of the three goes down.                       *)
LEMMA ScriptNearer ==
    ASSUME TypeOK, CordonListedInv, Script \/ Interrupted PROVE Nearer
<1> USE NoInstanceAssumption
<1> USE DEF TypeOK, StagesLeft, LoopLeft, BodyLeft, Shrinks, Cordoning, Retiring, AtWork
<1> DEFINE stage == StagesLeft' < StagesLeft
           loop == StagesLeft' = StagesLeft /\ Shrinks(LoopLeft, LoopLeft')
           body == StagesLeft' = StagesLeft /\ LoopLeft' = LoopLeft /\ BodyLeft' < BodyLeft
<1>1. stage \/ loop \/ body => Nearer
  BY DEF Nearer
<1>2. CASE GetAsgs \/ SelectInstances \/ CordonDone
  <2>1. stage
    BY <1>2 DEF GetAsgs, SelectInstances, CordonDone
  <2> QED
    BY <1>1, <2>1
<1>3. CASE GetAsgsFails \/ NothingToDo \/ KubectlFails \/ TerminateFails \/ AllRetired \/ Interrupted
  <2>1. pc' = "done" /\ pc \notin {"idle", "done"}
    BY <1>3 DEF GetAsgsFails, NothingToDo, KubectlFails, TerminateFails, AllRetired, Interrupted, Exit
  <2>2. pc \in PcType
    OBVIOUS
  <2>3. stage
    BY <2>1, <2>2 DEF PcType
  <2> QED
    BY <1>1, <2>3
<1>4. CASE IsK8sAvailable
  <2>1. pc = "is_k8s_available" /\ pc' \in {"cordon", "retire"}
    BY <1>4 DEF IsK8sAvailable, FirstLoop
  <2>2. stage
    BY <2>1
  <2> QED
    BY <1>1, <2>2
<1>5. ASSUME NEW a \in ASGs, GetOldInstancesInAsg(a) PROVE Nearer
  <2>1. loop
    BY <1>5 DEF GetOldInstancesInAsg
  <2> QED
    BY <1>1, <2>1
<1>6. CASE KubectlCordon
  <2>1. /\ pc = "kubectl_cordon" /\ pc' = "cordon" /\ instance \in cordonLeft
        /\ cordonLeft' = cordonLeft \ {instance}
    BY <1>6 DEF KubectlCordon, CordonListedInv
  <2>2. loop
    BY <2>1
  <2> QED
    BY <1>1, <2>2
<1>7. ASSUME NEW i \in Instances, CordonSkipped(i) PROVE Nearer
  <2>1. loop
    BY <1>7 DEF CordonSkipped
  <2> QED
    BY <1>1, <2>1
<1>8. CASE HandleInstance \/ HandleDeclined
  <2>1. /\ pc = "terminate" /\ pc' = "retire" /\ instance \in INSTANCES
        /\ INSTANCES' = INSTANCES \ {instance}
    BY <1>8 DEF HandleInstance, HandleDeclined
  <2>2. loop
    BY <2>1
  <2> QED
    BY <1>1, <2>2
<1>9. ASSUME NEW i \in Instances, CordonLookup(i) \/ DrainLookup(i) \/ DrainSkipped(i) PROVE Nearer
  <2>1. body
    BY <1>9 DEF CordonLookup, DrainLookup, DrainSkipped
  <2> QED
    BY <1>1, <2>1
<1>10. CASE KubectlDrain \/ DrainDone
  <2>1. body
    BY <1>10 DEF KubectlDrain, DrainDone
  <2> QED
    BY <1>1, <2>1
<1>11. ASSUME NEW p \in Pods, Evict(p) PROVE Nearer
  <2>1. /\ pc = "evict" /\ pod[p] = instance /\ pod' = [pod EXCEPT ![p] = NoInstance]
        /\ UNCHANGED <<pc, INSTANCES, instance>>
    BY <1>11 DEF Evict, scriptVars
  <2>2. instance \in Instances
    BY <2>1
  <2>3. p \in PodsLeft /\ PodsLeft' = PodsLeft \ {p}
    BY <2>1, <2>2 DEF PodsLeft
  <2>4. StagesLeft' = StagesLeft /\ LoopLeft' = LoopLeft /\ BodyLeft' = BodyLeft
    BY <2>1
  <2> QED
    BY <2>3, <2>4 DEF Nearer
<1> QED
  BY <1>2, <1>3, <1>4, <1>5, <1>6, <1>7, <1>8, <1>9, <1>10, <1>11 DEF Script

(* The node that is being drained takes no pods, so that none comes back.  *)
LEMMA DrainedStaysEmpty ==
    ASSUME TypeOK, NodesInv, DrainInv, [Next]_vars, pc = "evict", pc' = "evict"
    PROVE  PodsLeft' \subseteq PodsLeft
<1> USE NoInstanceAssumption DEF TypeOK, AtWork
<1>1. instance \in Instances /\ node[instance] # "ready"
  BY DEF DrainInv, Closed, NodesInv
<1>2. CASE Script
  <2>1. \E p \in Pods : Evict(p)
    BY <1>2 DEF Script, GetAsgs, GetAsgsFails, GetOldInstancesInAsg, NothingToDo, SelectInstances,
                IsK8sAvailable, CordonLookup, CordonSkipped, KubectlCordon, KubectlFails, CordonDone,
                DrainLookup, DrainSkipped, KubectlDrain, DrainDone, HandleInstance, HandleDeclined,
                TerminateFails, AllRetired, Exit
  <2> QED
    BY <1>1, <2>1 DEF Evict, PodsLeft, scriptVars
<1>3. CASE Start \/ Interrupted
  BY <1>3 DEF Start, Interrupted, Exit
<1>4. ASSUME NEW p \in Pods, NEW i \in Instances, Schedule(p, i) PROVE PodsLeft' \subseteq PodsLeft
  BY <1>1, <1>4 DEF Schedule, Schedulable, PodsLeft, scriptVars
<1>5. ASSUME NEW i \in Instances, Vanish(i) PROVE PodsLeft' \subseteq PodsLeft
  BY <1>1, <1>5 DEF Vanish, PodsLeft, scriptVars
<1>6. UNCHANGED <<pod, instance>> => PodsLeft' \subseteq PodsLeft
  BY DEF PodsLeft
<1>7. ASSUME NEW i \in Instances, Launch(i) \/ EnterService(i) \/ Join(i) \/ ScaleIn(i)
      PROVE  UNCHANGED <<pod, instance>>
  BY <1>7 DEF Launch, EnterService, Join, ScaleIn, clusterVars, scriptVars
<1>8. CASE UNCHANGED vars \/ \E a \in ASGs : ScaleUp(a) \/ PublishVersion(a)
  BY <1>6, <1>8 DEF ScaleUp, PublishVersion, vars, clusterVars, scriptVars
<1> QED
  BY <1>2, <1>3, <1>4, <1>5, <1>6, <1>7, <1>8 DEF Next, Platform, Finished

(* Every step of a run brings it nearer to its end, and what goes on       *)
(* around it never takes that back.                                        *)
THEOREM RunProgressesHolds == Spec => RunProgresses
<1> DEFINE Inv == TypeOK /\ NodesInv /\ DrainInv /\ CordonListedInv
<1>1. Init => Inv
  BY TypeInit, NodesInit DEF Init, DrainInv, CordonListedInv
<1>2. Inv /\ [Next]_vars => Inv'
  BY TypeStep, NodesStep, DrainStep, CordonsListed
<1>3. Inv /\ [Next]_vars
        => [/\ Script \/ Interrupted => Nearer
            /\ pc = "evict" /\ pc' = "evict" => PodsLeft' \subseteq PodsLeft]_vars
  BY ScriptNearer, DrainedStaysEmpty
<1> HIDE DEF Inv
<1> QED
  BY <1>1, <1>2, <1>3, PTL DEF Spec, RunProgresses

(* What is left of a loop or a drain is a finite set, so that it can only  *)
(* shrink finitely often: the instances ever launched are finitely many.   *)
LEMMA LaunchedStep ==
    ASSUME TypeOK, [Next]_vars, IsFiniteSet({i \in Instances : life[i] # "none"})
    PROVE  IsFiniteSet({i \in Instances : life'[i] # "none"})
<1> USE DEF TypeOK, AtWork
<1>1. ASSUME NEW i \in Instances, Launch(i) \/ EnterService(i) \/ Vanish(i) \/ ScaleIn(i)
      PROVE  {j \in Instances : life'[j] # "none"} = {j \in Instances : life[j] # "none"} \cup {i}
  BY <1>1 DEF Launch, EnterService, Vanish, ScaleIn
<1>2. CASE \E i \in Instances : Launch(i) \/ EnterService(i) \/ Vanish(i) \/ ScaleIn(i)
  <2>1. PICK i \in Instances : Launch(i) \/ EnterService(i) \/ Vanish(i) \/ ScaleIn(i)
    BY <1>2
  <2>2. IsFiniteSet({j \in Instances : life[j] # "none"} \cup {i})
    BY FS_AddElement
  <2> QED
    BY <1>1, <2>1, <2>2
<1>3. CASE HandleInstance
  <2>1. {j \in Instances : life'[j] # "none"} = {j \in Instances : life[j] # "none"}
    BY <1>3 DEF HandleInstance, TerminateAccepted
  <2> QED
    BY <2>1
<1>4. CASE UNCHANGED life
  BY <1>4
<1>5. CASE Script /\ ~HandleInstance
  <2>1. UNCHANGED life
    BY <1>5 DEF Script, GetAsgs, GetAsgsFails, GetOldInstancesInAsg, NothingToDo, SelectInstances,
                IsK8sAvailable, CordonLookup, CordonSkipped, KubectlCordon, KubectlFails, CordonDone,
                DrainLookup, DrainSkipped, KubectlDrain, Evict, DrainDone, HandleDeclined,
                TerminateFails, AllRetired, cloudVars
  <2> QED
    BY <1>4, <2>1
<1>6. CASE \/ Start \/ Interrupted \/ UNCHANGED vars
           \/ \E p \in Pods, i \in Instances : Schedule(p, i)
           \/ \E i \in Instances : Join(i)
           \/ \E a \in ASGs : ScaleUp(a) \/ PublishVersion(a)
  BY <1>4, <1>6 DEF Start, Interrupted, Schedule, Join, ScaleUp, PublishVersion, vars, cloudVars
<1> QED
  BY <1>2, <1>3, <1>5, <1>6 DEF Next, Platform, Finished

(* So a run takes finitely many steps, and what it still has to do shrinks *)
(* with each: where it does not end, it waits.                             *)
THEOREM FiniteWork ==
    ASSUME IsFiniteSet(ASGs)
    PROVE  Spec => [](IsFiniteSet(LoopLeft) /\ IsFiniteSet(PodsLeft))
<1> DEFINE Launched == {i \in Instances : life[i] # "none"}
<1>1. Init => IsFiniteSet(Launched)
  <2> SUFFICES ASSUME Init PROVE IsFiniteSet(Launched)
    OBVIOUS
  <2>1. Launched = InitialFleet
    BY FleetAssumption DEF Init
  <2> QED
    BY <2>1, FleetAssumption
<1>2. TypeOK /\ IsFiniteSet(Launched) /\ [Next]_vars => IsFiniteSet(Launched)'
  BY LaunchedStep
<1>3. TypeOK /\ VersionsInv /\ IsFiniteSet(Launched)
        => IsFiniteSet(LoopLeft) /\ IsFiniteSet(PodsLeft)
  <2> SUFFICES ASSUME TypeOK, VersionsInv, IsFiniteSet(Launched)
               PROVE  IsFiniteSet(LoopLeft) /\ IsFiniteSet(PodsLeft)
    OBVIOUS
  <2>1. INSTANCES \subseteq Launched /\ cordonLeft \subseteq INSTANCES /\ asgsLeft \subseteq ASGs
    BY DEF TypeOK, VersionsInv
  <2>2. LoopLeft \subseteq Launched \/ LoopLeft \subseteq ASGs
    BY <2>1 DEF LoopLeft
  <2>3. PodsLeft \subseteq Pods
    BY DEF PodsLeft
  <2> QED
    BY <2>2, <2>3, FS_Subset, BudgetAssumption
<1> HIDE DEF Launched
<1> QED
  BY <1>1, <1>2, <1>3, TypeInit, TypeStep, VersionsInit, VersionsStep, PTL DEF Spec

-----------------------------------------------------------------------------
(* The refinement of RollingReplacement.  The cloud and the cluster are    *)
(* all that is mapped, so that every step of the script that only changes  *)
(* what the script knows is a stutter.                                     *)
LEMMA Unnoticed ==
    UNCHANGED <<life, version, latest, node, pod>> => UNCHANGED Replacement!vars
BY DEF Replacement!vars, Stage, Outdated

ReplacementInv == TypeOK /\ VersionsInv /\ OutdatedInv /\ NodesInv /\ DrainInv

(* The steps of the script that change the cluster or the groups.          *)
LEMMA ScriptReplaces ==
    ReplacementInv =>
        /\ \A i \in Instances :
              /\ i = instance /\ (KubectlCordon \/ KubectlDrain) => Replacement!Close(i)
              /\ i = instance /\ HandleInstance => Replacement!Retire(i)
        /\ \A p \in Pods : Evict(p) => Replacement!Evict(p)
<1> SUFFICES ASSUME ReplacementInv
             PROVE  /\ \A i \in Instances :
                          /\ i = instance /\ (KubectlCordon \/ KubectlDrain) => Replacement!Close(i)
                          /\ i = instance /\ HandleInstance => Replacement!Retire(i)
                    /\ \A p \in Pods : Evict(p) => Replacement!Evict(p)
  OBVIOUS
<1> USE NoInstanceAssumption DEF ReplacementInv, TypeOK, AtWork, cloudVars
<1>1. pc \in AtWork => instance \in INSTANCES /\ instance \in Instances /\ Outdated(instance)
  BY DEF OutdatedInv, VersionsInv, Outdated
<1>2. ASSUME NEW i \in Instances, i = instance, KubectlCordon \/ KubectlDrain
      PROVE  Replacement!Close(i)
  <2>1. Outdated(i) /\ node[i] # "absent"
    BY <1>1, <1>2 DEF KubectlCordon, KubectlDrain, NodeFound
  <2>2. life[i] \notin {"none", "gone"}
    BY <2>1 DEF NodesInv
  <2>3. /\ node' = [node EXCEPT ![i] = "cordoned"]
        /\ UNCHANGED <<life, version, latest, pod>>
    BY <1>2 DEF KubectlCordon, KubectlDrain
  <2>4. {j \in Instances : node'[j] = "cordoned"} = {j \in Instances : node[j] = "cordoned"} \cup {i}
    BY <2>3
  <2> QED
    BY <2>1, <2>2, <2>3, <2>4 DEF Replacement!Close, Stage, Outdated
<1>3. ASSUME NEW p \in Pods, Evict(p) PROVE Replacement!Evict(p)
  <2>1. pod[p] = instance /\ instance \in Instances /\ Outdated(instance)
    BY <1>1, <1>3 DEF Evict
  <2>2. node[instance] = "cordoned"
    BY <1>3, <2>1 DEF Evict, DrainInv, Closed, NodesInv
  <2>3. /\ Cardinality(Running) > MinAvailable
        /\ pod' = [pod EXCEPT ![p] = NoInstance]
        /\ UNCHANGED <<life, version, latest, node>>
    BY <1>3 DEF Evict
  <2>4. pod[p] \in {i \in Instances : node[i] = "cordoned"} \cap {i \in Instances : Outdated(i)}
    BY <2>1, <2>2
  <2>5. UNCHANGED <<[i \in Instances |-> Stage(i)], {i \in Instances : Outdated(i)},
                    {i \in Instances : node[i] = "cordoned"}>>
    BY <2>3 DEF Stage, Outdated
  <2>6. Cardinality(Running \ {p}) >= MinAvailable
    <3>1. IsFiniteSet(Running) /\ p \in Running
      BY BudgetAssumption, FS_Subset, <2>1 DEF Running
    <3>2. /\ Cardinality(Running \ {p}) = Cardinality(Running) - 1
          /\ Cardinality(Running) \in Nat
      BY <3>1, FS_RemoveElement, FS_CardinalityType
    <3>3. MinAvailable \in Int
      BY BudgetAssumption, FS_CardinalityType
    <3> QED
      BY <2>3, <3>2, <3>3
  <2>7. {q \in Pods : pod[q] # NoInstance} \ {p}
            \in {pods \in SUBSET Pods : Cardinality(pods) >= MinAvailable}
    BY <2>6 DEF Running
  <2> QED
    BY <2>3, <2>4, <2>5, <2>7 DEF Replacement!Evict
<1>4. ASSUME NEW i \in Instances, i = instance, HandleInstance PROVE Replacement!Retire(i)
  <2>1. Outdated(i) /\ life[i] \in {"pending", "in_service"}
    BY <1>1, <1>4 DEF HandleInstance, TerminateAccepted
  <2>2. /\ life' = [life EXCEPT ![i] = "terminating"]
        /\ UNCHANGED <<version, latest, node, pod>>
    BY <1>4 DEF HandleInstance, clusterVars
  <2>3. [j \in Instances |-> Stage(j)]' = [[j \in Instances |-> Stage(j)] EXCEPT ![i] = "leaving"]
    BY <2>1, <2>2 DEF Stage
  <2>4. {j \in Instances : Outdated(j)}' = {j \in Instances : Outdated(j)}
    BY <2>1, <2>2 DEF Outdated
  <2> QED
    BY <2>1, <2>2, <2>3, <2>4 DEF Replacement!Retire, Stage
<1> QED
  BY <1>2, <1>3, <1>4

(* The steps of the groups, the kubelets, the scheduler and the autoscaler.*)
LEMMA PlatformReplaces ==
    ReplacementInv =>
        /\ \A a \in ASGs : PublishVersion(a) => Replacement!Outdate
        /\ \A i \in Instances :
              /\ Launch(i) \/ Join(i) => UNCHANGED Replacement!vars
              /\ EnterService(i) => Replacement!Enter(i)
              /\ Vanish(i) => Replacement!Disappear(i)
              /\ ScaleIn(i) => Replacement!GiveUp(i)
              /\ \A p \in Pods : Schedule(p, i) => Replacement!Place(p, i)
<1> SUFFICES ASSUME ReplacementInv
             PROVE  /\ \A a \in ASGs : PublishVersion(a) => Replacement!Outdate
                    /\ \A i \in Instances :
                          /\ Launch(i) \/ Join(i) => UNCHANGED Replacement!vars
                          /\ EnterService(i) => Replacement!Enter(i)
                          /\ Vanish(i) => Replacement!Disappear(i)
                          /\ ScaleIn(i) => Replacement!GiveUp(i)
                          /\ \A p \in Pods : Schedule(p, i) => Replacement!Place(p, i)
  OBVIOUS
<1> USE NoInstanceAssumption, AsgOfAssumption, BoundAssumption DEF ReplacementInv, TypeOK
<1>1. ASSUME NEW a \in ASGs, PublishVersion(a) PROVE Replacement!Outdate
  <2>1. /\ \A b \in ASGs : latest[b] <= latest'[b]
        /\ UNCHANGED <<life, version, node, pod>>
    BY <1>1 DEF PublishVersion, clusterVars
  <2>2. ASSUME NEW i \in Instances, Outdated(i) PROVE Outdated(i)'
    <3>1. AsgOf[i] \in ASGs /\ version[i] < latest[AsgOf[i]] /\ life[i] # "none"
      BY <2>2 DEF Outdated
    <3>2. version[i] \in Int /\ latest[AsgOf[i]] \in Int /\ latest'[AsgOf[i]] \in Int
      BY <1>1, <3>1 DEF PublishVersion
    <3>3. version[i] < latest'[AsgOf[i]]
      BY <2>1, <3>1, <3>2
    <3> QED
      BY <2>1, <3>1, <3>3 DEF Outdated
  <2> QED
    BY <2>1, <2>2 DEF Replacement!Outdate, Stage
<1>2. ASSUME NEW i \in Instances, Launch(i) PROVE UNCHANGED Replacement!vars
  <2>1. /\ life[i] = "none" /\ life' = [life EXCEPT ![i] = "pending"]
        /\ version' = [version EXCEPT ![i] = latest[AsgOf[i]]]
        /\ UNCHANGED <<latest, node, pod>>
    BY <1>2 DEF Launch, clusterVars
  <2>2. \A j \in Instances : Stage(j)' = Stage(j) /\ Outdated(j)' = Outdated(j)
    BY <2>1 DEF Stage, Outdated
  <2> QED
    BY <2>1, <2>2 DEF Replacement!vars
<1>3. ASSUME NEW i \in Instances, EnterService(i) PROVE Replacement!Enter(i)
  <2>1. /\ life[i] = "pending" /\ life' = [life EXCEPT ![i] = "in_service"]
        /\ UNCHANGED <<version, latest, node, pod>>
    BY <1>3 DEF EnterService, clusterVars
  <2>2. [j \in Instances |-> Stage(j)]' = [[j \in Instances |-> Stage(j)] EXCEPT ![i] = "serving"]
    BY <2>1 DEF Stage
  <2>3. {j \in Instances : Outdated(j)}' = {j \in Instances : Outdated(j)}
    BY <2>1 DEF Outdated
  <2> QED
    BY <2>1, <2>2, <2>3 DEF Replacement!Enter, Stage
<1>4. ASSUME NEW i \in Instances, Vanish(i) PROVE Replacement!Disappear(i)
  <2>1. /\ life[i] = "terminating" /\ life' = [life EXCEPT ![i] = "gone"]
        /\ node' = [node EXCEPT ![i] = "absent"]
        /\ pod' = [p \in Pods |-> IF pod[p] = i THEN NoInstance ELSE pod[p]]
        /\ UNCHANGED <<version, latest>>
    BY <1>4 DEF Vanish
  <2>2. [j \in Instances |-> Stage(j)]' = [[j \in Instances |-> Stage(j)] EXCEPT ![i] = "gone"]
    BY <2>1 DEF Stage
  <2>3. {j \in Instances : Outdated(j)}' = {j \in Instances : Outdated(j)}
    BY <2>1 DEF Outdated
  <2>4. {j \in Instances : node'[j] = "cordoned"} = {j \in Instances : node[j] = "cordoned"} \ {i}
    BY <2>1
  <2> QED
    BY <2>1, <2>2, <2>3, <2>4 DEF Replacement!Disappear, Stage
<1>5. ASSUME NEW i \in Instances, ScaleIn(i) PROVE Replacement!GiveUp(i)
  <2>1. /\ life[i] = "in_service" /\ life' = [life EXCEPT ![i] = "terminating"]
        /\ \A p \in Pods : pod[p] # i
        /\ node' = [node EXCEPT ![i] = "cordoned"]
        /\ UNCHANGED <<version, latest, pod>>
    BY <1>5 DEF ScaleIn
  <2>2. [j \in Instances |-> Stage(j)]' = [[j \in Instances |-> Stage(j)] EXCEPT ![i] = "leaving"]
    BY <2>1 DEF Stage
  <2>3. {j \in Instances : Outdated(j)}' = {j \in Instances : Outdated(j)}
    BY <2>1 DEF Outdated
  <2>4. {j \in Instances : node'[j] = "cordoned"} = {j \in Instances : node[j] = "cordoned"} \cup {i}
    BY <2>1
  <2> QED
    BY <2>1, <2>2, <2>3, <2>4 DEF Replacement!GiveUp, Stage
<1>6. ASSUME NEW i \in Instances, NEW p \in Pods, Schedule(p, i) PROVE Replacement!Place(p, i)
  <2>1. /\ pod[p] = NoInstance /\ node[i] = "ready"
        /\ pod' = [pod EXCEPT ![p] = i]
        /\ UNCHANGED <<life, version, latest, node>>
    BY <1>6 DEF Schedule, Schedulable, cloudVars
  <2>2. life[i] \notin {"none", "gone"}
    BY <2>1 DEF NodesInv
  <2> QED
    BY <2>1, <2>2 DEF Replacement!Place, Stage, Outdated
<1>7. ASSUME NEW i \in Instances, Join(i) PROVE UNCHANGED Replacement!vars
  <2>1. /\ node[i] = "absent" /\ node' = [node EXCEPT ![i] = "ready"]
        /\ UNCHANGED <<life, version, latest, pod>>
    BY <1>7 DEF Join, cloudVars
  <2>2. {j \in Instances : node'[j] = "cordoned"} = {j \in Instances : node[j] = "cordoned"}
    BY <2>1
  <2> QED
    BY <2>1, <2>2 DEF Replacement!vars, Stage, Outdated
<1> QED
  BY <1>1, <1>2, <1>3, <1>4, <1>5, <1>6, <1>7

(* Every step is one of the abstract replacement or goes unnoticed by it.  *)
LEMMA StepReplaces ==
    ReplacementInv /\ [Next]_vars => [Replacement!Next]_(Replacement!vars)
<1> SUFFICES ASSUME ReplacementInv, [Next]_vars, ~ UNCHANGED Replacement!vars
             PROVE  Replacement!Next
  OBVIOUS
<1>1. ASSUME \/ KubectlCordon \/ KubectlDrain \/ HandleInstance
             \/ \E p \in Pods : Evict(p)
      PROVE  Replacement!Next
  <2>1. KubectlCordon \/ KubectlDrain \/ HandleInstance => instance \in Instances
    BY DEF ReplacementInv, TypeOK, AtWork, KubectlCordon, KubectlDrain, HandleInstance
  <2>2. CASE KubectlCordon \/ KubectlDrain \/ HandleInstance
    <3>1. PICK i \in Instances : i = instance
      BY <2>1, <2>2
    <3>2. Replacement!Close(i) \/ Replacement!Retire(i)
      BY <2>2, <3>1, ScriptReplaces
    <3> QED
      BY <3>2 DEF Replacement!Next
  <2>3. CASE \E p \in Pods : Evict(p)
    BY <2>3, ScriptReplaces DEF Replacement!Next
  <2> QED
    BY <1>1, <2>2, <2>3
<1>2. ASSUME \/ \E a \in ASGs : PublishVersion(a)
             \/ \E i \in Instances :
                    Launch(i) \/ EnterService(i) \/ Join(i) \/ Vanish(i) \/ ScaleIn(i)
             \/ \E p \in Pods, i \in Instances : Schedule(p, i)
      PROVE  Replacement!Next
  BY <1>2, PlatformReplaces DEF Replacement!Next
<1>3. ASSUME \/ Start \/ GetAsgs \/ SelectInstances \/ IsK8sAvailable \/ CordonDone \/ DrainDone
             \/ HandleDeclined
             \/ \E a \in ASGs : GetOldInstancesInAsg(a)
             \/ \E i \in Instances :
                    CordonLookup(i) \/ CordonSkipped(i) \/ DrainLookup(i) \/ DrainSkipped(i)
      PROVE  FALSE
  BY <1>3, Unnoticed
     DEF Start, GetAsgs, SelectInstances, IsK8sAvailable, CordonDone, DrainDone, HandleDeclined,
         GetOldInstancesInAsg, CordonLookup, CordonSkipped, DrainLookup, DrainSkipped,
         cloudVars, clusterVars
<1>4. ASSUME GetAsgsFails \/ NothingToDo \/ KubectlFails \/ TerminateFails \/ AllRetired \/ Interrupted
      PROVE  FALSE
  BY <1>4, Unnoticed
     DEF GetAsgsFails, NothingToDo, KubectlFails, TerminateFails, AllRetired, Interrupted,
         cloudVars, clusterVars
<1>5. ASSUME (\E a \in ASGs : ScaleUp(a)) \/ UNCHANGED vars PROVE FALSE
  BY <1>5, Unnoticed DEF ScaleUp, vars, cloudVars, clusterVars
<1> QED
  BY <1>1, <1>2, <1>3, <1>4, <1>5 DEF Next, Script, Platform, Finished

(* The initial fleet is one the abstract replacement starts from.          *)
LEMMA InitReplaces == Init => Replacement!Init
<1> SUFFICES ASSUME Init PROVE Replacement!Init
  OBVIOUS
<1>1. \A i \in Instances : /\ Stage(i) = IF i \in InitialFleet THEN "serving" ELSE "coming"
                           /\ node[i] # "cordoned"
                           /\ Outdated(i) => i \in InitialFleet
  BY DEF Init, Stage, Outdated
<1>2. pod \in [Pods -> {i \in Instances : Stage(i) = "serving"}]
  BY <1>1, FleetAssumption DEF Init
<1> QED
  BY <1>1, <1>2 DEF Replacement!Init

(* As long as the lookups of the launch template answer, everything that   *)
(* any number of runs and their surroundings do is a rolling replacement:  *)
(* only the outdated are closed, emptied and retired, and they are emptied *)
(* when closed and within the budget.                                      *)
THEOREM ImplementsReplacement ==
    ASSUME ~Fails("get_lt_version")
    PROVE Spec => ReplacesRolling
<1>1. Init => ReplacementInv
  <2>1. Init => DrainInv
    BY DEF Init, DrainInv
  <2> QED
    BY <2>1, TypeInit, VersionsInit, NodesInit DEF ReplacementInv
<1>2. ReplacementInv /\ [Next]_vars => ReplacementInv'
  BY TypeStep, VersionsStep, OutdatedStep, NodesStep, DrainStep DEF ReplacementInv
<1> QED
  BY <1>1, <1>2, InitReplaces, StepReplaces, PTL DEF Spec, ReplacesRolling, Replacement!Spec

=============================================================================
