------------------------- MODULE AgentLifecycle_proofs -------------------------
(***************************************************************************)
(* What AgentLifecycle promises for any number of instances and pods: as   *)
(* long as the hook on termination holds an instance, only the handler     *)
(* lets it go, and the handler only lets go what it has drained.           *)
(***************************************************************************)
EXTENDS AgentLifecycle, FiniteSetTheorems, TLAPS

USE DEF groupVars, nodeVars, handlerVars, history

LEMMA TypeStep == TypeOK /\ [Next]_vars => TypeOK'
<1> SUFFICES ASSUME TypeOK, [Next]_vars PROVE TypeOK'
  OBVIOUS
<1>1. CASE UNCHANGED vars
  BY <1>1 DEF vars, TypeOK, PodsOn
<1>2. ASSUME NEW hook \in {"launch", "termination"}, CreateLifecycleHook(hook) PROVE TypeOK'
  BY <1>2 DEF CreateLifecycleHook, TypeOK, PodsOn
<1>3. ASSUME NEW i \in Instances, UserData(i) \/ Group(i) \/ ScaleDown(i) \/ Disturb(i)
      PROVE  TypeOK'
  <2>1. CASE StartKubelet(i)
    BY <2>1 DEF StartKubelet, SetUp, Runs, TypeOK, PodsOn
  <2>2. CASE LookupAsgFails(i)
    BY <2>2 DEF LookupAsgFails, SetUp, Runs, TypeOK, PodsOn
  <2>3. CASE SetupFails(i)
    BY <2>3 DEF SetupFails, SetUp, Runs, TypeOK, PodsOn
  <2>4. CASE Register(i)
    BY <2>4 DEF Register, Runs, TypeOK, PodsOn
  <2>5. CASE CompleteLf(i)
    BY <2>5 DEF CompleteLf, K8sCheck, Runs, TypeOK, PodsOn
  <2>6. CASE CompleteLfFails(i)
    BY <2>6 DEF CompleteLfFails, K8sCheck, Runs, TypeOK, PodsOn
  <2>7. CASE Launch(i)
    BY <2>7 DEF Launch, Wanted, Message, TypeOK, PodsOn
  <2>8. CASE LaunchTimesOut(i)
    BY <2>8 DEF LaunchTimesOut, Overdue, Abandon, Terminate, Lifecycle, Message, TypeOK, PodsOn
  <2>9. CASE LaunchTimesOutEarly(i)
    BY <2>9 DEF LaunchTimesOutEarly, Abandon, Terminate, Lifecycle, Message, TypeOK, PodsOn
  <2>10. CASE Retire(i)
    BY <2>10 DEF Retire, Terminate, Lifecycle, Message, TypeOK, PodsOn
  <2>11. CASE TerminationTimesOut(i)
    BY <2>11 DEF TerminationTimesOut, TypeOK, PodsOn
  <2>12. CASE Vanish(i)
    BY <2>12, NoInstanceAssumption DEF Vanish, TypeOK, PodsOn
  <2>13. CASE Warn(i)
    BY <2>13 DEF Warn, Notice, Message, Runs, TypeOK, PodsOn
  <2>14. CASE Reclaim(i)
    BY <2>14, NoInstanceAssumption DEF Reclaim, Runs, TypeOK, PodsOn
  <2>15. CASE ScaleDown(i)
    BY <2>15, SizeAssumption DEF ScaleDown, Removable, Active, Terminate, Lifecycle, Message, TypeOK, PodsOn
  <2> QED
    BY <1>3, <2>1, <2>2, <2>3, <2>4, <2>5, <2>6, <2>7, <2>8, <2>9, <2>10, <2>11, <2>12, <2>13, <2>14, <2>15 DEF UserData, Group, Disturb
<1>4. ASSUME NEW m \in Message, Handler(m) \/ MessageExpires(m) PROVE TypeOK'
  <2>0. m.of \in Instances
    BY DEF Message
  <2>1. CASE Receive(m)
    BY <2>0, <2>1 DEF Receive, TypeOK, PodsOn
  <2>2. ASSUME NEW p \in Pods, Evict(m, p) PROVE TypeOK'
    BY <2>2, NoInstanceAssumption DEF Evict, TypeOK, PodsOn
  <2>3. CASE Handled(m)
    BY <2>0, <2>3 DEF Handled, Drained, TypeOK, PodsOn
  <2>4. CASE MessageExpires(m)
    BY <2>4 DEF MessageExpires, TypeOK, PodsOn
  <2> QED
    BY <1>4, <2>1, <2>2, <2>3, <2>4 DEF Handler
<1>5. ASSUME NEW p \in Pods, NEW i \in Instances, Schedule(p, i) PROVE TypeOK'
  BY <1>5 DEF Schedule, Schedulable, TypeOK, PodsOn
<1>6. CASE ScaleUp
  BY <1>6, SizeAssumption DEF ScaleUp, Grows, TypeOK, PodsOn
<1>7. CASE HandlerRestarts
  BY <1>7 DEF HandlerRestarts, TypeOK, PodsOn
<1> QED
  BY <1>1, <1>2, <1>3, <1>4, <1>5, <1>6, <1>7
     DEF Next, Handler, Disturbance

(* Types, and that pods run on nodes and nodes on what has booted.         *)
THEOREM TypeCorrect == Spec => []TypeOK
<1>1. Init => TypeOK
  BY NoInstanceAssumption, SizeAssumption DEF Init, TypeOK, PodsOn
<1> QED
  BY <1>1, TypeStep, PTL DEF Spec

-----------------------------------------------------------------------------
(* The inductive invariant: the handler works on nodes it has cordoned, or *)
(* that are gone; and what it has let go is cordoned, or gone, and empty.  *)
(* A node that is gone does not come back: an instance that boots again    *)
(* under the same id waits until no message is left about the old one.     *)

Gone(i) == node[i] = "absent" /\ boot[i] \in {"off", "dead"}

DrainInv ==
    /\ \A m \in handling : node[m.of] = "cordoned" \/ Gone(m.of)
    /\ \A i \in Instances :
         life[i] = "terminating" /\ i \notin unwaited =>
            (node[i] = "cordoned" \/ Gone(i)) /\ PodsOn(i) = {}

Inv == TypeOK /\ DrainInv /\ DrainedBeforeGone

USE DEF DrainInv, DrainedBeforeGone, Gone

LEMMA DrainStep == Inv /\ [Next]_vars => Inv'
<1> SUFFICES ASSUME TypeOK, DrainInv, DrainedBeforeGone, [Next]_vars
             PROVE  DrainInv' /\ DrainedBeforeGone'
  BY TypeStep DEF Inv
<1> DEFINE Goal == DrainInv' /\ DrainedBeforeGone'
<1>1. CASE UNCHANGED vars
  BY <1>1 DEF vars, PodsOn
<1>2. ASSUME NEW hook \in {"launch", "termination"}, CreateLifecycleHook(hook) PROVE Goal
  BY <1>2 DEF CreateLifecycleHook, PodsOn
<1>3. ASSUME NEW i \in Instances, UserData(i) \/ Group(i) \/ ScaleDown(i) \/ Disturb(i)
      PROVE  Goal
  <2>0. \A m \in handling : m \in queue /\ m.of \in Instances
    BY DEF TypeOK, Message
  <2>1. CASE StartKubelet(i)
    BY <2>0, <2>1 DEF StartKubelet, SetUp, TypeOK, PodsOn
  <2>2. CASE LookupAsgFails(i)
    BY <2>0, <2>2 DEF LookupAsgFails, SetUp, TypeOK, PodsOn
  <2>3. CASE SetupFails(i)
    BY <2>0, <2>3 DEF SetupFails, SetUp, TypeOK, PodsOn
  <2>4. CASE Register(i)
    BY <2>0, <2>4 DEF Register, TypeOK, PodsOn
  <2>5. CASE CompleteLf(i)
    BY <2>0, <2>5 DEF CompleteLf, K8sCheck, TypeOK, PodsOn
  <2>6. CASE CompleteLfFails(i)
    BY <2>0, <2>6 DEF CompleteLfFails, K8sCheck, TypeOK, PodsOn
  <2>7. CASE Launch(i)
    BY <2>0, <2>7 DEF Launch, Wanted, TypeOK, PodsOn
  <2>8. CASE LaunchTimesOut(i)
    BY <2>0, <2>8 DEF LaunchTimesOut, Overdue, Abandon, Terminate, Lifecycle, TypeOK, PodsOn
  <2>9. CASE LaunchTimesOutEarly(i)
    BY <2>0, <2>9 DEF LaunchTimesOutEarly, Abandon, Terminate, Lifecycle, TypeOK, PodsOn
  <2>10. CASE Retire(i)
    BY <2>0, <2>10 DEF Retire, Terminate, Lifecycle, TypeOK, PodsOn
  <2>11. CASE TerminationTimesOut(i)
    BY <2>0, <2>11 DEF TerminationTimesOut, TypeOK, PodsOn
  <2>12. CASE Vanish(i)
    BY <2>0, <2>12, NoInstanceAssumption DEF Vanish, TypeOK, PodsOn
  <2>13. CASE Warn(i)
    BY <2>0, <2>13 DEF Warn, TypeOK, PodsOn
  <2>14. CASE Reclaim(i)
    BY <2>0, <2>14, NoInstanceAssumption DEF Reclaim, Runs, TypeOK, PodsOn
  <2>15. CASE ScaleDown(i)
    BY <2>0, <2>15 DEF ScaleDown, Removable, Active, Terminate, Lifecycle, TypeOK, PodsOn
  <2> QED
    BY <1>3, <2>1, <2>2, <2>3, <2>4, <2>5, <2>6, <2>7, <2>8, <2>9, <2>10, <2>11, <2>12, <2>13, <2>14, <2>15 DEF UserData, Group, Disturb
<1>4. ASSUME NEW m \in Message, Handler(m) \/ MessageExpires(m) PROVE Goal
  <2>0. m.of \in Instances
    BY DEF Message
  <2>1. CASE Receive(m)
    BY <2>0, <2>1 DEF Receive, TypeOK, PodsOn
  <2>2. ASSUME NEW p \in Pods, Evict(m, p) PROVE Goal
    BY <2>2, NoInstanceAssumption DEF Evict, TypeOK, PodsOn
  <2>3. CASE Handled(m)
    BY <2>0, <2>3 DEF Handled, Drained, TypeOK, PodsOn
  <2>4. CASE MessageExpires(m)
    BY <2>4 DEF MessageExpires, PodsOn
  <2> QED
    BY <1>4, <2>1, <2>2, <2>3, <2>4 DEF Handler
<1>5. ASSUME NEW p \in Pods, NEW i \in Instances, Schedule(p, i) PROVE Goal
  BY <1>5 DEF Schedule, Schedulable, TypeOK, PodsOn
<1>6. CASE ScaleUp
  BY <1>6 DEF ScaleUp, Grows, PodsOn
<1>7. CASE HandlerRestarts
  BY <1>7 DEF HandlerRestarts, PodsOn
<1> QED
  BY <1>1, <1>2, <1>3, <1>4, <1>5, <1>6, <1>7
     DEF Next, Handler, Disturbance

(* No agent is taken away with its pods, or while more may come, unless    *)
(* the hook on termination timed out or was not there: however many agents *)
(* and pods there are, and however the messages are lost or repeated.      *)
THEOREM AgentsDrained == Spec => []DrainedBeforeGone
<1>1. Init => Inv
  BY NoInstanceAssumption, SizeAssumption DEF Init, Inv, TypeOK, PodsOn
<1>2. Inv => DrainedBeforeGone
  BY DEF Inv
<1> QED
  BY <1>1, <1>2, DrainStep, PTL DEF Spec

-----------------------------------------------------------------------------
(* The group never has more agents than it wants: what a launch adds was   *)
(* missing, and what the autoscaler takes off desired it terminates.       *)

CapacityInv == Cardinality(Active) <= desired

LEMMA ActiveFinite == IsFiniteSet(Active) /\ Cardinality(Active) \in Nat
<1>1. Active \subseteq Instances
  BY DEF Active
<1> QED
  BY <1>1, FiniteAssumption, FS_Subset, FS_CardinalityType

LEMMA ActiveStays ==
    ASSUME TypeOK, CapacityInv, Active' = Active, desired' = desired PROVE CapacityInv'
BY DEF CapacityInv

LEMMA OneGoes ==
    ASSUME NEW i \in Active, Active' = Active \ {i}
    PROVE  Cardinality(Active') = Cardinality(Active) - 1
BY ActiveFinite, FS_RemoveElement

(* Whether the hook holds it or not, an instance the group terminates does *)
(* not count any more.                                                     *)
LEMMA TerminatedGoes ==
    ASSUME TypeOK, NEW i \in Instances, Terminate(i) PROVE Active' = Active \ {i}
BY DEF Terminate, Active, TypeOK

LEMMA CapacityStep == TypeOK /\ CapacityInv /\ [Next]_vars => CapacityInv'
<1> SUFFICES ASSUME TypeOK, CapacityInv, [Next]_vars PROVE CapacityInv'
  OBVIOUS
<1>0. desired \in Int /\ Cardinality(Active) \in Int
  BY ActiveFinite, SizeAssumption DEF TypeOK
<1>1. ASSUME UNCHANGED life, desired' = desired PROVE CapacityInv'
  BY <1>1, ActiveStays DEF Active
<1>2. ASSUME NEW i \in Instances, Terminate(i), desired' = desired PROVE CapacityInv'
  <2>1. Active' \subseteq Active
    BY <1>2, TerminatedGoes
  <2>2. Cardinality(Active') <= Cardinality(Active) /\ Cardinality(Active') \in Nat
    BY <2>1, ActiveFinite, FS_Subset, FS_CardinalityType
  <2> QED
    BY <1>0, <1>2, <2>2 DEF CapacityInv
<1>3. ASSUME NEW i \in Instances, UserData(i) \/ Group(i) \/ ScaleDown(i) \/ Disturb(i)
      PROVE  CapacityInv'
  <2>1. CASE StartKubelet(i) \/ LookupAsgFails(i) \/ SetupFails(i)
    BY <1>1, <2>1 DEF StartKubelet, LookupAsgFails, SetupFails, SetUp
  <2>2. CASE Register(i) \/ CompleteLfFails(i) \/ Warn(i) \/ Reclaim(i)
    BY <1>1, <2>2 DEF Register, CompleteLfFails, Warn, Reclaim
  <2>3. CASE CompleteLf(i)
    <3>1. Active' = Active
      BY <2>3 DEF CompleteLf, Active, TypeOK
    <3> QED
      BY <2>3, <3>1, ActiveStays DEF CompleteLf
  <2>4. CASE Launch(i)
    <3>1. Active' = Active \cup {i} /\ i \notin Active
      BY <2>4 DEF Launch, Wanted, Active, TypeOK
    <3>2. Cardinality(Active') = Cardinality(Active) + 1
      BY <3>1, ActiveFinite, FS_AddElement
    <3> QED
      BY <1>0, <2>4, <3>2 DEF Launch, Wanted, CapacityInv
  <2>5. CASE LaunchTimesOut(i) \/ LaunchTimesOutEarly(i) \/ Retire(i)
    BY <1>2, <2>5 DEF LaunchTimesOut, LaunchTimesOutEarly, Abandon, Retire
  <2>6. CASE TerminationTimesOut(i) \/ Vanish(i)
    <3>1. Active' = Active
      BY <2>6 DEF TerminationTimesOut, Vanish, Active, TypeOK
    <3> QED
      BY <2>6, <3>1, ActiveStays DEF TerminationTimesOut, Vanish
  <2>7. CASE ScaleDown(i)
    <3>1. i \in Active /\ Terminate(i) /\ desired' = desired - 1
      BY <2>7 DEF ScaleDown, Removable
    <3>2. Cardinality(Active') = Cardinality(Active) - 1
      BY <3>1, TerminatedGoes, OneGoes
    <3> QED
      BY <1>0, <3>1, <3>2 DEF CapacityInv
  <2> QED
    BY <1>3, <2>1, <2>2, <2>3, <2>4, <2>5, <2>6, <2>7 DEF UserData, Group, Disturb
<1>4. ASSUME NEW m \in Message, Handler(m) \/ MessageExpires(m) PROVE CapacityInv'
  <2>1. CASE Handled(m)
    <3>1. Active' = Active
      BY <2>1 DEF Handled, Active, TypeOK, Message
    <3> QED
      BY <2>1, <3>1, ActiveStays DEF Handled
  <2>2. CASE ~Handled(m)
    BY <1>1, <1>4, <2>2 DEF Handler, Receive, Evict, MessageExpires
  <2> QED
    BY <2>1, <2>2
<1>5. CASE ScaleUp
  <2>1. Active' = Active /\ desired' = desired + 1
    BY <1>5 DEF ScaleUp, Active
  <2> QED
    BY <1>0, <2>1 DEF CapacityInv
<1>6. CASE UNCHANGED vars
  BY <1>1, <1>6 DEF vars
<1>7. ASSUME NEW hook \in {"launch", "termination"}, CreateLifecycleHook(hook) PROVE CapacityInv'
  BY <1>1, <1>7 DEF CreateLifecycleHook
<1>8. ASSUME NEW p \in Pods, NEW i \in Instances, Schedule(p, i) PROVE CapacityInv'
  BY <1>1, <1>8 DEF Schedule
<1>9. CASE HandlerRestarts
  BY <1>1, <1>9 DEF HandlerRestarts
<1> QED
  BY <1>3, <1>4, <1>5, <1>6, <1>7, <1>8, <1>9 DEF Next, Disturbance

-----------------------------------------------------------------------------
(* At rest with a pod pending, the group is as large as it may be, so that *)
(* whatever is not in use could be removed.                                *)

LEMMA RestIsFull ==
    ASSUME TypeOK, CapacityInv, AtRest, Pending # {}
    PROVE  desired = MaxSize /\ Cardinality(Active) = MaxSize
<1>0. desired \in MinSize .. MaxSize /\ Cardinality(Active) \in Nat /\ Cardinality(Active) <= desired
  BY ActiveFinite DEF TypeOK, CapacityInv
<1>1. Schedulable = {} /\ queue = {} /\ ~Grows
  BY DEF AtRest
<1>2. \A i \in Instances : i \in Active \/ life[i] = "none"
  BY DEF AtRest, TypeOK, Active
<1>3. Cardinality(Active) >= desired
  <2> SUFFICES ASSUME Cardinality(Active) < desired PROVE FALSE
    BY <1>0, SizeAssumption
  <2>1. Active # Instances
    BY <1>0, SizeAssumption, EnoughAssumption
  <2>2. PICK i \in Instances : i \notin Active
    BY <2>1 DEF Active
  <2>3. Wanted(i)
    BY <1>1, <1>2, <2>2 DEF Wanted
  <2> QED
    BY <2>3 DEF AtRest
<1>4. \A i \in Instances : ~Coming(i)
  BY DEF AtRest, Coming, Active, TypeOK
<1>5. ~(desired < MaxSize)
  BY <1>1, <1>3, <1>4 DEF Grows
<1> QED
  BY <1>0, <1>3, <1>5, SizeAssumption

LEMMA RestIsStranded ==
    ASSUME TypeOK, AtRest, Pending # {}, MinSize < desired, NEW i \in Active
    PROVE  i \in Stranded
<1>1. i \in Instances /\ life[i] \in {"pending", "in_service"}
  BY DEF Active
<1>2. node[i] \in {"absent", "cordoned"}
  <2>1. i \notin Schedulable
    BY DEF AtRest
  <2> QED
    BY <1>1, <2>1 DEF Schedulable, TypeOK
<1>3. ~Unneeded(i)
  BY <1>1 DEF AtRest, Removable
<1>4. node[i] = "cordoned" /\ PodsOn(i) # {}
  <2>1. CASE node[i] = "absent"
    <3>1. boot[i] \in {"broken", "dead"} /\ PodsOn(i) = {}
      BY <1>1, <2>1 DEF AtRest, TypeOK
    <3> QED
      BY <1>3, <2>1, <3>1 DEF Unneeded
  <2>2. CASE node[i] = "cordoned"
    BY <1>3, <2>2 DEF Unneeded
  <2> QED
    BY <1>2, <2>1, <2>2
<1>5. boot[i] = "done"
  BY <1>1, <1>4 DEF AtRest, TypeOK
<1>6. life[i] = "in_service"
  BY <1>1, <1>5 DEF AtRest, Overdue
<1> QED
  BY <1>1, <1>4, <1>6 DEF Stranded, AtRest

(* Whatever has happened to a group of any size, somebody has something to *)
(* do as long as a pod is pending and not all agents are stranded, given   *)
(* room above min_size.                                                    *)
THEOREM WorkloadGetsOn == Spec => []GetsOn
<1>1. Init => TypeOK /\ CapacityInv
  <2> SUFFICES ASSUME Init PROVE TypeOK /\ CapacityInv
    OBVIOUS
  <2>1. TypeOK
    BY NoInstanceAssumption, SizeAssumption DEF Init, TypeOK, PodsOn
  <2>2. Active = {} /\ desired = MinSize
    BY DEF Init, Active
  <2> QED
    BY <2>1, <2>2, FS_EmptySet, SizeAssumption DEF CapacityInv
<1>2. TypeOK /\ CapacityInv => GetsOn
  <2> SUFFICES ASSUME TypeOK, CapacityInv, AtRest, MinSize < MaxSize, Pending # {} PROVE NoRoom
    BY DEF GetsOn
  <2>1. desired = MaxSize /\ Cardinality(Active) = MaxSize
    BY RestIsFull
  <2>2. Active \subseteq Stranded
    BY <2>1, RestIsStranded
  <2>3. Stranded \subseteq Active
    BY DEF Stranded, Active
  <2> QED
    BY <2>1, <2>2, <2>3 DEF NoRoom
<1> QED
  BY <1>1, <1>2, TypeStep, CapacityStep, PTL DEF Spec

=============================================================================
