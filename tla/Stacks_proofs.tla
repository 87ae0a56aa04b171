----------------------------- MODULE Stacks_proofs -----------------------------
(***************************************************************************)
(* What Stacks promises for any programs and any view of them: whatever is *)
(* ordered by the programs stays ordered over any sequence of updates and  *)
(* destroys, whatever fails in between.                                    *)
(***************************************************************************)
EXTENDS Stacks, FiniteSetTheorems, WellFoundedInduction, TLAPS

LEMMA TypeStep == TypeOK /\ [Next]_vars => TypeOK'
<1> SUFFICES ASSUME TypeOK, [Next]_vars PROVE TypeOK'
  OBVIOUS
<1>1. CASE UNCHANGED vars
  BY <1>1 DEF vars, TypeOK
<1>2. CASE Creation
  <2>1. PICK r \in Ready : CreateAtOnce(r) \/ Create(r)
    BY <1>2 DEF Creation
  <2>2. r \in declared \ (exists \cup creating) /\ up = "running"
    BY <2>1 DEF Ready
  <2>3. CASE CreateAtOnce(r)
    BY <1>2, <2>2, <2>3 DEF Creation, CreateAtOnce, TypeOK
  <2>4. CASE Create(r)
    BY <1>2, <2>2, <2>4 DEF Creation, Create, TypeOK
  <2> QED
    BY <2>1, <2>3, <2>4
<1>3. CASE Update /\ ~Creation
  <2>1. deleting = {} /\ UNCHANGED <<declared, deleting, view>>
    BY <1>3 DEF Update
  <2>2. CASE StartUp
    BY <2>1, <2>2 DEF StartUp, TypeOK
  <2>3. CASE UpEnds
    BY <2>1, <2>3 DEF UpEnds, TypeOK
  <2>4. ASSUME NEW r \in Ready, CreateRefused(r) \/ CreateMisses(r) PROVE TypeOK'
    BY <2>1, <2>4 DEF CreateRefused, CreateMisses, TypeOK
  <2>5. ASSUME NEW r \in creating, Created(r) PROVE TypeOK'
    BY <2>1, <2>5 DEF Created, TypeOK
  <2> QED
    BY <1>3, <2>2, <2>3, <2>4, <2>5 DEF Update
<1>4. CASE UpdateFails
  <2>1. CASE CreateFailsAtOnce
    BY <1>4, <2>1 DEF UpdateFails, CreateFailsAtOnce, TypeOK
  <2>2. ASSUME NEW r \in creating, CreateFails(r) PROVE TypeOK'
    BY <1>4, <2>2 DEF UpdateFails, CreateFails, TypeOK
  <2> QED
    BY <1>4, <2>1, <2>2 DEF UpdateFails, Failure
<1>5. CASE Deletion
  <2>1. PICK r \in Deletable : DeleteAtOnce(r) \/ Delete(r)
    BY <1>5 DEF Deletion
  <2>2. r \in exists \ deleting /\ up = "destroying"
    BY <2>1 DEF Deletable
  <2>3. CASE DeleteAtOnce(r)
    BY <1>5, <2>2, <2>3 DEF Deletion, DeleteAtOnce, TypeOK
  <2>4. CASE Delete(r)
    BY <1>5, <2>2, <2>4 DEF Deletion, Delete, TypeOK
  <2> QED
    BY <2>1, <2>3, <2>4
<1>6. CASE Destroy /\ ~Deletion
  <2>1. UNCHANGED <<declared, creating, view>>
    BY <1>6 DEF Destroy
  <2>2. CASE StartDestroy
    BY <2>1, <2>2 DEF StartDestroy, TypeOK
  <2>3. CASE DestroyEnds
    BY <2>1, <2>3 DEF DestroyEnds, TypeOK
  <2>4. ASSUME NEW r \in Deletable, DeleteRefused(r) PROVE TypeOK'
    BY <2>1, <2>4 DEF DeleteRefused, TypeOK
  <2>5. ASSUME NEW r \in deleting, Deleted(r) PROVE TypeOK'
    BY <2>1, <2>5 DEF Deleted, TypeOK
  <2> QED
    BY <1>6, <2>2, <2>3, <2>4, <2>5 DEF Destroy
<1>7. CASE DestroyFails
  BY <1>7 DEF DestroyFails, Deletable, TypeOK
<1>8. ASSUME NEW goal \in {{}, view}, TurnTo(goal) PROVE TypeOK'
  BY <1>8 DEF TurnTo, TypeOK
<1> QED
  BY <1>1, <1>2, <1>3, <1>4, <1>5, <1>6, <1>7, <1>8 DEF Next, Update, Destroy

(* Types, and that updates and destroys never overlap: nothing is being    *)
(* created while something is deleted, for any programs.                   *)
THEOREM TypeCorrect == Spec => []TypeOK
<1>1. Init => TypeOK
  BY DEF Init, InitEngine, TypeOK
<1> QED
  BY <1>1, TypeStep, PTL DEF Spec

-----------------------------------------------------------------------------
(* The inductive invariant: what the engine knows a resource to depend on  *)
(* is there from before its creation until after its deletion.             *)

OrderInv ==
    /\ \A r \in exists \cup creating : Recorded[r] \cap view \subseteq exists
    /\ \A r \in deleting : \A d \in exists : r \notin Recorded[d]

Inv == TypeOK /\ OrderInv

(* What is ready finds all that it waits for, and nothing is being deleted. *)
LEMMA ReadyOrdered ==
    ASSUME TypeOK, NEW r \in Ready
    PROVE  /\ r \in view \ (exists \cup creating) /\ deleting = {}
           /\ WaitsFor[r] \cap view \subseteq exists
           /\ Recorded[r] \subseteq WaitsFor[r]
<1>1. r \in declared \ (exists \cup creating) /\ up = "running"
  BY DEF Ready
<1>2. declared = view /\ view \subseteq Resources
  BY <1>1, ViewsAssumption DEF TypeOK
<1>3. WaitsFor[r] \cap view \subseteq exists
  BY <1>2 DEF Ready
<1>4. Recorded[r] \subseteq WaitsFor[r]
  BY <1>1, <1>2, ProgramsAssumption
<1> QED
  BY <1>1, <1>2, <1>3, <1>4 DEF TypeOK

LEMMA OrderStep == Inv /\ [Next]_vars => OrderInv'
<1> SUFFICES ASSUME TypeOK, OrderInv, [Next]_vars PROVE OrderInv'
  BY DEF Inv
<1>1. CASE UNCHANGED vars
  BY <1>1 DEF vars, OrderInv
<1>2. CASE Creation
  <2>1. PICK r \in Ready : CreateAtOnce(r) \/ Create(r)
    BY <1>2 DEF Creation
  <2>2. Recorded[r] \cap view \subseteq exists /\ deleting = {}
    BY ReadyOrdered
  <2>3. exists \subseteq exists' /\ exists' \cup creating' = exists \cup creating \cup {r}
    BY <2>1 DEF CreateAtOnce, Create
  <2> QED
    BY <1>2, <2>2, <2>3 DEF Creation, OrderInv
<1>3. CASE Update /\ ~Creation
  <2>1. deleting = {} /\ deleting' = deleting /\ view' = view
    BY <1>3 DEF Update
  <2>2. exists \subseteq exists' /\ exists' \cup creating' \subseteq exists \cup creating
    BY <1>3 DEF Update, StartUp, UpEnds, CreateRefused, CreateMisses, Created
  <2> QED
    BY <2>1, <2>2 DEF OrderInv
<1>4. CASE UpdateFails
  BY <1>4 DEF UpdateFails, Failure, CreateFailsAtOnce, CreateFails, OrderInv
<1>5. CASE Deletion
  <2>1. PICK r \in Deletable : DeleteAtOnce(r) \/ Delete(r)
    BY <1>5 DEF Deletion
  <2>2. creating = {} /\ \A d \in exists : r \notin Recorded[d]
    BY DEF Deletable, TypeOK
  <2>3. /\ exists \ {r} \subseteq exists' /\ exists' \subseteq exists
        /\ deleting' \subseteq deleting \cup {r}
    BY <2>1 DEF DeleteAtOnce, Delete
  <2> QED
    BY <1>5, <2>2, <2>3 DEF Deletion, OrderInv
<1>6. CASE Destroy /\ ~Deletion
  <2>1. UNCHANGED <<creating, view>>
    BY <1>6 DEF Destroy
  <2>2. CASE UNCHANGED <<exists, deleting>>
    BY <2>1, <2>2 DEF OrderInv
  <2>3. ASSUME NEW r \in deleting, Deleted(r) PROVE OrderInv'
    <3>1. creating = {}
      BY DEF TypeOK
    <3> QED
      BY <2>1, <2>3, <3>1 DEF Deleted, OrderInv
  <2> QED
    BY <1>6, <2>2, <2>3 DEF Destroy, StartDestroy, DestroyEnds, DeleteRefused
<1>7. CASE DestroyFails
  BY <1>7 DEF DestroyFails, OrderInv
<1>8. ASSUME NEW goal \in {{}, view}, TurnTo(goal) PROVE OrderInv'
  BY <1>8 DEF TurnTo, OrderInv
<1> QED
  BY <1>1, <1>2, <1>3, <1>4, <1>5, <1>6, <1>7, <1>8 DEF Next, Update, Destroy

(* The order that the engine knows of is kept over any sequence of updates *)
(* and destroys, whatever fails in between.                                *)
LEMMA OrderKept == Spec => []Inv
<1>1. Init => Inv
  BY DEF Init, InitEngine, TypeOK, OrderInv, Inv
<1>2. Inv /\ [Next]_vars => Inv'
  BY TypeStep, OrderStep DEF Inv
<1> QED
  BY <1>1, <1>2, PTL DEF Spec

-----------------------------------------------------------------------------
(* Why a run gets on: what resources wait for is finite and without cycles. *)

(* A finite transitive relation in which nothing is related to itself has  *)
(* a least element in any set: one with the fewest relatives.              *)
LEMMA LeastExists ==
    ASSUME NEW R \in Relation, Transitive(R), \A r \in Resources : r \notin R[r],
           NEW rs \in SUBSET Resources, rs # {}
    PROVE  \E r \in rs : R[r] \cap rs = {}
<1> DEFINE Relatives(r) == R[r] \cap rs
           Counts == {n \in Nat : \E r \in rs : n = Cardinality(Relatives(r))}
<1>1. ASSUME NEW r \in rs
      PROVE  IsFiniteSet(Relatives(r)) /\ Cardinality(Relatives(r)) \in Nat
  <2>1. Relatives(r) \in SUBSET Resources
    OBVIOUS
  <2> QED
    BY <2>1, ProgramsAssumption, FS_Subset, FS_CardinalityType
<1>2. Counts \subseteq Nat /\ Counts # {}
  BY <1>1
<1>3. PICK n \in Counts : \A m \in Counts : ~(<<m, n>> \in OpToRel(<, Nat))
  BY <1>2, NatLessThanWellFounded, WFMin
<1>4. PICK r \in rs : n = Cardinality(Relatives(r))
  OBVIOUS
<1>5. ASSUME NEW d \in Relatives(r) PROVE FALSE
  <2>1. d \in rs /\ d \notin R[d] /\ R[d] \subseteq R[r]
    BY DEF Transitive
  <2>2. Relatives(d) \in SUBSET Relatives(r) /\ Relatives(d) # Relatives(r)
    BY <2>1
  <2>3. Cardinality(Relatives(d)) <= n /\ Cardinality(Relatives(d)) # n
    BY <1>1, <1>4, <2>2, FS_Subset
  <2>4. Cardinality(Relatives(d)) \in Counts
    BY <1>1, <2>1
  <2>5. <<Cardinality(Relatives(d)), n>> \in OpToRel(<, Nat)
    <3> DEFINE m == Cardinality(Relatives(d))
    <3>1. m \in Nat /\ n \in Nat /\ m < n
      BY <1>1, <2>1, <2>3
    <3> QED
      BY <3>1 DEF OpToRel
  <2> QED
    BY <1>3, <2>4, <2>5
<1> QED
  BY <1>4, <1>5

(* And a greatest one.                                                     *)
LEMMA GreatestExists ==
    ASSUME NEW R \in Relation, Transitive(R), \A r \in Resources : r \notin R[r],
           NEW rs \in SUBSET Resources, rs # {}
    PROVE  \E r \in rs : \A d \in rs : r \notin R[d]
<1> DEFINE Opposite == [r \in Resources |-> {d \in Resources : r \in R[d]}]
<1>1. Opposite \in Relation /\ \A r \in Resources : r \notin Opposite[r]
  BY DEF Relation
<1>2. Transitive(Opposite)
  <2> SUFFICES ASSUME NEW r \in Resources, NEW d \in Opposite[r], NEW e \in Opposite[d]
               PROVE  e \in Opposite[r]
    BY DEF Transitive
  <2>1. d \in Resources /\ r \in R[d] /\ e \in Resources /\ d \in R[e]
    OBVIOUS
  <2>2. r \in R[e]
    BY <2>1 DEF Transitive
  <2> QED
    BY <2>1, <2>2
<1> HIDE DEF Opposite
<1>3. PICK r \in rs : Opposite[r] \cap rs = {}
  BY <1>1, <1>2, LeastExists
<1> QED
  BY <1>3 DEF Opposite

LEMMA DestroyGetsOn ==
    ASSUME TypeOK, up = "destroying", exists # {}, deleting = {}
    PROVE  Deletable # {}
<1>1. exists \subseteq Resources
  BY ViewsAssumption DEF TypeOK
<1>2. Recorded \in Relation /\ Transitive(Recorded) /\ \A r \in Resources : r \notin Recorded[r]
  BY ProgramsAssumption
<1>3. PICK r \in exists : \A d \in exists : r \notin Recorded[d]
  BY <1>1, <1>2, GreatestExists
<1> QED
  BY <1>3 DEF Deletable

-----------------------------------------------------------------------------
(* What a program has to say, so that each property holds of it whatever   *)
(* the order of updates, destroys and failures.                            *)

(* Passing an output or a depends_on keeps the way to a server open: all   *)
(* paths of a resource that are not known to be cut are recorded.          *)
PathsRecorded == \A r \in Resources : Paths[r] \ (Races[r] \cup Cuts[r]) \subseteq Recorded[r]

(* What instances read at boot, and no race is about, is recorded.         *)
ReadsRecorded == \A g \in Resources : Reads[g] \ Races[g] \subseteq Recorded[g]

(* What is only named is waited for all the same.                          *)
NamesAwaited == \A r \in Resources : (Names[r] \cup Paths[r]) \ Races[r] \subseteq WaitsFor[r]

(* Of two rivals one is recorded to depend on the other: they form a chain. *)
RivalsChained ==
    \A r \in Resources : \A c \in Rivals[r] \ Races[r] : c \in Recorded[r] \/ r \in Recorded[c]

(* What is waited for, named or passed leads nowhere in a circle.          *)
Orderly ==
    \E R \in Relation :
        /\ Transitive(R) /\ \A r \in Resources : r \notin R[r]
        /\ \A r \in Resources : WaitsFor[r] \cup Names[r] \cup Paths[r] \subseteq R[r]

(* The first missing resource of such an order is ready and finds all it   *)
(* needs.                                                                  *)
LEMMA UpdateGetsOn ==
    ASSUME Orderly, TypeOK, up = "running", ~(declared \subseteq exists), creating = {}
    PROVE  \E r \in Ready : Missing(r) = {}
<1>1. declared = view /\ view \subseteq Resources
  BY ViewsAssumption DEF TypeOK
<1>2. PICK R \in Relation :
        /\ Transitive(R) /\ \A r \in Resources : r \notin R[r]
        /\ \A r \in Resources : WaitsFor[r] \cup Names[r] \cup Paths[r] \subseteq R[r]
  BY DEF Orderly
<1>3. PICK r \in view \ exists : R[r] \cap (view \ exists) = {}
  BY <1>1, <1>2, LeastExists
<1>4. r \in Resources /\ WaitsFor[r] \cup Names[r] \cup Paths[r] \subseteq R[r]
  BY <1>1, <1>2
<1>5. r \in Ready
  BY <1>1, <1>3, <1>4 DEF Ready
<1>6. Missing(r) = {}
  BY <1>3, <1>4 DEF Missing, Absent
<1> QED
  BY <1>5, <1>6

LEMMA NamesHold ==
    ASSUME NamesAwaited, TypeOK, NEW r \in Ready
    PROVE  Missing(r) \subseteq Races[r]
<1>1. r \in Resources /\ WaitsFor[r] \cap view \subseteq exists
  BY ReadyOrdered, ViewsAssumption DEF TypeOK
<1> QED
  BY <1>1 DEF NamesAwaited, Missing, Absent

LEMMA PathsHold ==
    ASSUME PathsRecorded, Inv, NEW r \in exists
    PROVE  Absent(Paths[r]) \subseteq Races[r] \cup Cuts[r]
<1>1. r \in Resources /\ Recorded[r] \cap view \subseteq exists
  BY ViewsAssumption DEF Inv, TypeOK, OrderInv
<1> QED
  BY <1>1 DEF PathsRecorded, Absent

(* Programs that chain what the cloud does not change at once are never    *)
(* refused for it, neither by updates nor by destroys.                     *)
THEOREM ChainsKeepApart ==
    ASSUME RivalsChained PROVE Spec => []RivalsApart
<1>1. ASSUME Inv, NEW r \in Ready \cup Deletable, NEW c \in (creating \cup deleting) \cap Rivals[r]
      PROVE  c \in Races[r]
  <2>1. r \in Resources /\ c \in Resources /\ r \in view /\ c \in view
    BY <1>1, ViewsAssumption DEF Inv, TypeOK, Ready, Deletable
  <2> SUFFICES ASSUME c \notin Races[r] PROVE FALSE
    OBVIOUS
  <2>2. c \in Recorded[r] \/ r \in Recorded[c]
    BY <1>1, <2>1 DEF RivalsChained
  <2>3. CASE r \in Ready
    <3>1. c \in creating /\ r \notin exists /\ c \notin exists
      BY <1>1, <2>3, ReadyOrdered DEF Inv, TypeOK
    <3>2. c \notin Recorded[r]
      BY <1>1, <2>1, <2>3, <3>1, ReadyOrdered DEF Inv
    <3>3. r \notin Recorded[c]
      BY <1>1, <2>1, <3>1 DEF Inv, OrderInv
    <3> QED
      BY <2>2, <3>2, <3>3
  <2>4. CASE r \in Deletable
    <3>1. c \in deleting /\ c \in exists /\ r \in exists
      BY <1>1, <2>4 DEF Deletable, Inv, TypeOK
    <3>2. c \notin Recorded[r]
      BY <1>1, <3>1 DEF Inv, OrderInv
    <3>3. r \notin Recorded[c]
      BY <2>4, <3>1 DEF Deletable
    <3> QED
      BY <2>2, <3>2, <3>3
  <2> QED
    BY <1>1, <2>3, <2>4
<1>2. Inv => RivalsApart
  BY <1>1 DEF RivalsApart
<1> QED
  BY <1>2, OrderKept, PTL

(* Where a program waits for what it names, nothing is created too early.  *)
THEOREM AwaitedNamesResolve ==
    ASSUME NamesAwaited PROVE Spec => []NamesResolve
<1>1. TypeOK => NamesResolve
  BY NamesHold DEF NamesResolve
<1> QED
  BY <1>1, TypeCorrect, PTL

(* Where a group depends on what its instances read, each instance finds   *)
(* it, also those that the group launches while a destroy is under way.    *)
THEOREM RecordedReadsComplete ==
    ASSUME ReadsRecorded PROVE Spec => []BootsComplete
<1>1. ASSUME Inv, NEW g \in exists PROVE Absent(Reads[g]) \subseteq Races[g]
  <2>1. g \in Resources /\ Recorded[g] \cap view \subseteq exists
    BY <1>1, ViewsAssumption DEF Inv, TypeOK, OrderInv
  <2> QED
    BY <2>1 DEF ReadsRecorded, Absent
<1>2. Inv => BootsComplete
  BY <1>1 DEF BootsComplete
<1> QED
  BY <1>2, OrderKept, PTL

(* Where a resource depends on the server that manages it, that server is  *)
(* not deleted first.                                                      *)
THEOREM RecordedPathsKept ==
    ASSUME PathsRecorded PROVE Spec => []PathsKept
<1>1. Inv => PathsKept
  BY PathsHold DEF PathsKept
<1> QED
  BY <1>1, OrderKept, PTL

(* Programs in which nothing is named or passed in a circle never leave an *)
(* update without a creation that finds all it needs, whichever order they *)
(* fail to say; and where the servers are recorded, a destroy always has a *)
(* deletion that gets through, as far as no known way is cut.              *)
THEOREM NeverStuck ==
    ASSUME Orderly, PathsRecorded PROVE Spec => []GetsOn
<1>1. ASSUME Inv, NEW r \in Deletable PROVE r \in exists
  BY DEF Deletable
<1>2. Inv => GetsOn
  BY <1>1, PathsHold, UpdateGetsOn, DestroyGetsOn DEF Inv, GetsOn
<1> QED
  BY <1>2, OrderKept, PTL

=============================================================================
