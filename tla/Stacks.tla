-------------------------------- MODULE Stacks --------------------------------
(***************************************************************************)
(* The stacks of a SysEnv over their life: `pulumi up` and `pulumi         *)
(* destroy`, run in any order and as often as it takes, over what the      *)
(* programs of the Thunder modules declare (Programs).  Updates fail half- *)
(* way and destroys do; the next run of either starts from what is left.   *)
(*                                                                         *)
(* The stacks of a SysEnv hold some hundreds of resources, and every       *)
(* property here is about a few of them at a time.  A behaviour therefore  *)
(* follows the resources of one view.  This loses nothing: "WaitsFor" and  *)
(* "Recorded" are transitive, so that the order they impose on the view    *)
(* does not depend on the resources left out, and the engine creates and   *)
(* deletes these in between without anybody noticing.                      *)
(***************************************************************************)
EXTENDS PulumiUp, FiniteSets

CONSTANTS
    Resources,
    Recorded,     \* what the engine knows a resource to depend on: the part of
                  \* WaitsFor that counts when it deletes
    Names,        \* what the cloud must find when a resource is created
    Paths,        \* what calls about a resource pass on their way
    Reads,        \* what the instances of a group read when they boot
    Races,        \* of Rivals, Names, Paths and Reads: what no program orders
    Cuts,         \* of Paths: what is ordered when creating but not when deleting
    Views

Relation == [Resources -> SUBSET Resources]

Transitive(R) == \A r \in Resources : \A d \in R[r] : R[d] \subseteq R[r]

(* Programs are finite, and what a resource is made from is declared before it. *)
ASSUME ProgramsAssumption ==
    /\ IsFiniteSet(Resources)
    /\ \A r \in Resources : r \notin WaitsFor[r]
    /\ {WaitsFor, Recorded, Names, Paths, Reads, Rivals, Races, Cuts} \subseteq Relation
    /\ Transitive(WaitsFor) /\ Transitive(Recorded)
    /\ \A r \in Resources : Recorded[r] \subseteq WaitsFor[r]
    /\ \A r, c \in Resources : c \in Rivals[r] <=> r \in Rivals[c]

ASSUME ViewsAssumption == Views \subseteq (SUBSET Resources) \ {{}}

VARIABLES
    deleting,     \* the resources whose deletion holds others up
    view          \* the resources this behaviour follows

vars == <<declared, exists, creating, up, deleting, view>>

Init ==
    /\ view \in Views
    /\ declared = view
    /\ InitEngine
    /\ deleting = {}

-----------------------------------------------------------------------------
(* pulumi up *)

Absent(rs) == (rs \cap view) \ exists

Missing(r) == Absent(Names[r] \cup Paths[r])

(* The cloud does not find what the creation names, or nobody answers.     *)
CreateMisses(r) ==
    /\ Missing(r) # {}
    /\ up' = "refused"
    /\ UNCHANGED <<exists, creating>>

Creation ==
    /\ \E r \in Ready : Missing(r) = {} /\ (CreateAtOnce(r) \/ Create(r))
    /\ UNCHANGED <<declared, deleting, view>>

Update ==
    \/ Creation
    \/ /\ StartUp \/ UpEnds
          \/ (\E r \in Ready : CreateRefused(r) \/ CreateMisses(r))
          \/ (\E r \in creating : Created(r))
       /\ deleting = {}
       /\ UNCHANGED <<declared, deleting, view>>

UpdateFails == Failure /\ UNCHANGED <<declared, deleting, view>>

-----------------------------------------------------------------------------
(* pulumi destroy *)

StartDestroy ==
    /\ up = "idle" /\ declared = {} /\ exists # {}
    /\ up' = "destroying"
    /\ UNCHANGED <<exists, deleting>>

Deletable ==
    {r \in exists \ deleting : up = "destroying" /\ \A d \in exists : r \notin Recorded[d]}

HeldUp(r) == \E c \in deleting : c \in Rivals[r]

DeleteAtOnce(r) ==
    /\ Rivals[r] = {}
    /\ exists' = exists \ {r}
    /\ UNCHANGED <<deleting, up>>

Delete(r) ==
    /\ Rivals[r] # {} /\ ~HeldUp(r)
    /\ deleting' = deleting \cup {r}
    /\ UNCHANGED <<exists, up>>

DeleteRefused(r) ==
    /\ HeldUp(r) \/ Absent(Paths[r]) # {}
    /\ up' = "refused"
    /\ UNCHANGED <<exists, deleting>>

Deleted(r) ==
    /\ deleting' = deleting \ {r}
    /\ exists' = exists \ {r}
    /\ UNCHANGED up

DestroyEnds ==
    /\ deleting = {}
    /\ up = "destroying" /\ exists = {}
    /\ up' = "idle"
    /\ UNCHANGED <<exists, deleting>>

Deletion ==
    /\ \E r \in Deletable : Absent(Paths[r]) = {} /\ (DeleteAtOnce(r) \/ Delete(r))
    /\ UNCHANGED <<declared, creating, view>>

Destroy ==
    \/ Deletion
    \/ /\ StartDestroy \/ DestroyEnds
          \/ (\E r \in Deletable : DeleteRefused(r))
          \/ (\E r \in deleting : Deleted(r))
       /\ UNCHANGED <<declared, creating, view>>

DestroyFails ==
    /\ \/ Deletable # {} /\ UNCHANGED deleting
       \/ \E r \in deleting : deleting' = deleting \ {r}
    /\ up' = "failing"
    /\ UNCHANGED <<declared, exists, creating, view>>

-----------------------------------------------------------------------------

(* Between two runs the operator may turn from up to destroy and back; the *)
(* stack is locked while one of them works.                                *)
(* Mutant: it is not.                                                      *)
TurnTo_AnyTime(goal) ==
    /\ declared # goal
    /\ declared' = goal
    /\ UNCHANGED <<exists, creating, up, deleting, view>>

TurnTo(goal) ==
    /\ up = "idle" /\ declared # goal
    /\ declared' = goal
    /\ UNCHANGED <<exists, creating, up, deleting, view>>

Next ==
    \/ Update \/ UpdateFails
    \/ Destroy \/ DestroyFails
    \/ TurnTo({}) \/ TurnTo(view)

Spec == Init /\ [][Next]_vars

(* A run works until it ends, and the next one is started as long as there *)
(* is something to do.  Each run starts whatever is ready, so that it      *)
(* cannot for ever be the same refused resource that ends it first.        *)
FairSpec ==
    Spec /\ WF_vars(Update) /\ WF_vars(Destroy) /\ SF_vars(Creation) /\ SF_vars(Deletion)

-----------------------------------------------------------------------------

(* Type invariant; nothing is created and deleted at the same time.        *)
TypeOK ==
    /\ view \in Views /\ declared \in {view, {}}
    /\ exists \subseteq view
    /\ creating \subseteq declared \ exists
    /\ deleting \subseteq exists
    /\ up \in {"idle", "running", "destroying", "refused", "failing"}
    /\ up = "idle" => creating = {} /\ deleting = {}
    /\ up = "running" => deleting = {}
    /\ up = "destroying" => creating = {} /\ declared = {}
    /\ declared # {} => deleting = {}

(* Settings and grants that the cloud refuses to change at the same time   *)
(* (rds_postgres.py:324, azure network.py:181, s3.py:57) wait for each     *)
(* other, in every update and in every destroy, whatever failed before.    *)
RivalsApart ==
    \A r \in Ready \cup Deletable :
        (creating \cup deleting) \cap Rivals[r] \subseteq Races[r]

(* What the cloud or a server must find when a resource is created, and no *)
(* output the resource is given brings with it, is there when the engine   *)
(* gets to the resource, save for the pairs of Races: the vault of a       *)
(* secret, which has a configured name (keyvault.py:95); the complete      *)
(* share for an attachment of another account (transitgateway.py:387); the *)
(* account of a token (monitoring_roles.py:296); for an object of a        *)
(* cluster the endpoint and the controllers (personalizers/__init__.py:51);*)
(* for a database the server it is on (rds_postgres.py:213).               *)
NamesResolve == \A r \in Ready : Missing(r) \subseteq Races[r]

(* Whenever a group launches an instance, and it does so as soon as it     *)
(* exists, the instance finds what its user data reads: nothing tells it   *)
(* to try again (k8s_controllers/user_data.sh.j2:54).                      *)
BootsComplete == \A g \in exists : Absent(Reads[g]) \subseteq Races[g]

(* As long as something exists that only a server in the network can       *)
(* delete, that server exists: the controllers for the objects of their    *)
(* cluster (personalizers/__init__.py:54, azure k8s_controllers.py:170),   *)
(* the instance for the statements about its databases                     *)
(* (rds_postgres.py:213).  What is on the way to the server may be cut     *)
(* (Races, Cuts): a load balancer, the name of an endpoint, an ingress     *)
(* rule.                                                                   *)
PathsKept == \A r \in exists : Absent(Paths[r]) \subseteq Races[r] \cup Cuts[r]

(* A run never waits for itself: whatever earlier runs have left, it has   *)
(* something under way, or there is a resource whose creation finds all it *)
(* needs, or whose deletion gets through unless a known way is cut.  A     *)
(* known race is no excuse for an update: what comes too early must not be *)
(* what the other one waits for (vmss.py:125, gateway.py:190).             *)
GetsOn ==
    /\ up = "running" /\ ~(declared \subseteq exists) =>
         creating # {} \/ \E r \in Ready : Missing(r) = {}
    /\ up = "destroying" /\ exists # {} =>
         deleting # {} \/ \E r \in Deletable : Absent(Paths[r]) \subseteq Races[r] \cup Cuts[r]

(* Once the operator stays with `up` and creations stop failing by         *)
(* themselves, everything gets created, also over what a broken update or  *)
(* a broken destroy has left: nothing waits for what needs itself.         *)
ComesUp ==
    <>[](declared = view) /\ <>[][~UpdateFails]_vars => <>[](view \subseteq exists)

(* And `destroy` gets everything deleted, as long as no path is cut in a   *)
(* way that is known (Races, Cuts).                                        *)
Severed == \E r \in view : Paths[r] \cap (Races[r] \cup Cuts[r]) \cap view # {}

TearsDown ==
    ~Severed /\ <>[](declared = {}) /\ <>[][~DestroyFails]_vars => <>[](exists = {})

=============================================================================
