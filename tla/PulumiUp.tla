------------------------------ MODULE PulumiUp ------------------------------
(***************************************************************************)
(* `pulumi up`, as far as the Thunder modules rely on it: the engine walks *)
(* the resources a program declares, creates the missing ones as soon as   *)
(* what they depend on exists, any number at a time, and stops starting    *)
(* new ones when a creation fails.  The operator runs it again as long as  *)
(* something is missing.                                                   *)
(*                                                                         *)
(* A module of Thunder is a program for this engine: it decides which      *)
(* resources there are, and through depends_on, parent and the outputs it  *)
(* passes along which of them wait for which.  The modules that            *)
(* instantiate or extend this one define exactly that.                     *)
(*                                                                         *)
(* The cloud refuses to work on some pairs of resources at once (two       *)
(* entries of one managed prefix list, two subnets of one network); the    *)
(* workarounds for it are what the programs are checked for.  Only the     *)
(* creation of such a resource takes time here: nothing can tell whether   *)
(* any other one is under way or done.  Here programs only grow; Stacks    *)
(* adds `pulumi destroy`.                                                  *)
(***************************************************************************)
CONSTANTS
    WaitsFor,     \* for every resource, the resources it depends on, transitively
    Rivals        \* and those the cloud does not create at the same time

VARIABLES
    declared,     \* the resources the program declares
    exists,       \* the resources that have been created
    creating,     \* the resources whose creation holds others up
    up            \* idle, running, or refused or failing once a creation has failed,
                  \* because of another one or by itself

InitEngine == exists = {} /\ creating = {} /\ up = "idle"

(* The operator runs `pulumi up` while something is missing. *)
StartUp ==
    /\ up = "idle" /\ ~(declared \subseteq exists)
    /\ up' = "running"
    /\ UNCHANGED <<exists, creating>>

Ready ==
    {r \in declared \ (exists \cup creating) :
       up = "running" /\ \A d \in WaitsFor[r] \ exists : d \notin declared}

Busy(r) == \E c \in creating : c \in Rivals[r]

(* A resource that is ready is created, or its creation is started. *)
CreateAtOnce(r) ==
    /\ Rivals[r] = {}
    /\ exists' = exists \cup {r}
    /\ UNCHANGED <<creating, up>>

Create(r) ==
    /\ Rivals[r] # {} /\ ~Busy(r)
    /\ creating' = creating \cup {r}
    /\ UNCHANGED <<exists, up>>

(* IncorrectState, AnotherOperationInProgress: the creation fails at once. *)
CreateRefused(r) ==
    /\ Busy(r)
    /\ up' = "refused"
    /\ UNCHANGED <<exists, creating>>

Created(r) ==
    /\ creating' = creating \ {r}
    /\ exists' = exists \cup {r}
    /\ UNCHANGED up

(* A creation fails for a reason of its own: at once, or while it holds    *)
(* others up.                                                              *)
CreateFailsAtOnce ==
    /\ Ready # {}
    /\ up' = "failing"
    /\ UNCHANGED <<exists, creating>>

CreateFails(r) ==
    /\ creating' = creating \ {r}
    /\ up' = "failing"
    /\ UNCHANGED exists

(* What is in flight is waited for, whether the update fails or not. *)
UpEnds ==
    /\ creating = {}
    /\ up \in {"refused", "failing"} \/ (up = "running" /\ declared \subseteq exists)
    /\ up' = "idle"
    /\ UNCHANGED <<exists, creating>>

Progress ==
    \/ StartUp
    \/ \E r \in Ready : CreateAtOnce(r) \/ Create(r) \/ CreateRefused(r)
    \/ \E r \in creating : Created(r)
    \/ UpEnds

Failure == CreateFailsAtOnce \/ \E r \in creating : CreateFails(r)

=============================================================================
