---------------------------- MODULE TransitGateway ----------------------------
(***************************************************************************)
(* infra_thunder/modules/aws/transitgateway/transitgateway.py: the program *)
(* that connects the VPCs of several SysEnvs (the spokes) to a transit     *)
(* gateway in this one (the hub), run by the engine of PulumiUp.           *)
(*                                                                         *)
(* Providers are left out: they exist in the program only, and what has    *)
(* one for a parent waits for the gateway.                                 *)
(***************************************************************************)
EXTENDS Naturals, FiniteSets, Sequences

CONSTANTS
    Connections,  \* config.connections: the spokes, in the order they are listed
    Hub,          \* the SysEnv the gateway is in
    RouteTables,  \* the route tables in the VPC of every SysEnv
    InitialConfigs \* the allowed_sysenvs explored to start with

Spokes == {Connections[k] : k \in DOMAIN Connections}
SysEnvs == Spokes \cup {Hub}

ASSUME ConnectionsAssumption ==
    /\ Connections \in Seq(Spokes)
    /\ \A j, k \in DOMAIN Connections : Connections[j] = Connections[k] => j = k
ASSUME HubAssumption == Hub \notin Spokes
ASSUME RouteTablesAssumption == RouteTables \in [SysEnvs -> SUBSET Nat]
ASSUME ConfigsAssumption == InitialConfigs \subseteq [Spokes -> SUBSET Spokes]

VARIABLES
    allowed,      \* allowed_sysenvs of every connection, as configured now
    declared,     \* the resources build() declares for that configuration
    exists, creating, up

vars == <<allowed, declared, exists, creating, up>>

-----------------------------------------------------------------------------
(* The resources *)

(* What makes the name of a resource: its kind, the SysEnv whose account   *)
(* it is in, a route table (0: none) and a destination.                    *)
Resource(kind, s, t, dest) == [kind |-> kind, of |-> s, table |-> t, dest |-> dest]

Tgw == Resource("tgw", Hub, 0, Hub)
Share == Resource("share", Hub, 0, Hub)
ResourceAssociation == Resource("resource association", Hub, 0, Hub)
PrincipalAssociation == Resource("principal association", Hub, 0, Hub)
Attachment(s) == Resource("attachment", s, 0, s)
TgwRoute(s) == Resource("tgw route", Hub, 0, s)
Route(s, t, dest) == Resource("route", s, t, dest)
PrefixListEntry(s, peer) == Resource("entry", s, 0, peer)

(* The resources of the configuration in which every spoke is allowed to   *)
(* peer with every other.                                                  *)
Declarable ==
    {Tgw, Share, ResourceAssociation, PrincipalAssociation}
    \cup {Attachment(s) : s \in SysEnvs} \cup {TgwRoute(s) : s \in Spokes}
    \cup UNION {{Route(s, t, p) : t \in RouteTables[s], p \in SysEnvs \ {s}}
                  \cup {PrefixListEntry(s, p) : p \in SysEnvs \ {s}} : s \in SysEnvs}

(* The place of a SysEnv in peered_accounts: in the order of the           *)
(* connections, the hub last.                                              *)
Place(peer) ==
    IF peer = Hub THEN Len(Connections) + 1
                  ELSE CHOOSE k \in DOMAIN Connections : Connections[k] = peer

(* Mutants: everyone is a peer of everyone; the hub is added only where    *)
(* there would be no peer.                                                 *)
PeeredAccounts_Unfiltered(s, config) == (Spokes \ {s}) \cup {Hub}
PeeredAccounts_HubAsDefault(s, config) ==
    LET peers == {p \in Spokes \ {s} : p \in config[s]}
    IN  IF peers = {} THEN {Hub} ELSE peers

PeeredAccounts(s, config) == {p \in Spokes \ {s} : p \in config[s]} \cup {Hub}

(* Mutant: the hub is appended after the routes have been made. *)
SpokeRoutes_HubMissing(s, config) ==
    {Route(s, t, p) : t \in RouteTables[s], p \in PeeredAccounts(s, config) \ {Hub}}

SpokeRoutes(s, config) == {Route(s, t, p) : t \in RouteTables[s], p \in PeeredAccounts(s, config)}

SpokeEntries(s, config) == {PrefixListEntry(s, p) : p \in PeeredAccounts(s, config)}

(* What build() declares; the hub's own prefix list gets an entry for      *)
(* every spoke.                                                            *)
Build(config) ==
    {Tgw, Share, ResourceAssociation, PrincipalAssociation}
    \cup {Attachment(s) : s \in SysEnvs} \cup {TgwRoute(s) : s \in Spokes}
    \cup {Route(Hub, t, s) : t \in RouteTables[Hub], s \in Spokes}
    \cup {PrefixListEntry(Hub, s) : s \in Spokes}
    \cup UNION {SpokeRoutes(s, config) \cup SpokeEntries(s, config) : s \in Spokes}

(* depends_on=cidrs[-1:] makes a spoke's entries a chain: each waits for   *)
(* the one before it, and so for all of those.                             *)
(* Mutant: depends_on=cidrs[:-1], which leaves the last one out.           *)
EntryChain_OffByOne(s, p) ==
    {PrefixListEntry(s, q) : q \in {q \in SysEnvs \ {s} : Place(q) + 1 < Place(p)}}

EntryChain(s, p) ==
    {PrefixListEntry(s, q) : q \in {q \in SysEnvs \ {s} : Place(q) < Place(p)}}

Sharing == {Share, ResourceAssociation, PrincipalAssociation}

(* Everything with the gateway for its parent, or that is passed its id,   *)
(* waits for it; attachments of the spokes wait for the share to be        *)
(* complete.  The entries of the local list have the component for a       *)
(* parent and wait for nothing.                                            *)
Dependencies ==
    [r \in Declarable |->
        CASE r.kind = "tgw" -> {}
          [] r.kind = "share" -> {Tgw}
          [] r.kind \in {"resource association", "principal association"} -> {Tgw, Share}
          [] r.kind = "attachment" -> {Tgw} \cup (IF r.of = Hub THEN {} ELSE Sharing)
          [] r.kind = "tgw route" -> {Tgw, Attachment(r.dest)} \cup Sharing
          [] r.kind = "route" -> {Tgw}
          [] r.kind = "entry" -> IF r.of = Hub THEN {}
                                 ELSE {Tgw} \cup EntryChain(r.of, r.dest)]

(* "The request cannot be completed while the prefix list is in the        *)
(* current state (modify-in-progress)": two entries of one list.           *)
EntryRivals ==
    [r \in Declarable |->
        IF r.kind = "entry" THEN {PrefixListEntry(r.of, p) : p \in SysEnvs \ {r.of, r.dest}}
                            ELSE {}]

INSTANCE PulumiUp WITH WaitsFor <- Dependencies, Rivals <- EntryRivals

-----------------------------------------------------------------------------

Init ==
    /\ allowed \in InitialConfigs
    /\ declared = Build(allowed)
    /\ InitEngine

(* Between two updates an operator may allow a SysEnv to peer with one     *)
(* more.                                                                   *)
Allow(s, p) ==
    /\ up = "idle" /\ p \in Spokes \ (allowed[s] \cup {s})
    /\ allowed' = [allowed EXCEPT ![s] = @ \cup {p}]
    /\ declared' = Build(allowed')
    /\ UNCHANGED <<exists, creating, up>>

(* pulumi up, with and without a creation failing for its own reasons. *)
Update == Progress /\ UNCHANGED <<allowed, declared>>
UpdateFails == Failure /\ UNCHANGED <<allowed, declared>>

(* Everything exists and is configured. *)
Finished ==
    /\ up = "idle" /\ declared \subseteq exists
    /\ UNCHANGED vars

Next ==
    \/ Update \/ UpdateFails
    \/ \E s, p \in Spokes : Allow(s, p)
    \/ Finished

Spec == Init /\ [][Next]_vars

(* The engine works until the update ends, and the operator runs the next  *)
(* one as long as something is missing; nobody has to allow anything.      *)
FairSpec == Spec /\ WF_vars(Update)

-----------------------------------------------------------------------------

(* Type invariant; nothing is created twice.                               *)
TypeOK ==
    /\ allowed \in [Spokes -> SUBSET Spokes]
    /\ declared = Build(allowed)
    /\ creating \subseteq declared /\ exists \subseteq declared
    /\ creating \cap exists = {}
    /\ up \in {"idle", "running", "refused", "failing"}
    /\ up = "idle" => creating = {}

(* transitgateway.py:193-195: the chaining of cidrs works around           *)
(* IncorrectState for the lists of the spokes, whatever failed before and  *)
(* in whatever order peers were allowed.                                   *)
SpokeListsSerial ==
    [][\A s \in Spokes : \A e \in SpokeEntries(s, allowed) \cap Ready : ~CreateRefused(e)]_vars

(* The same of every list, the hub's own included.                         *)
ListsSerial == [][\A r \in Ready : ~CreateRefused(r)]_vars

(* What it rests on: an entry under way waited for all those before it in  *)
(* its list.                                                               *)
ChainInv ==
    \A s \in Spokes : \A p, q \in PeeredAccounts(s, allowed) :
        PrefixListEntry(s, p) \in creating /\ Place(q) < Place(p)
            => PrefixListEntry(s, q) \in exists

(* b can open a connection to a: b's packets are routed to a, from one of  *)
(* its subnets at least; a's security groups let b's prefix in             *)
(* (allow_peered_supernets); and a's answers are routed back.              *)
Routed(a, b) ==
    /\ \E t \in RouteTables[a] : Route(a, t, b) \in exists
    /\ {Attachment(a), Attachment(b)} \subseteq exists
    /\ b # Hub => TgwRoute(b) \in exists

CanConnect(b, a) ==
    Routed(b, a) /\ Routed(a, b) /\ PrefixListEntry(a, b) \in exists

(* README of the module: SysEnvs talk to each other only when both are     *)
(* configured to, at every moment of every update.                         *)
SpokesIsolated ==
    \A a, b \in Spokes : a # b /\ CanConnect(b, a) => b \in allowed[a] /\ a \in allowed[b]

(* ... and "bidirectionally": once everything declared exists, whoever may *)
(* open a connection may be connected to, and the hub and each spoke can.  *)
Bidirectional ==
    declared \subseteq exists =>
        /\ \A a, b \in SysEnvs : a # b /\ CanConnect(a, b) => CanConnect(b, a)
        /\ \A s \in Spokes : CanConnect(Hub, s)

=============================================================================
