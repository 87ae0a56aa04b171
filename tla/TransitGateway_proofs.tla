------------------------ MODULE TransitGateway_proofs ------------------------
(***************************************************************************)
(* What TransitGateway promises for any number of SysEnvs and route        *)
(* tables, every list of connections and every way its allowed_sysenvs     *)
(* may grow.                                                               *)
(***************************************************************************)
EXTENDS TransitGateway, TLAPS

(* Every SysEnv has a place of its own in the lists of peers. *)
LEMMA PlaceInjective ==
    ASSUME NEW p \in SysEnvs, NEW q \in SysEnvs
    PROVE  /\ Place(p) \in Nat
           /\ p # q => Place(p) < Place(q) \/ Place(q) < Place(p)
<1> USE ConnectionsAssumption, HubAssumption
<1>1. Len(Connections) \in Nat /\ DOMAIN Connections = 1..Len(Connections)
  OBVIOUS
<1>2. ASSUME NEW s \in Spokes
      PROVE  Place(s) \in DOMAIN Connections /\ Connections[Place(s)] = s
  <2>1. PICK k \in DOMAIN Connections : Connections[k] = s
    BY DEF Spokes
  <2> QED
    BY <2>1 DEF Place
<1>3. Place(Hub) = Len(Connections) + 1
  BY DEF Place
<1>4. CASE p \in Spokes /\ q \in Spokes
  BY <1>1, <1>2, <1>4
<1>5. CASE p = Hub \/ q = Hub
  BY <1>1, <1>2, <1>3, <1>5 DEF SysEnvs
<1> QED
  BY <1>4, <1>5 DEF SysEnvs

(* An entry of a spoke's list waits for those before it, and only another  *)
(* entry of that list is a rival of it.                                    *)
LEMMA EntryOrder ==
    ASSUME NEW s \in Spokes, NEW p \in SysEnvs \ {s}
    PROVE  /\ \A q \in SysEnvs \ {s} : Place(q) < Place(p) =>
                  PrefixListEntry(s, q) \in Dependencies[PrefixListEntry(s, p)]
           /\ \A c \in EntryRivals[PrefixListEntry(s, p)] :
                  \E q \in SysEnvs \ {s, p} : c = PrefixListEntry(s, q)
<1> DEFINE e == PrefixListEntry(s, p)
<1>1. s # Hub /\ s \in SysEnvs
  BY HubAssumption DEF SysEnvs
<1>2. e \in Declarable /\ e.kind = "entry" /\ e.of = s /\ e.dest = p
  BY <1>1 DEF Declarable, PrefixListEntry, Resource
<1>3. Dependencies[e] = {Tgw} \cup EntryChain(s, p)
  BY <1>1, <1>2 DEF Dependencies
<1>4. EntryRivals[e] = {PrefixListEntry(s, q) : q \in SysEnvs \ {s, p}}
  BY <1>2 DEF EntryRivals
<1> QED
  BY <1>3, <1>4 DEF EntryChain

(* Neither the gateway and its sharing nor what belongs to an attachment   *)
(* is taken for an entry or a route.                                       *)
LEMMA Kinds ==
    /\ \A r \in {Tgw, Share, ResourceAssociation, PrincipalAssociation} :
          r.kind \notin {"entry", "route"}
    /\ \A a : Attachment(a).kind = "attachment" /\ TgwRoute(a).kind = "tgw route"
    /\ \A a, u, b : Route(a, u, b).kind = "route" /\ PrefixListEntry(a, b).kind = "entry"
<1>1. /\ Tgw.kind = "tgw" /\ Share.kind = "share"
      /\ ResourceAssociation.kind = "resource association"
      /\ PrincipalAssociation.kind = "principal association"
  BY DEF Tgw, Share, ResourceAssociation, PrincipalAssociation, Resource
<1>2. \A a : Attachment(a).kind = "attachment" /\ TgwRoute(a).kind = "tgw route"
  BY DEF Attachment, TgwRoute, Resource
<1>3. \A a, u, b : Route(a, u, b).kind = "route" /\ PrefixListEntry(a, b).kind = "entry"
  BY DEF Route, PrefixListEntry, Resource
<1> QED
  BY <1>1, <1>2, <1>3

(* What is declared and is an entry or a route of a spoke, is one of its   *)
(* own.                                                                    *)
LEMMA OfSpokes ==
    ASSUME NEW config, NEW r \in Build(config),
           r.kind \in {"entry", "route"}, r.of \in Spokes
    PROVE  \E a \in Spokes : r \in SpokeRoutes(a, config) \cup SpokeEntries(a, config)
<1>1. r.of # Hub
  BY HubAssumption
<1>2. r \notin {Tgw, Share, ResourceAssociation, PrincipalAssociation}
  BY Kinds
<1>3. r \notin {Attachment(a) : a \in SysEnvs} /\ r \notin {TgwRoute(a) : a \in Spokes}
  BY Kinds
<1>4. r \notin {Route(Hub, u, a) : u \in RouteTables[Hub], a \in Spokes}
  BY <1>1 DEF Route, Resource
<1>5. r \notin {PrefixListEntry(Hub, a) : a \in Spokes}
  BY <1>1 DEF PrefixListEntry, Resource
<1> QED
  BY <1>2, <1>3, <1>4, <1>5 DEF Build

(* A spoke's list has the entries of its peers, and no others. *)
LEMMA EntriesArePeers ==
    ASSUME NEW config, NEW s \in Spokes, NEW p
    PROVE  PrefixListEntry(s, p) \in Build(config) <=> p \in PeeredAccounts(s, config)
<1>1. ASSUME p \in PeeredAccounts(s, config) PROVE PrefixListEntry(s, p) \in Build(config)
  BY <1>1 DEF Build, SpokeEntries
<1>2. ASSUME PrefixListEntry(s, p) \in Build(config) PROVE p \in PeeredAccounts(s, config)
  <2>1. PICK a \in Spokes : PrefixListEntry(s, p) \in SpokeRoutes(a, config) \cup SpokeEntries(a, config)
    BY <1>2, OfSpokes DEF PrefixListEntry, Resource
  <2>2. PrefixListEntry(s, p) \notin SpokeRoutes(a, config)
    <3> SUFFICES ASSUME PrefixListEntry(s, p) \in SpokeRoutes(a, config) PROVE FALSE
      OBVIOUS
    <3>1. PICK u \in RouteTables[a], q \in PeeredAccounts(a, config) :
              PrefixListEntry(s, p) = Route(a, u, q)
      BY DEF SpokeRoutes
    <3>2. PrefixListEntry(s, p).kind = "entry" /\ Route(a, u, q).kind = "route"
      BY Kinds
    <3> QED
      BY <3>1, <3>2
  <2>3. PICK q \in PeeredAccounts(a, config) : PrefixListEntry(s, p) = PrefixListEntry(a, q)
    BY <2>1, <2>2 DEF SpokeEntries
  <2>4. s = a /\ p = q
    BY <2>3 DEF PrefixListEntry, Resource
  <2> QED
    BY <2>4
<1> QED
  BY <1>1, <1>2

(* Allowing more peers only adds to what build() declares. *)
LEMMA BuildGrows ==
    ASSUME NEW old, NEW new, \A s \in Spokes : old[s] \subseteq new[s]
    PROVE  Build(old) \subseteq Build(new)
<1>1. \A s \in Spokes : PeeredAccounts(s, old) \subseteq PeeredAccounts(s, new)
  BY DEF PeeredAccounts
<1>2. \A s \in Spokes : SpokeRoutes(s, old) \cup SpokeEntries(s, old)
                           \subseteq SpokeRoutes(s, new) \cup SpokeEntries(s, new)
  BY <1>1 DEF SpokeRoutes, SpokeEntries
<1> QED
  BY <1>2 DEF Build

(* Types: growing the configuration keeps what exists declared. *)
LEMMA TypeStep == TypeOK /\ [Next]_vars => TypeOK'
<1> SUFFICES ASSUME TypeOK, [Next]_vars PROVE TypeOK'
  OBVIOUS
<1> USE DEF TypeOK
<1>1. ASSUME UNCHANGED <<allowed, declared>>, Progress PROVE TypeOK'
  BY <1>1 DEF Progress, StartUp, Ready, CreateAtOnce, Create, CreateRefused, Created, UpEnds
<1>2. ASSUME UNCHANGED <<allowed, declared>>, Failure PROVE TypeOK'
  BY <1>2 DEF Failure, Ready, CreateFailsAtOnce, CreateFails
<1>3. ASSUME NEW s \in Spokes, NEW p \in Spokes, Allow(s, p) PROVE TypeOK'
  <2>1. allowed' \in [Spokes -> SUBSET Spokes] /\ \A t \in Spokes : allowed[t] \subseteq allowed'[t]
    BY <1>3 DEF Allow
  <2> DEFINE old == allowed
  <2> DEFINE new == allowed'
  <2>3. \A t \in Spokes : old[t] \subseteq new[t]
    BY <2>1
  <2> HIDE DEF old, new
  <2>4. Build(old) \subseteq Build(new)
    BY <2>3, BuildGrows
  <2>2. declared' = Build(allowed') /\ Build(allowed) \subseteq Build(allowed')
    BY <1>3, <2>4 DEF Allow, old, new
  <2> QED
    BY <1>3, <2>1, <2>2 DEF Allow
<1>4. CASE UNCHANGED vars
  BY <1>4 DEF vars
<1> QED
  BY <1>1, <1>2, <1>3, <1>4 DEF Next, Update, UpdateFails, Finished

(* Only the creation of an entry that has waited for those before it puts  *)
(* the chain to the test; whatever else happens, entries only get done.    *)
LEMMA ChainStep == TypeOK /\ ChainInv /\ [Next]_vars => ChainInv'
<1> SUFFICES ASSUME TypeOK, ChainInv, [Next]_vars PROVE ChainInv'
  OBVIOUS
<1> USE DEF TypeOK
<1>1. ASSUME UNCHANGED allowed, creating' \subseteq creating, exists \subseteq exists'
      PROVE  ChainInv'
  BY <1>1 DEF ChainInv, PeeredAccounts
<1>2. ASSUME NEW r \in Ready, Create(r), UNCHANGED <<allowed, declared>> PROVE ChainInv'
  <2> SUFFICES ASSUME NEW s \in Spokes,
                      NEW p \in PeeredAccounts(s, allowed), NEW q \in PeeredAccounts(s, allowed),
                      PrefixListEntry(s, p) \in creating', Place(q) < Place(p)
               PROVE  PrefixListEntry(s, q) \in exists
    BY <1>2 DEF ChainInv, Create, PeeredAccounts
  <2>1. CASE PrefixListEntry(s, p) \in creating
    BY <2>1 DEF ChainInv
  <2>2. CASE PrefixListEntry(s, p) = r
    <3>1. p \in SysEnvs \ {s} /\ q \in SysEnvs \ {s}
      BY HubAssumption DEF PeeredAccounts, SysEnvs
    <3>2. PrefixListEntry(s, q) \in Dependencies[r]
      BY <2>2, <3>1, EntryOrder
    <3>3. PrefixListEntry(s, q) \in declared
      BY EntriesArePeers
    <3> QED
      BY <3>2, <3>3 DEF Ready
  <2> QED
    BY <1>2, <2>1, <2>2 DEF Create
<1>3. ASSUME NEW s \in Spokes, NEW p \in Spokes, Allow(s, p) PROVE ChainInv'
  BY <1>3 DEF Allow, ChainInv
<1>4. ASSUME UNCHANGED <<allowed, declared>>, Progress PROVE ChainInv'
  BY <1>1, <1>2, <1>4 DEF Progress, StartUp, CreateAtOnce, CreateRefused, Created, UpEnds
<1>5. ASSUME UNCHANGED <<allowed, declared>>, Failure PROVE ChainInv'
  BY <1>1, <1>5 DEF Failure, CreateFailsAtOnce, CreateFails
<1>6. CASE UNCHANGED vars
  BY <1>1, <1>6 DEF vars
<1> QED
  BY <1>3, <1>4, <1>5, <1>6 DEF Next, Update, UpdateFails, Finished

(* Both hold initially. *)
LEMMA InitHolds == Init => TypeOK /\ ChainInv
BY ConfigsAssumption DEF Init, InitEngine, TypeOK, ChainInv

(* Type correctness. *)
THEOREM TypeCorrect == Spec => []TypeOK
<1>1. Init => TypeOK
  BY InitHolds
<1> QED
  BY <1>1, TypeStep, PTL DEF Spec

(* No entry of a spoke's prefix list is ever refused for another entry of  *)
(* the list being under way, however many SysEnvs it peers with, whichever *)
(* creations failed before, and in whatever order the peers were allowed.  *)
THEOREM SpokeListsSerialHolds == Spec => SpokeListsSerial
<1>1. TypeOK /\ ChainInv /\ [Next]_vars
         => [\A s \in Spokes : \A e \in SpokeEntries(s, allowed) \cap Ready : ~CreateRefused(e)]_vars
  <2> SUFFICES ASSUME TypeOK, ChainInv, NEW s \in Spokes,
                      NEW e \in SpokeEntries(s, allowed) \cap Ready, CreateRefused(e)
               PROVE  FALSE
    OBVIOUS
  <2>1. PICK p \in PeeredAccounts(s, allowed) : e = PrefixListEntry(s, p)
    BY DEF SpokeEntries
  <2>2. p \in SysEnvs \ {s}
    BY HubAssumption DEF PeeredAccounts, SysEnvs
  <2>3. PICK c \in creating : c \in EntryRivals[e]
    BY DEF CreateRefused, Busy
  <2>4. PICK q \in SysEnvs \ {s, p} : c = PrefixListEntry(s, q)
    BY <2>1, <2>2, <2>3, EntryOrder
  <2>5. q \in PeeredAccounts(s, allowed)
    BY <2>3, <2>4, EntriesArePeers DEF TypeOK
  <2>6. CASE Place(q) < Place(p)
    <3>1. c \in Dependencies[e]
      BY <2>1, <2>2, <2>4, <2>6, EntryOrder
    <3>2. c \in exists
      BY <2>3, <3>1 DEF Ready, TypeOK
    <3> QED
      BY <2>3, <3>2 DEF TypeOK
  <2>7. CASE Place(p) < Place(q)
    <3>1. e \in exists
      BY <2>1, <2>3, <2>4, <2>5, <2>7 DEF ChainInv
    <3> QED
      BY <3>1 DEF Ready
  <2> QED
    BY <2>2, <2>4, <2>6, <2>7, PlaceInjective
<1>2. Init => TypeOK /\ ChainInv
  BY InitHolds
<1> QED
  BY <1>1, <1>2, TypeStep, ChainStep, PTL DEF Spec, SpokeListsSerial

(* A route of a spoke leads to a peer of it. *)
LEMMA RoutesArePeers ==
    ASSUME NEW config, NEW s \in Spokes, NEW t, NEW p, Route(s, t, p) \in Build(config)
    PROVE  p \in PeeredAccounts(s, config)
<1>1. PICK a \in Spokes : Route(s, t, p) \in SpokeRoutes(a, config) \cup SpokeEntries(a, config)
  BY OfSpokes DEF Route, Resource
<1>2. Route(s, t, p) \notin SpokeEntries(a, config)
  BY DEF SpokeEntries, Route, PrefixListEntry, Resource
<1>3. PICK u \in RouteTables[a], q \in PeeredAccounts(a, config) : Route(s, t, p) = Route(a, u, q)
  BY <1>1, <1>2 DEF SpokeRoutes
<1>4. s = a /\ p = q
  BY <1>3 DEF Route, Resource
<1> QED
  BY <1>4

(* Two spokes never communicate, not even half way through an update,      *)
(* unless each is configured to allow the other.                           *)
THEOREM SpokesIsolatedHolds == Spec => []SpokesIsolated
<1>1. TypeOK => SpokesIsolated
  <2> SUFFICES ASSUME TypeOK, NEW a \in Spokes, NEW b \in Spokes, a # b, CanConnect(b, a)
               PROVE  b \in allowed[a] /\ a \in allowed[b]
    BY DEF SpokesIsolated
  <2>1. PICK t \in RouteTables[a], u \in RouteTables[b] :
             Route(a, t, b) \in declared /\ Route(b, u, a) \in declared
    BY DEF CanConnect, Routed, TypeOK
  <2>2. b \in PeeredAccounts(a, allowed) /\ a \in PeeredAccounts(b, allowed)
    BY <2>1, RoutesArePeers DEF TypeOK
  <2> QED
    BY <2>2, HubAssumption DEF PeeredAccounts
<1> QED
  BY <1>1, TypeCorrect, PTL

(* Once everything is there, the hub and every spoke are routed to each    *)
(* other and in each other's lists.                                        *)
LEMMA HubReaches ==
    ASSUME TypeOK, declared \subseteq exists, \A s \in SysEnvs : RouteTables[s] # {},
           NEW s \in Spokes
    PROVE  CanConnect(Hub, s) /\ CanConnect(s, Hub)
<1>1. s # Hub /\ {s, Hub} \subseteq SysEnvs /\ Hub \in PeeredAccounts(s, allowed)
  BY HubAssumption DEF SysEnvs, PeeredAccounts
<1>2. Build(allowed) \subseteq exists
  BY DEF TypeOK
<1>3. {Attachment(s), Attachment(Hub), TgwRoute(s)} \subseteq exists
  BY <1>1, <1>2 DEF Build
<1>4. PrefixListEntry(Hub, s) \in exists /\ PrefixListEntry(s, Hub) \in exists
  BY <1>1, <1>2, EntriesArePeers DEF Build
<1>5. PICK t \in RouteTables[s], u \in RouteTables[Hub] : TRUE
  BY <1>1
<1>6. Route(s, t, Hub) \in exists
  <2>1. Route(s, t, Hub) \in SpokeRoutes(s, allowed)
    BY <1>1 DEF SpokeRoutes
  <2> QED
    BY <1>2, <2>1 DEF Build
<1>7. Route(Hub, u, s) \in exists
  BY <1>2 DEF Build
<1> QED
  BY <1>1, <1>3, <1>4, <1>6, <1>7 DEF CanConnect, Routed

(* As soon as an update has created everything, connections work both ways *)
(* between any two SysEnvs that have one, and always between the hub and   *)
(* each spoke; every VPC has a route table at least.                       *)
THEOREM BidirectionalHolds ==
    ASSUME \A s \in SysEnvs : RouteTables[s] # {}
    PROVE  Spec => []Bidirectional
<1>1. TypeOK => Bidirectional
  <2> SUFFICES ASSUME TypeOK, declared \subseteq exists
               PROVE  /\ \A a, b \in SysEnvs : a # b /\ CanConnect(a, b) => CanConnect(b, a)
                      /\ \A s \in Spokes : CanConnect(Hub, s)
    BY DEF Bidirectional
  <2>1. ASSUME NEW a \in Spokes, NEW b \in Spokes, a # b, CanConnect(a, b)
        PROVE  CanConnect(b, a)
    <3>1. a \in allowed[b]
      <4>1. PICK t \in RouteTables[b] : Route(b, t, a) \in exists
        BY <2>1 DEF CanConnect, Routed
      <4>2. a \in PeeredAccounts(b, allowed)
        BY <4>1, RoutesArePeers DEF TypeOK
      <4> QED
        BY <2>1, <4>2, HubAssumption DEF PeeredAccounts
    <3>2. b \in allowed[a]
      <4>1. PICK t \in RouteTables[a] : Route(a, t, b) \in exists
        BY <2>1 DEF CanConnect, Routed
      <4>2. b \in PeeredAccounts(a, allowed)
        BY <4>1, RoutesArePeers DEF TypeOK
      <4> QED
        BY <2>1, <4>2, HubAssumption DEF PeeredAccounts
    <3>3. PrefixListEntry(a, b) \in exists
      <4>1. b \in PeeredAccounts(a, allowed)
        BY <2>1, <3>2 DEF PeeredAccounts
      <4> QED
        BY <4>1, EntriesArePeers DEF TypeOK
    <3> QED
      BY <2>1, <3>3 DEF CanConnect
  <2>2. \A s \in Spokes : CanConnect(Hub, s) /\ CanConnect(s, Hub)
    BY HubReaches
  <2> QED
    BY <2>1, <2>2 DEF SysEnvs
<1> QED
  BY <1>1, TypeCorrect, PTL

=============================================================================
