---------------------------- MODULE Programs_proofs ----------------------------
(***************************************************************************)
(* From what a program declares to what Stacks promises of it: the lemmas  *)
(* with which AwsPrograms_proofs and AzurePrograms_proofs show that the    *)
(* programs of the modules keep the rules of Stacks_proofs, however many   *)
(* resources their configuration adds.                                     *)
(***************************************************************************)
EXTENDS Kubernetes, Stacks_proofs

(* R relates each resource at least to what f relates it to.               *)
Obeyed(f, R) == \A e \in f : e[2] \subseteq R[e[1]]

(* The stack is that of program p: its resources are those p declares, and *)
(* the engine knows at least the dependencies that p declares.             *)
Deploys(p) ==
    /\ Resources = About(p.needs)
    /\ Obeyed(p.needs, Recorded) /\ Obeyed(p.awaits, WaitsFor)
    /\ \A r \in Resources :
        /\ Names[r] = At(p.uses, r) /\ Paths[r] = At(p.paths, r) /\ Reads[r] = At(p.reads, r)
        /\ Rivals[r] = (UNION {s \in p.rivals : r \in s}) \ {r}

(* And it knows of no others: WaitsFor is the least relation that p makes. *)
DeploysOnly(p) ==
    /\ Deploys(p)
    /\ \A R \in Relation :
         Transitive(R) /\ Obeyed(p.needs, R) /\ Obeyed(p.awaits, R) => \A r \in Resources : WaitsFor[r] \subseteq R[r]

(* What a resource is declared with it depends on, and on whatever that    *)
(* depends on.                                                             *)
LEMMA Depends ==
    ASSUME NEW p, Deploys(p), NEW r, NEW ds, <<r, ds>> \in p.needs, NEW d \in ds
    PROVE  r \in Resources /\ {d} \cup Recorded[d] \subseteq Recorded[r]
<1>1. r \in Resources
  BY DEF Deploys, About
<1>2. d \in Recorded[r]
  BY DEF Deploys, Obeyed
<1> QED
  BY <1>1, <1>2, ProgramsAssumption DEF Transitive

(* Of two parts of one thing one has to depend on the other.               *)
LEMMA PartsApart ==
    ASSUME NEW p, Deploys(p),
           \A s \in p.rivals : \A r, c \in s : c # r => c \in Recorded[r] \/ r \in Recorded[c]
    PROVE  Spec => []RivalsApart
<1> SUFFICES RivalsChained
  BY ChainsKeepApart
<1> SUFFICES ASSUME NEW r \in Resources, NEW c \in Rivals[r]
             PROVE  c \in Recorded[r] \/ r \in Recorded[c]
  BY DEF RivalsChained
<1>1. c \in (UNION {s \in p.rivals : r \in s}) \ {r}
  BY DEF Deploys
<1>2. PICK s \in p.rivals : r \in s /\ c \in s /\ c # r
  BY <1>1
<1> QED
  BY <1>2

-----------------------------------------------------------------------------
(* The operators of Programs                                               *)

LEMMA PairObeyed ==
    ASSUME NEW f, NEW R, Obeyed(f, R), NEW r, NEW ds, <<r, ds>> \in f PROVE ds \subseteq R[r]
BY DEF Obeyed

LEMMA EntryObeyed ==
    ASSUME NEW r, NEW ds, NEW R PROVE Obeyed(r :> ds, R) <=> ds \subseteq R[r]
BY DEF Obeyed, :>

LEMMA OverlayObeyed ==
    ASSUME NEW f, NEW g, NEW R PROVE Obeyed(f @@ g, R) <=> Obeyed(f, R) /\ Obeyed(g, R)
BY DEF Obeyed, @@

LEMMA ForAllAt ==
    ASSUME NEW rs, NEW ds, NEW r
    PROVE  At(ForAll(rs, ds), r) = IF r \in rs THEN ds ELSE {}
<1> DEFINE es == {e \in ForAll(rs, ds) : e[1] = r}
<1>1. CASE r \in rs
  <2>1. es = {<<r, ds>>}
    BY <1>1 DEF ForAll
  <2>2. UNION {e[2] : e \in {<<r, ds>>}} = ds
    OBVIOUS
  <2>3. At(ForAll(rs, ds), r) = UNION {e[2] : e \in es}
    BY DEF At
  <2> QED
    BY <1>1, <2>1, <2>2, <2>3, Zenon
<1>2. CASE r \notin rs
  <2>1. es = {}
    BY <1>2 DEF ForAll
  <2> QED
    BY <1>2, <2>1 DEF At
<1> QED
  BY <1>1, <1>2

LEMMA NothingAt == ASSUME NEW r PROVE At(Nothing, r) = {}
BY DEF At, Nothing

LEMMA InAt == ASSUME NEW f, NEW r, NEW x \in At(f, r) PROVE \E e \in f : e[1] = r /\ x \in e[2]
BY DEF At

(* What tells resources of a kind apart is a tuple, of whatever.           *)
IsTuple(i) == \E S : i \in Seq(S)

LEMMA NameIsTuple == ASSUME NEW s PROVE IsTuple(<<s>>)
<1>1. ASSUME NEW S, NEW x \in S PROVE <<x>> \in Seq(S)
  OBVIOUS
<1>2. <<s>> \in Seq({s})
  BY <1>1
<1> QED
  BY <1>2 DEF IsTuple

LEMMA PairIsTuple == ASSUME NEW s, NEW t PROVE IsTuple(<<s>> \o <<t>>)
<1>1. <<s>> \o <<t>> \in Seq({s, t})
  OBVIOUS
<1> QED
  BY <1>1 DEF IsTuple

(* A resource of some kind is none of another kind.                        *)
LEMMA KindKept == ASSUME NEW k, NEW i, IsTuple(i) PROVE (<<k>> \o i)[1] = k
<1>1. PICK S : i \in Seq(S)
  BY DEF IsTuple
<1> QED
  BY <1>1

-----------------------------------------------------------------------------
(* What goes through one resource, the root: each resource is declared     *)
(* with it, or with another one of them.                                   *)

Rooted(f, root) ==
    \A e \in f : root \in e[2] \/ \E a \in f : a[1] \in e[2]

(* As there are no cycles, all of them depend on the root.                 *)
LEMMA RootedDepends ==
    ASSUME NEW p, Deploys(p), NEW f, f \subseteq p.needs, NEW root, Rooted(f, root), NEW r \in About(f)
    PROVE  r \in Resources /\ {root} \cup Recorded[root] \subseteq Recorded[r]
<1> DEFINE After(x, d) == {d} \cup Recorded[d] \subseteq Recorded[x]
           loose == {x \in About(f) : ~After(x, root)}
<1>1. About(f) \subseteq Resources
  BY DEF Deploys, About
<1>2. ASSUME NEW e \in f, NEW d \in e[2] PROVE After(e[1], d) /\ d \in WaitsFor[e[1]]
  <2>1. e[1] \in Resources
    BY <1>1 DEF About
  <2>2. d \in Recorded[e[1]]
    BY DEF Deploys, Obeyed
  <2> QED
    BY <2>1, <2>2, ProgramsAssumption DEF Transitive
<1>3. ASSUME loose # {} PROVE FALSE
  <2>1. PICK x \in loose : WaitsFor[x] \cap loose = {}
    <3>1. loose \in SUBSET Resources
      BY <1>1
    <3> HIDE DEF loose
    <3> QED
      BY <1>3, <3>1, ProgramsAssumption, LeastExists
  <2>2. PICK e \in f : e[1] = x
    BY DEF About
  <2>3. root \notin e[2]
    BY <1>2, <2>2
  <2>4. PICK a \in f : a[1] \in e[2]
    BY <2>3 DEF Rooted
  <2>5. After(x, a[1]) /\ a[1] \in WaitsFor[x]
    BY <1>2, <2>2, <2>4
  <2>6. After(a[1], root)
    BY <2>1, <2>5 DEF About
  <2> QED
    BY <2>5, <2>6
<1> QED
  BY <1>1, <1>3

LEMMA OverlayRooted ==
    ASSUME NEW f, NEW g, NEW root, Rooted(f, root), Rooted(g, root) PROVE Rooted(f @@ g, root)
BY DEF Rooted, @@

LEMMA EntryRooted == ASSUME NEW r, NEW ds, NEW root \in ds PROVE Rooted(r :> ds, root)
BY DEF Rooted, :>

(* All parts of lib/kubernetes go through what they are given.             *)
LEMMA LibraryRooted ==
    ASSUME NEW api, NEW root \in api
    PROVE  /\ Rooted(KubeletRolebinding(api), root) /\ Rooted(KubeletCSRRenewal(api), root)
           /\ Rooted(NodeSecretsRole(api), root) /\ Rooted(ControllerMonitoring(api), root)
           /\ Rooted(NodeMonitoring(api), root) /\ Rooted(CrossClusterServiceAccount(api), root)
           /\ Rooted(KubeMetrics(api), root) /\ Rooted(ClusterAgentDeployment(api), root)
           /\ Rooted(ClusterAgentRbac(api), root) /\ Rooted(ClusterAgentServices(api), root)
           /\ \A charts : Rooted(HelmChart(api, charts), root)
           /\ \A extras : Rooted(Namespaces(api, extras), root)
<1>1. Rooted(KubeletRolebinding(api), root) /\ Rooted(KubeletCSRRenewal(api), root)
  BY EntryRooted DEF KubeletRolebinding, KubeletCSRRenewal
<1>2. Rooted(NodeSecretsRole(api), root)
  BY DEF NodeSecretsRole, Rooted, :>, @@
<1>3. Rooted(ControllerMonitoring(api), root)
  BY DEF ControllerMonitoring, Rooted, :>, @@
<1>4. Rooted(NodeMonitoring(api), root)
  BY DEF NodeMonitoring, Rooted, :>, @@
<1>5. Rooted(CrossClusterServiceAccount(api), root)
  BY DEF CrossClusterServiceAccount, Rooted, :>, @@
<1>6. Rooted(KubeMetrics(api), root)
  <2> DEFINE f == KubeMetrics(api)
             account == <<<<"metrics-account">>, api>>
  <2>1. account \in f
    BY DEF KubeMetrics, MetricsRoles, :>, @@
  <2>2. ASSUME NEW e \in MetricsRoles(api), e # account PROVE <<"metrics-account">> \in e[2]
    BY <2>2 DEF MetricsRoles, Each, :>, @@
  <2>3. ASSUME NEW e \in MetricsServer PROVE <<"metrics-account">> \in e[2]
    BY <2>3 DEF MetricsServer, :>, @@
  <2>4. \A e \in f : e = account \/ <<"metrics-account">> \in e[2]
    BY <2>2, <2>3 DEF KubeMetrics, @@
  <2>5. account[1] = <<"metrics-account">> /\ account[2] = api
    OBVIOUS
  <2> HIDE DEF f, account
  <2>6. Rooted(f, root)
    BY <2>1, <2>4, <2>5 DEF Rooted
  <2> QED
    BY <2>6 DEF f
<1>7. Rooted(ClusterAgentDeployment(api), root)
  BY EntryRooted DEF ClusterAgentDeployment
<1>8. Rooted(ClusterAgentRbac(api), root)
  BY DEF ClusterAgentRbac, Rooted, :>, @@
<1>9. Rooted(ClusterAgentServices(api), root)
  BY DEF ClusterAgentServices, Rooted, :>, @@
<1>10. \A charts : Rooted(HelmChart(api, charts), root)
  BY DEF HelmChart, Each, Rooted
<1>11. \A extras : Rooted(Namespaces(api, extras), root)
  BY DEF Namespaces, Each, Rooted
<1> QED
  BY <1>1, <1>2, <1>3, <1>4, <1>5, <1>6, <1>7, <1>8, <1>9, <1>10, <1>11

=============================================================================
