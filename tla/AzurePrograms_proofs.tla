-------------------------- MODULE AzurePrograms_proofs --------------------------
(***************************************************************************)
(* The programs of the Azure modules keep the rules of Stacks_proofs in    *)
(* all configurations.                                                     *)
(***************************************************************************)
EXTENDS Programs_proofs, AzureClusters

-----------------------------------------------------------------------------
(* network                                                                 *)

(* depends_on=subnets[-1:] reaches from each subnet to all before it.      *)
LEMMA SubnetsChained ==
    ASSUME NEW subnets \in Seq(STRING), NEW natIps, Deploys(Network(subnets, natIps)),
           NEW i \in 1 .. Len(subnets), NEW j \in (i + 1) .. Len(subnets)
    PROVE  <<"subnet", subnets[i]>> \in Recorded[<<"subnet", subnets[j]>>]
<1> DEFINE p == Network(subnets, natIps)
           Subnet(k) == <<"subnet", subnets[k]>>
           late == {k \in (i + 1) .. Len(subnets) : Subnet(i) \notin Recorded[Subnet(k)]}
           rs == {Subnet(k) : k \in late}
<1>1. ASSUME NEW k \in 2 .. Len(subnets)
      PROVE  Subnet(k) \in Resources /\ {Subnet(k - 1)} \cup Recorded[Subnet(k - 1)] \subseteq Recorded[Subnet(k)]
  <2>1. <<Subnet(k), {Subnet(k - 1)}>> \in p.needs
    BY DEF Network, Program, SubnetChain, @@
  <2>2. Subnet(k - 1) \in {Subnet(k - 1)}
    OBVIOUS
  <2> HIDE DEF p, Subnet
  <2>3. Deploys(p)
    BY DEF p
  <2> QED
    BY <2>1, <2>2, <2>3, Depends
<1>2. ASSUME rs # {} PROVE FALSE
  <2>1. rs \subseteq Resources
    <3>1. ASSUME NEW k \in late PROVE Subnet(k) \in Resources
      <4>1. k \in 2 .. Len(subnets)
        OBVIOUS
      <4> QED
        BY <1>1, <4>1
    <3> HIDE DEF late, Subnet
    <3> QED
      BY <3>1
  <2>2. PICK r \in rs : WaitsFor[r] \cap rs = {}
    <3> HIDE DEF rs
    <3> QED
      BY <1>2, <2>1, ProgramsAssumption, LeastExists
  <2>3. PICK k \in late : r = Subnet(k)
    OBVIOUS
  <2>4. /\ k \in 2 .. Len(subnets) /\ k - 1 \in i .. Len(subnets)
        /\ k - 1 # i => k - 1 \in (i + 1) .. Len(subnets)
        /\ Subnet(i) \notin Recorded[r]
    BY <2>3
  <2>5. r \in Resources /\ {Subnet(k - 1)} \cup Recorded[Subnet(k - 1)] \subseteq Recorded[r]
    BY <1>1, <2>3, <2>4
  <2>6. Subnet(k - 1) \in WaitsFor[r]
    BY <2>5, ProgramsAssumption
  <2>7. k - 1 \notin late
    <3>1. k - 1 \in late => Subnet(k - 1) \in rs
      <4> HIDE DEF late, Subnet
      <4> QED
        OBVIOUS
    <3> HIDE DEF late, rs, Subnet
    <3> QED
      BY <2>2, <2>6, <3>1
  <2>8. k - 1 = i
    BY <2>4, <2>5, <2>7
  <2> QED
    BY <2>4, <2>5, <2>8
<1>3. late = {}
  BY <1>2
<1> QED
  BY <1>3

(* Two subnets of one network are never created or deleted at once.        *)
THEOREM SubnetsApart ==
    ASSUME NEW subnets \in Seq(STRING), NEW natIps, Deploys(Network(subnets, natIps))
    PROVE  Spec => []RivalsApart
<1> DEFINE p == Network(subnets, natIps)
           all == {<<"subnet", n>> : n \in {subnets[i] : i \in 1 .. Len(subnets)}}
<1>1. p.rivals = {all}
  BY DEF Network, Program
<1>2. ASSUME NEW s \in p.rivals, NEW r \in s, NEW c \in s, c # r
      PROVE  c \in Recorded[r] \/ r \in Recorded[c]
  <2>1. s = all
    BY <1>1
  <2>2. PICK i \in 1 .. Len(subnets), j \in 1 .. Len(subnets) :
            r = <<"subnet", subnets[i]>> /\ c = <<"subnet", subnets[j]>>
    BY <1>2, <2>1
  <2>3. i \in (j + 1) .. Len(subnets) \/ j \in (i + 1) .. Len(subnets)
    BY <1>2, <2>2
  <2> QED
    BY <2>2, <2>3, SubnetsChained
<1> QED
  BY <1>2, PartsApart

-----------------------------------------------------------------------------
(* keyvault                                                                *)

(* No secret is created before the vault, whose configured name it is      *)
(* given.                                                                  *)
THEOREM VaultComesFirst ==
    ASSUME NEW secrets, Deploys(KeyVault(secrets)) PROVE Spec => []NamesResolve
<1> DEFINE p == KeyVault(secrets)
<1>1. p.uses = CreateSecretUses(secrets) /\ p.paths = Nothing /\ CreateSecrets(secrets) \subseteq p.needs
  BY DEF KeyVault, Program, @@
<1>2. ASSUME NEW r \in Resources PROVE Paths[r] = {}
  BY <1>1, NothingAt DEF Deploys
<1>3. ASSUME NEW r \in Resources, NEW x \in Names[r] PROVE x \in WaitsFor[r]
  <2>1. x \in At(CreateSecretUses(secrets), r)
    BY <1>1, <1>3 DEF Deploys
  <2>2. PICK e \in CreateSecretUses(secrets) : e[1] = r /\ x \in e[2]
    BY <2>1, InAt
  <2>3. e \in p.needs
    BY <1>1 DEF CreateSecretUses, CreateSecrets
  <2>4. x \in Recorded[r]
    BY <2>2, <2>3 DEF Deploys, Obeyed
  <2> QED
    BY <2>4, ProgramsAssumption
<1>4. NamesAwaited
  BY <1>2, <1>3 DEF NamesAwaited
<1> QED
  BY <1>4, AwaitedNamesResolve

-----------------------------------------------------------------------------
(* k8s_controllers                                                         *)

(* A controller that boots finds all secrets, as long as the roles that    *)
(* let it read them, which it gets only once it runs, are not what it      *)
(* misses.                                                                 *)
THEOREM AzureControllersBoot ==
    ASSUME NEW namespaces, Deploys(AzureK8sControllers(namespaces)),
           {<<"vm-role", "vmss", "controller-vault">>, <<"vm-role", "vmss", "agent-vault">>}
             \subseteq Races[<<"vmss">>]
    PROVE  Spec => []BootsComplete
<1> DEFINE p == AzureK8sControllers(namespaces)
           secrets == SecretsOf(ControllerSecrets) \cup SecretsOf(AgentSecrets)
           group == <<"vmss">>
<1>1. p.reads = group :> AzureControllerReads /\ CreateVmss \subseteq p.needs
  BY DEF AzureK8sControllers, Program, AzureCreateControllers, @@
<1>2. ASSUME NEW x \in secrets PROVE x \in Recorded[group]
  <2>1. Obeyed(CreateVmss, Recorded)
    BY <1>1 DEF Deploys, Obeyed
  <2> QED
    BY <1>2, <2>1, EntryObeyed DEF CreateVmss
<1>3. ASSUME NEW g \in Resources, NEW x \in Reads[g] \ Races[g] PROVE x \in Recorded[g]
  <2>1. x \in At(group :> AzureControllerReads, g)
    BY <1>1, <1>3 DEF Deploys
  <2>2. g = group /\ x \in AzureControllerReads
    BY <2>1, InAt DEF :>
  <2>3. x \in secrets
    BY <1>3, <2>2 DEF AzureControllerReads
  <2> QED
    BY <1>2, <2>2, <2>3
<1>4. ReadsRecorded
  BY <1>3 DEF ReadsRecorded
<1> QED
  BY <1>4, RecordedReadsComplete

LEMMA AzurePersonalizerRooted ==
    ASSUME NEW namespaces PROVE Rooted(AzureClusterPersonalizer(namespaces), <<"k8s">>)
<1> DEFINE api == {<<"k8s">>, <<"cluster">>}
           Below(f) == Rooted(f, <<"k8s">>)
<1>1. <<"k8s">> \in api
  OBVIOUS
<1> HIDE DEF api
<1>2. /\ Below(KubeletRolebinding(api)) /\ Below(KubeletCSRRenewal(api)) /\ Below(NodeSecretsRole(api))
      /\ Below(ControllerMonitoring(api)) /\ Below(NodeMonitoring(api))
      /\ Below(CrossClusterServiceAccount(api)) /\ Below(KubeMetrics(api))
  BY <1>1, LibraryRooted
<1>3. Below(Traefik(api)) /\ Below(Namespaces(api, namespaces)) /\ Below(Charts(api, {}))
  BY <1>1, LibraryRooted DEF Traefik, Charts
<1>4. Below(AADNodeBootstrapper(api))
  BY <1>1, EntryRooted DEF AADNodeBootstrapper
<1> QED
  BY <1>2, <1>3, <1>4 DEF AzureClusterPersonalizer, Rooted, @@, api

(* The requests to the cluster pass the load balancer and its name, which  *)
(* the provider knows nothing of, and a machine, which it waits for.       *)
Unwaited == {<<"load-balancer">>, <<"lb-endpoint">>}

LEMMA AzureClusterDepends ==
    ASSUME NEW namespaces, Deploys(AzureK8sControllers(namespaces)), NEW r \in Resources,
           NEW x \in Paths[r] \ Unwaited
    PROVE  x \in Recorded[r] /\ x \in WaitsFor[r]
<1> DEFINE p == AzureK8sControllers(namespaces)
           inside == AzureClusterPersonalizer(namespaces)
           way == {<<"load-balancer">>, <<"lb-endpoint">>, <<"vmss">>}
           api == <<"k8s">>
<1>1. p.paths = ForAll(About(inside), way)
  BY DEF AzureK8sControllers, Program
<1>2. inside \subseteq p.needs /\ AzureK8sProvider \subseteq p.needs
  BY DEF AzureK8sControllers, Program, @@
<1>3. x \in At(ForAll(About(inside), way), r)
  BY <1>1 DEF Deploys
<1>4. r \in About(inside) /\ x = <<"vmss">>
  <2>1. r \in About(inside) /\ x \in way
    <3> HIDE DEF inside, way
    <3> QED
      BY <1>3, ForAllAt
  <2> QED
    BY <2>1 DEF Unwaited
<1>5. Recorded[api] \subseteq Recorded[r]
  <2>1. Rooted(inside, api)
    BY AzurePersonalizerRooted
  <2> HIDE DEF inside, api, p
  <2> QED
    BY <1>2, <1>4, <2>1, RootedDepends DEF p
<1>6. <<"vmss">> \in Recorded[api]
  <2>1. Obeyed(AzureK8sProvider, Recorded)
    BY <1>2 DEF Deploys, Obeyed
  <2> QED
    BY <2>1, EntryObeyed DEF AzureK8sProvider
<1> QED
  BY <1>4, <1>5, <1>6, ProgramsAssumption

(* The account of the nodes' token is recorded.                            *)
LEMMA AzureNamesAwaited ==
    ASSUME NEW namespaces, Deploys(AzureK8sControllers(namespaces)), NEW r \in Resources,
           NEW x \in Names[r] \ Unwaited
    PROVE  x \in Recorded[r] /\ x \in WaitsFor[r]
<1> DEFINE p == AzureK8sControllers(namespaces)
           uses == CreateVmssUses @@ NodeMonitoringUses
           token == <<<<"node-monitoring-secret">>, {<<"node-monitoring-account">>}>>
<1>1. p.uses = uses /\ token \in p.needs
  BY DEF AzureK8sControllers, Program, AzureClusterPersonalizer, NodeMonitoring, :>, @@
<1>2. x \in At(uses, r)
  BY <1>1 DEF Deploys
<1>3. PICK e \in uses : e[1] = r /\ x \in e[2]
  BY <1>2, InAt
<1>4. e = token
  BY <1>3 DEF CreateVmssUses, NodeMonitoringUses, Unwaited, :>, @@
<1>5. x \in Recorded[r]
  BY <1>1, <1>3, <1>4 DEF Deploys, Obeyed
<1> QED
  BY <1>5, ProgramsAssumption

LEMMA AzureClusterAwaited ==
    ASSUME NEW namespaces, Deploys(AzureK8sControllers(namespaces)),
           \A r \in Resources : Unwaited \cap (Names[r] \cup Paths[r]) \subseteq Races[r]
    PROVE  NamesAwaited /\ PathsRecorded
<1> DEFINE p == AzureK8sControllers(namespaces)
<1>1. ASSUME NEW r \in Resources, NEW x \in Names[r] \ Unwaited PROVE x \in WaitsFor[r]
  BY <1>1, AzureNamesAwaited
<1>2. ASSUME NEW r \in Resources, NEW x \in Paths[r] \ Races[r] PROVE x \in Recorded[r] /\ x \in WaitsFor[r]
  BY <1>2, AzureClusterDepends
<1> QED
  BY <1>1, <1>2 DEF NamesAwaited, PathsRecorded

(* As long as anything is left in the cluster, so are its machines.        *)
THEOREM MachinesGoLast ==
    ASSUME NEW namespaces, Deploys(AzureK8sControllers(namespaces)),
           \A r \in Resources : Unwaited \cap (Names[r] \cup Paths[r]) \subseteq Races[r]
    PROVE  Spec => []PathsKept
BY AzureClusterAwaited, RecordedPathsKept

(* The load balancer and its name wait for the stack alone, as long as     *)
(* nothing else is declared for them.                                      *)
Way == {<<"cluster">>, <<"load-balancer">>, <<"lb-endpoint">>}

Elsewhere(f) == \A e \in f : e[1][1] \notin {"cluster", "load-balancer", "lb-endpoint"}

LEMMA EachElsewhere ==
    ASSUME NEW f, NEW kind, kind \notin {"cluster", "load-balancer", "lb-endpoint"},
           NEW indices, \A i \in indices : IsTuple(i), \A e \in f : \E i \in indices : e[1] = <<kind>> \o i
    PROVE  Elsewhere(f)
<1> SUFFICES ASSUME NEW e \in f PROVE e[1][1] = kind
  BY DEF Elsewhere
<1>1. PICK i \in indices : e[1] = <<kind>> \o i
  OBVIOUS
<1> QED
  BY <1>1, KindKept

LEMMA OverlayElsewhere == ASSUME NEW f, NEW g PROVE Elsewhere(f @@ g) <=> Elsewhere(f) /\ Elsewhere(g)
BY DEF Elsewhere, @@

(* The stack around the machines.                                          *)
LEMMA StackElsewhere ==
    /\ Elsewhere(CreateBackupsContainer)
    /\ Elsewhere(AzureKubernetesRootca @@ AzureKubernetesProxyRootca @@ AzureEtcdRootCa)
    /\ Elsewhere(AzureAdminClientCert @@ AzureServiceAccountKeypair)
    /\ Elsewhere(CreateVault("agents", AgentSecrets)) /\ Elsewhere(CreateVault("controllers", ControllerSecrets))
    /\ Elsewhere(CreatePodNsg) /\ Elsewhere(CreateInternalEndpoint)
    /\ Elsewhere(CreateKubernetesAad) /\ Elsewhere(AzureCreateControllers) /\ Elsewhere(AzureK8sProvider)
<1>1. Elsewhere(CreateBackupsContainer) /\ Elsewhere(CreatePodNsg) /\ Elsewhere(CreateInternalEndpoint)
  BY DEF CreateBackupsContainer, CreatePodNsg, CreateInternalEndpoint, Elsewhere, :>, @@
<1>2. Elsewhere(AzureKubernetesRootca @@ AzureKubernetesProxyRootca @@ AzureEtcdRootCa)
  BY DEF AzureKubernetesRootca, AzureKubernetesProxyRootca, AzureEtcdRootCa, RootCa, Elsewhere, :>, @@
<1>3. Elsewhere(AzureAdminClientCert @@ AzureServiceAccountKeypair)
  BY DEF AzureAdminClientCert, AdminClientCert, AzureServiceAccountKeypair, ServiceAccountKeypair,
         Elsewhere, :>, @@
<1>4. ASSUME NEW name, NEW secrets PROVE Elsewhere(CreateVault(name, secrets))
  BY DEF CreateVault, Elsewhere, :>, @@
<1>5. Elsewhere(CreateKubernetesAad)
  <2> DEFINE ids == {<<"app">>, <<"oauth">>}
             uuids == Each("uuid", ids, LAMBDA u : {<<"cluster">>})
             app == <<"apiserver-app">> :> {<<"cluster">>, <<"uuid", "app">>, <<"uuid", "oauth">>}
             consent == <<"admin-consent">> :> {<<"apiserver-app">>}
             principal == <<"apiserver-principal">> :> {<<"apiserver-app">>}
  <2>1. Elsewhere(uuids)
    <3>1. (\A i \in ids : IsTuple(i)) /\ \A e \in uuids : \E i \in ids : e[1] = <<"uuid">> \o i
      BY NameIsTuple DEF Each
    <3> HIDE DEF ids, uuids
    <3> QED
      BY <3>1, EachElsewhere
  <2>2. Elsewhere(app) /\ Elsewhere(consent) /\ Elsewhere(principal)
    BY DEF Elsewhere, :>
  <2>3. Elsewhere(CreateClientApplication) /\ Elsewhere(CreateBootstrapMsi)
    BY DEF CreateClientApplication, CreateBootstrapMsi, Elsewhere, :>, @@
  <2>4. Elsewhere(CreateApiserverApplication)
    <3>1. CreateApiserverApplication = uuids @@ app @@ consent @@ principal
      BY DEF CreateApiserverApplication
    <3> HIDE DEF uuids, app, consent, principal
    <3> QED
      BY <2>1, <2>2, <3>1, OverlayElsewhere
  <2> QED
    BY <2>3, <2>4, OverlayElsewhere DEF CreateKubernetesAad
<1>6. Elsewhere(AzureCreateControllers)
  <2>1. Elsewhere(CreateControllerAsgAndNsg) /\ Elsewhere(CreateVmss)
    BY DEF CreateControllerAsgAndNsg, CreateVmss, Elsewhere, :>, @@
  <2>2. Elsewhere(AssignSysenvVmRoles(<<"vmss">>, ControllerScopes))
    <3> DEFINE roles == {<<"vmss">> \o s : s \in ControllerScopes \cup {<<"sysenv-vault">>}}
               f == AssignSysenvVmRoles(<<"vmss">>, ControllerScopes)
    <3>1. \A i \in roles : IsTuple(i)
      BY PairIsTuple DEF ControllerScopes
    <3>2. \A e \in f : \E i \in roles : e[1] = <<"vm-role">> \o i
      BY DEF AssignSysenvVmRoles, Each
    <3> HIDE DEF roles, f
    <3>3. Elsewhere(f)
      BY <3>1, <3>2, EachElsewhere
    <3> QED
      BY <3>3 DEF f
  <2> QED
    BY <2>1, <2>2, OverlayElsewhere DEF AzureCreateControllers
<1>7. Elsewhere(AzureK8sProvider)
  BY DEF AzureK8sProvider, Elsewhere, :>
<1> QED
  BY <1>1, <1>2, <1>3, <1>4, <1>5, <1>6, <1>7

(* And what is in the cluster.                                             *)
LEMMA PersonalizerElsewhere ==
    ASSUME NEW namespaces, \A n \in namespaces : IsTuple(n) PROVE Elsewhere(AzureClusterPersonalizer(namespaces))
<1>1. ASSUME NEW api
      PROVE  /\ Elsewhere(KubeletRolebinding(api)) /\ Elsewhere(KubeletCSRRenewal(api))
             /\ Elsewhere(AADNodeBootstrapper(api)) /\ Elsewhere(NodeSecretsRole(api))
             /\ Elsewhere(ControllerMonitoring(api)) /\ Elsewhere(NodeMonitoring(api))
             /\ Elsewhere(CrossClusterServiceAccount(api))
  BY DEF KubeletRolebinding, KubeletCSRRenewal, AADNodeBootstrapper, NodeSecretsRole, ControllerMonitoring,
         NodeMonitoring, CrossClusterServiceAccount, Elsewhere, :>, @@
<1>2. ASSUME NEW api PROVE Elsewhere(KubeMetrics(api))
  <2>1. /\ Elsewhere(Each("metrics-role", {<<"reader">>, <<"server">>}, LAMBDA r : {<<"metrics-account">>}))
        /\ Elsewhere(Each("metrics-rolebinding", {<<"reader">>, <<"auth-delegator">>, <<"server">>},
                          LAMBDA b : {<<"metrics-account">>}))
    <3> DEFINE names == {<<"reader">>, <<"auth-delegator">>, <<"server">>}
               f == Each("metrics-role", {<<"reader">>, <<"server">>}, LAMBDA r : {<<"metrics-account">>})
               g == Each("metrics-rolebinding", names, LAMBDA b : {<<"metrics-account">>})
    <3>1. /\ \A i \in names : IsTuple(i)
          /\ \A e \in f : \E i \in names : e[1] = <<"metrics-role">> \o i
          /\ \A e \in g : \E i \in names : e[1] = <<"metrics-rolebinding">> \o i
      BY NameIsTuple DEF Each
    <3> HIDE DEF names, f, g
    <3>2. Elsewhere(f) /\ Elsewhere(g)
      BY <3>1, EachElsewhere
    <3> QED
      BY <3>2 DEF f, g, names
  <2>2. Elsewhere(<<"metrics-account">> :> api) /\ Elsewhere(MetricsServer)
    BY DEF MetricsServer, Elsewhere, :>, @@
  <2> QED
    BY <2>1, <2>2, OverlayElsewhere DEF KubeMetrics, MetricsRoles
<1>3. ASSUME NEW api, NEW charts, \A c \in charts : IsTuple(c) PROVE Elsewhere(HelmChart(api, charts))
  <2> DEFINE f == HelmChart(api, charts)
  <2>1. \A e \in f : \E i \in charts : e[1] = <<"chart">> \o i
    BY DEF HelmChart, Each
  <2> HIDE DEF f
  <2>2. Elsewhere(f)
    BY <1>3, <2>1, EachElsewhere
  <2> QED
    BY <2>2 DEF f
<1>4. ASSUME NEW api PROVE Elsewhere(Traefik(api)) /\ Elsewhere(Charts(api, {}))
  <2>1. \A c \in {<<"traefik">>} : IsTuple(c)
    BY NameIsTuple
  <2>2. \A c \in DefaultCharts \cup {} : IsTuple(c)
    BY NameIsTuple DEF DefaultCharts
  <2> QED
    BY <1>3, <2>1, <2>2 DEF Traefik, Charts
<1>5. ASSUME NEW api PROVE Elsewhere(Namespaces(api, namespaces))
  <2> DEFINE names == DefaultNamespaces \cup namespaces
             f == Namespaces(api, namespaces)
  <2>1. \A i \in DefaultNamespaces : IsTuple(i)
    BY NameIsTuple DEF DefaultNamespaces
  <2>2. \A i \in names : IsTuple(i)
    BY <2>1
  <2>3. \A e \in f : \E i \in names : e[1] = <<"namespace">> \o i
    BY DEF Namespaces, Each
  <2> HIDE DEF names, f
  <2>4. Elsewhere(f)
    BY <2>2, <2>3, EachElsewhere
  <2> QED
    BY <2>4 DEF f
<1> QED
  BY <1>1, <1>2, <1>4, <1>5, OverlayElsewhere DEF AzureClusterPersonalizer

LEMMA WayDeclared ==
    ASSUME NEW namespaces, \A n \in namespaces : IsTuple(n), NEW e \in AzureK8sControllers(namespaces).needs
    PROVE  /\ e[1] = <<"cluster">> => e[2] = {}
           /\ e[1] = <<"load-balancer">> => e[2] = {<<"cluster">>}
           /\ e[1] = <<"lb-endpoint">> => e[2] = {<<"cluster">>, <<"load-balancer">>}
<1>1. CASE e[1][1] \notin {"cluster", "load-balancer", "lb-endpoint"}
  BY <1>1
<1>2. CASE e = <<<<"cluster">>, {}>> \/ e = <<<<"load-balancer">>, {<<"cluster">>}>>
           \/ e = <<<<"lb-endpoint">>, {<<"cluster">>, <<"load-balancer">>}>>
  BY <1>2
<1> QED
  BY <1>1, <1>2, StackElsewhere, PersonalizerElsewhere
     DEF AzureK8sControllers, Program, Elsewhere, CreateLb, CreateLbEndpoint, :>, @@

(* Thus nothing on the way waits for what goes that way.                   *)
LEMMA WayFirst ==
    ASSUME NEW namespaces, \A n \in namespaces : IsTuple(n), DeploysOnly(AzureK8sControllers(namespaces))
    PROVE  /\ Way \subseteq Resources
           /\ WaitsFor[<<"cluster">>] = {} /\ WaitsFor[<<"load-balancer">>] \subseteq {<<"cluster">>}
           /\ WaitsFor[<<"lb-endpoint">>] \subseteq {<<"cluster">>, <<"load-balancer">>}
<1> DEFINE p == AzureK8sControllers(namespaces)
           Before(r) == CASE r = <<"cluster">> -> {}
                          [] r = <<"load-balancer">> -> {<<"cluster">>}
                          [] r = <<"lb-endpoint">> -> {<<"cluster">>, <<"load-balancer">>}
                          [] OTHER -> WaitsFor[r]
           R == [r \in Resources |-> Before(r)]
<1>9. /\ <<"cluster">> :> {} \subseteq p.needs /\ CreateLb \subseteq p.needs
      /\ CreateLbEndpoint \subseteq p.needs
  BY DEF AzureK8sControllers, Program, @@
<1>1. Way \subseteq Resources
  <2>1. Way \subseteq About(p.needs)
    BY <1>9 DEF CreateLb, CreateLbEndpoint, About, Way, :>
  <2> QED
    BY <2>1 DEF DeploysOnly, Deploys
<1>2. R \in Relation
  BY <1>1, ProgramsAssumption DEF Relation, Way
<1>3. Obeyed(p.needs, WaitsFor) /\ Obeyed(p.awaits, WaitsFor) /\ About(p.needs) = Resources
  BY ProgramsAssumption DEF DeploysOnly, Deploys, Obeyed, About
<1>4. Obeyed(p.needs, R)
  <2>1. ASSUME NEW e \in p.needs PROVE e[2] \subseteq R[e[1]]
    <3>1. e[1] \in Resources /\ e[2] \subseteq WaitsFor[e[1]]
      BY <1>3 DEF Obeyed, About
    <3>2. e[2] \subseteq Before(e[1])
      BY <3>1, WayDeclared
    <3> QED
      BY <3>1, <3>2
  <2> QED
    BY <2>1 DEF Obeyed
<1>5. Obeyed(p.awaits, R)
  <2>1. p.awaits = AzureK8sProviderAwaits
    BY DEF AzureK8sControllers, Program
  <2>2. <<"k8s">> \in Resources
    <3>1. AzureK8sProvider \subseteq p.needs
      BY DEF AzureK8sControllers, Program, @@
    <3> QED
      BY <1>3, <3>1 DEF AzureK8sProvider, About, :>
  <2>3. R[<<"k8s">>] = WaitsFor[<<"k8s">>]
    BY <2>2
  <2> HIDE DEF R
  <2> QED
    BY <1>3, <2>1, <2>3, EntryObeyed DEF AzureK8sProviderAwaits
<1>6. Transitive(R)
  <2> SUFFICES ASSUME NEW r \in Resources, NEW d \in R[r] PROVE R[d] \subseteq R[r]
    BY DEF Transitive
  <2>1. R[<<"cluster">>] = {} /\ R[<<"load-balancer">>] = {<<"cluster">>}
        /\ R[<<"lb-endpoint">>] = {<<"cluster">>, <<"load-balancer">>}
    BY <1>1 DEF Way
  <2>4. R[<<"load-balancer">>] \subseteq WaitsFor[<<"load-balancer">>]
    BY <1>9, <1>3, <2>1 DEF Obeyed, CreateLb, :>
  <2>5. R[<<"lb-endpoint">>] \subseteq WaitsFor[<<"lb-endpoint">>]
    BY <1>9, <1>3, <2>1 DEF Obeyed, CreateLbEndpoint, :>
  <2>6. \A x \in Resources \ Way : R[x] = WaitsFor[x]
    BY DEF Way
  <2> HIDE DEF R
  <2>2. CASE r \in Way
    BY <1>1, <2>1, <2>2 DEF Way
  <2>3. CASE r \notin Way
    <3>1. R[r] = WaitsFor[r] /\ d \in Resources
      BY <2>3, <2>6, ProgramsAssumption DEF Relation
    <3>2. WaitsFor[d] \subseteq WaitsFor[r]
      BY <3>1, ProgramsAssumption DEF Transitive
    <3>3. d \in Way => R[d] \subseteq WaitsFor[d]
      BY <2>1, <2>4, <2>5 DEF Way
    <3>4. d \notin Way => R[d] = WaitsFor[d]
      BY <2>6, <3>1
    <3> QED
      BY <3>1, <3>2, <3>3, <3>4
  <2> QED
    BY <2>2, <2>3
<1>7. \A r \in Resources : WaitsFor[r] \subseteq R[r]
  BY <1>2, <1>4, <1>5, <1>6 DEF DeploysOnly
<1> QED
  BY <1>1, <1>7 DEF Way

(* And it passes the API of the cloud alone.                               *)
LEMMA AzureWayLeads ==
    ASSUME NEW namespaces, Deploys(AzureK8sControllers(namespaces)),
           NEW r \in Resources, WaitsFor[r] \subseteq Way
    PROVE  Paths[r] = {}
<1>1. <<"vmss">> \notin Paths[r]
  BY AzureClusterDepends DEF Unwaited, Way
<1>2. AzureK8sControllers(namespaces).paths =
        ForAll(About(AzureClusterPersonalizer(namespaces)), Unwaited \cup {<<"vmss">>})
  BY DEF AzureK8sControllers, Program, Unwaited
<1>3. Paths[r] \in {{}, Unwaited \cup {<<"vmss">>}}
  BY <1>2, ForAllAt DEF Deploys
<1> QED
  BY <1>1, <1>3

(* The way goes before all else.                                           *)
LEMMA AzureOrderly ==
    ASSUME NEW namespaces, \A n \in namespaces : IsTuple(n), DeploysOnly(AzureK8sControllers(namespaces))
    PROVE  Orderly
<1> DEFINE R == [r \in Resources |-> IF r \in Way THEN WaitsFor[r] ELSE WaitsFor[r] \cup Way]
<1>1. Deploys(AzureK8sControllers(namespaces))
  BY DEF DeploysOnly
<1>2. Way \subseteq Resources /\ \A r \in Way : WaitsFor[r] \subseteq Way
  BY WayFirst DEF Way
<1>3. R \in Relation /\ \A r \in Resources : r \notin R[r]
  BY <1>2, ProgramsAssumption DEF Relation
<1>4. Transitive(R)
  <2> SUFFICES ASSUME NEW r \in Resources, NEW d \in R[r] PROVE R[d] \subseteq R[r]
    BY DEF Transitive
  <2>1. d \in Resources
    BY <1>2, ProgramsAssumption DEF Relation
  <2>2. d \in WaitsFor[r] => WaitsFor[d] \subseteq WaitsFor[r]
    BY ProgramsAssumption DEF Transitive
  <2> QED
    BY <1>2, <2>1, <2>2
<1>5. ASSUME NEW r \in Resources PROVE WaitsFor[r] \cup Names[r] \cup Paths[r] \subseteq R[r]
  <2>1. Names[r] \cup Paths[r] \subseteq WaitsFor[r] \cup Unwaited
    BY <1>1, AzureNamesAwaited, AzureClusterDepends
  <2>2. Unwaited \subseteq Way
    BY DEF Unwaited, Way
  <2>3. CASE r \notin Way
    BY <2>1, <2>2, <2>3
  <2>4. CASE r \in Way
    <3>1. Names[r] = {}
      <4>1. At(CreateVmssUses @@ NodeMonitoringUses, r) = {}
        BY <2>4 DEF Way, At, CreateVmssUses, NodeMonitoringUses, :>, @@
      <4>2. AzureK8sControllers(namespaces).uses = CreateVmssUses @@ NodeMonitoringUses
        BY DEF AzureK8sControllers, Program
      <4> QED
        BY <1>1, <4>1, <4>2 DEF Deploys
    <3>2. Paths[r] = {}
      BY <1>1, <1>2, <2>4, AzureWayLeads
    <3> QED
      BY <2>4, <3>1, <3>2
  <2> QED
    BY <2>3, <2>4
<1> HIDE DEF R
<1> QED
  BY <1>3, <1>4, <1>5 DEF Orderly

(* Whatever an update or a destroy has left, an update has something to    *)
(* create that finds all it needs: the load balancer, which the machines   *)
(* are given the name of and nobody waits for, comes by itself.            *)
THEOREM AzureControllersGetOn ==
    ASSUME NEW namespaces, \A n \in namespaces : IsTuple(n), DeploysOnly(AzureK8sControllers(namespaces)),
           \A r \in Resources : Unwaited \cap (Names[r] \cup Paths[r]) \subseteq Races[r]
    PROVE  Spec => []GetsOn
BY AzureClusterAwaited, AzureOrderly, NeverStuck DEF DeploysOnly

-----------------------------------------------------------------------------
(* pritunl                                                                 *)

(* A machine whose database is elsewhere finds the secret that says where, *)
(* as long as the role that lets it read it, which is given to the         *)
(* identity it gets only once it runs, is not what it misses.              *)
THEOREM AzurePritunlBoots ==
    ASSUME NEW external \in BOOLEAN, NEW routes, Deploys(AzurePritunl(external, routes)),
           <<"mongo-role">> \in Races[<<"vm">>]
    PROVE  Spec => []BootsComplete
<1> DEFINE p == AzurePritunl(external, routes)
           secret == IF external THEN {<<"mongo-secret">>} ELSE {}
           vm == <<"vm">>
<1>1. /\ p.reads = IF external THEN vm :> {<<"mongo-secret">>, <<"mongo-role">>} ELSE Nothing
      /\ <<vm, {<<"nic">>, <<"disk">>} \cup secret>> \in p.needs
  BY DEF AzurePritunl, Program, @@, :>
<1>2. {<<"nic">>, <<"disk">>} \cup secret \subseteq Recorded[vm]
  BY <1>1 DEF Deploys, Obeyed
<1>3. ASSUME NEW g \in Resources, NEW x \in Reads[g] \ Races[g] PROVE x \in Recorded[g]
  <2>1. x \in At(p.reads, g)
    BY <1>3 DEF Deploys
  <2>2. external
    BY <1>1, <2>1, NothingAt
  <2>3. g = vm /\ x \in {<<"mongo-secret">>, <<"mongo-role">>}
    BY <1>1, <2>1, <2>2, InAt DEF :>
  <2>4. x = <<"mongo-secret">>
    BY <1>3, <2>3
  <2> QED
    BY <1>2, <2>2, <2>3, <2>4
<1>4. ReadsRecorded
  BY <1>3 DEF ReadsRecorded
<1> QED
  BY <1>4, RecordedReadsComplete

=============================================================================
