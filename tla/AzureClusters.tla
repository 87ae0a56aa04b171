---------------------------- MODULE AzureClusters ----------------------------
(***************************************************************************)
(* The modules k8s_controllers and k8s_agents of Azure.  Here the          *)
(* controllers are one scale set behind a load balancer.                   *)
(***************************************************************************)
EXTENDS AzureSysEnv, Kubernetes

-----------------------------------------------------------------------------
(* k8s_controllers                                                         *)

CreateBackupsContainer ==
    <<"backups-account">> :> {<<"cluster">>} @@ <<"backups-container">> :> {<<"backups-account">>}

AzureKubernetesRootca == RootCa("ca")

AzureKubernetesProxyRootca == RootCa("proxy-ca")

AzureEtcdRootCa == RootCa("etcd-ca")

AzureAdminClientCert == AdminClientCert

AzureServiceAccountKeypair == ServiceAccountKeypair

(* The vaults of the agents and of the controllers, and what each secret   *)
(* is the value of.                                                        *)
AgentSecrets == {<<"CA-CRT", <<"certificate", "ca">>>>}

ControllerSecrets ==
    {<<"CA-KEY", <<"key", "ca">>>>,
     <<"PROXY-CA-KEY", <<"key", "proxy-ca">>>>, <<"PROXY-CA-CRT", <<"certificate", "proxy-ca">>>>,
     <<"ETCD-CA-KEY", <<"key", "etcd-ca">>>>, <<"ETCD-CA-CRT", <<"certificate", "etcd-ca">>>>,
     <<"SERVICE-ACCOUNT-KEY", <<"key", "sa">>>>, <<"SERVICE-ACCOUNT-PEM", <<"key", "sa">>>>}

SecretsOf(secrets) == {<<"secret", s[1]>> : s \in secrets}

CreateVault(name, secrets) ==
    <<"vault", name>> :> {<<"cluster">>}
    @@ UNION {<<"secret", s[1]>> :> {<<"vault", name>>, s[2]} : s \in secrets}

CreatePodNsg == <<"pod-nsg">> :> {<<"cluster">>}

(* Mutant: the load balancer is given the machines, and waits for them.    *)
CreateLb_AfterVmss == <<"load-balancer">> :> {<<"cluster">>, <<"vmss">>}

CreateLb == <<"load-balancer">> :> {<<"cluster">>}

CreateLbEndpoint == <<"lb-endpoint">> :> {<<"cluster">>, <<"load-balancer">>}

CreateInternalEndpoint == <<"internal-endpoint">> :> {<<"cluster">>}

CreateApiserverApplication ==
    Each("uuid", {<<"app">>, <<"oauth">>}, LAMBDA u : {<<"cluster">>})
    @@ <<"apiserver-app">> :> {<<"cluster">>, <<"uuid", "app">>, <<"uuid", "oauth">>}
    @@ <<"admin-consent">> :> {<<"apiserver-app">>}
    @@ <<"apiserver-principal">> :> {<<"apiserver-app">>}

CreateClientApplication == <<"client-app">> :> {<<"apiserver-app">>}

CreateBootstrapMsi ==
    <<"bootstrap-identity">> :> {<<"apiserver-app">>}
    @@ <<"bootstrap-assignment">> :> {<<"bootstrap-identity">>, <<"apiserver-principal">>}

CreateKubernetesAad == CreateApiserverApplication @@ CreateClientApplication @@ CreateBootstrapMsi

CreateControllerAsgAndNsg ==
    <<"controller-asg">> :> {<<"cluster">>} @@ <<"controller-nsg">> :> {<<"cluster">>, <<"controller-asg">>}

(* The pool of the load balancer is named by an identifier put together    *)
(* from configured names, so that nothing waits for the load balancer.     *)
CreateVmss ==
    <<"vmss">> :> {<<"cluster">>, <<"controller-asg">>, <<"controller-nsg">>, <<"pod-nsg">>, <<"apiserver-app">>}
                  \cup SecretsOf(ControllerSecrets) \cup SecretsOf(AgentSecrets)

CreateVmssUses == <<"vmss">> :> {<<"load-balancer">>}

ControllerScopes == {<<"controller-vault">>, <<"agent-vault">>, <<"resource-group">>, <<"gallery">>, <<"zone">>}

AzureCreateControllers ==
    CreateControllerAsgAndNsg @@ CreateVmss @@ AssignSysenvVmRoles(<<"vmss">>, ControllerScopes)

(* download_vault_secrets, at the first boot of a controller.              *)
AzureControllerReads ==
    SecretsOf(ControllerSecrets) \cup SecretsOf(AgentSecrets)
    \cup {<<"vm-role", "vmss", "controller-vault">>, <<"vm-role", "vmss", "agent-vault">>}

AADNodeBootstrapper(api) == <<"bootstrapper-rolebinding">> :> api \cup {<<"bootstrap-identity">>}

(* CoreDNS, the network plug-in and the cluster agent are commented out.   *)
AzureClusterPersonalizer(namespaces) ==
    LET api == {<<"k8s">>, <<"cluster">>}
    IN  KubeletRolebinding(api) @@ KubeletCSRRenewal(api) @@ AADNodeBootstrapper(api)
        @@ NodeSecretsRole(api) @@ ControllerMonitoring(api) @@ NodeMonitoring(api)
        @@ CrossClusterServiceAccount(api) @@ KubeMetrics(api) @@ Traefik(api)
        @@ Namespaces(api, namespaces) @@ Charts(api, {})

(* The provider waits for the machines, but not for the load balancer and  *)
(* the record that its requests go through; kubeconfig.future() again.     *)
(* Mutant: it does not wait for the machines either.                       *)
AzureK8sProvider_NoWait == <<"k8s">> :> {<<"cluster">>}

AzureK8sProvider == <<"k8s">> :> {<<"cluster">>, <<"vmss">>}

AzureK8sProviderAwaits ==
    <<"k8s">> :> {<<"certificate", "ca">>, <<"certificate", "admin">>, <<"key", "admin">>}

AzureK8sControllers(namespaces) ==
    LET inside == AzureClusterPersonalizer(namespaces)
    IN  [Program(<<"cluster">> :> {} @@ CreateBackupsContainer
                 @@ AzureKubernetesRootca @@ AzureKubernetesProxyRootca @@ AzureEtcdRootCa
                 @@ AzureAdminClientCert @@ AzureServiceAccountKeypair
                 @@ CreateVault("agents", AgentSecrets) @@ CreateVault("controllers", ControllerSecrets)
                 @@ CreatePodNsg @@ CreateLb @@ CreateLbEndpoint @@ CreateInternalEndpoint
                 @@ CreateKubernetesAad @@ AzureCreateControllers @@ AzureK8sProvider @@ inside) EXCEPT
            !.awaits = AzureK8sProviderAwaits,
            !.uses = CreateVmssUses @@ NodeMonitoringUses,
            !.paths = ForAll(About(inside), {<<"load-balancer">>, <<"lb-endpoint">>, <<"vmss">>}),
            !.reads = <<"vmss">> :> AzureControllerReads]

-----------------------------------------------------------------------------
(* k8s_agents: gateways are named by configured names as well, and so is   *)
(* their identity, which must be allowed to read the certificates.         *)

CreateGatewayIdentity(vaults) ==
    <<"gateway-identity">> :> {<<"cluster">>}
    @@ Each("certificate-access", vaults, LAMBDA v : {<<"gateway-identity">>})

BuildGateway(gateways) ==
    Each("frontend-ip", gateways, LAMBDA g : {<<"cluster">>})
    @@ Each("gateway", gateways, LAMBDA g : {<<"cluster">>, <<"frontend-ip">> \o g})

BuildGatewayUses(gateways, vaultOf) ==
    Each("gateway", gateways, LAMBDA g : {<<"gateway-identity">>, <<"certificate-access">> \o vaultOf[g]})

BuildSecurityGroups ==
    <<"asg">> :> {<<"cluster">>} @@ <<"nsg">> :> {<<"cluster">>, <<"asg">>} @@ <<"pod-nsg">> :> {<<"cluster">>}

BuildNodeGroup(group) ==
    <<"node-group">> \o group :> {<<"cluster">>, <<"asg">>, <<"nsg">>, <<"pod-nsg">>}
    @@ AssignSysenvVmRoles(<<"node-group">> \o group, {<<"resource-group">>})

BuildNodeGroupUses(groups, gatewaysOf) ==
    Each("node-group", groups, LAMBDA n : All("gateway", gatewaysOf[n]))

AzureK8sAgents(groups, gateways, vaults, gatewaysOf, vaultOf) ==
    [Program(<<"cluster">> :> {} @@ CreateGatewayIdentity(vaults) @@ BuildGateway(gateways)
             @@ BuildSecurityGroups @@ UNION {BuildNodeGroup(n) : n \in groups}) EXCEPT
        !.uses = BuildGatewayUses(gateways, vaultOf) @@ BuildNodeGroupUses(groups, gatewaysOf)]

=============================================================================
