---------------------------- MODULE AwsControllers ----------------------------
(***************************************************************************)
(* The module k8s_controllers of AWS: one cluster with a controller in     *)
(* each of some zones, and what its personalizers put into the cluster     *)
(* through the provider <<"k8s">>.  What the controllers do once they boot *)
(* is in ClusterBootstrap.                                                 *)
(***************************************************************************)
EXTENDS AwsInstances, Kubernetes

K8s == {<<"k8s">>}

-----------------------------------------------------------------------------
(* The stack around the controllers                                        *)

CreateS3BackupsBucket ==
    <<"backups">> :> {} @@ <<"backups-block">> :> {<<"backups">>}

CreateKubernetesRootca == RootCa("ca")

CreateKubernetesProxyRootca == RootCa("proxy-ca")

CreateEtcdRootCa == RootCa("etcd-ca")

CreateAdminClientCert == AdminClientCert

(* The parameters controllers boot from, and what each is the value of.    *)
SsmVars ==
    {<<"ca.key", <<"key", "ca">>>>, <<"ca.crt", <<"certificate", "ca">>>>,
     <<"proxy-ca.key", <<"key", "proxy-ca">>>>, <<"proxy-ca.crt", <<"certificate", "proxy-ca">>>>,
     <<"etcd-ca.key", <<"key", "etcd-ca">>>>, <<"etcd-ca.crt", <<"certificate", "etcd-ca">>>>,
     <<"service_account.key", <<"key", "sa">>>>, <<"service_account.pem", <<"key", "sa">>>>}

SsmParams == {<<"parameter", v[1]>> : v \in SsmVars}

CreateSsmParameters == UNION {<<"parameter", v[1]>> :> {<<"cluster">>, v[2]} : v \in SsmVars}

CreateNodeTerminationSqsQueue ==
    <<"queue">> :> {<<"cluster">>} @@ <<"queue-policy">> :> {<<"queue">>}

Events == {<<"asg-termination">>, <<"spot-termination">>, <<"rebalance">>, <<"state-change">>, <<"scheduled-change">>}

CreateNodeTerminationEventbridgeRules ==
    Each("event-rule", Events, LAMBDA e : {<<"cluster">>})
    @@ Each("event-target", Events, LAMBDA e : {<<"event-rule">> \o e, <<"queue">>})

CreateControllerRole ==
    GenerateInstanceProfile({<<"cluster">>},
        DefaultPolicies \cup {"ssm-path", "s3-e2d-backups", "eni-manage-k8s", "assumable-roles", "ecr-fetch"})
    @@ <<"policy", "lifecycle-put">> :> {<<"role">>}

CreateUserRoles(roles) == Each("user-role", roles, LAMBDA r : {<<"cluster">>})

CreateNodeBootstrapRole == <<"bootstrap-role">> :> {<<"cluster">>}

CreateEbsControllerRole ==
    <<"ebs-role">> :> {<<"cluster">>} @@ <<"ebs-policy">> :> {<<"ebs-role">>}

CreateNodeTerminationHandlerRole ==
    <<"handler-role">> :> {<<"cluster">>} @@ <<"handler-policy">> :> {<<"handler-role">>, <<"queue">>}

CreateClusterAutoscalerRole ==
    <<"autoscaler-role">> :> {<<"cluster">>} @@ <<"autoscaler-policy">> :> {<<"autoscaler-role">>}

CreateControllerSecurityGroup == <<"controller-group">> :> {<<"cluster">>}

CreatePodSecurityGroup == <<"pod-group">> :> {<<"cluster">>}

(* Mutant: the user data is given the names of the parameters as they are  *)
(* configured, and not as outputs.                                         *)
CreateControllerGroups_PlainNames(zones) ==
    Each("eni", zones, LAMBDA z : {<<"cluster">>, <<"controller-group">>})
    @@ Each("launch-template", zones, LAMBDA z : {<<"profile">>, <<"eni">> \o z})
    @@ Each("asg", zones, LAMBDA z : {<<"launch-template">> \o z})

CreateControllerGroups(zones) ==
    Each("eni", zones, LAMBDA z : {<<"cluster">>, <<"controller-group">>})
    @@ Each("launch-template", zones, LAMBDA z : {<<"profile">>, <<"eni">> \o z} \cup SsmParams)
    @@ Each("asg", zones, LAMBDA z : {<<"launch-template">> \o z})

CreateClusteripRoutes(zones) == Each("clusterip-route", zones, LAMBDA z : {<<"eni">> \o z})

CreateControllers(zones, clusterIpRoutes) ==
    CreateControllerRole @@ CreateControllerSecurityGroup @@ CreateControllerGroups(zones)
    @@ CreateClusteripRoutes(IF clusterIpRoutes THEN zones ELSE {})
    @@ Each("zone-endpoint", zones, LAMBDA z : {<<"cluster">>, <<"eni">> \o z})
    @@ <<"endpoint">> :> {<<"cluster">>} \cup All("eni", zones)

(* setup of a controller, at its first boot: what ssm-path and the role's  *)
(* other policies let it read, the parameters and its network interface.   *)
ControllerReads(zone) ==
    SsmParams \cup {<<"eni">> \o zone} \cup Policies({"ssm-path", "ssm-default", "ec2-default", "eni-manage-k8s"})

-----------------------------------------------------------------------------
(* The personalizers: everything in the cluster goes through the provider. *)

(* Mutant: the provider does not wait for the controllers.                 *)
K8sProvider_NoWait(zones) == <<"k8s">> :> {<<"cluster">>}

K8sProvider(zones) == <<"k8s">> :> {<<"cluster">>} \cup All("asg", zones)

(* kubeconfig.future(): the program waits for the name of the endpoint and *)
(* the certificates itself, and the provider is not known to depend on     *)
(* them.                                                                   *)
(* Mutant: it is put together from the configured names.                   *)
K8sProviderAwaits_PlainEndpoint ==
    <<"k8s">> :> {<<"certificate", "ca">>, <<"certificate", "admin">>, <<"key", "admin">>}

K8sProviderAwaits ==
    <<"k8s">> :> {<<"endpoint">>, <<"certificate", "ca">>, <<"certificate", "admin">>, <<"key", "admin">>}

ConfigureKubeletRolebinding == KubeletRolebinding(K8s)

ConfigureNodeSecretsRole == NodeSecretsRole(K8s)

ConfigureControllerMonitoring == ControllerMonitoring(K8s)

ConfigureNodeMonitoring == NodeMonitoring(K8s)

ConfigureCrossClusterAccessServiceaccount == CrossClusterServiceAccount(K8s)

ConfigureMetricsRoles == MetricsRoles(K8s)

ConfigureMetricsServer == MetricsServer

(* The map of roles to groups, and the kind of the same name; the ARNs of  *)
(* the roles are awaited as well.                                          *)
ConfigureIamAuthenticator == <<"aws-auth">> :> K8s @@ <<"aws-auth-crd">> :> K8s

IamAuthenticatorAwaits(roles) ==
    <<"aws-auth">> :> {<<"bootstrap-role">>} \cup All("user-role", roles)

InstallKubeProxy ==
    <<"kube-proxy-account">> :> K8s
    @@ <<"kube-proxy-rolebinding">> :> {<<"kube-proxy-account">>}
    @@ <<"kube-proxy">> :> {<<"kube-proxy-account">>, <<"kube-proxy-rolebinding">>, <<"endpoint">>}

InstallCni == HelmChart(K8s, {<<"aws-cni">>})

(* One for every zone with a subnet for pods; their kind comes with the    *)
(* chart.                                                                  *)
CreateEniconfigs(zones) ==
    Each("eniconfig", zones, LAMBDA z : {<<"chart", "aws-cni">>, <<"pod-group">>})

ConfigureCni(zones) == InstallKubeProxy @@ InstallCni @@ CreateEniconfigs(zones)

ConfigureCoredns == HelmChart(K8s, {<<"coredns">>})

ConfigureTraefik == Traefik(K8s)

ConfigureAwsEbsCsi == HelmChart(K8s \cup {<<"ebs-role">>}, {<<"ebs-csi">>})

AwsNamespaces(extras) == Namespaces(K8s, extras)

(* Secrets name the namespace they are for; it may be one of those the     *)
(* program creates.                                                        *)
ExtraSecrets(namespaces) == Each("extra-secret", namespaces, LAMBDA n : K8s)

ExtraSecretsUse(namespaces) == Each("extra-secret", namespaces, LAMBDA n : {<<"namespace">> \o n})

ConfigureDeployments(extras) ==
    HelmChart(K8s, {<<"kubelet-rubber-stamp">>, <<"kube2iam">>, <<"kubernetes-dashboard">>} \cup extras)

ConfigureDatadogDeployment == ClusterAgentDeployment(K8s)

ConfigureDatadogRbac == ClusterAgentRbac(K8s)

ConfigureDatadogServices == ClusterAgentServices(K8s)

ConfigureDatadogClusterAgent ==
    ConfigureDatadogDeployment @@ ConfigureDatadogRbac @@ ConfigureDatadogServices

ConfigureSealedSecrets == HelmChart(K8s, {<<"sealed-secrets-controller">>})

ConfigureNodeFeatureDiscovery == HelmChart(K8s, {<<"node-feature-discovery">>})

ConfigureAwsNodeTerminationHandler ==
    HelmChart(K8s \cup {<<"handler-role">>, <<"queue">>}, {<<"termination-handler">>})

ConfigureClusterAutoscaler ==
    <<"priority-expander">> :> K8s
    @@ HelmChart(K8s \cup {<<"autoscaler-role">>}, {<<"cluster-autoscaler">>})

PersonalizeCluster(zones, namespaces, secrets, charts) ==
    ConfigureKubeletRolebinding @@ ConfigureNodeSecretsRole
    @@ ConfigureControllerMonitoring @@ ConfigureNodeMonitoring
    @@ ConfigureCrossClusterAccessServiceaccount @@ ConfigureMetricsRoles @@ ConfigureMetricsServer
    @@ ConfigureIamAuthenticator @@ ConfigureCni(zones) @@ ConfigureCoredns
    @@ ConfigureTraefik @@ ConfigureAwsEbsCsi @@ AwsNamespaces(namespaces)
    @@ ExtraSecrets(secrets) @@ ConfigureDeployments(charts) @@ ConfigureDatadogClusterAgent
    @@ ConfigureSealedSecrets @@ ConfigureNodeFeatureDiscovery
    @@ ConfigureAwsNodeTerminationHandler @@ ConfigureClusterAutoscaler

-----------------------------------------------------------------------------
(* The requests to the API server are sent to the name of the endpoint and *)
(* answered by a controller.                                               *)
K8sControllers(zones, clusterIpRoutes, roles, namespaces, secrets, charts) ==
    LET inside == PersonalizeCluster(zones, namespaces, secrets, charts)
    IN  [Program(<<"cluster">> :> {} @@ CreateS3BackupsBucket
                 @@ CreateKubernetesRootca @@ CreateKubernetesProxyRootca @@ CreateEtcdRootCa
                 @@ CreateAdminClientCert @@ ServiceAccountKeypair @@ CreateSsmParameters
                 @@ CreateNodeTerminationSqsQueue @@ CreateNodeTerminationEventbridgeRules
                 @@ CreateUserRoles(roles) @@ CreateNodeBootstrapRole @@ CreateEbsControllerRole
                 @@ CreateClusterAutoscalerRole @@ CreateNodeTerminationHandlerRole
                 @@ CreateControllers(zones, clusterIpRoutes) @@ CreatePodSecurityGroup
                 @@ K8sProvider(zones) @@ inside) EXCEPT
            !.awaits = K8sProviderAwaits @@ IamAuthenticatorAwaits(roles),
            !.uses = ExtraSecretsUse(secrets) @@ NodeMonitoringUses,
            !.paths = ForAll(About(inside), {<<"endpoint">>} \cup All("asg", zones)),
            !.reads = Each("asg", zones, LAMBDA z : ControllerReads(z))]

=============================================================================
