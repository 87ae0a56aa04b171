------------------------------ MODULE Kubernetes ------------------------------
(***************************************************************************)
(* What both clouds put into a cluster: lib/kubernetes, whose components   *)
(* are those of Azure, and which the functions of the AWS personalizers    *)
(* repeat.  "api" is what everything in the cluster waits for: the         *)
(* provider, as the parent or inherited from it.                           *)
(***************************************************************************)
EXTENDS Programs

(* The rendered objects of a chart are one resource here. *)
HelmChart(api, charts) == Each("chart", charts, LAMBDA c : api)

KubeletRolebinding(api) == <<"kubelet-rolebinding">> :> api

KubeletCSRRenewal(api) == <<"csr-renewal">> :> api

NodeSecretsRole(api) ==
    <<"node-secrets-role">> :> api
    @@ <<"node-secrets-rolebinding">> :> {<<"node-secrets-role">>}

ControllerMonitoring(api) ==
    <<"controller-monitoring-account">> :> api
    @@ <<"controller-monitoring-role">> :> api
    @@ <<"controller-monitoring-rolebinding">> :>
           {<<"controller-monitoring-role">>, <<"controller-monitoring-account">>}
    @@ <<"extension-apiserver-rolebinding">> :>
           {<<"controller-monitoring-role">>, <<"controller-monitoring-account">>}

(* The token of the nodes' account is put into a secret of a known name,   *)
(* which its controller fills only when the account is there.              *)
NodeMonitoring(api) ==
    <<"node-monitoring-account">> :> api
    @@ <<"node-monitoring-secret">> :> {<<"node-monitoring-account">>}
    @@ <<"node-monitoring-role">> :> {<<"node-monitoring-account">>}
    @@ <<"node-monitoring-rolebinding">> :> {<<"node-monitoring-role">>, <<"node-monitoring-account">>}

NodeMonitoringUses == <<"node-monitoring-secret">> :> {<<"node-monitoring-account">>}

CrossClusterServiceAccount(api) ==
    <<"cross-cluster-account">> :> api
    @@ <<"cross-cluster-rolebinding">> :> {<<"cross-cluster-account">>}

(* The metrics server; all of it belongs to its account.                   *)
MetricsRoles(api) ==
    <<"metrics-account">> :> api
    @@ Each("metrics-role", {<<"reader">>, <<"server">>}, LAMBDA r : {<<"metrics-account">>})
    @@ Each("metrics-rolebinding", {<<"reader">>, <<"auth-delegator">>, <<"server">>},
            LAMBDA b : {<<"metrics-account">>})

MetricsServer ==
    <<"metrics-service">> :> {<<"metrics-account">>}
    @@ <<"metrics-deployment">> :> {<<"metrics-account">>}
    @@ <<"metrics-apiservice">> :> {<<"metrics-account">>}

KubeMetrics(api) == MetricsRoles(api) @@ MetricsServer

ClusterAgentDeployment(api) == <<"cluster-agent">> :> api

ClusterAgentRbac(api) ==
    <<"external-metrics-role">> :> api
    @@ <<"external-metrics-rolebinding">> :> {<<"external-metrics-role">>}

ClusterAgentServices(api) ==
    <<"external-metrics-service">> :> api
    @@ <<"admission-service">> :> api
    @@ <<"external-metrics-apiservice">> :> {<<"external-metrics-service">>}

DatadogClusterAgent(api) ==
    ClusterAgentDeployment(api) @@ ClusterAgentRbac(api) @@ ClusterAgentServices(api)

Traefik(api) == HelmChart(api, {<<"traefik">>})

DefaultNamespaces == {<<"frontend">>, <<"backend">>}

Namespaces(api, extras) == Each("namespace", DefaultNamespaces \cup extras, LAMBDA n : api)

DefaultCharts == {<<"kubelet-rubber-stamp">>, <<"kubernetes-dashboard">>, <<"sealed-secrets">>}

Charts(api, extras) == HelmChart(api, DefaultCharts \cup extras)

-----------------------------------------------------------------------------
(* The certificates of a cluster, which both clouds make in the same way.  *)

RootCa(name) ==
    <<"key", name>> :> {<<"cluster">>} @@ <<"certificate", name>> :> {<<"key", name>>}

(* Signed by the CA of the cluster, and thus replaced with it.             *)
AdminClientCert ==
    <<"key", "admin">> :> {<<"cluster">>}
    @@ <<"request", "admin">> :> {<<"key", "admin">>}
    @@ <<"certificate", "admin">> :>
           {<<"request", "admin">>, <<"key", "ca">>, <<"certificate", "ca">>}

ServiceAccountKeypair == <<"key", "sa">> :> {<<"cluster">>}

=============================================================================
