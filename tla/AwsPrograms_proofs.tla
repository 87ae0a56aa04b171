--------------------------- MODULE AwsPrograms_proofs ---------------------------
(***************************************************************************)
(* The programs of the AWS modules keep the rules of Stacks_proofs in all  *)
(* configurations.                                                         *)
(***************************************************************************)
EXTENDS Programs_proofs, AwsData, AwsControllers

-----------------------------------------------------------------------------
(* rds_postgres                                                            *)

(* The statements about the access list of one database form a chain, in   *)
(* which only those of the roles themselves come in between.               *)
LEMMA AccessListChained ==
    ASSUME NEW databases, NEW replicas, Deploys(RDSPostgres(databases, replicas)), NEW db \in databases,
           NEW r \in AccessListOf(db), NEW c \in AccessListOf(db), c # r
    PROVE  c \in Recorded[r] \/ r \in Recorded[c]
<1> DEFINE p == RDSPostgres(databases, replicas)
           app == db \o <<"app">>
           read == db \o <<"read">>
           After(x, y) == {y} \cup Recorded[y] \subseteq Recorded[x]
<1>1. SetupDatabase(db) \subseteq p.needs
  BY DEF RDSPostgres, Program, @@
<1>2. ASSUME NEW x, NEW y, NEW ds, <<x, ds>> \in SetupDatabase(db), y \in ds PROVE After(x, y)
  BY <1>1, <1>2, Depends
<1>3. /\ After(<<"revoke-schema">> \o db, <<"grant-all">> \o db)
      /\ After(<<"revoke-all">> \o db, <<"revoke-schema">> \o db)
  BY <1>2 DEF SetupDatabase, CreateDatabase, @@, :>
<1>4. ASSUME NEW role, NEW dep, CreateRole(db, role, dep) \subseteq SetupDatabase(db)
      PROVE  /\ After(<<"role">> \o (db \o <<role>>), dep)
             /\ After(<<"grant-connect">> \o (db \o <<role>>), <<"role">> \o (db \o <<role>>))
             /\ After(<<"grant-read">> \o (db \o <<role>>), <<"grant-connect">> \o (db \o <<role>>))
  <2> DEFINE of == db \o <<role>>
  <2>1. \E ds : <<<<"role">> \o of, ds>> \in CreateRole(db, role, dep) /\ dep \in ds
    BY DEF CreateRole, @@, :>
  <2>2. <<<<"grant-connect">> \o of, {<<"role">> \o of}>> \in CreateRole(db, role, dep)
    BY DEF CreateRole, @@, :>
  <2>3. <<<<"grant-read">> \o of, {<<"grant-connect">> \o of}>> \in CreateRole(db, role, dep)
    BY DEF CreateRole, @@, :>
  <2> HIDE DEF of
  <2>4. After(<<"role">> \o of, dep)
    BY <1>2, <1>4, <2>1
  <2>5. After(<<"grant-connect">> \o of, <<"role">> \o of)
    BY <1>2, <1>4, <2>2
  <2>6. After(<<"grant-read">> \o of, <<"grant-connect">> \o of)
    BY <1>2, <1>4, <2>3
  <2> QED
    BY <2>4, <2>5, <2>6 DEF of
<1>5. /\ After(<<"role">> \o app, <<"revoke-all">> \o db)
      /\ After(<<"grant-connect">> \o app, <<"role">> \o app)
      /\ After(<<"grant-read">> \o app, <<"grant-connect">> \o app)
  <2>1. CreateRole(db, "app", <<"revoke-all">> \o db) \subseteq SetupDatabase(db)
    BY DEF SetupDatabase, @@
  <2> QED
    BY <1>4, <2>1
<1>6. /\ After(<<"role">> \o read, <<"app-grant-write">> \o db)
      /\ After(<<"grant-connect">> \o read, <<"role">> \o read)
  <2>1. CreateRole(db, "read", <<"app-grant-write">> \o db) \subseteq SetupDatabase(db)
    BY DEF SetupDatabase, @@
  <2> QED
    BY <1>4, <2>1
<1>7. GrantAppAccess(db) \subseteq SetupDatabase(db)
  BY DEF SetupDatabase, @@
<1>8. After(<<"app-grant-db">> \o db, <<"grant-read">> \o app)
  <2>1. <<<<"app-grant-db">> \o db, {<<"grant-read">> \o app}>> \in SetupDatabase(db)
    BY <1>7 DEF GrantAppAccess, @@, :>
  <2> HIDE DEF app
  <2> QED
    BY <1>2, <2>1
<1>9. /\ After(<<"app-grant-schema">> \o db, <<"app-grant-db">> \o db)
      /\ After(<<"app-grant-write">> \o db, <<"app-grant-schema">> \o db)
  <2>1. /\ <<<<"app-grant-schema">> \o db, {<<"app-grant-db">> \o db}>> \in SetupDatabase(db)
        /\ <<<<"app-grant-write">> \o db, {<<"app-grant-schema">> \o db}>> \in SetupDatabase(db)
    BY <1>7 DEF GrantAppAccess, @@, :>
  <2> QED
    BY <1>2, <2>1
<1> DEFINE S1 == {<<"grant-all">> \o db}
           S2 == S1 \cup {<<"revoke-schema">> \o db}
           S3 == S2 \cup {<<"revoke-all">> \o db}
           S4 == S3 \cup {<<"grant-connect">> \o app}
           S5 == S4 \cup {<<"app-grant-db">> \o db}
           S6 == S5 \cup {<<"app-grant-schema">> \o db}
<1>10. S1 \subseteq Recorded[<<"revoke-schema">> \o db] /\ S2 \subseteq Recorded[<<"revoke-all">> \o db]
  BY <1>3
<1>11. S3 \subseteq Recorded[<<"grant-connect">> \o app]
  BY <1>5, <1>10
<1>12. S4 \subseteq Recorded[<<"app-grant-db">> \o db]
  BY <1>5, <1>8, <1>11
<1>13. /\ S5 \subseteq Recorded[<<"app-grant-schema">> \o db]
       /\ S6 \subseteq Recorded[<<"app-grant-write">> \o db]
  BY <1>9, <1>12
<1>14. S6 \subseteq Recorded[<<"grant-connect">> \o read]
  BY <1>6, <1>13
<1> QED
  BY <1>10, <1>11, <1>12, <1>13, <1>14 DEF AccessListOf

(* What changes the access list of a database never meets another change.  *)
THEOREM GrantsApart ==
    ASSUME NEW databases, NEW replicas, Deploys(RDSPostgres(databases, replicas))
    PROVE  Spec => []RivalsApart
<1> DEFINE p == RDSPostgres(databases, replicas)
<1>1. p.rivals = {AccessListOf(db) : db \in databases}
  BY DEF RDSPostgres, Program
<1>2. ASSUME NEW s \in p.rivals, NEW r \in s, NEW c \in s, c # r
      PROVE  c \in Recorded[r] \/ r \in Recorded[c]
  <2>1. PICK db \in databases : s = AccessListOf(db)
    BY <1>1, <1>2
  <2> QED
    BY <1>2, <2>1, AccessListChained
<1> QED
  BY <1>2, PartsApart

(* All that is made of a database is made through the provider, which is   *)
(* given the address of the instance.                                      *)
LEMMA StatementsDepend ==
    ASSUME NEW databases, NEW replicas, Deploys(RDSPostgres(databases, replicas)),
           NEW r \in Resources, NEW x \in Paths[r] \ {<<"ingress-rule">>}
    PROVE  x \in Recorded[r]
<1> DEFINE p == RDSPostgres(databases, replicas)
           inside == UNION {SetupDatabase(db) : db \in databases}
           statements == {s \in About(inside) : s[1] # "role-password"}
           way == {<<"instance">>, <<"ingress-rule">>}
<1>1. p.paths = ForAll(statements, way)
  BY DEF RDSPostgres, Program
<1>2. inside \subseteq p.needs /\ PostgresInstance(replicas) \subseteq p.needs
  BY DEF RDSPostgres, Program, @@
<1>3. x \in At(ForAll(statements, way), r)
  BY <1>1 DEF Deploys
<1>4. r \in statements /\ x \in way
  <2> HIDE DEF statements, way
  <2> QED
    BY <1>3, ForAllAt
<1>5. r \in About(inside) /\ x = <<"instance">>
  BY <1>4
<1>6. Rooted(inside, <<"provider">>)
  <2>1. ASSUME NEW db PROVE Rooted(SetupDatabase(db), <<"provider">>)
    <3> DEFINE f == SetupDatabase(db)
    <3>1. ASSUME NEW role, NEW dep, NEW e \in CreateRole(db, role, dep)
          PROVE  <<"database">> \o db \in e[2] \/ \E a \in CreateRole(db, role, dep) : a[1] \in e[2]
      <4> DEFINE of == db \o <<role>>
                 Password == <<<<"role-password">> \o of, {<<"database">> \o db}>>
                 Role == <<<<"role">> \o of, {<<"database">> \o db, <<"role-password">> \o of, dep}>>
                 Connect == <<<<"grant-connect">> \o of, {<<"role">> \o of}>>
                 Read == <<<<"grant-read">> \o of, {<<"grant-connect">> \o of}>>
      <4>1. CreateRole(db, role, dep) = {Password, Role, Connect, Read}
        BY DEF CreateRole, :>, @@
      <4>2. /\ <<"database">> \o db \in Password[2] /\ <<"database">> \o db \in Role[2]
            /\ Connect[2] = {Role[1]} /\ Read[2] = {Connect[1]}
        OBVIOUS
      <4> HIDE DEF Password, Role, Connect, Read
      <4> QED
        BY <3>1, <4>1, <4>2
    <3>2. ASSUME NEW e \in CreateDatabase(db)
          PROVE  <<"provider">> \in e[2] \/ \E a \in CreateDatabase(db) : a[1] \in e[2]
      <4> DEFINE Database == <<<<"database">> \o db, {<<"provider">>}>>
                 GrantAll == <<<<"grant-all">> \o db, {<<"database">> \o db}>>
                 RevokeSchema == <<<<"revoke-schema">> \o db, {<<"grant-all">> \o db}>>
                 RevokeAll == <<<<"revoke-all">> \o db, {<<"revoke-schema">> \o db}>>
      <4>1. CreateDatabase(db) = {Database, GrantAll, RevokeSchema, RevokeAll}
        BY DEF CreateDatabase, :>, @@
      <4>2. /\ <<"provider">> \in Database[2] /\ GrantAll[2] = {Database[1]}
            /\ RevokeSchema[2] = {GrantAll[1]} /\ RevokeAll[2] = {RevokeSchema[1]}
        OBVIOUS
      <4> HIDE DEF Database, GrantAll, RevokeSchema, RevokeAll
      <4> QED
        BY <3>2, <4>1, <4>2
    <3>3. \E a \in CreateDatabase(db) : a[1] = <<"database">> \o db
      BY DEF CreateDatabase, :>, @@
    <3>4. \E a \in CreateRole(db, "app", <<"revoke-all">> \o db) : a[1] = <<"grant-read">> \o (db \o <<"app">>)
      BY DEF CreateRole, :>, @@
    <3>5. ASSUME NEW e \in GrantAppAccess(db)
          PROVE  \/ <<"grant-read">> \o (db \o <<"app">>) \in e[2]
                 \/ \E a \in GrantAppAccess(db) : a[1] \in e[2]
      <4> DEFINE Db == <<<<"app-grant-db">> \o db, {<<"grant-read">> \o (db \o <<"app">>)}>>
                 Schema == <<<<"app-grant-schema">> \o db, {<<"app-grant-db">> \o db}>>
                 Write == <<<<"app-grant-write">> \o db, {<<"app-grant-schema">> \o db}>>
      <4>1. GrantAppAccess(db) = {Db, Schema, Write}
        BY DEF GrantAppAccess, :>, @@
      <4>2. /\ <<"grant-read">> \o (db \o <<"app">>) \in Db[2]
            /\ Schema[2] = {Db[1]} /\ Write[2] = {Schema[1]}
        OBVIOUS
      <4> HIDE DEF Db, Schema, Write
      <4> QED
        BY <3>5, <4>1, <4>2
    <3>6. f = CreateDatabase(db) \cup CreateRole(db, "app", <<"revoke-all">> \o db) \cup GrantAppAccess(db)
              \cup CreateRole(db, "read", <<"app-grant-write">> \o db)
      BY DEF SetupDatabase, @@
    <3> HIDE DEF f
    <3>7. Rooted(f, <<"provider">>)
      BY <3>1, <3>2, <3>3, <3>4, <3>5, <3>6 DEF Rooted
    <3> QED
      BY <3>7 DEF f
  <2> QED
    BY <2>1 DEF Rooted
<1>7. {<<"provider">>} \cup Recorded[<<"provider">>] \subseteq Recorded[r]
  <2> HIDE DEF inside, p
  <2> QED
    BY <1>2, <1>5, <1>6, RootedDepends DEF p
<1>8. <<"instance">> \in Recorded[<<"provider">>]
  <2>1. <<"provider">> :> {<<"instance">>} \cup All("replica", replicas) \subseteq PostgresInstance(replicas)
    BY DEF PostgresInstance, @@
  <2>2. Obeyed(<<"provider">> :> {<<"instance">>} \cup All("replica", replicas), Recorded)
    BY <1>2, <2>1 DEF Deploys, Obeyed
  <2> QED
    BY <2>2, EntryObeyed
<1> QED
  BY <1>5, <1>7, <1>8

(* As long as there is a database or a grant to be undone, there is the    *)
(* server to undo it, in every destroy; only the rule that lets the        *)
(* operator in may go first.                                               *)
THEOREM InstanceGoesLast ==
    ASSUME NEW databases, NEW replicas, Deploys(RDSPostgres(databases, replicas)),
           \A r \in Resources : {<<"ingress-rule">>} \cap Paths[r] \subseteq Races[r]
    PROVE  Spec => []PathsKept
<1>1. PathsRecorded
  BY StatementsDepend DEF PathsRecorded
<1> QED
  BY <1>1, RecordedPathsKept

-----------------------------------------------------------------------------
(* s3                                                                      *)

(* The access block and the policy of a bucket are never changed at once.  *)
THEOREM BucketSettingsApart ==
    ASSUME NEW buckets, Deploys(S3Bucket(buckets)) PROVE Spec => []RivalsApart
<1> DEFINE p == S3Bucket(buckets)
<1>1. p.rivals = {SettingsOf(b) : b \in buckets}
  BY DEF S3Bucket, Program
<1> DEFINE policies == Each("bucket-policy", buckets, LAMBDA b : {<<"public-access-block">> \o b})
<1>2. Obeyed(policies, Recorded)
  <2>1. Obeyed(p.needs, Recorded)
    BY DEF Deploys
  <2> QED
    BY <2>1, OverlayObeyed DEF S3Bucket, Program
<1>3. ASSUME NEW b \in buckets
      PROVE  <<"public-access-block">> \o b \in Recorded[<<"bucket-policy">> \o b]
  <2>1. <<<<"bucket-policy">> \o b, {<<"public-access-block">> \o b}>> \in policies
    BY DEF Each
  <2> HIDE DEF policies
  <2> QED
    BY <1>2, <2>1, PairObeyed
<1>4. ASSUME NEW s \in p.rivals, NEW r \in s, NEW c \in s, c # r
      PROVE  c \in Recorded[r] \/ r \in Recorded[c]
  <2>1. PICK b \in buckets : s = SettingsOf(b)
    BY <1>1, <1>4
  <2> QED
    BY <1>3, <1>4, <2>1 DEF SettingsOf
<1> QED
  BY <1>4, PartsApart

-----------------------------------------------------------------------------
(* k8s_controllers                                                         *)

(* A group depends on all parameters, and on the interface of its zone.    *)
LEMMA GroupDepends ==
    ASSUME NEW zones, NEW p, Deploys(p), CreateControllerGroups(zones) \subseteq p.needs, NEW z \in zones
    PROVE  SsmParams \cup {<<"eni">> \o z} \subseteq Recorded[<<"asg">> \o z]
<1> DEFINE template == <<"launch-template">> \o z
           ds == {<<"profile">>, <<"eni">> \o z} \cup SsmParams
<1>1. <<template, ds>> \in p.needs
  BY DEF CreateControllerGroups, Each, @@
<1>2. <<<<"asg">> \o z, {template}>> \in p.needs
  BY DEF CreateControllerGroups, Each, @@
<1>3. SsmParams \cup {<<"eni">> \o z} \subseteq ds
  OBVIOUS
<1> HIDE DEF template, ds
<1>4. ds \subseteq Recorded[template]
  BY <1>1, Depends
<1>5. Recorded[template] \subseteq Recorded[<<"asg">> \o z]
  BY <1>2, Depends
<1> QED
  BY <1>3, <1>4, <1>5

(* A controller that boots finds its parameters and its network interface, *)
(* as long as the policies of its role are not what it misses.             *)
THEOREM ControllersBoot ==
    ASSUME NEW zones, NEW clusterIpRoutes, NEW roles, NEW namespaces, NEW secrets, NEW charts,
           Deploys(K8sControllers(zones, clusterIpRoutes, roles, namespaces, secrets, charts)),
           \A z \in zones :
             Policies({"ssm-path", "ssm-default", "ec2-default", "eni-manage-k8s"}) \subseteq Races[<<"asg">> \o z]
    PROVE  Spec => []BootsComplete
<1> DEFINE p == K8sControllers(zones, clusterIpRoutes, roles, namespaces, secrets, charts)
           boots == Each("asg", zones, LAMBDA z : ControllerReads(z))
<1>1. p.reads = boots
  BY DEF K8sControllers, Program
<1>2. CreateControllerGroups(zones) \subseteq p.needs
  BY DEF K8sControllers, Program, CreateControllers, @@
<1>3. ASSUME NEW g \in Resources, NEW x \in Reads[g] \ Races[g] PROVE x \in Recorded[g]
  <2>1. x \in At(boots, g)
    BY <1>1, <1>3 DEF Deploys
  <2>2. PICK e \in boots : e[1] = g /\ x \in e[2]
    BY <2>1, InAt
  <2>3. PICK z \in zones : g = <<"asg">> \o z /\ x \in ControllerReads(z)
    BY <2>2 DEF Each
  <2>4. x \in SsmParams \cup {<<"eni">> \o z}
    BY <1>3, <2>3 DEF ControllerReads
  <2> QED
    BY <1>2, <2>3, <2>4, GroupDepends
<1>4. ReadsRecorded
  BY <1>3 DEF ReadsRecorded
<1> QED
  BY <1>4, RecordedReadsComplete

(* Everything the personalizers put into the cluster goes through the      *)
(* provider.                                                               *)
LEMMA PersonalizersRooted ==
    ASSUME NEW zones, NEW namespaces, NEW secrets, NEW charts
    PROVE  Rooted(PersonalizeCluster(zones, namespaces, secrets, charts), <<"k8s">>)
<1> DEFINE Below(f) == Rooted(f, <<"k8s">>)
<1>1. <<"k8s">> \in K8s
  BY DEF K8s
<1>2. /\ Below(ConfigureKubeletRolebinding) /\ Below(ConfigureNodeSecretsRole)
      /\ Below(ConfigureControllerMonitoring) /\ Below(ConfigureNodeMonitoring)
      /\ Below(ConfigureCrossClusterAccessServiceaccount)
      /\ Below(ConfigureMetricsRoles @@ ConfigureMetricsServer)
      /\ Below(ConfigureCoredns) /\ Below(ConfigureTraefik) /\ Below(AwsNamespaces(namespaces))
      /\ Below(ConfigureDeployments(charts)) /\ Below(ConfigureSealedSecrets)
      /\ Below(ConfigureNodeFeatureDiscovery)
  BY <1>1, LibraryRooted
     DEF ConfigureKubeletRolebinding, ConfigureNodeSecretsRole, ConfigureControllerMonitoring,
         ConfigureNodeMonitoring, ConfigureCrossClusterAccessServiceaccount, ConfigureMetricsRoles,
         ConfigureMetricsServer, KubeMetrics, ConfigureCoredns, ConfigureTraefik, Traefik, AwsNamespaces,
         ConfigureDeployments, ConfigureSealedSecrets, ConfigureNodeFeatureDiscovery
<1>3. Below(ConfigureDatadogClusterAgent)
  <2>1. Below(ConfigureDatadogDeployment) /\ Below(ConfigureDatadogRbac) /\ Below(ConfigureDatadogServices)
    BY <1>1, LibraryRooted DEF ConfigureDatadogDeployment, ConfigureDatadogRbac, ConfigureDatadogServices
  <2> QED
    BY <2>1, OverlayRooted DEF ConfigureDatadogClusterAgent
<1>4. Below(ConfigureIamAuthenticator)
  BY <1>1, EntryRooted, OverlayRooted DEF ConfigureIamAuthenticator
<1>5. Below(ConfigureCni(zones))
  <2>1. Below(InstallKubeProxy)
    BY <1>1 DEF InstallKubeProxy, Rooted, :>, @@
  <2>2. Below(InstallCni @@ CreateEniconfigs(zones))
    <3> DEFINE chart == <<<<"chart", "aws-cni">>, K8s>>
               f == InstallCni @@ CreateEniconfigs(zones)
    <3>1. InstallCni = {chart}
      BY DEF InstallCni, HelmChart, Each
    <3>2. \A e \in CreateEniconfigs(zones) : <<"chart", "aws-cni">> \in e[2]
      BY DEF CreateEniconfigs, Each
    <3>3. chart[1] = <<"chart", "aws-cni">> /\ chart[2] = K8s
      OBVIOUS
    <3>4. chart \in f /\ \A e \in f : e = chart \/ <<"chart", "aws-cni">> \in e[2]
      BY <3>1, <3>2 DEF @@
    <3> HIDE DEF chart, f
    <3>5. Below(f)
      BY <1>1, <3>3, <3>4 DEF Rooted
    <3> QED
      BY <3>5 DEF f
  <2> QED
    BY <2>1, <2>2 DEF ConfigureCni, Rooted, @@
<1>6. Below(ConfigureAwsEbsCsi) /\ Below(ConfigureAwsNodeTerminationHandler)
  BY <1>1, LibraryRooted DEF ConfigureAwsEbsCsi, ConfigureAwsNodeTerminationHandler
<1>7. Below(ConfigureClusterAutoscaler)
  <2>1. Below(HelmChart(K8s \cup {<<"autoscaler-role">>}, {<<"cluster-autoscaler">>}))
    BY <1>1, LibraryRooted
  <2> QED
    BY <1>1, <2>1, EntryRooted, OverlayRooted DEF ConfigureClusterAutoscaler
<1>8. Below(ExtraSecrets(secrets))
  BY <1>1 DEF ExtraSecrets, Each, Rooted
<1> QED
  BY <1>2, <1>3, <1>4, <1>5, <1>6, <1>7, <1>8 DEF PersonalizeCluster, Rooted, @@

(* What lies in the cluster is recorded to depend on every controller, and *)
(* waits for the name of the endpoint; nothing else goes through the API   *)
(* server.                                                                 *)
LEMMA ClusterDepends ==
    ASSUME NEW zones, NEW clusterIpRoutes, NEW roles, NEW namespaces, NEW secrets, NEW charts,
           Deploys(K8sControllers(zones, clusterIpRoutes, roles, namespaces, secrets, charts)),
           NEW r \in Resources, NEW x \in Paths[r]
    PROVE  /\ r \in About(PersonalizeCluster(zones, namespaces, secrets, charts))
           /\ x = <<"endpoint">> \/ x \in Recorded[r]
           /\ x \in WaitsFor[r]
<1> DEFINE p == K8sControllers(zones, clusterIpRoutes, roles, namespaces, secrets, charts)
           inside == PersonalizeCluster(zones, namespaces, secrets, charts)
           way == {<<"endpoint">>} \cup All("asg", zones)
           api == <<"k8s">>
<1>1. p.paths = ForAll(About(inside), way) /\ p.awaits = K8sProviderAwaits @@ IamAuthenticatorAwaits(roles)
  BY DEF K8sControllers, Program
<1>2. inside \subseteq p.needs /\ K8sProvider(zones) \subseteq p.needs
  BY DEF K8sControllers, Program, @@
<1>3. x \in At(ForAll(About(inside), way), r)
  BY <1>1 DEF Deploys
<1>4. r \in About(inside) /\ x \in way
  <2> HIDE DEF inside, way
  <2> QED
    BY <1>3, ForAllAt
<1>5. {api} \cup Recorded[api] \subseteq Recorded[r]
  <2>1. Rooted(inside, api)
    BY PersonalizersRooted
  <2> HIDE DEF inside, api, p
  <2> QED
    BY <1>2, <1>4, <2>1, RootedDepends DEF p
<1>6. All("asg", zones) \subseteq Recorded[api] /\ api \in Resources
  <2>1. <<api, {<<"cluster">>} \cup All("asg", zones)>> \in p.needs
    BY <1>2 DEF K8sProvider, :>
  <2>2. <<"cluster">> \in {<<"cluster">>} \cup All("asg", zones)
    OBVIOUS
  <2> HIDE DEF api, p
  <2>3. api \in Resources
    BY <2>1 DEF Deploys, About, p
  <2>4. \A d \in {<<"cluster">>} \cup All("asg", zones) : d \in Recorded[api]
    BY <2>1, Depends DEF p
  <2> QED
    BY <2>3, <2>4
<1>7. <<"endpoint">> \in WaitsFor[api]
  <2>1. Obeyed(K8sProviderAwaits, WaitsFor)
    BY <1>1, OverlayObeyed DEF Deploys
  <2> QED
    BY <2>1, EntryObeyed DEF K8sProviderAwaits
<1>8. api \in WaitsFor[r] /\ WaitsFor[api] \subseteq WaitsFor[r] /\ Recorded[r] \subseteq WaitsFor[r]
  <2>1. Recorded[r] \subseteq WaitsFor[r] /\ api \in WaitsFor[r]
    BY <1>5, ProgramsAssumption
  <2> QED
    BY <2>1, ProgramsAssumption DEF Transitive
<1> QED
  BY <1>4, <1>5, <1>6, <1>7, <1>8

(* Secret r is for namespace x. *)
SecretFor(secrets, r, x) == \E n \in secrets : r = <<"extra-secret">> \o n /\ x = <<"namespace">> \o n

(* A secret may come before the namespace it is for; the account of the    *)
(* nodes' token is recorded.                                               *)
LEMMA ClusterNames ==
    ASSUME NEW zones, NEW clusterIpRoutes, NEW roles, NEW namespaces, NEW secrets, NEW charts,
           Deploys(K8sControllers(zones, clusterIpRoutes, roles, namespaces, secrets, charts)),
           NEW r \in Resources, NEW x \in Names[r]
    PROVE  SecretFor(secrets, r, x) \/ x \in WaitsFor[r]
<1> DEFINE p == K8sControllers(zones, clusterIpRoutes, roles, namespaces, secrets, charts)
           token == <<<<"node-monitoring-secret">>, {<<"node-monitoring-account">>}>>
<1>1. p.uses = ExtraSecretsUse(secrets) @@ NodeMonitoringUses
  BY DEF K8sControllers, Program
<1>2. token \in p.needs
  <2>1. token \in PersonalizeCluster(zones, namespaces, secrets, charts)
    BY DEF PersonalizeCluster, ConfigureNodeMonitoring, NodeMonitoring, :>, @@
  <2> HIDE DEF token
  <2> QED
    BY <2>1 DEF K8sControllers, Program, @@
<1>3. PICK e \in ExtraSecretsUse(secrets) @@ NodeMonitoringUses : e[1] = r /\ x \in e[2]
  BY <1>1, InAt DEF Deploys
<1>4. CASE e \in ExtraSecretsUse(secrets)
  <2>1. PICK n \in secrets : e = <<<<"extra-secret">> \o n, {<<"namespace">> \o n}>>
    BY <1>4 DEF ExtraSecretsUse, Each
  <2>2. r = <<"extra-secret">> \o n /\ x = <<"namespace">> \o n
    BY <1>3, <2>1
  <2> QED
    BY <2>2 DEF SecretFor
<1>5. CASE e = token
  <2> HIDE DEF token, p
  <2>1. x \in Recorded[r]
    BY <1>2, <1>3, <1>5 DEF Deploys, Obeyed, p
  <2> QED
    BY <2>1, ProgramsAssumption
<1> QED
  BY <1>4, <1>5 DEF NodeMonitoringUses, :>, @@

LEMMA ClusterAwaited ==
    ASSUME NEW zones, NEW clusterIpRoutes, NEW roles, NEW namespaces, NEW secrets, NEW charts,
           Deploys(K8sControllers(zones, clusterIpRoutes, roles, namespaces, secrets, charts)),
           \A n \in secrets : <<"namespace">> \o n \in Races[<<"extra-secret">> \o n]
    PROVE  NamesAwaited
<1>1. ASSUME NEW r \in Resources, NEW x \in Names[r] PROVE x \in Races[r] \/ x \in WaitsFor[r]
  <2>1. ASSUME NEW n \in secrets, r = <<"extra-secret">> \o n, x = <<"namespace">> \o n PROVE x \in Races[r]
    BY <2>1
  <2>2. SecretFor(secrets, r, x) \/ x \in WaitsFor[r]
    BY <1>1, ClusterNames
  <2> QED
    BY <2>1, <2>2 DEF SecretFor
<1>2. ASSUME NEW r \in Resources, NEW x \in Paths[r] PROVE x \in WaitsFor[r]
  BY ClusterDepends
<1> QED
  BY <1>1, <1>2 DEF NamesAwaited

(* Nothing is put into the cluster before its controllers and the name of  *)
(* their endpoint are there; only a secret may come before its namespace.  *)
THEOREM ClusterComesLast ==
    ASSUME NEW zones, NEW clusterIpRoutes, NEW roles, NEW namespaces, NEW secrets, NEW charts,
           Deploys(K8sControllers(zones, clusterIpRoutes, roles, namespaces, secrets, charts)),
           \A n \in secrets : <<"namespace">> \o n \in Races[<<"extra-secret">> \o n]
    PROVE  Spec => []NamesResolve
BY ClusterAwaited, AwaitedNamesResolve

LEMMA ClusterRecorded ==
    ASSUME NEW zones, NEW clusterIpRoutes, NEW roles, NEW namespaces, NEW secrets, NEW charts,
           Deploys(K8sControllers(zones, clusterIpRoutes, roles, namespaces, secrets, charts)),
           \A r \in About(PersonalizeCluster(zones, namespaces, secrets, charts)) : <<"endpoint">> \in Cuts[r]
    PROVE  PathsRecorded
BY ClusterDepends DEF PathsRecorded

(* As long as anything is left in the cluster, so are its controllers, in  *)
(* every destroy; only the name of the endpoint may go first.              *)
THEOREM ControllersGoLast ==
    ASSUME NEW zones, NEW clusterIpRoutes, NEW roles, NEW namespaces, NEW secrets, NEW charts,
           Deploys(K8sControllers(zones, clusterIpRoutes, roles, namespaces, secrets, charts)),
           \A r \in About(PersonalizeCluster(zones, namespaces, secrets, charts)) : <<"endpoint">> \in Cuts[r]
    PROVE  Spec => []PathsKept
BY ClusterRecorded, RecordedPathsKept

(* Nothing is declared to wait for an extra secret.                        *)
Spares(f) == \A e \in f : \A d \in e[2] : d[1] # "extra-secret"

LEMMA OverlaySpares == ASSUME NEW f, NEW g PROVE Spares(f @@ g) <=> Spares(f) /\ Spares(g)
BY DEF Spares, @@

LEMMA KindSpares ==
    ASSUME NEW kind, kind # "extra-secret", NEW indices, \A i \in indices : IsTuple(i)
    PROVE  /\ \A d \in All(kind, indices) : d[1] # "extra-secret"
           /\ \A i \in indices : (<<kind>> \o i)[1] # "extra-secret"
<1>1. \A i \in indices : (<<kind>> \o i)[1] = kind
  BY KindKept
<1> QED
  BY <1>1 DEF All

LEMMA StackSpares ==
    /\ Spares(CreateS3BackupsBucket)
    /\ Spares(CreateKubernetesRootca) /\ Spares(CreateKubernetesProxyRootca) /\ Spares(CreateEtcdRootCa)
    /\ Spares(CreateAdminClientCert) /\ Spares(ServiceAccountKeypair) /\ Spares(CreateSsmParameters)
    /\ Spares(CreateNodeTerminationSqsQueue) /\ Spares(CreateNodeTerminationEventbridgeRules)
    /\ Spares(CreateNodeBootstrapRole) /\ Spares(CreateEbsControllerRole)
    /\ Spares(CreateClusterAutoscalerRole) /\ Spares(CreateNodeTerminationHandlerRole)
    /\ Spares(CreateControllerRole) /\ Spares(CreateControllerSecurityGroup) /\ Spares(CreatePodSecurityGroup)
    /\ \A roles : Spares(CreateUserRoles(roles))
<1>1. Spares(CreateS3BackupsBucket) /\ Spares(CreateControllerSecurityGroup) /\ Spares(CreatePodSecurityGroup)
  BY DEF CreateS3BackupsBucket, CreateControllerSecurityGroup, CreatePodSecurityGroup, Spares, :>, @@
<1>2. Spares(CreateKubernetesRootca) /\ Spares(CreateKubernetesProxyRootca) /\ Spares(CreateEtcdRootCa)
  BY DEF CreateKubernetesRootca, CreateKubernetesProxyRootca, CreateEtcdRootCa, RootCa, Spares, :>, @@
<1>3. Spares(CreateAdminClientCert) /\ Spares(ServiceAccountKeypair)
  BY DEF CreateAdminClientCert, AdminClientCert, ServiceAccountKeypair, Spares, :>, @@
<1>4. Spares(CreateSsmParameters)
  <2>1. ASSUME NEW v \in SsmVars PROVE v[2][1] # "extra-secret"
    BY DEF SsmVars
  <2>2. ASSUME NEW v \in SsmVars PROVE Spares(<<"parameter", v[1]>> :> {<<"cluster">>, v[2]})
    BY <2>1 DEF Spares, :>
  <2> QED
    BY <2>2 DEF CreateSsmParameters, Spares
<1>5. Spares(CreateNodeTerminationSqsQueue) /\ Spares(CreateNodeBootstrapRole)
  BY DEF CreateNodeTerminationSqsQueue, CreateNodeBootstrapRole, Spares, :>, @@
<1>6. Spares(CreateNodeTerminationEventbridgeRules)
  <2>1. \A i \in Events : IsTuple(i)
    BY NameIsTuple DEF Events
  <2>2. \A i \in Events : (<<"event-rule">> \o i)[1] # "extra-secret"
    BY <2>1, KindSpares
  <2> QED
    BY <2>2 DEF CreateNodeTerminationEventbridgeRules, Each, Spares, @@
<1>7. Spares(CreateEbsControllerRole) /\ Spares(CreateClusterAutoscalerRole)
      /\ Spares(CreateNodeTerminationHandlerRole)
  BY DEF CreateEbsControllerRole, CreateClusterAutoscalerRole, CreateNodeTerminationHandlerRole, Spares, :>, @@
<1>8. Spares(CreateControllerRole)
  BY DEF CreateControllerRole, GenerateInstanceProfile, Each, Spares, :>, @@
<1>9. \A roles : Spares(CreateUserRoles(roles))
  BY DEF CreateUserRoles, Each, Spares
<1> QED
  BY <1>1, <1>2, <1>3, <1>4, <1>5, <1>6, <1>7, <1>8, <1>9

LEMMA GroupsSpare ==
    ASSUME NEW zones, \A z \in zones : IsTuple(z), NEW clusterIpRoutes
    PROVE  Spares(CreateControllers(zones, clusterIpRoutes)) /\ Spares(K8sProvider(zones))
<1>1. /\ \A d \in All("eni", zones) \cup All("asg", zones) : d[1] # "extra-secret"
      /\ \A z \in zones : /\ (<<"eni">> \o z)[1] # "extra-secret"
                          /\ (<<"launch-template">> \o z)[1] # "extra-secret"
  BY KindSpares
<1>2. \A d \in SsmParams : d[1] # "extra-secret"
  BY DEF SsmParams
<1>3. Spares(CreateControllerGroups(zones))
  BY <1>1, <1>2 DEF CreateControllerGroups, Each, Spares, @@
<1>4. Spares(CreateClusteripRoutes(IF clusterIpRoutes THEN zones ELSE {}))
  BY <1>1 DEF CreateClusteripRoutes, Each, Spares
<1> DEFINE endpoints == Each("zone-endpoint", zones, LAMBDA z : {<<"cluster">>, <<"eni">> \o z})
           endpoint == <<"endpoint">> :> {<<"cluster">>} \cup All("eni", zones)
<1>5. Spares(endpoints)
  BY <1>1 DEF Each, Spares
<1>6. Spares(endpoint) /\ Spares(K8sProvider(zones))
  BY <1>1 DEF K8sProvider, Spares, :>
<1>7. CreateControllers(zones, clusterIpRoutes) =
        CreateControllerRole @@ CreateControllerSecurityGroup @@ CreateControllerGroups(zones)
        @@ CreateClusteripRoutes(IF clusterIpRoutes THEN zones ELSE {}) @@ endpoints @@ endpoint
  BY DEF CreateControllers
<1> HIDE DEF endpoints, endpoint
<1> QED
  BY <1>3, <1>4, <1>5, <1>6, <1>7, StackSpares, OverlaySpares

LEMMA PersonalizersSpare ==
    ASSUME NEW zones, NEW namespaces, NEW secrets, NEW charts
    PROVE  Spares(PersonalizeCluster(zones, namespaces, secrets, charts))
<1>1. \A d \in K8s : d[1] # "extra-secret"
  BY DEF K8s
<1>2. ASSUME NEW api, \A d \in api : d[1] # "extra-secret"
      PROVE  /\ \A cs : Spares(HelmChart(api, cs))
             /\ \A ns : Spares(Namespaces(api, ns))
  BY <1>2 DEF HelmChart, Namespaces, Each, Spares
<1>3. Spares(ConfigureKubeletRolebinding) /\ Spares(ConfigureNodeSecretsRole)
      /\ Spares(ConfigureControllerMonitoring)
  BY <1>1 DEF ConfigureKubeletRolebinding, ConfigureNodeSecretsRole, ConfigureControllerMonitoring,
              KubeletRolebinding, NodeSecretsRole, ControllerMonitoring, Spares, :>, @@
<1>4. Spares(ConfigureNodeMonitoring) /\ Spares(ConfigureCrossClusterAccessServiceaccount)
  BY <1>1 DEF ConfigureNodeMonitoring, ConfigureCrossClusterAccessServiceaccount,
              NodeMonitoring, CrossClusterServiceAccount, Spares, :>, @@
<1>5. Spares(ConfigureMetricsRoles) /\ Spares(ConfigureMetricsServer)
  BY <1>1 DEF ConfigureMetricsRoles, ConfigureMetricsServer, MetricsRoles, MetricsServer, Each, Spares, :>, @@
<1>6. Spares(ConfigureIamAuthenticator)
  BY <1>1 DEF ConfigureIamAuthenticator, Spares, :>, @@
<1>7. Spares(ConfigureCni(zones))
  BY <1>1 DEF ConfigureCni, InstallKubeProxy, InstallCni, CreateEniconfigs, HelmChart, Each, Spares, :>, @@
<1>8. /\ Spares(ConfigureCoredns) /\ Spares(ConfigureTraefik) /\ Spares(AwsNamespaces(namespaces))
      /\ Spares(ConfigureDeployments(charts)) /\ Spares(ConfigureSealedSecrets)
      /\ Spares(ConfigureNodeFeatureDiscovery)
  BY <1>1, <1>2
     DEF ConfigureCoredns, ConfigureTraefik, Traefik, AwsNamespaces, ConfigureDeployments,
         ConfigureSealedSecrets, ConfigureNodeFeatureDiscovery
<1>11. Spares(ExtraSecrets(secrets))
  BY <1>1 DEF ExtraSecrets, Each, Spares
<1>9. Spares(ConfigureDatadogClusterAgent)
  BY <1>1 DEF ConfigureDatadogClusterAgent, ConfigureDatadogDeployment, ConfigureDatadogRbac,
              ConfigureDatadogServices, ClusterAgentDeployment, ClusterAgentRbac, ClusterAgentServices,
              Spares, :>, @@
<1>10. /\ Spares(ConfigureAwsEbsCsi) /\ Spares(ConfigureAwsNodeTerminationHandler)
       /\ Spares(ConfigureClusterAutoscaler)
  <2>1. ASSUME NEW api \in {K8s \cup {<<"ebs-role">>}, K8s \cup {<<"handler-role">>, <<"queue">>},
                           K8s \cup {<<"autoscaler-role">>}}
        PROVE  \A d \in api : d[1] # "extra-secret"
    BY <1>1
  <2>2. Spares(<<"priority-expander">> :> K8s)
    BY <1>1 DEF Spares, :>
  <2> QED
    BY <1>2, <2>1, <2>2, OverlaySpares
       DEF ConfigureAwsEbsCsi, ConfigureAwsNodeTerminationHandler, ConfigureClusterAutoscaler
<1> QED
  BY <1>3, <1>4, <1>5, <1>6, <1>7, <1>8, <1>9, <1>10, <1>11, OverlaySpares DEF PersonalizeCluster

(* And so nothing waits for one, not even through others.                  *)
LEMMA NothingWaitsForSecrets ==
    ASSUME NEW zones, NEW clusterIpRoutes, NEW roles, NEW namespaces, NEW secrets, NEW charts,
           \A i \in zones \cup roles \cup secrets : IsTuple(i),
           DeploysOnly(K8sControllers(zones, clusterIpRoutes, roles, namespaces, secrets, charts)),
           NEW r \in Resources, NEW d \in WaitsFor[r]
    PROVE  d \notin All("extra-secret", secrets)
<1> DEFINE p == K8sControllers(zones, clusterIpRoutes, roles, namespaces, secrets, charts)
           late == All("extra-secret", secrets)
           R == [x \in Resources |-> WaitsFor[x] \ late]
<1>1. Spares(p.needs)
  <2>1. Spares(<<"cluster">> :> {})
    BY DEF Spares, :>
  <2>2. Spares(PersonalizeCluster(zones, namespaces, secrets, charts))
    BY PersonalizersSpare
  <2> QED
    BY <2>1, <2>2, StackSpares, GroupsSpare, OverlaySpares DEF K8sControllers, Program
<1>2. Spares(p.awaits)
  <2>1. \A x \in All("user-role", roles) : x[1] # "extra-secret"
    BY KindSpares
  <2>2. Spares(IamAuthenticatorAwaits(roles))
    BY <2>1 DEF IamAuthenticatorAwaits, Spares, :>
  <2>3. Spares(K8sProviderAwaits)
    BY DEF K8sProviderAwaits, Spares, :>
  <2> QED
    BY <2>2, <2>3, OverlaySpares DEF K8sControllers, Program
<1>3. \A x \in late : x[1] = "extra-secret"
  BY KindKept DEF All
<1>4. \A e \in p.needs \cup p.awaits : e[2] \cap late = {}
  BY <1>1, <1>2, <1>3 DEF Spares
<1>5. R \in Relation /\ Transitive(R)
  BY ProgramsAssumption DEF Relation, Transitive
<1>6. \A e \in p.needs \cup p.awaits : e[1] \in Resources /\ e[2] \subseteq WaitsFor[e[1]]
  <2>1. <<<<"k8s">>, {<<"cluster">>} \cup All("asg", zones)>> \in p.needs /\ <<<<"aws-auth">>, K8s>> \in p.needs
    BY DEF K8sControllers, Program, K8sProvider, PersonalizeCluster, ConfigureIamAuthenticator, :>, @@
  <2>2. \A e \in p.awaits : e[1] \in {<<"k8s">>, <<"aws-auth">>}
    BY DEF K8sControllers, Program, K8sProviderAwaits, IamAuthenticatorAwaits, :>, @@
  <2> HIDE DEF p
  <2>3. \A e \in p.needs \cup p.awaits : e[1] \in Resources
    BY <2>1, <2>2 DEF DeploysOnly, Deploys, About, p
  <2>4. \A e \in p.needs : e[2] \subseteq Recorded[e[1]]
    BY DEF DeploysOnly, Deploys, Obeyed, p
  <2>5. \A e \in p.awaits : e[2] \subseteq WaitsFor[e[1]]
    BY DEF DeploysOnly, Deploys, Obeyed, p
  <2> QED
    BY <2>3, <2>4, <2>5, ProgramsAssumption
<1>7. Obeyed(p.needs, R) /\ Obeyed(p.awaits, R)
  <2>1. \A e \in p.needs \cup p.awaits : e[2] \subseteq R[e[1]]
    BY <1>4, <1>6
  <2> QED
    BY <2>1 DEF Obeyed
<1> HIDE DEF R, p
<1>8. WaitsFor[r] \subseteq R[r]
  BY <1>5, <1>7 DEF DeploysOnly, p
<1> QED
  BY <1>8 DEF R

(* Thus they can come last.                                                *)
LEMMA ClusterOrderly ==
    ASSUME NEW zones, NEW clusterIpRoutes, NEW roles, NEW namespaces, NEW secrets, NEW charts,
           \A i \in zones \cup roles \cup secrets : IsTuple(i),
           DeploysOnly(K8sControllers(zones, clusterIpRoutes, roles, namespaces, secrets, charts))
    PROVE  Orderly
<1> DEFINE late == All("extra-secret", secrets)
           R == [r \in Resources |-> IF r \in late THEN Resources \ late ELSE WaitsFor[r]]
<1>1. Deploys(K8sControllers(zones, clusterIpRoutes, roles, namespaces, secrets, charts))
  BY DEF DeploysOnly
<1>2. \A r \in Resources : WaitsFor[r] \subseteq Resources \ late
  BY NothingWaitsForSecrets, ProgramsAssumption DEF Relation
<1>3. R \in Relation /\ \A r \in Resources : r \notin R[r]
  BY ProgramsAssumption DEF Relation
<1>4. Transitive(R)
  <2> SUFFICES ASSUME NEW r \in Resources, NEW d \in R[r] PROVE R[d] \subseteq R[r]
    BY DEF Transitive
  <2>1. d \in Resources \ late
    BY <1>2
  <2>2. d \in WaitsFor[r] => WaitsFor[d] \subseteq WaitsFor[r]
    BY ProgramsAssumption DEF Transitive
  <2> QED
    BY <1>2, <2>1, <2>2
<1>5. ASSUME NEW r \in Resources, NEW x \in WaitsFor[r] \cup Names[r] \cup Paths[r] PROVE x \in R[r]
  <2>1. x \in WaitsFor[r] => x \in R[r]
    BY <1>2
  <2>2. ASSUME NEW n \in secrets, r = <<"extra-secret">> \o n, x = <<"namespace">> \o n PROVE x \in R[r]
    <3>1. \A y \in late : y[1] = "extra-secret"
      BY KindKept DEF All
    <3>2. x[1] = "namespace"
      BY <2>2, KindKept
    <3>3. r \in late /\ x \notin late
      BY <2>2, <3>1, <3>2 DEF All
    <3>4. x \in Resources
      BY <1>5, ProgramsAssumption DEF Relation
    <3> HIDE DEF late
    <3> QED
      BY <3>3, <3>4
  <2> HIDE DEF R, late
  <2>3. ASSUME x \in Names[r] PROVE x \in R[r]
    <3>1. SecretFor(secrets, r, x) \/ x \in WaitsFor[r]
      BY <1>1, <2>3, ClusterNames
    <3> QED
      BY <2>1, <2>2, <3>1 DEF SecretFor
  <2>4. x \in Paths[r] => x \in WaitsFor[r]
    BY <1>1, ClusterDepends
  <2> QED
    BY <1>5, <2>1, <2>3, <2>4
<1> HIDE DEF R
<1> QED
  BY <1>3, <1>4, <1>5 DEF Orderly

(* Whatever an update or a destroy has left, the next run of either has    *)
(* something to do that gets through, as far as no name of the endpoint is *)
(* gone: a secret, which nobody waits for, comes after its namespace.      *)
THEOREM ControllersGetOn ==
    ASSUME NEW zones, NEW clusterIpRoutes, NEW roles, NEW namespaces, NEW secrets, NEW charts,
           \A i \in zones \cup roles \cup secrets : IsTuple(i),
           DeploysOnly(K8sControllers(zones, clusterIpRoutes, roles, namespaces, secrets, charts)),
           \A r \in About(PersonalizeCluster(zones, namespaces, secrets, charts)) : <<"endpoint">> \in Cuts[r]
    PROVE  Spec => []GetsOn
BY ClusterRecorded, ClusterOrderly, NeverStuck DEF DeploysOnly

=============================================================================
