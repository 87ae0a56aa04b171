----------------------------- MODULE AwsInstances -----------------------------
(***************************************************************************)
(* The modules with instances or with roles for them: k8s_agents, pritunl, *)
(* iam_roles and datadog_integration, and the instance profiles of lib/iam.*)
(***************************************************************************)
EXTENDS Programs

-----------------------------------------------------------------------------
(* lib/iam                                                                 *)

(* The generated policies belong to the role; neither the profile nor      *)
(* whoever is given the profile waits for them.                            *)
GenerateInstanceProfile(parents, policies) ==
    <<"role">> :> parents
    @@ Each("policy", {<<p>> : p \in policies}, LAMBDA p : {<<"role">>})
    @@ <<"profile">> :> {<<"role">>}

DefaultPolicies == {"ssm-default", "ec2-default"}

Policies(names) == All("policy", {<<p>> : p \in names})

-----------------------------------------------------------------------------
(* k8s_agents                                                              *)

(* The policy of the bucket and its public access block are not chained.   *)
CreateLogsBucket ==
    <<"log-bucket">> :> {}
    @@ <<"log-bucket-policy">> :> {<<"log-bucket">>}
    @@ <<"log-bucket-block">> :> {<<"log-bucket">>}

LogsBucketSettings == {<<"log-bucket-policy">>, <<"log-bucket-block">>}

CreateAthenaDb ==
    <<"athena-db">> :> {<<"log-bucket">>} @@ <<"workgroup">> :> {<<"athena-db">>, <<"log-bucket">>}

(* "issued" are the target groups without a certificate of their own,      *)
(* "validated" those of them in the domain of the SysEnv.                  *)
CreateAlb(groups, issued, validated) ==
    Each("target-group", groups, LAMBDA g : {<<"cluster">>})
    @@ Each("alb-group", groups, LAMBDA g : {<<"cluster">>})
    @@ Each("certificate", issued, LAMBDA g : {<<"target-group">> \o g})
    @@ Each("validation-record", validated, LAMBDA g : {<<"certificate">> \o g})
    @@ Each("validation", validated, LAMBDA g : {<<"certificate">> \o g, <<"validation-record">> \o g})
    @@ Each("alb", groups,
            LAMBDA g : {<<"target-group">> \o g, <<"alb-group">> \o g, <<"log-bucket">>})
    @@ Each("https-listener", groups,
            LAMBDA g : {<<"alb">> \o g, <<"target-group">> \o g} \cup All("certificate", {g} \cap issued))
    @@ Each("http-listener", groups, LAMBDA g : {<<"alb">> \o g})
    @@ Each("log-table", groups, LAMBDA g : {<<"alb">> \o g, <<"athena-db">>, <<"log-bucket">>})
    @@ Each("alb-record", groups, LAMBDA g : {<<"alb">> \o g})

(* Access logs can be switched on only when the bucket's policy lets them  *)
(* be written, a listener takes only a certificate that is validated.      *)
AlbUses(groups, validated) ==
    Each("alb", groups, LAMBDA g : {<<"log-bucket-policy">>})
    @@ Each("https-listener", validated, LAMBDA g : {<<"validation">> \o g})

CreateGlb(routeTables) ==
    <<"glb-target-group">> :> {<<"cluster">>}
    @@ <<"glb">> :> {<<"glb-target-group">>}
    @@ <<"endpoint-service">> :> {<<"glb">>}
    @@ <<"glb-endpoint">> :> {<<"endpoint-service">>}
    @@ <<"geneve-listener">> :> {<<"glb">>, <<"glb-target-group">>}
    @@ Each("glb-route", routeTables, LAMBDA t : {<<"glb-endpoint">>})

CreateNodegroupIamRole ==
    GenerateInstanceProfile({<<"cluster">>},
        DefaultPolicies \cup {"eni-manage-k8s", "ssm-path", "ecr-fetch", "assumable-roles", "sts-assume-k8s-bootstrap"})

CreateNodegroupSecurityGroup == <<"node-group">> :> {<<"cluster">>}

(* The hooks come after the group they belong to, which launches min_size  *)
(* instances as soon as it exists.                                         *)
CreateAutoscalingGroup(nodegroups, targetsOf) ==
    Each("launch-template", nodegroups, LAMBDA n : {<<"profile">>, <<"node-group">>})
    @@ Each("asg", nodegroups, LAMBDA n : {<<"launch-template">> \o n} \cup All("target-group", targetsOf[n]))
    @@ Each("launch-hook", nodegroups, LAMBDA n : {<<"asg">> \o n})
    @@ Each("termination-hook", nodegroups, LAMBDA n : {<<"asg">> \o n})

(* user_data.sh.j2: the CA (ssm-path), the keys of Datadog (ssm-default),  *)
(* the group and its hook (ec2-default, the hook itself).                  *)
AgentReads(n) ==
    Policies({"ssm-path", "ssm-default", "ec2-default"}) \cup {<<"launch-hook">> \o n}

K8sAgents(groups, issued, validated, routeTables, nodegroups, targetsOf) ==
    [Program(<<"cluster">> :> {} @@ CreateLogsBucket @@ CreateAthenaDb
             @@ CreateAlb(groups, issued, validated) @@ CreateGlb(routeTables)
             @@ CreateNodegroupIamRole @@ <<"custom-policy">> :> {<<"role">>}
             @@ CreateNodegroupSecurityGroup
             @@ CreateAutoscalingGroup(nodegroups, targetsOf)) EXCEPT
        !.uses = AlbUses(groups, validated),
        !.reads = Each("asg", nodegroups, LAMBDA n : AgentReads(n)),
        !.rivals = {LogsBucketSettings}]

-----------------------------------------------------------------------------
(* pritunl: the address of the VPN, and one group that launches nothing    *)
(* until an operator raises its capacity.  The database is an Atlas URI in *)
(* a parameter, or on a volume with a policy of its own.                   *)

PritunlDatabase(external) ==
    IF external THEN <<"uri-parameter">> :> {}
                ELSE <<"volume">> :> {} @@ <<"policy", "ebs-manage">> :> {<<"role">>, <<"volume">>}

PritunlAddress(routeTables) ==
    <<"security-group">> :> {}
    @@ <<"eni">> :> {<<"security-group">>}
    @@ <<"eip">> :> {<<"eni">>}
    @@ <<"record">> :> {<<"eip">>}
    @@ Each("client-route", routeTables, LAMBDA t : {<<"eni">>})

Pritunl(external, routeTables) ==
    LET volume == IF external THEN {} ELSE {<<"volume">>}
    IN  Program(PritunlDatabase(external) @@ PritunlAddress(routeTables)
                @@ GenerateInstanceProfile({}, DefaultPolicies \cup {"eni-manage"})
                @@ <<"ssm-policy">> :> {<<"role">>}
                @@ <<"launch-template">> :> {<<"profile">>, <<"eni">>} \cup volume
                @@ <<"asg">> :> {<<"launch-template">>})

-----------------------------------------------------------------------------
(* iam_roles: a policy for every bucket, stream and queue of a role, whose *)
(* names come from the outputs of other stacks, and the configured ones.   *)

IAMRoles(roles, grants) ==
    Program(Each("role", roles, LAMBDA r : {})
            @@ Each("role-policy", {r \o g : r \in roles, g \in grants}, LAMBDA rg : {<<"role", rg[1]>>}))

-----------------------------------------------------------------------------
(* datadog_integration                                                     *)

DatadogRole ==
    <<"datadog-role">> :> {<<"integration">>}
    @@ <<"integration-policy">> :> {<<"datadog-role">>}
    @@ <<"collection-policy">> :> {<<"datadog-role">>}
    @@ <<"audit-attachment">> :> {<<"datadog-role">>}

(* The keys that are not configured are read from the stack ssm when the   *)
(* program runs.                                                           *)
DatadogIntegration ==
    Program(<<"provider">> :> {}
            @@ <<"integration">> :> {<<"provider">>}
            @@ DatadogRole
            @@ <<"api-key-secret">> :> {}
            @@ <<"api-key-version">> :> {<<"api-key-secret">>}
            @@ <<"forwarder-stack">> :> {<<"api-key-version">>}
            @@ <<"stream-stack">> :> {<<"integration">>})

=============================================================================
