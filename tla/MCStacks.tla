------------------------------- MODULE MCStacks -------------------------------
(***************************************************************************)
(* Stacks for the programs of all modules, each in a small configuration   *)
(* with every option that adds a resource.  A resource is the tuple of its *)
(* program (module) with the name of that program in front.                *)
(***************************************************************************)
EXTENDS Stacks, AwsNetwork, AwsData, AwsControllers

Azure == INSTANCE AzureClusters

(* The transit gateway of the hub "h" with the spokes "a" and "b", which   *)
(* are allowed to peer.                                                    *)
TransitGateway ==
    INSTANCE TransitGateway
    WITH Connections <- <<"a", "b">>, Hub <- "h", InitialConfigs <- {},
         RouteTables <- [s \in {"a", "b", "h"} |-> {1}], allowed <- <<>>

(* Its resources as tuples; the hub's own list is told from the others.    *)
Tuple(r) == <<IF r.kind = "entry" /\ r.of = "h" THEN "local-entry" ELSE r.kind, r.of, r.table, r.dest>>

TransitGatewayProgram ==
    LET Tuples(rs) == {Tuple(r) : r \in rs}
        Routes == {r \in TransitGateway!Declarable : r.kind = "route"}
        Attachments == {r \in TransitGateway!Declarable : r.kind = "attachment" /\ r.of # "h"}
        needs == {<<Tuple(r), Tuples(TransitGateway!Dependencies[r])>> : r \in TransitGateway!Declarable}
    IN  [Program(needs) EXCEPT
           !.uses = {<<Tuple(r), {<<"attachment", r.of, 0, r.of>>}>> : r \in Routes}
                    \cup ForAll(Tuples(Attachments), Tuples(TransitGateway!Sharing)),
           !.rivals = {Tuples({r} \cup TransitGateway!EntryRivals[r]) :
                         r \in {r \in TransitGateway!Declarable : r.kind = "entry"}}]

OneOf(s) == {<<s>>}
TwoOf(s, t) == {<<s>>, <<t>>}

AwsPrograms ==
    [transitgateway |-> TransitGatewayProgram,
     vpc |-> Vpc({"a", "b"}, OneOf("secondary")),
     route53 |-> HostedZone(TwoOf("x", "y"), [e \in TwoOf("x", "y") |-> IF e = <<"x">> THEN <<"zone">> ELSE <<"x">>]),
     rds_mysql |-> RDSMySQL(TwoOf("1", "2")),
     rds_postgres |-> RDSPostgres(TwoOf("d", "e"), OneOf("1")),
     documentdb |-> DocumentDB(TwoOf("1", "2")),
     elasticache |-> Elasticache(OneOf("tls"), OneOf("plain")),
     elasticsearch |-> ElasticSearch(TwoOf("1", "2")),
     dynamodb |-> DynamoDB(TwoOf("1", "2")),
     kinesis |-> Kinesis(TwoOf("1", "2")),
     ssm |-> SSM(TwoOf("1", "2")),
     s3 |-> S3Bucket(TwoOf("1", "2")),
     sqs |-> SQS(TwoOf("q", "dead"), OneOf("q"), [q \in TwoOf("q", "dead") |-> IF q = <<"q">> THEN OneOf("dead") ELSE {}]),
     pritunl |-> Pritunl(FALSE, TwoOf("a", "b")),
     pritunl_atlas |-> Pritunl(TRUE, OneOf("a")),
     iam_roles |-> IAMRoles(OneOf("r"), TwoOf("bucket", "queue")),
     datadog_integration |-> DatadogIntegration,
     k8s_agents |-> K8sAgents(TwoOf("default", "extra"), OneOf("default"), OneOf("default"), OneOf("a"),
            OneOf("n"), [n \in OneOf("n") |-> OneOf("extra")]),
     k8s_controllers |-> K8sControllers(TwoOf("a", "b"), TRUE, OneOf("admin"), OneOf("team"),
            OneOf("team"), OneOf("chart"))]

AzurePrograms ==
    [network |-> Azure!Network(<<"gateway", "firewall", "private", "public">>, TwoOf("1", "2")),
     firewall |-> Azure!Firewall(TwoOf("dev", "prod"), OneOf("hq"), OneOf("hq"), OneOf("hq")),
     dns_zones |-> Azure!DNSZones(OneOf("x"), [e \in OneOf("x") |-> <<"zone">>]),
     keyvault |-> Azure!KeyVault(TwoOf("1", "2")),
     storage |-> Azure!Storage(OneOf("b"), OneOf("f")),
     imagegallery |-> Azure!ImageGallery(OneOf("extra")),
     iam |-> Azure!IAM(OneOf("i"), TwoOf("b", "f")),
     pritunl |-> Azure!AzurePritunl(TRUE, OneOf("a")),
     k8s_controllers |-> Azure!AzureK8sControllers(OneOf("team")),
     k8s_agents |-> Azure!AzureK8sAgents(TwoOf("m", "n"), TwoOf("g", "h"), OneOf("v"),
            [n \in TwoOf("m", "n") |-> OneOf("g")],
            [g \in TwoOf("g", "h") |-> <<"v">>])]

-----------------------------------------------------------------------------
(* All of them side by side.                                               *)

(* The function itself, worked out at once for all its arguments.          *)
Table(f) == CHOOSE g \in {f} : g = f

SideBySide(aws, azure) ==
    Table([p \in ({"aws"} \X DOMAIN aws) \cup ({"azure"} \X DOMAIN azure) |->
             IF p[1] = "aws" THEN aws[p[2]] ELSE azure[p[2]]])

Prefixed(p, rs) == {p \o r : r \in rs}

HomeOf(r) == <<r[1], r[2]>>

NameOf(r) == SubSeq(r, 3, Len(r))

(* Dependencies of dependencies, up to 32 of them in a row.                *)
Closed(f) ==
    LET Step(g) == [r \in DOMAIN g |-> g[r] \cup UNION {g[d] : d \in g[r]}]
        g1 == Step(f)
        g2 == Step(g1)
        g3 == Step(g2)
        g4 == Step(g3)
    IN  Step(g4)

(* What no program orders, as pairs of kinds: NamesResolve, BootsComplete  *)
(* and RivalsApart do not hold of these pairs, ComesUp and GetsOn do.      *)
Unordered ==
    {<<"local-entry", "local-entry">>, <<"route", "attachment">>,
     <<"subnet", "cidr">>, <<"nat-gateway", "internet-gateway">>,
     <<"domain", "service-linked-role">>, <<"queue", "queue">>,
     <<"alb", "log-bucket-policy">>, <<"https-listener", "validation">>,
     <<"log-bucket-policy", "log-bucket-block">>, <<"log-bucket-block", "log-bucket-policy">>,
     <<"asg", "policy">>, <<"asg", "launch-hook">>,
     <<"extra-secret", "namespace">>,
     <<"vm", "mongo-role">>, <<"vmss", "vm-role">>, <<"vmss", "load-balancer">>,
     <<"gateway", "gateway-identity">>, <<"gateway", "certificate-access">>,
     <<"node-group", "gateway">>}

(* The ways that no program waits for: PathsKept and NamesResolve are      *)
(* about the servers behind them only.                                     *)
UnorderedPaths == {"ingress-rule", "load-balancer", "lb-endpoint"}

(* The constants of Stacks, in one record, put together in three steps:    *)
(* each is given the result of the one before.                             *)
Gathered(programs, resources) ==
    LET Field(Get(_)) ==
            [r \in resources |-> Prefixed(HomeOf(r), At(Get(programs[HomeOf(r)]), NameOf(r)))]
    IN  [programs |-> DOMAIN programs,
         resources |-> resources,
         needs |-> Field(LAMBDA p : p.needs), awaits |-> Field(LAMBDA p : p.awaits),
         names |-> Field(LAMBDA p : p.uses), paths |-> Field(LAMBDA p : p.paths),
         reads |-> Field(LAMBDA p : p.reads),
         rivalSets |-> UNION {{Prefixed(p, s) : s \in programs[p].rivals} : p \in DOMAIN programs}]

Related(g, rivals) ==
    LET Naming(p) == {r \in g.resources : HomeOf(r) = p /\ g.names[r] # {}}
    IN  [resources |-> g.resources,
         waitsFor |-> Closed([r \in g.resources |-> g.needs[r] \cup g.awaits[r]]),
         recorded |-> Closed(g.needs),
         names |-> g.names, paths |-> g.paths, reads |-> g.reads, rivals |-> rivals,
         races |-> [r \in g.resources |->
            {q \in rivals[r] \cup g.names[r] \cup g.reads[r] : <<r[3], q[3]>> \in Unordered}
            \cup {q \in g.paths[r] : q[3] \in UnorderedPaths}],
         cuts |-> [r \in g.resources |-> {q \in g.paths[r] : q[3] = "endpoint"}],
         views |-> (g.rivalSets
            \cup UNION {{{r, q} : q \in g.names[r] \cup g.paths[r] \cup g.reads[r]} : r \in g.resources}
            \cup {Naming(p) \cup UNION {g.names[r] : r \in Naming(p)} : p \in g.programs}) \ {{}}]

WithRivals(g) ==
    Related(g, [r \in g.resources |-> (UNION {s \in g.rivalSets : r \in s}) \ {r}])

Assembled(programs) ==
    WithRivals(Gathered(programs, UNION {Prefixed(p, About(programs[p].needs)) : p \in DOMAIN programs}))

SysEnvs == Assembled(SideBySide(AwsPrograms, AzurePrograms))

AllResources == SysEnvs.resources
Order == SysEnvs.waitsFor
RecordedDependencies == SysEnvs.recorded
UsedNames == SysEnvs.names
UsedPaths == SysEnvs.paths
ReadAtBoot == SysEnvs.reads
RivalsOf == SysEnvs.rivals
KnownRaces == SysEnvs.races
KnownCuts == SysEnvs.cuts
AllViews == SysEnvs.views

=============================================================================
