------------------------------- MODULE AwsData -------------------------------
(***************************************************************************)
(* The modules that keep data: rds_postgres, rds_mysql, documentdb,        *)
(* elasticache, elasticsearch, dynamodb, kinesis, sqs, s3 and ssm.         *)
(***************************************************************************)
EXTENDS Programs

-----------------------------------------------------------------------------
(* rds_mysql and rds_postgres: one instance and its replicas               *)

MySQLInstance(replicas) ==
    <<"subnet-group">> :> {}
    @@ <<"parameter-group">> :> {<<"subnet-group">>}
    @@ <<"security-group">> :> {<<"parameter-group">>}
    @@ <<"ingress-rule">> :> {<<"security-group">>}
    @@ <<"self-rule">> :> {<<"security-group">>}
    @@ <<"password">> :> {<<"parameter-group">>}
    @@ <<"instance">> :> {<<"subnet-group">>, <<"parameter-group">>, <<"security-group">>, <<"password">>}
    @@ <<"password-parameter">> :> {<<"instance">>}
    @@ <<"uri-parameter">> :> {<<"instance">>}
    @@ Each("replica", replicas, LAMBDA i : {<<"instance">>, <<"parameter-group">>})

RDSMySQL(replicas) == Program(MySQLInstance(replicas))

(* The instance is declared as in rds_mysql; its databases are made by a   *)
(* provider that connects to it.                                           *)
PostgresInstance(replicas) ==
    MySQLInstance(replicas)
    @@ <<"provider">> :> {<<"instance">>} \cup All("replica", replicas)

CreateDatabase(db) ==
    <<"database">> \o db :> {<<"provider">>}
    @@ <<"grant-all">> \o db :> {<<"database">> \o db}
    @@ <<"revoke-schema">> \o db :> {<<"grant-all">> \o db}
    @@ <<"revoke-all">> \o db :> {<<"revoke-schema">> \o db}

(* depends_on=deps[-1:]: a role waits for the last grant of the role       *)
(* before it, which is the last one made.                                  *)
(* Mutant: depends_on=deps[:1], the grants of the database only.           *)
CreateRole_FirstDep(db, role, dep) ==
    LET of == db \o <<role>>
    IN  <<"role-password">> \o of :> {<<"database">> \o db}
        @@ <<"role">> \o of :> {<<"database">> \o db, <<"role-password">> \o of, <<"revoke-all">> \o db}
        @@ <<"grant-connect">> \o of :> {<<"role">> \o of}
        @@ <<"grant-read">> \o of :> {<<"grant-connect">> \o of}

CreateRole(db, role, dep) ==
    LET of == db \o <<role>>
    IN  <<"role-password">> \o of :> {<<"database">> \o db}
        @@ <<"role">> \o of :> {<<"database">> \o db, <<"role-password">> \o of, dep}
        @@ <<"grant-connect">> \o of :> {<<"role">> \o of}
        @@ <<"grant-read">> \o of :> {<<"grant-connect">> \o of}

GrantAppAccess(db) ==
    <<"app-grant-db">> \o db :> {<<"grant-read">> \o (db \o <<"app">>)}
    @@ <<"app-grant-schema">> \o db :> {<<"app-grant-db">> \o db}
    @@ <<"app-grant-write">> \o db :> {<<"app-grant-schema">> \o db}

SetupDatabase(db) ==
    CreateDatabase(db)
    @@ CreateRole(db, "app", <<"revoke-all">> \o db) @@ GrantAppAccess(db)
    @@ CreateRole(db, "read", <<"app-grant-write">> \o db)

(* What changes the access list of one database.  PostgreSQL aborts one of *)
(* two such statements: "tuple concurrently updated".                      *)
AccessListOf(db) ==
    {<<"grant-all">> \o db, <<"revoke-schema">> \o db, <<"revoke-all">> \o db,
     <<"app-grant-db">> \o db, <<"app-grant-schema">> \o db,
     <<"grant-connect">> \o (db \o <<"app">>), <<"grant-connect">> \o (db \o <<"read">>)}

(* Only the passwords of the roles are made without a connection, which    *)
(* goes to the instance itself, past its security group.                   *)
RDSPostgres(databases, replicas) ==
    LET inside == UNION {SetupDatabase(db) : db \in databases}
        statements == {r \in About(inside) : r[1] # "role-password"}
    IN  [Program(PostgresInstance(replicas) @@ inside) EXCEPT
            !.paths = ForAll(statements, {<<"instance">>, <<"ingress-rule">>}),
            !.rivals = {AccessListOf(db) : db \in databases}]

-----------------------------------------------------------------------------
(* documentdb, elasticache, elasticsearch                                  *)

DocumentDB(members) ==
    Program(<<"subnet-group">> :> {}
            @@ <<"parameter-group">> :> {<<"subnet-group">>}
            @@ <<"security-group">> :> {}
            @@ <<"password">> :> {<<"parameter-group">>}
            @@ <<"cluster">> :> {<<"subnet-group">>, <<"parameter-group">>, <<"security-group">>, <<"password">>}
            @@ <<"password-parameter">> :> {<<"cluster">>}
            @@ <<"uri-parameter">> :> {<<"cluster">>}
            @@ Each("member", members, LAMBDA i : {<<"cluster">>}))

(* A password only where traffic is encrypted.                             *)
Elasticache(encrypted, plain) ==
    LET groups == encrypted \cup plain
    IN  Program(<<"subnet-group">> :> {}
                @@ Each("parameter-group", groups, LAMBDA g : {<<"subnet-group">>})
                @@ Each("security-group", groups, LAMBDA g : {})
                @@ Each("password", encrypted, LAMBDA g : {<<"parameter-group">> \o g})
                @@ Each("password-parameter", encrypted, LAMBDA g : {<<"password">> \o g})
                @@ Each("replication-group", groups,
                        LAMBDA g : {<<"subnet-group">>, <<"parameter-group">> \o g, <<"security-group">> \o g}
                                   \cup All("password", {g} \cap encrypted))
                @@ Each("uri-parameter", groups, LAMBDA g : {<<"replication-group">> \o g}))

(* Domains in a VPC need the role that is linked to the service, and are   *)
(* given nothing of it.                                                    *)
ElasticSearch(clusters) ==
    [Program(<<"service-linked-role">> :> {}
             @@ <<"security-group">> :> {}
             @@ Each("domain", clusters, LAMBDA c : {<<"security-group">>})) EXCEPT
        !.uses = Each("domain", clusters, LAMBDA c : {<<"service-linked-role">>})]

-----------------------------------------------------------------------------
(* dynamodb, kinesis, ssm, s3, sqs                                         *)

DynamoDB(tables) == Program(Each("table", tables, LAMBDA t : {}))

Kinesis(streams) == Program(Each("stream", streams, LAMBDA s : {}))

SSM(parameters) == Program(Each("parameter", parameters, LAMBDA p : {}))

(* S3 refuses the policy of a bucket while the public access block is      *)
(* being changed: "A conflicting conditional operation is currently in     *)
(* progress against this resource".                                        *)
SettingsOf(b) == {<<"public-access-block">> \o b, <<"bucket-policy">> \o b}

S3Bucket(buckets) ==
    [Program(Each("bucket", buckets, LAMBDA b : {})
             @@ Each("public-access-block", buckets, LAMBDA b : {<<"bucket">> \o b})
             @@ Each("bucket-policy", buckets, LAMBDA b : {<<"public-access-block">> \o b})) EXCEPT
        !.rivals = {SettingsOf(b) : b \in buckets}]

(* A queue names its dead letter queue by ARN, also when both are here.    *)
SQS(queues, shared, deadLetter) ==
    [Program(Each("queue", queues, LAMBDA q : {})
             @@ Each("queue-policy", shared, LAMBDA q : {<<"queue">> \o q})) EXCEPT
        !.uses = Each("queue", queues, LAMBDA q : All("queue", deadLetter[q]))]

=============================================================================
