----------------------------- MODULE AzureSysEnv -----------------------------
(***************************************************************************)
(* The modules of Azure but for those of clusters: network, firewall,      *)
(* dns_zones, keyvault, storage, imagegallery, iam and pritunl.            *)
(***************************************************************************)
EXTENDS Programs

-----------------------------------------------------------------------------
(* network: "subnets" is a sequence of records with a purpose, in the      *)
(* order in which they are configured.                                     *)

DefaultKeypair ==
    <<"private-key">> :> {} @@ <<"ssh-key">> :> {<<"private-key">>}

NatGateway(ips) ==
    Each("nat-ip", ips, LAMBDA i : {<<"vnet">>})
    @@ <<"nat-gateway">> :> {<<"vnet">>} \cup All("nat-ip", ips)

(* Subnets of gateways and firewalls have a route table of their own.      *)
OwnTable(purpose) == purpose \in {"gateway", "firewall"}

RouteTableOf(purpose) ==
    IF OwnTable(purpose) THEN <<"route-table", purpose>> ELSE <<"route-table">>

NetworkRouteTables(purposes) ==
    <<"route-table">> :> {<<"vnet">>}
    @@ ForAll({RouteTableOf(p) : p \in purposes}, {<<"vnet">>})
    @@ ForAll({<<"internet-route", p>> : p \in purposes \cap {"firewall"}}, {RouteTableOf("firewall")})

(* depends_on=subnets[-1:]: each subnet waits for the one before it.       *)
SubnetChain(subnets) ==
    {<<<<"subnet", subnets[i]>>, {<<"subnet", subnets[i - 1]>>}>> : i \in 2 .. Len(subnets)}

(* Subnets that reach the internet by themselves go around the NAT.        *)
BehindNat(purpose) == purpose \notin {"gateway", "public", "firewall"}

Subnets(purposes, natIps) ==
    {<<<<"subnet", p>>,
       {<<"vnet">>, RouteTableOf(p)} \cup IF natIps # {} /\ BehindNat(p) THEN {<<"nat-gateway">>} ELSE {}>> :
     p \in purposes}

(* A change of a network is refused while another one is under way.        *)
Network(subnets, natIps) ==
    LET purposes == {subnets[i] : i \in 1 .. Len(subnets)}
    IN  [Program(DefaultKeypair @@ <<"vnet">> :> {}
                 @@ (IF natIps = {} THEN Nothing ELSE NatGateway(natIps))
                 @@ NetworkRouteTables(purposes) @@ Subnets(purposes, natIps) @@ SubnetChain(subnets)) EXCEPT
            !.rivals = {{<<"subnet", p>> : p \in purposes}}]

-----------------------------------------------------------------------------
(* firewall: the hub that the networks of the connected SysEnvs route to.  *)
(* The rules name the groups of the connected SysEnvs and of those allowed *)
(* to reach them.  The connection to a peer is given no gateway yet.       *)

Firewall(sysenvs, remotes, allowed, peers) ==
    Program(Each("ip-group", sysenvs \cup remotes, LAMBDA s : {})
            @@ <<"firewall-policy">> :> {}
            @@ <<"firewall">> :> {<<"firewall-policy">>}
            @@ <<"rule-collection">> :> {<<"firewall-policy">>, <<"firewall">>} \cup All("ip-group", sysenvs \cup allowed)
            @@ Each("peering", sysenvs, LAMBDA s : {})
            @@ Each("firewall-route", sysenvs, LAMBDA s : {<<"firewall">>})
            @@ Each("gateway-ip", {<<"primary">>, <<"secondary">>}, LAMBDA i : {})
            @@ <<"vpn-gateway">> :> {<<"gateway-ip", "primary">>, <<"gateway-ip", "secondary">>}
            @@ Each("local-gateway", peers, LAMBDA p : {<<"vpn-gateway">>})
            @@ Each("connection", peers, LAMBDA p : {}))

-----------------------------------------------------------------------------
(* dns_zones: every zone is declared before any record; extra zones whose  *)
(* base is the zone of the SysEnv are delegated to.                        *)

ZoneRecords(extras) ==
    <<"record">> :> {<<"zone">>} @@ Each("extra-record", extras, LAMBDA e : {<<"extra-zone">> \o e})

ParentExtras(extras) ==
    Each("delegation", extras, LAMBDA e : {<<"zone">>, <<"extra-zone">> \o e})

DNSZones(extras, baseOf) ==
    Program(<<"zone">> :> {} @@ Each("extra-zone", extras, LAMBDA e : {})
            @@ ZoneRecords(extras)
            @@ ParentExtras({e \in extras : baseOf[e] = <<"zone">>}))

-----------------------------------------------------------------------------
(* keyvault: secrets are given the name of the vault, which is configured, *)
(* and wait for it as their parent.                                        *)

CreateSysenvVault ==
    <<"vault">> :> {}
    @@ <<"reader-identity">> :> {<<"vault">>}
    @@ <<"reader-assignment">> :> {<<"vault">>, <<"reader-identity">>}

CreateSecrets(secrets) == Each("secret", secrets, LAMBDA s : {<<"vault">>})

CreateSecretUses(secrets) == Each("secret", secrets, LAMBDA s : {<<"vault">>})

KeyVault(secrets) ==
    [Program(CreateSysenvVault @@ CreateSecrets(secrets)) EXCEPT !.uses = CreateSecretUses(secrets)]

-----------------------------------------------------------------------------
(* storage, imagegallery, iam                                              *)

CreateBlobStorageAccounts(names) ==
    Each("blob-account", names, LAMBDA n : {})
    @@ Each("container", names, LAMBDA n : {<<"blob-account">> \o n})

CreateFileStorageAccounts(names) ==
    Each("file-account", names, LAMBDA n : {})
    @@ Each("share", names, LAMBDA n : {<<"file-account">> \o n})

Storage(blobs, files) ==
    Program(CreateBlobStorageAccounts(blobs) @@ CreateFileStorageAccounts(files))

ImageGallery(extras) == Program(Each("gallery", {<<"default">>} \cup extras, LAMBDA g : {}))

GrantAccess(identity, accounts) ==
    Each("role-assignment", {identity \o a : a \in accounts}, LAMBDA a : {<<"identity">> \o identity})

IAM(identities, accounts) ==
    Program(Each("identity", identities, LAMBDA i : {})
            @@ UNION {GrantAccess(i, accounts) : i \in identities})

-----------------------------------------------------------------------------
(* lib/azure/iam: the roles of a machine are given to the identity Azure   *)
(* makes for it, and thus once it runs.                                    *)

AssignSysenvVmRoles(vm, scopes) ==
    Each("vm-role", {vm \o s : s \in scopes \cup {<<"sysenv-vault">>}}, LAMBDA s : {vm})

-----------------------------------------------------------------------------
(* pritunl: one machine, whose database is on its disk or at a URI that is *)
(* kept in a vault of its own.                                             *)

MongoSecret == <<"vault">> :> {} @@ <<"mongo-secret">> :> {<<"vault">>}

MongoRole == <<"mongo-role">> :> {<<"vault">>, <<"vm">>}

AzurePritunl(external, routes) ==
    LET secret == IF external THEN {<<"mongo-secret">>} ELSE {}
    IN  [Program(<<"public-ip">> :> {}
                 @@ <<"security-group">> :> {}
                 @@ <<"nic">> :> {<<"public-ip">>, <<"security-group">>}
                 @@ <<"disk">> :> {}
                 @@ Each("client-route", routes, LAMBDA r : {<<"nic">>})
                 @@ (IF external THEN MongoSecret @@ MongoRole ELSE Nothing)
                 @@ <<"vm">> :> {<<"nic">>, <<"disk">>} \cup secret
                 @@ AssignSysenvVmRoles(<<"vm">>, {})) EXCEPT
            !.reads = IF external THEN <<"vm">> :> {<<"mongo-secret">>, <<"mongo-role">>} ELSE Nothing]

=============================================================================
