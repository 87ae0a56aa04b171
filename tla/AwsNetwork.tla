------------------------------ MODULE AwsNetwork ------------------------------
(***************************************************************************)
(* The modules vpc and route53: what every other stack of a SysEnv looks   *)
(* up by its tags.  A subnet is <<purpose, zone>>.                         *)
(***************************************************************************)
EXTENDS Programs

Public(zones) == {<<"public", z>> : z \in zones}
Private(zones) == {<<"private", z>> : z \in zones}

-----------------------------------------------------------------------------
(* vpc *)

CreateVpc(cidrs) ==
    <<"vpc">> :> {} @@ Each("cidr", cidrs, LAMBDA c : {<<"vpc">>})

CreateDhcpOptions ==
    <<"dhcp-options">> :> {<<"vpc">>}
    @@ <<"dhcp-association">> :> {<<"vpc">>, <<"dhcp-options">>}

(* The share of the supernet's list with the organisation. *)
SetupPrefixList ==
    <<"prefix-list">> :> {<<"vpc">>}
    @@ <<"peered-prefix-list">> :> {<<"vpc">>}
    @@ <<"share">> :> {<<"prefix-list">>}
    @@ <<"resource-association">> :> {<<"share">>, <<"prefix-list">>}
    @@ <<"principal-association">> :> {<<"share">>}

SetupSubnets(subnets) ==
    Each("subnet", subnets, LAMBDA s : {<<"vpc">>})
    @@ Each("route-table", subnets, LAMBDA s : {<<"vpc">>, <<"subnet">> \o s})
    @@ Each("route-table-association", subnets,
            LAMBDA s : {<<"subnet">> \o s, <<"route-table">> \o s})

(* A subnet may lie in any of the VPC's address ranges, and waits for none *)
(* of the secondary ones.                                                  *)
SubnetsUse(subnets, cidrs) == Each("subnet", subnets, LAMBDA s : All("cidr", cidrs))

SetupNetworkAcls(subnets) == <<"network-acl">> :> {<<"vpc">>} \cup All("subnet", subnets)

SetupSecurityGroups ==
    <<"ping-group">> :> {<<"vpc">>, <<"prefix-list">>, <<"peered-prefix-list">>}
    @@ <<"ssh-group">> :> {<<"vpc">>, <<"prefix-list">>}

(* Only the public subnets are associated with the endpoint of EC2.        *)
SetupVpcEndpoints(subnets) ==
    <<"endpoint-group">> :> {<<"vpc">>, <<"prefix-list">>}
    @@ <<"s3-endpoint">> :> {<<"vpc">>}
    @@ <<"ec2-endpoint">> :> {<<"vpc">>, <<"endpoint-group">>}
    @@ Each("s3-association", subnets, LAMBDA s : {<<"s3-endpoint">>, <<"route-table">> \o s})
    @@ Each("ec2-association", {s \in subnets : s[1] = "public"},
            LAMBDA s : {<<"ec2-endpoint">>, <<"subnet">> \o s})

SetupIgw(subnets) ==
    <<"internet-gateway">> :> {<<"vpc">>}
    @@ Each("igw-route", subnets, LAMBDA s : {<<"internet-gateway">>, <<"route-table">> \o s})

(* The route of a private subnet leads to the NAT gateway of its own zone. *)
SetupNatGateways(public, private) ==
    Each("nat-eip", public, LAMBDA s : {<<"vpc">>})
    @@ Each("nat-gateway", public, LAMBDA s : {<<"nat-eip">> \o s, <<"subnet">> \o s})
    @@ Each("nat-route", private,
            LAMBDA s : {<<"route-table">> \o s} \cup {<<"nat-gateway">> \o p : p \in {p \in public : p[2] = s[2]}})

(* AWS creates NAT gateways only in a VPC with an internet gateway; nothing *)
(* but the VPC comes before either.                                        *)
NatGatewaysUse(public) == Each("nat-gateway", public, LAMBDA s : {<<"internet-gateway">>})

SetupDefaultKeypair ==
    <<"private-key">> :> {<<"vpc">>} @@ <<"keypair">> :> {<<"private-key">>}

Vpc(zones, cidrs) ==
    LET subnets == Public(zones) \cup Private(zones)
        needs == CreateVpc(cidrs) @@ CreateDhcpOptions @@ SetupPrefixList
                 @@ SetupSubnets(subnets) @@ SetupNetworkAcls(subnets) @@ SetupSecurityGroups
                 @@ SetupVpcEndpoints(subnets) @@ SetupIgw(Public(zones))
                 @@ SetupNatGateways(Public(zones), Private(zones)) @@ SetupDefaultKeypair
    IN  [Program(needs) EXCEPT !.uses = SubnetsUse(subnets, cidrs) @@ NatGatewaysUse(Public(zones))]

-----------------------------------------------------------------------------
(* route53: a zone for the SysEnv and further ones.  Only those whose base *)
(* is the SysEnv's zone are delegated to from there.                       *)

CreateZones(extras, baseOf) ==
    <<"zone">> :> {}
    @@ Each("extra-zone", extras, LAMBDA e : {})
    @@ Each("delegation", {e \in extras : baseOf[e] = <<"zone">>},
            LAMBDA e : {<<"zone">>, <<"extra-zone">> \o e})

CreateRecords(extras) ==
    <<"record">> :> {<<"zone">>}
    @@ Each("extra-record", extras, LAMBDA e : {<<"extra-zone">> \o e})

HostedZone(extras, baseOf) == Program(CreateZones(extras, baseOf) @@ CreateRecords(extras))

=============================================================================
