--------------------------- MODULE MCTransitGateway ---------------------------
(* Instances of TransitGateway for TLC. *)
EXTENDS TransitGateway, TLC

CONSTANTS hub, a, b

TwoSpokes == <<a, b>>

(* b may connect to a from the start; a is allowed to answer later. *)
OneWayFirst == {[s \in Spokes |-> IF s = b THEN {a} ELSE {}]}

AllConfigs == {f \in [Spokes -> SUBSET Spokes] : \A s \in Spokes : s \notin f[s]}

NoTables == [s \in SysEnvs |-> {}]

OneTableEach == [s \in SysEnvs |-> {1}]

=============================================================================
