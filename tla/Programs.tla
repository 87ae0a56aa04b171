------------------------------- MODULE Programs -------------------------------
(***************************************************************************)
(* The vocabulary in which the build() methods of the Thunder modules are  *)
(* described.  A resource is a tuple: its kind, and what tells it from the *)
(* others of that kind.  A program says                                    *)
(*   needs:  what a resource has for a parent or in depends_on, and whose  *)
(*           outputs it is given: the engine creates these first, and      *)
(*           deletes them later;                                           *)
(*   awaits: what the program waits for before it declares the resource,   *)
(*           through Output.future(): these are created first as well, but *)
(*           the engine knows of no dependency when it deletes;            *)
(*   uses:   what the cloud wants to find when the resource is created but *)
(*           the program only names, or leaves out;                        *)
(*   paths:  what the calls that create and delete the resource have to    *)
(*           pass, because they go to a server in the network and not to   *)
(*           the API of the cloud;                                         *)
(*   reads:  what an instance reads once, at its first boot;               *)
(*   rivals: sets of resources that are parts of one thing, of which the   *)
(*           cloud refuses to create two at once.                          *)
(* Only "needs" says something of every resource.                          *)
(***************************************************************************)
EXTENDS Integers, Sequences, FiniteSets

(* Each of these relates resources to sets of resources, and is written    *)
(* down as the set of its pairs: one pair, and parts put together.         *)
r :> ds == {<<r, ds>>}

f @@ g == f \cup g

Nothing == {}

Program(needs) ==
    [needs |-> needs, awaits |-> Nothing, uses |-> Nothing, paths |-> Nothing, reads |-> Nothing, rivals |-> {}]

(* The resources of one kind, the same for all of some resources, and a    *)
(* set for each resource of a kind.                                        *)
All(kind, indices) == {<<kind>> \o i : i \in indices}

ForAll(rs, ds) == {<<r, ds>> : r \in rs}

Each(kind, indices, Value(_)) == {<<<<kind>> \o i, Value(i)>> : i \in indices}

(* The resources a relation is about, and what it relates one of them to.  *)
About(f) == {e[1] : e \in f}

At(f, r) == UNION {e[2] : e \in {e \in f : e[1] = r}}

=============================================================================
