------------------------- MODULE MCSchemaTransaction ------------------------
(* A small instance of SchemaTransaction for TLC. *)
EXTENDS SchemaTransaction, TLC

CONSTANTS t1, t2, shared, own, other

\* Both transactions write one file, the first another one as well.
SmallTouches == (t1 :> {shared, own}) @@ (t2 :> {shared})

\* One mishap or withdrawal in a behaviour, and no step after the first trespass.
OneMishap == faults.withdrawal + faults.edit + faults.write + faults.restore <= 1
UntilTrespass == ~trespass

\* The processes are interchangeable.
Symmetry == Permutations(Hosts)
=============================================================================
