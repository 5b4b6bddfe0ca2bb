---------------------------- MODULE MCPathLeases ----------------------------
(* A small instance of PathLeases for TLC: a directory with a file in it, and *)
(* a file elsewhere; one run has two calls under way, the other has one. *)
EXTENDS PathLeases, TLC

CONSTANTS dir, inner, other, run1, run2, call1, call2, call3

Tree == (dir :> {dir, inner}) @@ (inner :> {inner}) @@ (other :> {other})
RunOf == (call1 :> run1) @@ (call2 :> run1) @@ (call3 :> run2)
Written == {<<call3, inner>>}
Asked == {{[path |-> dir, scope |-> "tree"]},
          {[path |-> inner, scope |-> "file"], [path |-> other, scope |-> "file"]}}
=============================================================================
