----------------------- MODULE MCBaselinePublication -----------------------
(* Two publications over an earlier one of two snapshots, in either order  *)
(* or overlapping: one replaces both and adds a third, the other emits     *)
(* that third only and drops both.                                         *)
EXTENDS BaselinePublication

CONSTANTS first, second, earlier

MCSnapshots == 1..3
MCContext == 4
MCEmits == (earlier :> {1, 2}) @@ (first :> {1, 2, 3}) @@ (second :> {3})

(* Each publication replaces the one snapshot and adds one of its own.     *)
OverlapEmits == (earlier :> {1}) @@ (first :> {1, 2}) @@ (second :> {1, 3})
=============================================================================
