------------------------------ MODULE MCMetering ------------------------------
(* Windows and usages for the runs of UsageMetering. *)
EXTENDS MeteringProperties

Window(s, c) == [size |-> s, cap |-> c]

ShortAndLong == <<Window(2, 2), Window(4, 3)>>

\* Nothing, less than a credit's worth, and more than one's.
SmallUsages == {[prompt |-> 0, completion |-> 0], [prompt |-> 1, completion |-> 0],
                [prompt |-> 1, completion |-> 1]}
=============================================================================
