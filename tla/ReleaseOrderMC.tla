---------------------------- MODULE ReleaseOrderMC ----------------------------
(* Small sets of versions for TLC. *)
EXTENDS ReleaseOrder

V(major, minor, pre) == [major |-> major, minor |-> minor, patch |-> 0, pre |-> pre]
Num(n) == [alpha |-> FALSE, rank |-> n]
Word(n) == [alpha |-> TRUE, rank |-> n]

Finals == {V(0, 9, <<>>), V(0, 10, <<>>), V(1, 0, <<>>)}

(* 0.10.0-1, -2, -10, -rc, -rc.1 and 1.0.0-rc.1 *)
Previews == {V(0, 10, <<Num(1)>>), V(0, 10, <<Num(2)>>), V(0, 10, <<Num(10)>>),
             V(0, 10, <<Word(1)>>), V(0, 10, <<Word(1), Num(1)>>),
             V(1, 0, <<Word(1), Num(1)>>)}

MCVersions == Finals \cup Previews
=============================================================================
