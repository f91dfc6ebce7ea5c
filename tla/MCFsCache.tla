----------------------------- MODULE MCFsCache -----------------------------
(* Instances of FsCache for TLC.                                           *)
EXTENDS FsCache, TLC

CONSTANTS c1, c2, p1, big, empty

TwoCachers == {c1, c2}
AllUsers   == {c1, c2, p1}
Plan(f, c) == [files |-> f, cache |-> c]
AllPlans   == {Plan(3, 0), Plan(1, 2)}
ThreeCalls == {Plan(3, 0)}

TwoAlike   == [t \in Modules |-> big]
TwoKinds   == [t \in Modules |-> IF t = 0 THEN big ELSE empty]
SomeFiles  == {TwoAlike, TwoKinds}

Sizes      == (big :> 2) @@ (empty :> 0)
=============================================================================
