-------------------------- MODULE MCMigrationDriver --------------------------
(* One or two of three sources: two in the working directory and one in     *)
(* another, whose file name may be that of the first.  Its name decides     *)
(* whether -o-dir collides, and what Init makes of it beside a bare one.    *)
EXTENDS MigrationDriver

CONSTANTS a, b, c

ThreeSources == {a, b, c}
TwoSources == {a, b}
BareTwo == {a, b}
BareNone == {}
OneOrTwo == {<<a>>, <<a, b>>}
WithDirectory == {<<c>>, <<a, b>>, <<a, c>>, <<c, b>>}

NameOf == [s \in {a, b, c} |-> CASE s = a -> "a.cu" [] s = b -> "b.cu" [] OTHER -> "c.cu"]
OwnOrSame == {NameOf, [NameOf EXCEPT ![c] = "a.cu"]}
SameOrNot == {[s \in {a, b} |-> "k.cu"], [s \in {a, b} |-> NameOf[s]]}
=============================================================================
