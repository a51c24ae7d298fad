--------------------------- MODULE MCSourceAction ---------------------------
(* SourceAction for TLC.  The plain input is a root file with one helper   *)
(* include; the others depart from it in one respect, or in the two that   *)
(* interact: a collision with the compat header, and where that header or  *)
(* the helper already is.                                                  *)
EXTENDS SourceAction

PlainInput == [depth |-> 0, ctx |-> TRUE, mustCommit |-> FALSE, includes |-> 1,
               compat |-> "no", conflict |-> "none"]

SomeInputs ==
    LET contexts == {[PlainInput EXCEPT !.ctx = FALSE], [PlainInput EXCEPT !.mustCommit = TRUE],
                     [PlainInput EXCEPT !.depth = 1]}
        colliding == {[PlainInput EXCEPT !.conflict = c] : c \in Conflicts}
        helpers == {[PlainInput EXCEPT !.includes = 0, !.conflict = c] : c \in {"none", "macro"}}
                     \cup {[PlainInput EXCEPT !.includes = 2]}
        present == {[PlainInput EXCEPT !.compat = w, !.conflict = c] :
                       w \in {"before", "after"}, c \in {"name"}}
    IN  contexts \cup colliding \cup helpers \cup present
=============================================================================
