---------------------------- MODULE AtomicPublish ----------------------------
(***************************************************************************)
(* What publishing a root/bundle pair promises to whoever reads the        *)
(* destination between runs: a run replaces the pair in one step or leaves *)
(* it alone, its verdict says which, and only a run that died or reported  *)
(* a failed rollback may leave anything else.  The one exception is an     *)
(* unmanaged bundle, which a failing run may take away.                    *)
(***************************************************************************)
CONSTANTS Pairs,        \* all values of the published pair
          Managed(_)    \* is this bundle one that the tool owns?

VARIABLES pair, phase, verdict

avars == <<pair, phase, verdict>>

Init == pair \in Pairs /\ phase = "idle" /\ verdict = "none"

Start ==
  /\ phase = "idle" /\ phase' = "open" /\ verdict' = "none"
  /\ UNCHANGED pair

\* The whole replacement, in one step.
Commit ==
  /\ phase = "open" /\ phase' = "committed"
  /\ pair' \in Pairs /\ pair'.root # pair.root
  /\ UNCHANGED verdict

\* A commit is final: a run that dies or fails afterwards does not undo it.
ReturnCommitted ==
  /\ phase = "committed" /\ phase' = "idle"
  /\ verdict' \in {"published", "cleanupFailed", "crashed"}
  /\ UNCHANGED pair

ReturnUnchanged ==
  /\ phase = "open" /\ phase' = "idle"
  /\ verdict' \in {"refused", "rolledBack"}
  /\ pair' \in Pairs /\ pair'.root = pair.root
  /\ pair'.bundle = pair.bundle \/ ~Managed(pair.bundle)

ReturnTorn ==
  /\ phase = "open" /\ phase' = "idle"
  /\ verdict' \in {"rollbackFailed", "crashed"}
  /\ pair' \in Pairs

Next == Start \/ Commit \/ ReturnCommitted \/ ReturnUnchanged \/ ReturnTorn

Spec == Init /\ [][Next]_avars
=============================================================================
