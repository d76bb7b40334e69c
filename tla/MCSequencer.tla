----------------------------- MODULE MCSequencer -----------------------------
(* Model-checking instance of Sequencer: model values for keys, values    *)
(* and subscribers come from the .cfg files.                               *)
EXTENDS Sequencer, TLC

CONSTANTS k1, k2, v1, v2

(* A first write of k1 and its successor.  Depending on when they are     *)
(* read, either may be valid or stale, and both may share one batch.      *)
MCUpdates ==
  { [key |-> k1, prev |-> None, val |-> v1],
    [key |-> k1, prev |-> v1, val |-> v2] }

(* The same plus a first write of k2, for runs with fewer other choices.  *)
MCUpdatesTwoKeys ==
  MCUpdates \cup { [key |-> k2, prev |-> None, val |-> v2] }

=============================================================================
