------------------------- MODULE SequencerRefinement -------------------------
(***************************************************************************)
(* The detailed sequencer implements SequencerAbstract.  A map revision is *)
(* seen without the batch the model records beside it, and the log is its  *)
(* integrated leaves followed by the queued ones: a leaf QueueLeaf accepts *)
(* is anchored, and the log's integration is a stuttering step.            *)
(***************************************************************************)
EXTENDS MCSequencer

AbsRevs == [i \in DOMAIN maps |-> [leaves |-> maps[i].leaves,
                                    hwm |-> maps[i].hwm]]

Abs == INSTANCE SequencerAbstract WITH revs <- AbsRevs,
                                       log <- logLeaves \o logQueue

(* Every step of the sequencer, failed RPCs, replies lost to a deadline   *)
(* and restarts included, is a step of the abstract sequencer: revisions  *)
(* apply the next contiguous block of the mutation table to the newest    *)
(* revision, and the log only ever anchors a new, existing revision.      *)
AbsSpec == Abs!Spec

=============================================================================
