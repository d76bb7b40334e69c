------------------------- MODULE ApplyMutationsCheck -------------------------
(***************************************************************************)
(* applyMutations as a pure function, checked on every batch of up to      *)
(* BatchLen SignedKVs over the model's keys and values and every leaf map  *)
(* GetLeaves can return, not only on the batches a run happens to reach.   *)
(* A state is one input: the mutation table holds the batch, revision 0    *)
(* holds the fetched leaves; nothing moves.                                *)
(***************************************************************************)
EXTENDS SequencerRefinement

CONSTANT BatchLen

BatchInit ==
  /\ source \in SeqOf(Mutation, BatchLen)
  /\ \E l \in Leaves : maps = << [leaves |-> l, hwm |-> 0, batch |-> <<>>] >>
  /\ logLeaves = <<>> /\ logQueue = <<>>
  /\ pc = "Initialize" /\ ce = NoEpoch /\ sendIdx = 1
  /\ mChannels = <<>>
  /\ chans = [c \in Subs |-> <<>>]
  /\ rcvd = [c \in Subs |-> Nil]
  /\ gotNil = [c \in Subs |-> FALSE] /\ unsent = {}
  /\ forced = 0 /\ failures = 0 /\ crashes = 0

BatchSpec == BatchInit /\ [][UNCHANGED vars]_vars

(* The leaves SetLeaves writes after applyMutations on the whole table,    *)
(* over the fetched leaves, are those of the abstract rule: per index, the *)
(* last SignedKV of the batch naming the fetched entry as its predecessor  *)
(* wins, and an index no valid SignedKV names keeps its entry.             *)
ApplyIsLastValidWins ==
  LET l == maps[1].leaves
      new == ApplyMutations([i \in 1 .. Len(source) |-> i], l)
  IN [k \in Keys |-> IF k \in DOMAIN new THEN new[k] ELSE l[k]]
       = Abs!Applied(l, 0, Len(source))

=============================================================================
