-------------------------- MODULE SequencerAbstract --------------------------
(***************************************************************************)
(* What the epoch sequencer promises, without RPCs, failures, restarts or  *)
(* subscribers: the mutation table only grows; the map is a sequence of    *)
(* revisions, each applying the next contiguous block of queued mutations  *)
(* to the one before; the log anchors map revisions that exist, each once  *)
(* and in increasing order.                                                *)
(*                                                                         *)
(* Within a block, a mutation takes effect when it names the previous      *)
(* revision's entry as its predecessor; when several of an index do, the   *)
(* one sequenced last wins.  The block may be empty (a forced epoch).      *)
(***************************************************************************)
EXTENDS Naturals, Sequences

CONSTANTS Keys, Vals, None, Updates, MaxMuts

VARIABLES
  source,  \* the mutation table
  revs,    \* the map: revs[r+1] is revision r, [leaves, hwm]
  log      \* the map revisions anchored in the log, in log order

vars == <<source, revs, log>>

Top == revs[Len(revs)]

(* The leaves of the revision that applies mutations lo+1 .. hi to old. *)
Applied(old, lo, hi) ==
  [k \in Keys |->
     LET valid == {s \in lo + 1 .. hi : /\ source[s].key = k
                                        /\ source[s].prev = old[k]}
     IN IF valid = {} THEN old[k]
        ELSE source[CHOOSE s \in valid : \A t \in valid : t <= s].val]

Init ==
  /\ source = <<>>
  /\ revs = << [leaves |-> [k \in Keys |-> None], hwm |-> 0] >>
  /\ log = <<>>

Enqueue ==
  /\ Len(source) < MaxMuts
  /\ \E m \in Updates : source' = Append(source, m)
  /\ UNCHANGED <<revs, log>>

(* A new map revision covering the mutations up to hi. *)
Publish ==
  /\ \E hi \in Top.hwm .. Len(source) :
       revs' = Append(revs, [leaves |-> Applied(Top.leaves, Top.hwm, hi),
                             hwm |-> hi])
  /\ UNCHANGED <<source, log>>

(* The log anchors an existing revision newer than all it anchors. *)
Anchor ==
  /\ \E r \in 0 .. Len(revs) - 1 :
       /\ \A i \in DOMAIN log : log[i] < r
       /\ log' = Append(log, r)
  /\ UNCHANGED <<source, revs>>

Next == Enqueue \/ Publish \/ Anchor

Spec == Init /\ [][Next]_vars

=============================================================================
