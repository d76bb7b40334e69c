------------------------------ MODULE Sequencer ------------------------------
(***************************************************************************)
(* The epoch sequencer of src/core/sequencer/sequencer.go together with    *)
(* the collaborators it talks to: the mutation table it reads, the         *)
(* Trillian map it writes revisions to, the Trillian log it anchors map    *)
(* roots in, and the subscriber channels it fans epochs out to.            *)
(*                                                                         *)
(* One sequencer process runs StartSigning: Initialize, an initial map     *)
(* root read, then one CreateEpoch per tick followed by                    *)
(* disseminateMutations.  Every RPC is a step of its own, so the           *)
(* environment (front-ends enqueueing mutations, the log integrating       *)
(* queued leaves, subscribers registering and reading) interleaves with    *)
(* it.  An RPC may fail without effect, or (a deadline racing the answer)  *)
(* take effect while the sequencer sees an error.  The process may crash   *)
(* at any point; the map, log and mutation table survive, the in-memory    *)
(* channel registrations do not.                                           *)
(***************************************************************************)
EXTENDS Naturals, Sequences, FiniteSets, SequencesExt

CONSTANTS
  Keys,         \* map indexes (VRF-derived 32-byte keys), model values
  Vals,         \* entry values a leaf can hold, model values
  None,         \* the value of an index with no leaf
  Nil,          \* a nil *GetMutationsResponse
  Subs,         \* subscriber channels the service handler may register
  Updates,      \* the SignedKVs front-ends may submit
  MaxMuts,      \* bound: mutations the front-ends enqueue
  PageLimit,    \* the mutation table's page size for one ReadAll
  MaxForced,    \* bound: forced ticks of the tick generator
  MaxFailures,  \* bound: failed RPCs
  MaxCrashes,   \* bound: process crashes
  ChanCap       \* capacity of a subscriber channel

ASSUME /\ None \notin Vals /\ Nil \notin Vals
       /\ Updates \subseteq [key : Keys, prev : Vals \cup {None}, val : Vals]
       /\ PageLimit \in Nat \ {0} /\ ChanCap \in Nat \ {0}
       /\ {MaxMuts, MaxForced, MaxFailures, MaxCrashes} \subseteq Nat

VARIABLES
  source,     \* the mutation table: source[s] is the SignedKV of sequence s
  maps,       \* the map: maps[r+1] is revision r, [leaves, hwm, batch]
  logLeaves,  \* the log's integrated leaves: the map revision of each SMR
  logQueue,   \* leaves queued in the log, not yet integrated
  pc,         \* control point of the sequencer process
  ce,         \* locals of the CreateEpoch call in progress
  sendIdx,    \* disseminateMutations: next position in mChannels
  mChannels,  \* registered channels, in registration order
  chans,      \* buffered messages of each channel
  rcvd,       \* the last summary each subscriber read since the restart
  gotNil,     \* whether a subscriber read a nil response
  unsent,     \* history: <<epoch, channel>> of summaries CreateEpoch returned
              \* while the channel was registered, not yet sent to it
  forced, failures, crashes   \* counters for the bounds

envVars == <<source, maps, logLeaves, logQueue>>
seqVars == <<pc, ce, sendIdx, mChannels, chans, rcvd, gotNil, unsent>>
vars == <<envVars, seqVars, forced, failures, crashes>>

(* A SignedKV: the index it updates, the entry it claims to replace (the   *)
(* "previous" object hash) and the entry it installs.                      *)
Mutation == [key : Keys, prev : Vals \cup {None}, val : Vals]

Leaves == [Keys -> Vals \cup {None}]

Revision(r) == maps[r + 1]
CurRev == Len(maps) - 1

(* A GetMutationsResponse: the epoch, the log index whose inclusion proof  *)
(* it carries, and the sequence numbers of its mutations.                  *)
Summary == [epoch : Nat, incl : Nat, muts : Seq(Nat)]

NoEpoch == [force |-> FALSE, caller |-> "loop", startSequence |-> 0,
            revision |-> 0, smrRev |-> 0, mRange |-> <<>>, seq |-> 0,
            leaves |-> [k \in Keys |-> None], resp |-> Nil]

-----------------------------------------------------------------------------
(* Collaborators outside src/: the mutation table and the mutator.         *)

(* mutations.ReadAll(txn, startSequence): the next page of mutations after *)
(* startSequence in sequence order, and the highest sequence returned      *)
(* (startSequence itself when there is none).                              *)
ReadAll(start) ==
  LET last == IF Len(source) < start + PageLimit THEN Len(source)
                                                 ELSE start + PageLimit
  IN [max |-> IF last > start THEN last ELSE start,
      muts |-> [i \in 1 .. (last - start) |-> start + i]]

(* mutator.Mutate(oldValue, m): the new entry, or an error when m does not *)
(* name the current entry as its previous one.                             *)
Mutate(old, m) == IF m.prev = old THEN m.val ELSE "error"

(* Mutant of QueueSMR: queueLogLeaf sends no usable LeafIdentityHash, so  *)
(* the log cannot recognise a leaf it already has.                         *)
QueueSMRNoDedup(r) == logQueue' = Append(logQueue, r)

(* trillian QueueLeaf: a leaf whose identity hash is already in the log,   *)
(* integrated or queued, is not added again.                               *)
QueueSMR(r) ==
  logQueue' = IF r \in ToSet(logLeaves) \cup ToSet(logQueue)
              THEN logQueue ELSE Append(logQueue, r)

-----------------------------------------------------------------------------
(* Sequencer code.                                                         *)

(* retMap with index k set to v. *)
Put(retMap, k, v) == [i \in DOMAIN retMap \cup {k} |->
                        IF i = k THEN v ELSE retMap[i]]

(* Mutant of ApplyStep: the error of Mutate is not checked and the nil    *)
(* value it returned is written as the leaf.                              *)
ApplyStepNoSkip(retMap, s, leafMap) ==
  LET m == source[s] IN
  Put(retMap, m.key, IF Mutate(leafMap[m.key], m) = "error" THEN None
                     ELSE Mutate(leafMap[m.key], m))

(* Mutant of ApplyStep: whatever Mutate returned, error included, is      *)
(* stored as the new leaf value.                                          *)
ApplyStepUnchecked(retMap, s, leafMap) ==
  LET m == source[s] IN Put(retMap, m.key, Mutate(leafMap[m.key], m))

(* One iteration of applyMutations: the mutation is applied to the leaf   *)
(* fetched from the map (leafMap is never updated); an invalid one is     *)
(* skipped, a valid one overwrites what an earlier one wrote.             *)
ApplyStep(retMap, s, leafMap) ==
  LET m == source[s] IN
  IF Mutate(leafMap[m.key], m) = "error" THEN retMap
  ELSE Put(retMap, m.key, Mutate(leafMap[m.key], m))

(* applyMutations: the written leaves, a function on the indexes written. *)
ApplyMutations(mRange, leafMap) ==
  FoldLeft(LAMBDA retMap, s : ApplyStep(retMap, s, leafMap),
           [k \in {} |-> None], mRange)

(* One RPC failing; failures are bounded.                                  *)
Fail == failures < MaxFailures /\ failures' = failures + 1

(* CreateEpoch returning resp (nil on every error): StartSigning's loop    *)
(* disseminates it; the bootstrap call in StartSigning drops it and        *)
(* re-reads the map root.                                                  *)
Return(resp) ==
  /\ unsent' = IF resp = Nil THEN unsent
               ELSE unsent \cup {<<resp.epoch, c>> : c \in ToSet(mChannels)}
  /\ IF ce.caller = "loop"
     THEN /\ pc' = "Dispatch" /\ sendIdx' = 1
          /\ ce' = [ce EXCEPT !.resp = resp]
     ELSE /\ pc' = "Idle" /\ ce' = NoEpoch /\ UNCHANGED sendIdx

(* Initialize: queue the empty map root when the log and the map are both  *)
(* empty.  A failure is logged and StartSigning goes on.                   *)
Initialize ==
  /\ pc = "Initialize"
  /\ pc' = "StartRoot"
  /\ \/ /\ Len(logLeaves) = 0 /\ CurRev = 0
        /\ QueueSMR(0) /\ UNCHANGED failures
     \/ /\ ~(Len(logLeaves) = 0 /\ CurRev = 0)
        /\ UNCHANGED <<logQueue, failures>>
     \/ Fail /\ UNCHANGED logQueue
  /\ UNCHANGED <<source, maps, logLeaves, ce, sendIdx, mChannels, chans,
                 rcvd, gotNil, unsent, forced, crashes>>

(* StartSigning reads the map root for its timestamp; when that fails it  *)
(* creates an epoch with force = TRUE first.                               *)
StartRoot ==
  /\ pc = "StartRoot"
  /\ \/ pc' = "Idle" /\ UNCHANGED <<ce, failures>>
     \/ /\ Fail /\ pc' = "GetRoot"
        /\ ce' = [NoEpoch EXCEPT !.force = TRUE, !.caller = "boot"]
  /\ UNCHANGED <<envVars, sendIdx, mChannels, chans, rcvd, gotNil, unsent,
                 forced, crashes>>

(* The loop receives the next value f of genEpochTicks and calls          *)
(* CreateEpoch(ctx, f).                                                    *)
Tick ==
  /\ pc = "Idle"
  /\ \E f \in BOOLEAN :
       /\ f => forced < MaxForced
       /\ forced' = IF f THEN forced + 1 ELSE forced
       /\ ce' = [NoEpoch EXCEPT !.force = f]
  /\ pc' = "GetRoot"
  /\ UNCHANGED <<envVars, sendIdx, mChannels, chans, rcvd, gotNil, unsent,
                 failures, crashes>>

(* CreateEpoch: GetSignedMapRoot gives startSequence and revision.         *)
GetRoot ==
  /\ pc = "GetRoot"
  /\ \/ /\ pc' = "ReadMutations" /\ UNCHANGED failures
        /\ ce' = [ce EXCEPT !.startSequence = Revision(CurRev).hwm,
                            !.revision = CurRev]
        /\ UNCHANGED <<sendIdx, unsent>>
     \/ Fail /\ Return(Nil)
  /\ UNCHANGED <<envVars, mChannels, chans, rcvd, gotNil, forced, crashes>>

(* Mutant of NothingToDo: the early return tests                          *)
(* len(mRange) == 0 || !forceNewEpoch, so only forced epochs apply.        *)
NothingToDoOr(muts) == muts = <<>> \/ ~ce.force

(* CreateEpoch's early return: no mutations and no force. *)
NothingToDo(muts) == muts = <<>> /\ ~ce.force

(* newMutations: ReadAll inside one transaction that is then committed;   *)
(* an error of NewTxn, ReadAll or Commit is the Fail branch of the caller. *)
NewMutations(startSequence) == ReadAll(startSequence)

(* CreateEpoch: newMutations reads the pending mutations in one            *)
(* transaction; with none and no force the epoch ends with nil.            *)
ReadMutations ==
  /\ pc = "ReadMutations"
  /\ LET r == NewMutations(ce.startSequence) IN
       \/ NothingToDo(r.muts) /\ Return(Nil) /\ UNCHANGED failures
       \/ /\ ~NothingToDo(r.muts)
          /\ ce' = [ce EXCEPT !.mRange = r.muts, !.seq = r.max]
          /\ pc' = "GetLeaves" /\ UNCHANGED <<sendIdx, failures, unsent>>
       \/ Fail /\ Return(Nil)
  /\ UNCHANGED <<envVars, mChannels, chans, rcvd, gotNil, forced, crashes>>

(* CreateEpoch: GetLeaves of every mutation's index at the latest          *)
(* revision.                                                               *)
GetLeaves ==
  /\ pc = "GetLeaves"
  /\ \/ /\ ce' = [ce EXCEPT !.leaves = Revision(CurRev).leaves]
        /\ pc' = "SetLeaves" /\ UNCHANGED <<sendIdx, failures, unsent>>
     \/ Fail /\ Return(Nil)
  /\ UNCHANGED <<envVars, mChannels, chans, rcvd, gotNil, forced, crashes>>

(* Mutant of NextRevision: SetLeaves is sent the startSequence read from   *)
(* the old root as HighestFullyCompletedSeq instead of seq.                *)
NextRevisionStaleSeq ==
  LET new == ApplyMutations(ce.mRange, ce.leaves)
      cur == Revision(CurRev).leaves
  IN [leaves |-> [k \in Keys |-> IF k \in DOMAIN new THEN new[k] ELSE cur[k]],
      hwm |-> ce.startSequence, batch |-> ce.mRange]

(* The revision SetLeaves creates: the written leaves over the latest      *)
(* ones, with HighestFullyCompletedSeq = seq.                              *)
NextRevision ==
  LET new == ApplyMutations(ce.mRange, ce.leaves)
      cur == Revision(CurRev).leaves
  IN [leaves |-> [k \in Keys |-> IF k \in DOMAIN new THEN new[k] ELSE cur[k]],
      hwm |-> ce.seq, batch |-> ce.mRange]

(* Mutant of Revised: revision is not taken from the SetLeaves response,  *)
(* so the summary keeps the revision read before the epoch.                *)
RevisedKeepRevision == [ce EXCEPT !.smrRev = Len(maps)]

(* The locals after SetLeaves: revision from the response's map root. *)
Revised == [ce EXCEPT !.revision = Len(maps), !.smrRev = Len(maps)]

(* CreateEpoch: applyMutations, then SetLeaves.  The map may apply the     *)
(* request although the sequencer sees an error (deadline exceeded).       *)
SetLeaves ==
  /\ pc = "SetLeaves"
  /\ \/ /\ maps' = Append(maps, NextRevision)
        /\ ce' = Revised
        /\ pc' = "QueueLeaf" /\ UNCHANGED <<sendIdx, failures, unsent>>
     \/ Fail /\ Return(Nil) /\ UNCHANGED maps
     \/ Fail /\ Return(Nil) /\ maps' = Append(maps, NextRevision)
  /\ UNCHANGED <<source, logLeaves, logQueue, mChannels, chans, rcvd, gotNil,
                 forced, crashes>>

(* CreateEpoch: queueLogLeaf puts the new SMR in the log.                  *)
QueueLeaf ==
  /\ pc = "QueueLeaf"
  /\ \/ /\ QueueSMR(ce.smrRev) /\ pc' = "LogProofs"
        /\ UNCHANGED <<ce, sendIdx, failures, unsent>>
     \/ Fail /\ Return(Nil) /\ UNCHANGED logQueue
     \/ Fail /\ Return(Nil) /\ QueueSMR(ce.smrRev)
  /\ UNCHANGED <<source, maps, logLeaves, mChannels, chans, rcvd, gotNil,
                 forced, crashes>>

(* CreateEpoch: logProofs(ctx, 0, revision - 1) reads the log root and an  *)
(* inclusion proof of leaf revision - 1, which the log refuses while that  *)
(* leaf is not integrated; then the response is built.                     *)
LogProofs ==
  /\ pc = "LogProofs"
  /\ LET respEpoch == ce.smrRev - 1 IN
       \/ /\ respEpoch < Len(logLeaves) /\ UNCHANGED failures
          /\ Return([epoch |-> ce.revision, incl |-> respEpoch,
                     muts |-> ce.mRange])
       \/ respEpoch >= Len(logLeaves) /\ Return(Nil) /\ UNCHANGED failures
       \/ Fail /\ Return(Nil)
  /\ UNCHANGED <<envVars, mChannels, chans, rcvd, gotNil, forced, crashes>>

(* Mutant of NextSendIdx: the index into mChannels is never advanced, so *)
(* the first channel is sent the response over and over.                  *)
NextSendIdxStuck == sendIdx

(* The range loop over mChannels moves to the next channel. *)
NextSendIdx == sendIdx + 1

(* Mutant of SentToAll: the loop ends one channel early. *)
SentToAllButLast == sendIdx >= Len(mChannels)

(* The range loop over mChannels is done. *)
SentToAll == sendIdx > Len(mChannels)

(* disseminateMutations: under mMux, send the response to each registered *)
(* channel in order, blocking while a channel is full.                     *)
Dispatch ==
  /\ pc = "Dispatch"
  /\ \/ /\ sendIdx <= Len(mChannels)
        /\ LET ch == mChannels[sendIdx] IN
             /\ Len(chans[ch]) < ChanCap
             /\ chans' = [chans EXCEPT ![ch] = Append(@, ce.resp)]
             /\ unsent' = IF ce.resp = Nil THEN unsent
                          ELSE unsent \ {<<ce.resp.epoch, ch>>}
        /\ sendIdx' = NextSendIdx /\ UNCHANGED <<pc, ce>>
     \/ /\ SentToAll
        /\ pc' = "Idle" /\ ce' = NoEpoch /\ sendIdx' = 1
        /\ UNCHANGED <<chans, unsent>>
  /\ UNCHANGED <<envVars, mChannels, rcvd, gotNil, forced, failures, crashes>>

(* RegisterMutationsChannel: append a channel under mMux, which            *)
(* disseminateMutations holds while it sends.                              *)
RegisterMutationsChannel(ch) ==
  /\ pc # "Dispatch"
  /\ ch \notin ToSet(mChannels)
  /\ mChannels' = Append(mChannels, ch)
  /\ UNCHANGED <<envVars, pc, ce, sendIdx, chans, rcvd, gotNil, unsent,
                 forced, failures, crashes>>

-----------------------------------------------------------------------------
(* Environment.                                                            *)

(* A front-end's UpdateEntry stores a mutation with the next sequence      *)
(* number.                                                                 *)
Enqueue ==
  /\ Len(source) < MaxMuts
  /\ \E m \in Updates : source' = Append(source, m)
  /\ UNCHANGED <<maps, logLeaves, logQueue, seqVars, forced, failures, crashes>>

(* The log's own sequencer integrates the oldest queued leaf.              *)
Integrate ==
  /\ logQueue # <<>>
  /\ logLeaves' = Append(logLeaves, Head(logQueue))
  /\ logQueue' = Tail(logQueue)
  /\ UNCHANGED <<source, maps, seqVars, forced, failures, crashes>>

(* A subscriber reads its channel.                                         *)
Receive(ch) ==
  /\ chans[ch] # <<>>
  /\ chans' = [chans EXCEPT ![ch] = Tail(@)]
  /\ IF Head(chans[ch]) = Nil
     THEN gotNil' = [gotNil EXCEPT ![ch] = TRUE] /\ UNCHANGED rcvd
     ELSE rcvd' = [rcvd EXCEPT ![ch] = Head(chans[ch])]
          /\ UNCHANGED gotNil
  /\ UNCHANGED <<envVars, pc, ce, sendIdx, mChannels, unsent,
                 forced, failures, crashes>>

(* The sequencer process crashes and restarts in StartSigning; channel     *)
(* registrations and subscriber streams die with it.                       *)
Crash ==
  /\ crashes < MaxCrashes
  /\ crashes' = crashes + 1
  /\ pc' = "Initialize" /\ ce' = NoEpoch /\ sendIdx' = 1
  /\ mChannels' = <<>>
  /\ chans' = [c \in Subs |-> <<>>]
  /\ rcvd' = [c \in Subs |-> Nil]
  /\ gotNil' = [c \in Subs |-> FALSE]
  /\ unsent' = {}
  /\ UNCHANGED <<envVars, forced, failures>>

-----------------------------------------------------------------------------
Init ==
  /\ source = <<>>
  /\ maps = << [leaves |-> [k \in Keys |-> None], hwm |-> 0, batch |-> <<>>] >>
  /\ logLeaves = <<>> /\ logQueue = <<>>
  /\ pc = "Initialize" /\ ce = NoEpoch /\ sendIdx = 1
  /\ mChannels = <<>>
  /\ chans = [c \in Subs |-> <<>>]
  /\ rcvd = [c \in Subs |-> Nil]
  /\ gotNil = [c \in Subs |-> FALSE]
  /\ unsent = {}
  /\ forced = 0 /\ failures = 0 /\ crashes = 0

SequencerStep ==
  \/ Initialize \/ StartRoot \/ Tick \/ GetRoot \/ ReadMutations
  \/ GetLeaves \/ SetLeaves \/ QueueLeaf \/ LogProofs \/ Dispatch

Next ==
  \/ SequencerStep
  \/ \E ch \in Subs : RegisterMutationsChannel(ch) \/ Receive(ch)
  \/ Enqueue \/ Integrate \/ Crash

Spec == Init /\ [][Next]_vars

(* The sequencer goroutine keeps running (every RPC returns by its         *)
(* deadline), the log keeps integrating, subscribers keep reading.         *)
FairSpec ==
  /\ Spec
  /\ WF_vars(SequencerStep) /\ WF_vars(Integrate)
  /\ \A ch \in Subs : WF_vars(Receive(ch))

-----------------------------------------------------------------------------
(* Properties.                                                             *)

Delivered(ch) == ({rcvd[ch]} \cup ToSet(chans[ch])) \ {Nil}

TypeOK ==
  /\ source \in Seq(Mutation)
  /\ maps \in Seq([leaves : Leaves, hwm : Nat, batch : Seq(Nat)])
  /\ logLeaves \in Seq(Nat) /\ logQueue \in Seq(Nat)
  /\ pc \in {"Initialize", "StartRoot", "Idle", "GetRoot", "ReadMutations",
             "GetLeaves", "SetLeaves", "QueueLeaf", "LogProofs", "Dispatch"}
  /\ ce.resp \in Summary \cup {Nil} /\ ce.leaves \in Leaves
  /\ mChannels \in Seq(Subs) /\ unsent \subseteq Nat \X Subs
  /\ \A ch \in Subs : /\ chans[ch] \in Seq(Summary \cup {Nil})
                      /\ rcvd[ch] \in Summary \cup {Nil}

(* The HighestFullyCompletedSeq watermark that CreateEpoch reads from the  *)
(* map root and writes back through SetLeaves accounts for every mutation  *)
(* exactly once: each sequence number up to the current watermark was      *)
(* applied in exactly one revision, none above it in any, across failed    *)
(* RPCs, lost replies and restarts.                                        *)
MutationsAppliedOnce ==
  \A s \in 1 .. Len(source) :
    Cardinality({r \in 1 .. CurRev : s \in ToSet(Revision(r).batch)})
      = IF s <= Revision(CurRev).hwm THEN 1 ELSE 0

(* Every leaf that changes between two consecutive map revisions was       *)
(* changed by a mutation of that revision's batch that names the previous  *)
(* revision's entry as its predecessor: the per-index hash chain of        *)
(* entries is never broken by applyMutations and SetLeaves.                *)
MapHashChain ==
  \A r \in 1 .. CurRev, k \in Keys :
    LET old == Revision(r - 1).leaves[k]
        new == Revision(r).leaves[k]
    IN new # old =>
         \E i \in DOMAIN Revision(r).batch :
           source[Revision(r).batch[i]] = [key |-> k, prev |-> old, val |-> new]

(* The SMRs in the log, integrated and queued, are map revisions in        *)
(* strictly increasing order: Initialize and queueLogLeaf never add an     *)
(* SMR twice (also across a restart before integration) or out of order.   *)
LogRevisionsIncrease ==
  LET l == logLeaves \o logQueue
  IN \A i \in 1 .. Len(l) - 1 : l[i] < l[i + 1]

(* Every epoch summary a subscriber gets names a written revision and      *)
(* carries exactly the mutations SetLeaves applied in that revision.       *)
SummaryMatchesRevision ==
  \A ch \in Subs : \A m \in Delivered(ch) :
    m.epoch \in 1 .. CurRev /\ m.muts = Revision(m.epoch).batch

(* Every mutation a front-end stores is eventually covered by the map's    *)
(* watermark, i.e. applied or rejected in some epoch (UpdateEntry clients  *)
(* retry until then).                                                      *)
MutationsEventuallyApplied ==
  \A s \in 1 .. MaxMuts :
    (s <= Len(source)) ~> (s <= Revision(CurRev).hwm)

(* The epoch loop never stalls: disseminateMutations, which blocks on a    *)
(* full channel while holding mMux, always gets back to waiting for the   *)
(* next tick, as long as every subscriber keeps reading its channel.      *)
EpochLoopProgresses == []<>(pc = "Idle")

(* A subscriber's stream has no holes: each summary it reads after        *)
(* another is for the next map revision, as long as the process lives.    *)
(* disseminateMutations is called once per CreateEpoch, so a revision      *)
(* written by an epoch that then fails is never streamed.                 *)
SubscriberSeesEveryRevision ==
  [][\A ch \in Subs :
       rcvd'[ch] # rcvd[ch] /\ rcvd[ch] # Nil /\ rcvd'[ch] # Nil
         => rcvd'[ch].epoch = rcvd[ch].epoch + 1]_vars

(* Spec 8.9: each registered subscriber receives every summary of a       *)
(* successful epoch.  Whenever the loop is back waiting for a tick, every  *)
(* summary a CreateEpoch returned has been sent on every channel that was  *)
(* registered when it returned, the bootstrap CreateEpoch of StartSigning  *)
(* included.                                                               *)
EverySummaryDispatched == pc = "Idle" => unsent = {}

(* Subscribers only ever receive epoch summaries: StartSigning hands       *)
(* CreateEpoch's result to disseminateMutations even when it is nil (no    *)
(* mutations, or an error).                                                *)
NoNilDispatched ==
  \A ch \in Subs : ~gotNil[ch] /\ Nil \notin ToSet(chans[ch])

(* The log inclusion proof in a summary is for the SMR of that summary's   *)
(* epoch: the log leaf at the proven index is the epoch's map root.        *)
InclusionProofIsEpochSMR ==
  \A ch \in Subs : \A m \in Delivered(ch) :
    m.incl < Len(logLeaves) /\ logLeaves[m.incl + 1] = m.epoch

(* Reference semantics of an epoch's batch in the spec: the mutator is     *)
(* applied in sequence order to the current value of the index, which a    *)
(* successful mutation overwrites.                                         *)
ChainedApply(leaves, batch) ==
  LET step(cur, s) ==
        LET m == source[s]
        IN IF Mutate(cur[m.key], m) = "error" THEN cur
           ELSE [cur EXCEPT ![m.key] = Mutate(cur[m.key], m)]
  IN FoldLeft(step, leaves, batch)

(* Each revision's leaves are those the spec's chained application of its  *)
(* batch yields from the previous revision.                                *)
ApplyMatchesChainedApply ==
  \A r \in 1 .. CurRev :
    Revision(r).leaves = ChainedApply(Revision(r - 1).leaves, Revision(r).batch)

(* Every map revision eventually has its SMR integrated in the log, also   *)
(* when the QueueLeaf after a successful SetLeaves failed: the restart     *)
(* path is meant to re-queue it.                                           *)
EveryRevisionLogged ==
  \A r \in 0 .. MaxMuts + MaxForced + MaxFailures :
    (r <= CurRev) ~> (r \in ToSet(logLeaves))

=============================================================================
