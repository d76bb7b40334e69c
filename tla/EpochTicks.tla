----------------------------- MODULE EpochTicks -----------------------------
(***************************************************************************)
(* Timing of the epoch driver loop: StartSigning's ticker, the goroutine  *)
(* of genEpochTicks that turns ticks into "forced / not forced" decisions  *)
(* sent on the unbuffered channel enforce, and the loop that runs one      *)
(* CreateEpoch plus disseminateMutations per decision                      *)
(* (src/core/sequencer/sequencer.go, lines 131-199).                       *)
(*                                                                         *)
(* Time is discrete.  The ticker of time.NewTicker(minInterval) fires at   *)
(* StartTime + k * MinInterval into its one-slot channel and drops a tick *)
(* when the slot is full.  The content of an epoch is abstracted to its    *)
(* outcome: a revision is published, nothing is published (not forced and *)
(* no mutations), or the epoch fails.  A published revision carries the    *)
(* time it was written, the timestamp the next StartSigning reads back.    *)
(***************************************************************************)
EXTENDS Integers

CONSTANTS
    MinInterval,   \* minInterval: ticker period and CreateEpoch deadline
    MaxInterval,   \* maxInterval: a forced epoch is due after this long
    StartTime,     \* the clock when StartSigning starts its loop
    MaxBusy,       \* longest one loop iteration (CreateEpoch + dissemination)
    MaxFailures,   \* bound on failed epochs
    MaxSkew,       \* how far the map server's clock may be from the local one
    MaxRestarts    \* bound on process restarts

ASSUME /\ 0 < MinInterval /\ MinInterval <= MaxInterval
       /\ MinInterval <= MaxBusy /\ MaxSkew \in Nat

NoTime == -1

VARIABLES
    now,        \* the clock
    nextFire,   \* when the ticker fires next
    tc,         \* the ticker's one-slot channel: a tick time or NoTime
    gen,        \* genEpochTicks goroutine: "first", "recv" or "send"
    genVal,     \* the value it is blocked sending on enforce
    genAt,      \* the tick time behind it (NoTime for the first check)
    last,       \* genEpochTicks' last
    drv,        \* StartSigning loop: "idle" (ranging on enforce), "create"
                \* (in CreateEpoch) or "dissem" (in disseminateMutations)
    drvStart,   \* when the current iteration started
    drvForce,   \* the f the current CreateEpoch was called with
    pending,    \* mutations are waiting to be sequenced
    published,  \* timestamp of the newest map revision
    failures,   \* failed epochs so far
    missed,     \* forced epochs that failed, or a restart cut short, since
                \* the newest revision
    restarts    \* process restarts so far

clock == <<now, nextFire, tc>>
genVars == <<gen, genVal, genAt>>
drvVars == <<drv, drvStart, drvForce>>
epochVars == <<pending, published, failures, missed, restarts>>
vars == <<clock, genVars, last, drvVars, epochVars>>

(* The decision genEpochTicks makes at time t. *)
Due(t, l) == (t - l) + MinInterval >= MaxInterval

(* The timestamp_nanos the map server stamps on a root written at local   *)
(* time t: the server's clock may be off by up to MaxSkew.                 *)
ServerStamp(t) == {t + d : d \in -MaxSkew .. MaxSkew} \cap Nat

(* What StartSigning sets last to: the map root's timestamp, or Unix 0    *)
(* when rootResp is nil because the read after the bootstrap failed.      *)
RootTimestamp(p) == {0} \cup ServerStamp(p)

(* StartSigning: last is the timestamp read from the newest map root, which *)
(* the bootstrap CreateEpoch(true) may just have written at StartTime; when *)
(* the read after the bootstrap fails too, rootResp is nil and last is     *)
(* Unix 0.  Then the ticker starts and the goroutine runs.                 *)
Init ==
    /\ now = StartTime /\ nextFire = StartTime + MinInterval /\ tc = NoTime
    /\ published \in 0..StartTime /\ last \in RootTimestamp(published)
    /\ gen = "first" /\ genVal = FALSE /\ genAt = NoTime
    /\ drv = "idle" /\ drvStart = StartTime /\ drvForce = FALSE
    /\ pending \in BOOLEAN /\ failures = 0 /\ missed = 0 /\ restarts = 0

(* A goroutine step that is enabled happens before the clock moves: the *)
(* scheduling delay of a ready goroutine is far below one time unit.      *)
Urgent == \/ gen = "first"
          \/ gen = "recv" /\ tc # NoTime
          \/ gen = "send" /\ drv = "idle"

(* The clock advances; the ticker fires into its slot or drops the tick.  *)
(* CreateEpoch returns by its deadline of minInterval; the whole          *)
(* iteration, dissemination to the subscribers included, by MaxBusy.      *)
Advance ==
    /\ ~Urgent
    /\ drv = "create" => now + 1 - drvStart <= MinInterval
    /\ drv = "dissem" => now + 1 - drvStart <= MaxBusy
    /\ now' = now + 1
    /\ IF now' = nextFire
         THEN /\ nextFire' = nextFire + MinInterval
              /\ tc' = IF tc = NoTime THEN now' ELSE tc
         ELSE UNCHANGED <<nextFire, tc>>
    /\ UNCHANGED <<genVars, last, drvVars, epochVars>>

(* The goroutine's first check, before it ranges over the ticker. *)
GenFirst ==
    /\ gen = "first"
    /\ IF Due(now, last)
         THEN gen' = "send" /\ genVal' = TRUE /\ genAt' = NoTime
         ELSE gen' = "recv" /\ UNCHANGED <<genVal, genAt>>
    /\ UNCHANGED <<clock, last, drvVars, epochVars>>

(* for now := range minTick: decide from the tick's own time. *)
GenRecv ==
    /\ gen = "recv" /\ tc # NoTime
    /\ gen' = "send" /\ genVal' = Due(tc, last) /\ genAt' = tc
    /\ tc' = NoTime
    /\ UNCHANGED <<now, nextFire, last, drvVars, epochVars>>

(* Mutant: the first send also takes last from a tick. *)
NewLastTickOnly == genAt

(* The value after which genEpochTicks moves last: the time read after    *)
(* the send for the first check, the tick time in the loop.               *)
NewLast == IF genAt = NoTime THEN now ELSE genAt

(* Mutant: last = now is outside the if, moved after every send. *)
LastAfterSendAlways == NewLast

(* last moves only on a true decision, once the send is done. *)
LastAfterSend == IF genVal THEN NewLast ELSE last

(* enforce is unbuffered: the send completes when the loop is ranging.    *)
Deliver ==
    /\ gen = "send" /\ drv = "idle"
    /\ drv' = "create" /\ drvStart' = now /\ drvForce' = genVal
    /\ gen' = "recv" /\ last' = LastAfterSend
    /\ UNCHANGED <<clock, genVal, genAt, epochVars>>

(* CreateEpoch(ctxTime, f) returns: it wrote a revision (there were       *)
(* mutations or f is true), it returned nil without one, or it failed and *)
(* the loop only logs the error.                                          *)
EpochReturns ==
    /\ drv = "create" /\ drv' = "dissem"
    /\ \/ /\ drvForce \/ pending
          /\ published' = now /\ pending' = FALSE /\ missed' = 0
          /\ UNCHANGED failures
       \/ /\ ~drvForce /\ ~pending
          /\ UNCHANGED epochVars
       \/ /\ failures < MaxFailures /\ failures' = failures + 1
          /\ missed' = IF drvForce THEN missed + 1 ELSE missed
          /\ UNCHANGED <<pending, published>>
    /\ UNCHANGED <<clock, genVars, last, drvStart, drvForce, restarts>>

(* disseminateMutations returns and the loop ranges on enforce again. *)
Disseminated ==
    /\ drv = "dissem" /\ drv' = "idle"
    /\ UNCHANGED <<clock, genVars, last, drvStart, drvForce, epochVars>>

(* The process dies at any point, an epoch in flight included, and        *)
(* StartSigning runs again: the in-memory last is lost and read back from *)
(* the map root, after a bootstrap CreateEpoch(true) that may write a     *)
(* revision when the first root read fails; a new ticker starts.          *)
Restart ==
    /\ restarts < MaxRestarts /\ restarts' = restarts + 1
    /\ \/ /\ UNCHANGED published
          /\ missed' = IF drv = "create" /\ drvForce THEN missed + 1 ELSE missed
       \/ published' = now /\ missed' = 0
    /\ last' \in RootTimestamp(published')
    /\ nextFire' = now + MinInterval /\ tc' = NoTime
    /\ gen' = "first" /\ genVal' = FALSE /\ genAt' = NoTime
    /\ drv' = "idle" /\ drvStart' = now /\ drvForce' = FALSE
    /\ UNCHANGED <<now, pending, failures>>

(* A client queues a mutation. *)
Enqueue ==
    /\ ~pending /\ pending' = TRUE
    /\ UNCHANGED <<clock, genVars, last, drvVars, published, failures, missed,
                   restarts>>

Next == Advance \/ GenFirst \/ GenRecv \/ Deliver \/ EpochReturns
        \/ Disseminated \/ Restart \/ Enqueue

Spec == Init /\ [][Next]_vars

-----------------------------------------------------------------------------
TypeOK ==
    /\ now \in Nat /\ nextFire \in Nat /\ last \in Nat /\ published \in Nat
    /\ tc \in Nat \cup {NoTime} /\ genAt \in Nat \cup {NoTime}
    /\ gen \in {"first", "recv", "send"} /\ drv \in {"idle", "create", "dissem"}
    /\ genVal \in BOOLEAN /\ drvForce \in BOOLEAN /\ pending \in BOOLEAN
    /\ failures \in 0..MaxFailures /\ missed \in 0..failures + restarts
    /\ restarts \in 0..MaxRestarts

(* How long the map has gone without a new revision, counted from the      *)
(* later of the newest revision and the start of StartSigning.             *)
Staleness == IF published > StartTime THEN now - published
                                      ELSE now - StartTime

(* StartSigning promises a revision "at least once per maxElapsed" and   *)
(* spec 4.2 a true tick once maxInterval has passed since the last epoch: *)
(* with iterations that end within their deadline, the newest revision is *)
(* always younger than maxInterval plus one ticker period.                *)
RevisionWithinMaxInterval == Staleness < MaxInterval + MinInterval

(* What the loop really guarantees: every forced epoch that failed since  *)
(* the newest revision postpones the next forced one by a full            *)
(* maxInterval, because genEpochTicks moved last when it sent the true;   *)
(* and a map server clock ahead of the local one postpones the first      *)
(* forced epoch by its offset, because last is the server's timestamp.    *)
(* A restart keeps the bound because StartSigning reads last back from    *)
(* the map root; a forced epoch it cuts short counts as a failed one.     *)
RevisionWithinMissedIntervals ==
    Staleness < (missed + 1) * MaxInterval + MinInterval + MaxSkew

=============================================================================
