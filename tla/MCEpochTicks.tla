---------------------------- MODULE MCEpochTicks ----------------------------
(* Bounded instance of EpochTicks: the clock is explored up to MaxTime,   *)
(* long enough for three maxInterval periods after StartSigning starts.   *)
EXTENDS EpochTicks

CONSTANT MaxTime

TimeBound == now <= MaxTime
=============================================================================
