------------------------- MODULE MCDurableSchedule --------------------------
(* An instance of DurableSchedule for TLC.                                  *)
EXTENDS DurableSchedule

ASSUME ClockOutlivesSchedules == Delay + Every <= MaxTime
=============================================================================
