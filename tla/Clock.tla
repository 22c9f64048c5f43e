------------------------------- MODULE Clock -------------------------------
(***************************************************************************)
(* The gateway's clock (sntp/time.c): a 64-bit time kept as two words, of  *)
(* which the hardware counts only the lower.  A carry is noticed when the  *)
(* counter is found below the value it had at the reading before.          *)
(***************************************************************************)
EXTENDS Integers

CONSTANT W            \* number of values of a uint32_t

ASSUME ClockAssumption == W \in Nat \ {0, 1}

VARIABLES TC,         \* LPC_TIM3->TC
          hi, lo,     \* ct_ptr[1], ct_ptr[0] of current_time
          time_valid,
          ehi, elo    \* ghost: the time last set, plus the seconds since

varsClock == <<TC, hi, lo, time_valid, ehi, elo>>

ClockWord == 0..(W - 1)

\* init_current_time
InitClock ==
  /\ TC = 0 /\ hi = 0 /\ lo = 0 /\ time_valid = FALSE
  /\ ehi = 0 /\ elo = 0

\* The timer counts a second.  The clock is read at least once in W seconds.
TickClock ==
  /\ ~(ehi = (hi + 1) % W /\ elo + 1 = lo) /\ ~(ehi = hi /\ lo = 0 /\ elo = W - 1)
  /\ TC' = (TC + 1) % W
  /\ elo' = (elo + 1) % W
  /\ ehi' = IF elo + 1 = W THEN (ehi + 1) % W ELSE ehi
  /\ UNCHANGED <<hi, lo, time_valid>>

\* get_last_recorded_time, which is not written yet.
get_last_recorded_time == <<0, 0>>

ntp_set_current_time(secs) ==
  LET last == get_last_recorded_time
  IN /\ hi' = IF secs < last[1] THEN last[2] + 1 ELSE last[2]
     /\ lo' = secs /\ TC' = secs /\ time_valid' = TRUE
     /\ ehi' = hi' /\ elo' = secs

\* Mutant: a reading in the same second as the one before counts as a carry.
get_current_time_equal ==
  /\ hi' = IF TC <= lo THEN (hi + 1) % W ELSE hi
  /\ lo' = TC
  /\ UNCHANGED <<TC, time_valid, ehi, elo>>

get_current_time ==
  /\ hi' = IF TC < lo THEN (hi + 1) % W ELSE hi
  /\ lo' = TC
  /\ UNCHANGED <<TC, time_valid, ehi, elo>>

NextClock ==
  \/ TickClock
  \/ \E secs \in ClockWord : ntp_set_current_time(secs)
  \/ get_current_time

SpecClock == InitClock /\ [][NextClock]_varsClock

-----------------------------------------------------------------------------
\* The stored time trails the true one by less than a round of the counter, and
\* the counter has the lower word of the true one.
ClockInv ==
  /\ {TC, hi, lo, ehi, elo} \subseteq ClockWord
  /\ TC = elo
  /\ \/ ehi = hi /\ lo <= elo
     \/ ehi = (hi + 1) % W /\ elo < lo

\* However settings, carries and readings interleave, get_current_time returns
\* the time last set by ntp_set_current_time plus the seconds since: no carry is
\* lost and none is counted twice.
ReadingIsExact == [][get_current_time => hi' = ehi /\ lo' = elo]_varsClock
=============================================================================
