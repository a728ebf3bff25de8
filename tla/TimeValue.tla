----------------------------- MODULE TimeValue -----------------------------
(***************************************************************************)
(* Points on the scheduler's time axis (lib/time/timevalue.hpp): integral  *)
(* ticks between two extremal marker values.                               *)
(***************************************************************************)
EXTENDS Integers

CONSTANTS ANYTIME,   \* Time::ANYTIME = Time::MIN
          NEVER      \* Time::NEVER   = Time::MAX

ASSUME ExtremalTimes == ANYTIME \in Int /\ NEVER \in Int /\ ANYTIME < NEVER

IsRegular(time) == ANYTIME < time /\ time < NEVER

=============================================================================
