-------------------------- MODULE MCMailSchedule --------------------------
(* Small days and a few settings for TLC. *)
EXTENDS MailSchedule

CONSTANTS Times, Starts, Steps

MCForms ==
  {f \in [enabled: BOOLEAN, onTimes: BOOLEAN, times: (SUBSET Times) \ {{}},
          days: {{0}, 0..CycleDays-1}, every: {0} \cup Steps, start: Starts] : Accepted(f)}

MCDefault ==
  [enabled |-> FALSE, onTimes |-> TRUE, times |-> {1}, days |-> {0}, every |-> 0, start |-> 1]
=============================================================================
