------------------------------ MODULE MCDuties ------------------------------
(* Rosters for model checking the duty scheduler.                          *)
EXTENDS Duties

MCDuty(kind, schedule, at) == [kind |-> kind, schedule |-> schedule, at |-> at]

\* Each kind of duty, alone or before another that competes for the loop.
MCRosters ==
    { <<MCDuty("review", "daily", 1), MCDuty("warm", "every", 2)>>,
      <<MCDuty("analysis", "every", 1)>>,
      <<MCDuty("distill", "every", 1)>>,
      <<MCDuty("prompt", "daily", 0), MCDuty("distill", "daily", 2)>> }
=============================================================================
