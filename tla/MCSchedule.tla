----------------------------- MODULE MCSchedule -----------------------------
(* A season in as many instalments as the year has months, so that a       *)
(* season's last payment and the next one's first can fall on one day.     *)
EXTENDS Schedule
=============================================================================
