----------------------------- MODULE MCSchedule -----------------------------
(* Model-checking instance of Schedule: three categories, two valid cron  *)
(* expressions and an invalid one, two hubs sharing the storage location. *)
EXTENDS Schedule

CONSTANTS mc, creds, res, c1, c2, bad, h1, h2

MCCategories == {mc, creds, res}
MCCrons == {c1, c2, bad}
MCValidCrons == {c1, c2}
MCHubs == {h1, h2}
=============================================================================
