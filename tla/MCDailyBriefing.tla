--------------------------- MODULE MCDailyBriefing ---------------------------
(***************************************************************************)
(* Values of the constants of DailyBriefing that a .cfg cannot express.    *)
(***************************************************************************)
EXTENDS DailyBriefing

\* A zone west of the database's, as the one of docs/railway-ingestion.md.
West == -1
=============================================================================
