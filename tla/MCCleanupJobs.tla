--------------------------- MODULE MCCleanupJobs ---------------------------
EXTENDS CleanupJobs
=============================================================================
