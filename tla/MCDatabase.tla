----------------------------- MODULE MCDatabase -----------------------------
(* Database for TLC: the version in DatabaseManager.h, and a later one.       *)
EXTENDS Database

MCReleases == <<"1.0.0.0", "1.1.0.0">>
=============================================================================
