------------------------- MODULE MCURLDownloadTask --------------------------
(* Values for the constants of URLDownloadTask.                            *)
EXTENDS URLDownloadTask

=============================================================================
