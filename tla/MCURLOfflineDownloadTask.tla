---------------------- MODULE MCURLOfflineDownloadTask ----------------------
(* Values for the constants of URLOfflineDownloadTask.                     *)
EXTENDS URLOfflineDownloadTask

=============================================================================
