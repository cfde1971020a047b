---------------------- MODULE MCSocketHttpsController -----------------------
(* Values for the constants of RequestQueue and SocketHttpsController.     *)
EXTENDS SocketHttpsController

=============================================================================
