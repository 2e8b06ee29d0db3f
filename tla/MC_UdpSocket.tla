---------------------------- MODULE MC_UdpSocket ----------------------------
(***************************************************************************)
(* Model-checking instance of UdpSocket.  The endpoints and callbacks are   *)
(* model values given in the .cfg files; each .cfg chooses which public     *)
(* calls the application makes and the bounds.                              *)
(***************************************************************************)
EXTENDS UdpSocket
=============================================================================
