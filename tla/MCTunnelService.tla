-------------------------- MODULE MCTunnelService ---------------------------
(* Three ON requests and two OFF requests.                                  *)
EXTENDS TunnelService
=============================================================================
