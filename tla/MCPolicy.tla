------------------------------ MODULE MCPolicy ------------------------------
(* Policy for one link, an IPv4 and an IPv6 route, two networks.           *)
EXTENDS Policy
=============================================================================
