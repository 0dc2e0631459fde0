------------------------------ MODULE MCUdpGw ------------------------------
(* UdpGw for TLC: applications are interchangeable.                         *)
EXTENDS UdpGw, TLC

Symmetric == Permutations(Apps)
=============================================================================
