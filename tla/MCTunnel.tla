------------------------------ MODULE MCTunnel ------------------------------
EXTENDS Tunnel, TLC

(* Tunnel objects and descriptors are interchangeable.                      *)
Interchangeable == Permutations(Tunnels) \cup Permutations(Fds)
=============================================================================
