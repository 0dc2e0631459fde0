--------------------------- MODULE MCSocksClient ---------------------------
(* Instances for TLC: clients with and without a password, one of them too  *)
(* long, and servers that choose each method and each form of the address.  *)
EXTENDS SocksClient

MCOptions ==
    {[methods |-> 1, ulen |-> 0, plen |-> 0, addr |-> 6],
     [methods |-> 2, ulen |-> 1, plen |-> 2, addr |-> 6],
     [methods |-> 2, ulen |-> 256, plen |-> 1, addr |-> 18]}

MCServers ==
    {[method |-> "none", addr |-> 6], [method |-> "password", addr |-> 18],
     [method |-> "other", addr |-> 6], [method |-> "none", addr |-> 0]}
=============================================================================
