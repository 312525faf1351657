--------------------------- MODULE MCAuthentication ---------------------------
EXTENDS Authentication

(* One that loses packets and is slow, one on which the handshake has to succeed *)
mcNetworks == {[lossy |-> TRUE, delay |-> 3], [lossy |-> FALSE, delay |-> 1]}

mcReliable == {[lossy |-> FALSE, delay |-> 2]}
=============================================================================
