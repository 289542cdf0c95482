----------------------------- MODULE MCGateways ----------------------------
(* Requests of every kind and protocol, with bodies up to, at and over the limit. *)
EXTENDS Gateways

Good(n) == [size |-> n, good |-> TRUE]
Bad(n) == [size |-> n, good |-> FALSE]

\* Three units are kept: two frames fit or one is cut, or the cut is between two.
MCBodies == {<<>>, <<Good(1)>>, <<Good(1), Good(2)>>, <<Good(2), Good(2)>>,
             <<Good(1), Good(2), Good(1)>>, <<Good(1), Bad(1)>>, <<Bad(1), Good(1)>>}

Shape(proto, kind, proxied, fault, frames) ==
  [proto |-> proto, kind |-> kind, proxied |-> proxied, fault |-> fault, frames |-> frames]

MCRequests ==
  {Shape(p, k, x, "none", b) :
     p \in Protocols, k \in {"server", "client", "bidi"}, x \in BOOLEAN, b \in MCBodies}
  \cup {Shape(p, "unary", FALSE, "none", b) :
     p \in Protocols, b \in {<<>>, <<Good(1)>>, <<Good(4)>>, <<Bad(1)>>}}
  \cup {Shape(p, k, FALSE, f, <<Good(1)>>) :
     p \in Protocols, k \in {"unary", "bidi"}, f \in Faults \ {"none"}}
=============================================================================
