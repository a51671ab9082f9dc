------------------------------ MODULE MCPaging ------------------------------
(* Paging and the helpers that keep no state: three items at three places of *)
(* the order and pages of one or two; messages of up to three bytes, blocks  *)
(* of two, and a key and an iv of each kind.                                 *)
EXTENDS Paging, Encryption

MCMessages == UNION {[1..n -> 0..3] : n \in 0..3}
MCKeys     == {[hex |-> TRUE, size |-> 32, id |-> 1], [hex |-> TRUE, size |-> 32, id |-> 2],
               [hex |-> TRUE, size |-> 5, id |-> 3], [hex |-> FALSE, size |-> 32, id |-> 4]}
MCIvs      == {[hex |-> TRUE, size |-> 2, id |-> 1], [hex |-> TRUE, size |-> 0, id |-> 2]}

\* What RoundTrip says holds of these constants.
ASSUME RoundTrip
=============================================================================
