------------------------------- MODULE MCWire -------------------------------
(* Bytes 0, 1 (the delimiter) and 2.  One request has an empty field, one has no
   field, and one has a field in which the delimiter was typed. *)
EXTENDS Wire

MCRequests ==
  {[type |-> 1, user_id |-> 2, target |-> 0, vec |-> <<<<2>>, <<>>>>],
   [type |-> 2, user_id |-> 0, target |-> 1, vec |-> <<>>],
   [type |-> 0, user_id |-> 1, target |-> 0, vec |-> <<<<1>>>>]}
MCResponses ==
  {[success |-> 1, user_id |-> 2, text |-> <<2, 2>>],
   [success |-> 0, user_id |-> 0, text |-> <<>>]}
=============================================================================
