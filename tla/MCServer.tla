------------------------------ MODULE MCServer ------------------------------
(* Two serving threads and a third connection waiting, three descriptors: a
   socket each and none for the database.  Nothing tells one thread, or one
   descriptor, from another. *)
EXTENDS ServerLoop, TLC

Alike == Permutations(Threads) \cup Permutations(Fds)
=============================================================================
