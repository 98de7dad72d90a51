------------------------ MODULE MC_BroadcastPipeline ------------------------
(* A small crowd for TLC: the constants are set in the .cfg files.         *)
EXTENDS BroadcastPipeline

CONSTANT steady   \* one of the clients

\* Bounds: one client stays and takes all it is sent, and few sends are under way
\* at a time.
SmallCrowd ==
  /\ steady \in writing \cap reading
  /\ steady \in joined => steady \in connected
  /\ Cardinality(sends) <= 3
=============================================================================
