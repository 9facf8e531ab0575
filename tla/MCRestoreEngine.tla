--------------------------- MODULE MCRestoreEngine ---------------------------
(* Three files that share packs two by two, two permits, batches of two: a *)
(* semaphore that is full, a batch in the middle of a run and a race to a  *)
(* pack that is gone.                                                      *)
EXTENDS RestoreEngine

CONSTANTS k1, k2

MCPacks  == {k1, k2}
MCChunks == <<<<k1>>, <<k1, k2>>, <<k2>>>>
MCGone   == {k2}

(* Two files, for runs that resume one another. *)
MCTwoChunks == <<<<k1>>, <<k2>>>>
=============================================================================
