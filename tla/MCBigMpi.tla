------------------------------ MODULE MCBigMpi ------------------------------
(***************************************************************************)
(* Both loops of big_mpi.h one after the other, as in a remote read:       *)
(* GatherAllPreparedData gathers what the ranks offer, and FetchRemoteData *)
(* then gets one of the buffers.                                           *)
(***************************************************************************)
EXTENDS BigMpiGather, BigMpiChunks

\* Every length from nothing to several full chunks.
AllLengths == 0..(4 * MaxInt + 1)

MCInit == Init /\ ChunksInit

MCNext ==
  \/ Next /\ UNCHANGED chunksVars
  \/ i = Size /\ ChunksNext /\ UNCHANGED vars

MCSpec == MCInit /\ [][MCNext]_<<vars, chunksVars>>
=============================================================================
