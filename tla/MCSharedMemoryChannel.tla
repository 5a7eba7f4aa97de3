----------------------- MODULE MCSharedMemoryChannel -----------------------
(***************************************************************************)
(* SharedMemoryChannel with the values MCSharedMemoryBlock defines.        *)
(***************************************************************************)
EXTENDS MCSharedMemoryBlock, SharedMemoryChannel
=============================================================================
