--------------------------- MODULE MCKernelMemory ---------------------------
(* KernelMemory on a small machine: RAM of a few pages, two pools of chunks, *)
(* one device mapped at boot and two UARTs that are opened and closed.       *)
EXTENDS KernelMemory

MCchunk_size    == <<1, 2>>     \* the pools of 1024 and 2048 bytes
MCBootRegions   == <<[page |-> 66, size |-> 2]>>
MCUartRegions   == {[page |-> 3, size |-> 1], [page |-> 68, size |-> 1]}
=============================================================================
