--------------------------- MODULE MCShmAllReduce ---------------------------
(* Small instances of ShmAllReduce.  With the sizes of the configurations   *)
(* one element is one block of a small tensor, two and three are as many    *)
(* blocks, four are more blocks than flags, seven do not fit the buffer.    *)
EXTENDS ShmAllReduce

Calls == <<3, 1, 7, 2>>
OverflowCalls == <<4>>
=============================================================================
