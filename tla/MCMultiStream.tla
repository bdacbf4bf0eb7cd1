---------------------------- MODULE MCMultiStream ----------------------------
(* Small instances of MultiStream. *)
EXTENDS MultiStream

\* Core 4 is not available to the process.
Lists == {<<1, 2, 3>>, <<4, 3, 1>>, <<2>>}
=============================================================================
