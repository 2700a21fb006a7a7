------------------------- MODULE MCRemotePcRegistry -------------------------
(* Small instances of RemotePcRegistry for TLC. *)
EXTENDS RemotePcRegistry, TLC

\* Workers run the same code and no value orders them.
Interchangeable == Permutations(Workers)
=============================================================================
