------------------------------- MODULE MCInput -------------------------------
(* A small instance of Input for TLC. *)
EXTENDS Input

FewKeys == [Windows |-> {"ControlLeft", "AltRight", "ShiftLeft", "ShiftRight"},
            Japanese |-> {"ControlLeft", "KanaMode"},
            Mac |-> {"KeyA", "MetaLeft", "CapsLock"},
            Other |-> {"KeyA", "ControlLeft"}]

Interchangeable == Permutations(Fingers)
=============================================================================
