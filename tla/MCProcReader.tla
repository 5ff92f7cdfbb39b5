---------------------------- MODULE MCProcReader ----------------------------
(***************************************************************************)
(* Instances of ProcReader: every file of at most three lines over lengths *)
(* around the limit of the buffer.                                         *)
(***************************************************************************)
EXTENDS ProcReader

FilesOver(lengths) == UNION {[1..n -> lengths] : n \in 0..3}

AnyLength == FilesOver({0, 1, Size - 1, Size})

Short == {<<1, 1>>}
=============================================================================
