--------------------------- MODULE MCProcessTable ---------------------------
(***************************************************************************)
(* An instance of ProcessTable.                                            *)
(***************************************************************************)
EXTENDS ProcessTable

\* A program of root; one of a user whose files are closed to the library, with a
\* blank in its name and a gid without a group; and a kernel thread, or the first
\* one as a zombie.
Daemon == [prog |-> "daemon", uid |-> 0, gid |-> 0, rss |-> 2]
Tool == [prog |-> "web tool", uid |-> 1, gid |-> 7, rss |-> 3]
Thread == [prog |-> "daemon", uid |-> 0, gid |-> 0, rss |-> 0]

WordsOf == [p \in Programs |-> IF p = "web tool" THEN "web" ELSE p]

OnlyTool == {Tool}

OnlyThread == {Thread}

ToolOrThread == {Tool, Thread}
=============================================================================
