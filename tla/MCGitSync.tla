------------------------------ MODULE MCGitSync -------------------------------
(***************************************************************************)
(* GitSync on a small history: the remote branch goes from c0 to c1 and    *)
(* c2, or back by force, and another process commits x on top of c0.       *)
(***************************************************************************)
EXTENDS GitSync

CONSTANTS c0, c1, c2, x, main, topic, getStatus, fetching, syncing

History == {c0, c1, c2, x}

Ancestry == {<<a, a>> : a \in History} \cup {<<c0, c1>>, <<c1, c2>>, <<c0, c2>>, <<c0, x>>}

\* One call of each tool.
ToolOf == [c \in Calls |-> CASE c = getStatus -> "status"
                             [] c = fetching -> "fetch"
                             [] c = syncing -> "sync"]

AnyCommand == Commands

=============================================================================
