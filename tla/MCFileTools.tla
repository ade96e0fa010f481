----------------------------- MODULE MCFileTools -----------------------------
(* A file at the root, a directory with two entries, and a secret file.     *)
EXTENDS FileTools

MCParent == [p \in 1..5 |-> CASE p = 1 -> 0 [] p = 2 -> 0 [] p \in {3, 4} -> 2 [] p = 5 -> 0]

MCMay ==
    [p \in 0..5 |-> CASE p = 0 -> {"dir"}
                      [] p = 1 -> {"text", "unreadable", "linked"}
                      [] p = 2 -> {"dir", "restricted"}
                      [] p = 3 -> {"text", "dull", "none"}
                      [] p = 4 -> {"dull", "dir"}
                      [] p = 5 -> {"text", "none"}]

=============================================================================
