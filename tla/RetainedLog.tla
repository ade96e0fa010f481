----------------------------- MODULE RetainedLog -----------------------------
(***************************************************************************)
(* What an audit log with bounded retention promises: it is extended at    *)
(* its end and forgotten from its beginning, and nothing is ever changed,  *)
(* reordered or removed in between.                                        *)
(***************************************************************************)
EXTENDS SequencesExt

VARIABLE log

Init == log = <<>>

Extend == IsStrictPrefix(log, log')

Forget == IsStrictSuffix(log', log)

Next == Extend \/ Forget

Spec == Init /\ [][Next]_log

=============================================================================
