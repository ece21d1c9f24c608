------------------------------- MODULE Ladder -------------------------------
(***************************************************************************)
(* A chain of early returns: checks made in order, the first that fails    *)
(* gives the answer.  Most gates of this code have that form.              *)
(***************************************************************************)
EXTENDS Naturals

Check(reason, fails) == [reason |-> reason, fails |-> fails]

\* The reason of the first failing check, or the answer of a chain passed.
FirstFailing(checks, passed) ==
    LET failing == {i \in DOMAIN checks : checks[i].fails}
        first == CHOOSE i \in failing : \A j \in failing : i <= j
    IN  IF failing = {} THEN passed ELSE checks[first].reason

=============================================================================
