--------------------------- MODULE MCExecuteLoop ---------------------------
(* Instances of ExecuteLoop for TLC. *)
EXTENDS ExecuteLoop

CONSTANTS a, b, m, u, v, p, q

\* b serves m by two upstream models, a by itself.
MCPool == [x \in Auths |-> [y \in Models |-> IF x = b /\ y = m THEN <<u, v>> ELSE <<y>>]]
MCProvider == [x \in Auths |-> IF x = a THEN p ELSE q]
MCRetry == [x \in Auths |-> IF x = a THEN 1 ELSE 0]

Route1(providers) == [providers |-> providers, model |-> m]
Plain1 == <<Route1({p, q})>>
Virtual == <<Route1({p}), Route1({q})>>

Kind(s, c, t, n) == [streaming |-> s, credited |-> c, targets |-> t, limit |-> n]

\* Requests that may fall back to paid credits, and virtual models, each with
\* and without a limit of one credential per attempt.
MCKinds ==
    {Kind(TRUE, TRUE, Plain1, 0), Kind(FALSE, TRUE, Plain1, 1),
     Kind(TRUE, FALSE, Virtual, 1), Kind(FALSE, FALSE, Virtual, 0)}
=============================================================================
