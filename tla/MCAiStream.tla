------------------------------ MODULE MCAiStream ------------------------------
(* A small instance of AiStream for TLC.                                   *)
EXTENDS AiStream, TLC

\* A query for administrators, an operation, one that asks all the same, and a
\* tool there is not.
SomeTools == {"list_audit_logs", "start_inspection", "upsert_server", "no_such_tool"}

\* Every access mode, and both roles with full access.
SomeAccess ==
    {[engine |-> "tools", mode |-> "full", role |-> role] : role \in Roles}
        \cup {[engine |-> "tools", mode |-> mode, role |-> "operator"] : mode \in {"limited", "change"}}
===============================================================================
