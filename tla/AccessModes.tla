----------------------------- MODULE AccessModes -----------------------------
(***************************************************************************)
(* The tools of the assistant and what one call of a tool may do: the      *)
(* table TOOL_SPECS of ai_tools.py, the checks of execute() and the        *)
(* decision of _handle_tool_call (ai_service.py) under the access mode of  *)
(* the stream.  No state: AiStream takes its steps from Outcomes.          *)
(***************************************************************************)
EXTENDS FiniteSets

Modes == {"limited", "change", "full"}
Roles == {"admin", "operator"}

-----------------------------------------------------------------------------
(* TOOL_SPECS.                                                             *)

ReadTools ==
    {"list_servers", "list_groups", "get_server_hardware", "list_services",
     "list_inspection_runs", "get_run_summary", "list_disk_findings",
     "list_audit_logs"}
SkillReadTools ==
    {"list_local_skills", "read_local_skill", "list_mcp_servers", "list_mcp_tools"}
RemoteTools == {"discover_server_services"}
LedgerActions == {"upsert_server", "import_discovered_services"}
OperationActions ==
    {"run_remote_command", "start_inspection", "refresh_server_hardware",
     "test_server_connection", "restart_registered_service"}
ExtensionActions == {"create_local_skill", "call_mcp_tool"}

ActionTools == LedgerActions \cup OperationActions \cup ExtensionActions
ToolSpecs == ReadTools \cup SkillReadTools \cup RemoteTools \cup ActionTools

AdminOnly ==
    {"list_audit_logs", "restart_registered_service", "list_mcp_servers",
     "list_mcp_tools"} \cup LedgerActions \cup ExtensionActions
AlwaysConfirm == LedgerActions

LevelOf(t) ==
    CASE t \in ActionTools -> "action"
      [] t \in RemoteTools -> "remote"
      [] t \in ReadTools \cup SkillReadTools -> "read"
      [] OTHER -> "unknown"

\* available_specs: what the model is told of.
AvailableSpecs(role) == {t \in ToolSpecs : t \in AdminOnly => role = "admin"}

-----------------------------------------------------------------------------
(* execute: a handler refuses its arguments (ToolError), fails, returns a  *)
(* result, or, for an action, a payload for a confirmation.                *)

Execute(t, role) ==
    IF t \notin AvailableSpecs(role) THEN {"error"}
    ELSE {"error", IF t \in ActionTools THEN "action" ELSE "result"}

\* Slip: full access executes every action.
OutcomesFullIsFull(mode, role, t) ==
    IF mode = "limited" /\ t \notin ActionTools
    THEN {IF t \in ToolSpecs THEN "confirm" ELSE "error"}
    ELSE {CASE r = "action" /\ mode = "full" -> "run"
            [] r = "action" /\ mode # "full" -> "confirm"
            [] OTHER -> r : r \in Execute(t, role)}

\* _handle_tool_call.  In limited mode a query is put on a card before its
\* role and its arguments are looked at; approve_action looks at them.
Outcomes(mode, role, t) ==
    IF mode = "limited" /\ t \notin ActionTools
    THEN {IF t \in ToolSpecs THEN "confirm" ELSE "error"}
    ELSE {CASE r = "action" /\ mode = "full" /\ t \notin AlwaysConfirm -> "run"
            [] r = "action" /\ (mode # "full" \/ t \in AlwaysConfirm) -> "confirm"
            [] OTHER -> r : r \in Execute(t, role)}
=============================================================================
