-------------------------- MODULE RemediationRules --------------------------
(***************************************************************************)
(* The decision tables of tools/remediation.py: which environments, which  *)
(* actions and which binaries RemediationTool lets through.  A script is   *)
(* kept as what the code looks at: nothing, a text shlex cannot split, or  *)
(* the binary its first word names.                                        *)
(***************************************************************************)
EXTENDS Naturals

Environment == {"SIT", "UAT", "PROD", "DEV"}

ActionType ==
  {"ROLLBACK", "RESTART_SERVICE", "ESCALATE_ONLY", "SCALE_UP", "CONFIG_UPDATE"}

ALLOWED_BINARIES == {"kubectl", "helm", "git", "docker", "systemctl"}

\* "rm" stands for every binary that is not on the list.
Script == ALLOWED_BINARIES \cup {"none", "unparsable", "rm"}

allowed_commands ==
  [rollback |-> {"kubectl", "helm", "git"},
   restart  |-> {"kubectl", "docker", "systemctl"},
   scale    |-> {"kubectl"},
   config   |-> {"kubectl"}]

\* action.value.lower()
Lower ==
  [ROLLBACK        |-> "rollback",
   RESTART_SERVICE |-> "restart_service",
   ESCALATE_ONLY   |-> "escalate_only",
   SCALE_UP        |-> "scale_up",
   CONFIG_UPDATE   |-> "config_update"]

\* Mutant: an action without a list of its own gets the whole allowlist.
AllowedForDefault(action) ==
  IF Lower[action] \in DOMAIN allowed_commands
    THEN allowed_commands[Lower[action]] ELSE ALLOWED_BINARIES

\* self.allowed_commands.get(action.value.lower()): no entry, no binaries.
AllowedFor(action) ==
  IF Lower[action] \in DOMAIN allowed_commands
    THEN allowed_commands[Lower[action]] ELSE {}

\* _parse_and_validate
Validates(script, action) == script \in ALLOWED_BINARIES \cap AllowedFor(action)

\* Mutant: the environment is not looked at.
RefusedEnvironmentNever(environment, action) == FALSE

\* The first test of execute.
RefusedEnvironment(environment, action) ==
  environment = "PROD" /\ action # "ESCALATE_ONLY"

\* execute goes on to run the script as a process.
Runs(environment, action, script) ==
  /\ ~RefusedEnvironment(environment, action)
  /\ script # "none"
  /\ Validates(script, action)
=============================================================================
