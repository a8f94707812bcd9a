----------------------------- MODULE MCWorkflow -----------------------------
(* Constants for the runs of Workflow. *)
EXTENDS Workflow

CONSTANTS t1, readme, architecture, code, debugReport

MCOneTask  == {t1}

MCPaths       == {readme, architecture, code, debugReport}
MCCodePaths   == {code}
MCHealthPaths == {readme, architecture}

(* Mock mode ignores the other flag. *)
MockConfig    == [mock |-> TRUE,  partial |-> FALSE]
StrictConfig  == [mock |-> FALSE, partial |-> FALSE]
PartialConfig == [mock |-> FALSE, partial |-> TRUE]

MCAllConfigs  == {MockConfig, StrictConfig, PartialConfig}
MCStrictOnly  == {StrictConfig}
=============================================================================
