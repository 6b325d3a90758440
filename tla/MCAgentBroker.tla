---------------------------- MODULE MCAgentBroker ----------------------------
(* The broker alone, against a guest that claims any sequence number and      *)
(* proposes one action code of every class.                                   *)
EXTENDS AgentBroker

MCSeqNos == 0..(MaxEvents - 1)

MCActions == {"submit_task_result", "report_bolo_finding",
              "modify_policy", "unknown_tool", "undeclared_code"}
==============================================================================
