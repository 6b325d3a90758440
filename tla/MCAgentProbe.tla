----------------------------- MODULE MCAgentProbe -----------------------------
(* One run with two model requests of at most two tool calls each, a budget of *)
(* two broker calls and of two tokens, which a response leaves alone or        *)
(* exceeds with the sum of its two counts.                                     *)
EXTENDS AgentProbe

MCUsages == {<<0, 0>>, <<2, 1>>}

MCActions == {"submit_task_result", "report_bolo_finding", "host_shell", "modify_policy"}
===============================================================================
