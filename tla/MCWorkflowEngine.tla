-------------------------- MODULE MCWorkflowEngine --------------------------
(***************************************************************************)
(* Small instances of WorkflowEngine for TLC: the cyclic chat graph of     *)
(* integrations/cli/app.py (planner to tool and back), with a condition    *)
(* that may also raise.                                                    *)
(***************************************************************************)
EXTENDS WorkflowEngine

CONSTANTS planner, tool

MCNodes    == { planner, tool }
MCContexts == { "tool_call", "reply", "broken" }
MCEdges ==
  << [ from |-> planner, to |-> tool, when |-> { "tool_call" }, raises |-> { "broken" } ],
     [ from |-> tool, to |-> planner, when |-> MCContexts, raises |-> {} ] >>
MCBreakpoints == { << {}, {} >>, << { tool }, {} >>, << {}, { planner } >> }
=============================================================================
