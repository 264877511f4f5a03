---------------------------- MODULE MCMcpService ----------------------------
(* Small instances of the MCP service for TLC.                             *)
EXTENDS McpService

CONSTANTS c1, c2, g1, g2, plain, r1, r2
=============================================================================
