------------------------------- MODULE MCPfcp -------------------------------
EXTENDS Pfcp
=============================================================================
