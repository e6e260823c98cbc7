----------------------------- MODULE MCServices -----------------------------
(***************************************************************************)
(* An instance for TLC of what fx talks to: the child agents of a session  *)
(* (SubagentManager) and, over the network, Credentials, GatewayStream and *)
(* McpClient.  They share no state; each behaviour is one of one of them,  *)
(* and the others stay as they began.                                      *)
(*                                                                         *)
(* Children and messages are interchangeable.  Of the workers two are of   *)
(* the process whose registry is looked at, and are interchangeable too,   *)
(* and one is of another process.                                          *)
(***************************************************************************)
EXTENDS SubagentManager, Credentials, GatewayStream, McpClient, TLC

VARIABLE part

MCBuiltIn == {"glm", "old"}
MCCatalogs == {{"glm", "new"}, {"glm", "other"}, {"other"}}
MCSymmetry == Permutations(Names) \cup Permutations(Messages)

\* A terminal event without output, with an item not sent before, with all of them.
MCOutputs == {<<>>, <<"m", "f">>, <<"f", "g", "w">>}

\* Two servers with tools of like names, one of them required, and tools that are refused.
MCServers == <<"s", "t">>
MCBase(s, tool) == IF tool = "write" THEN "write" ELSE "read"
Tool(name, acceptable) == [name |-> name, acceptable |-> acceptable]
MCPages ==
  {<<>>, <<Tool("read", TRUE)>>, <<Tool("read!", TRUE), Tool("write", TRUE)>>,
   <<Tool("write", TRUE), Tool("read", FALSE)>>}

ServicesInit ==
  /\ part \in {"subagents", "credentials", "gateway", "mcp"}
  /\ Init /\ CredentialsInit /\ McpInit
  /\ GatewayInit
  /\ part # "gateway" => kind = "codex"

ServicesNext ==
  /\ UNCHANGED part
  /\ \/ part = "subagents" /\ Next /\ UNCHANGED <<credentialVars, gatewayVars, mcpVars>>
     \/ part = "credentials" /\ CredentialsNext /\ UNCHANGED <<vars, gatewayVars, mcpVars>>
     \/ part = "gateway" /\ GatewayNext /\ UNCHANGED <<vars, credentialVars, mcpVars>>
     \/ part = "mcp" /\ McpNext /\ UNCHANGED <<vars, credentialVars, gatewayVars>>

ServicesSpec ==
  ServicesInit /\ [][ServicesNext]_<<part, vars, credentialVars, gatewayVars, mcpVars>>

\* The types of the parts.
ServicesTypeOK == TypeOK /\ CredentialsTypeOK /\ GatewayTypeOK /\ McpTypeOK
=============================================================================
