----------------------------- MODULE McpClient -----------------------------
(***************************************************************************)
(* fx-mcp: the servers of a session's configuration are started one after  *)
(* the other, those on stdio first, and their tools are registered under   *)
(* names of their own; then the tools are called, until the session ends.  *)
(*                                                                         *)
(* A listed tool is a name and whether its description is acceptable.  A   *)
(* registered name is <<base, suffix>>: two names of a server, or of two   *)
(* servers, may have the same base after sanitize and the cut at 64 bytes. *)
(***************************************************************************)
EXTENDS Naturals, Sequences, SequencesExt

CONSTANTS
  McpServers,   \* the enabled servers, in their order
  Required,     \* those without which the session is not created
  McpPages,     \* the pages a tools/list may answer with
  McpBase(_, _),  \* the base of the name of a server's tool
  MaxListed,    \* MAX_TOOLS
  MaxCalls      \* bound: calls

\* A server is configured once.
ASSUME McpAssumption ==
  /\ McpServers \in Seq(ToSet(McpServers)) /\ McpServers # <<>> /\ IsInjective(McpServers)
  /\ Required \subseteq ToSet(McpServers) /\ MaxListed \in Nat
  /\ McpPages \subseteq Seq(UNION {ToSet(page) : page \in McpPages})

Cursors == {"c1", "c2"}

VARIABLES
  turn,         \* how many servers are dealt with
  stage,        \* of the server at hand, or "ready", or "failed"
  listing,      \* what it has listed and is not registered yet
  seen,         \* the cursors it has used
  offers,       \* whether it has resources, prompts, completions or instructions
  mcpTools,     \* the registered names: <<base, suffix>> -> [server, tool]
  services,     \* the running services of McpRuntime
  lost,         \* services that died
  warned,       \* McpRuntime.warnings
  features,     \* the servers of the `mcp` tool
  offered,      \* history: the tools each server listed
  mcpCalls      \* the calls: [name, at, ran]

mcpVars == <<turn, stage, listing, seen, offers, mcpTools, services, lost, warned, features,
             offered, mcpCalls>>
current == McpServers[turn + 1]
running == <<lost, mcpCalls>>
kept == <<mcpTools, services, warned, features, offered>>

-----------------------------------------------------------------------------
(* connect_configured.                                                     *)

Advance == IF turn + 1 = Len(McpServers) THEN "ready" ELSE "start"

\* The service is dropped; what it has registered by then stays registered.
Unavailable ==
  /\ turn' = turn + 1 /\ listing' = <<>> /\ seen' = {} /\ offers' = FALSE
  /\ IF current \in Required
     THEN stage' = "failed" /\ services' = {} /\ UNCHANGED warned
     ELSE stage' = Advance /\ warned' = warned \cup {current} /\ UNCHANGED services
  /\ UNCHANGED <<mcpTools, features, offered, running>>

\* retain_feature_server, and the service is kept.
Connected ==
  /\ turn' = turn + 1 /\ stage' = Advance
  /\ services' = services \cup {current}
  /\ features' = IF offers THEN features \cup {current} ELSE features
  /\ listing' = <<>> /\ seen' = {} /\ offers' = FALSE
  /\ UNCHANGED <<mcpTools, warned, offered, running>>

\* The process or the URL is not usable, or startup_timeout passes.
StartFails == stage = "start" /\ Unavailable

\* The handshake tells what the server offers; without tools it is ready.
Handshake ==
  /\ stage = "start"
  /\ stage' \in {"list", "registered"}
  /\ offers' \in BOOLEAN
  /\ UNCHANGED <<turn, listing, seen, kept, running>>

ListFails == stage = "list" /\ Unavailable

\* list_tools_bounded: one page, and the cursor of the next if there is one.
Page(page, next) ==
  /\ stage = "list"
  /\ IF Len(listing) + Len(page) > MaxListed \/ next = "bad" \/ next \in seen
     THEN Unavailable
     ELSE /\ listing' = listing \o page
          /\ seen' = IF next = "none" THEN seen ELSE seen \cup {next}
          /\ stage' = IF next = "none" THEN "register" ELSE "list"
          /\ offered' = IF next = "none" THEN [offered EXCEPT ![current] = ToSet(listing')] ELSE offered
          /\ UNCHANGED <<turn, offers, mcpTools, services, warned, features, running>>

\* Mutant: the suffix is not looked for.
AllocateFirst(tool) == <<McpBase(current, tool), 1>>

\* allocate_tool_name: the first suffix that is not taken.
Allocate(tool) ==
  LET base == McpBase(current, tool)
      free == {k \in 1 .. Len(McpServers) * MaxListed + 1 : <<base, k>> \notin DOMAIN mcpTools}
  IN  <<base, CHOOSE k \in free : \A j \in free : k <= j>>

\* register_service_tools, for one tool of the listing.
Register ==
  /\ stage = "register" /\ listing # <<>>
  /\ LET tool == Head(listing)
     IN  IF ~tool.acceptable THEN Unavailable
         ELSE LET name == Allocate(tool.name)
              IN  /\ mcpTools' = [n \in DOMAIN mcpTools \cup {name} |->
                        IF n = name THEN [server |-> current, tool |-> tool.name] ELSE mcpTools[n]]
                  /\ listing' = Tail(listing)
                  /\ UNCHANGED <<turn, stage, seen, offers, services, warned, features, offered,
                                 running>>

ServerReady ==
  /\ stage = "registered" \/ (stage = "register" /\ listing = <<>>)
  /\ Connected

-----------------------------------------------------------------------------
(* McpTool::execute.                                                       *)

Invoke(name) ==
  /\ stage = "ready" /\ Len(mcpCalls) < MaxCalls /\ name \in DOMAIN mcpTools
  /\ mcpCalls' = Append(mcpCalls, [name |-> name, at |-> "sent", ran |-> 0])
  /\ UNCHANGED <<turn, stage, listing, seen, offers, kept, lost>>

Called(k) == mcpTools[mcpCalls[k].name].server
Alive(s) == s \in services \ lost

\* The server runs the call, whether or not somebody waits for it by then.
Run(k) ==
  /\ k \in DOMAIN mcpCalls /\ mcpCalls[k].ran = 0 /\ Alive(Called(k))
  /\ mcpCalls' = [mcpCalls EXCEPT ![k].ran = 1]
  /\ UNCHANGED <<turn, stage, listing, seen, offers, kept, lost>>

EndCall(k, at) ==
  /\ k \in DOMAIN mcpCalls /\ mcpCalls[k].at = "sent"
  /\ mcpCalls' = [mcpCalls EXCEPT ![k].at = at]
  /\ UNCHANGED <<turn, stage, listing, seen, offers, kept, lost>>

\* Answers, also with is_error; is not there any more; is late; the prompt is cancelled.
Answer(k) == k \in DOMAIN mcpCalls /\ mcpCalls[k].ran = 1 /\ EndCall(k, "answered")
CallFails(k) == k \in DOMAIN mcpCalls /\ ~Alive(Called(k)) /\ EndCall(k, "failed")
CallTimesOut(k) == EndCall(k, "late")
CallCancelled(k) == EndCall(k, "cancelled")

\* The server's process ends, or its connection.
Lose(s) ==
  /\ Alive(s) /\ lost' = lost \cup {s}
  /\ UNCHANGED <<turn, stage, listing, seen, offers, kept, mcpCalls>>

-----------------------------------------------------------------------------
McpInit ==
  /\ turn = 0 /\ stage = "start" /\ listing = <<>> /\ seen = {} /\ offers = FALSE
  /\ mcpTools = <<>> /\ services = {} /\ lost = {} /\ warned = {} /\ features = {}
  /\ offered = [s \in ToSet(McpServers) |-> {}] /\ mcpCalls = <<>>

McpNext ==
  \/ StartFails \/ Handshake \/ ListFails \/ Register \/ ServerReady
  \/ \E page \in McpPages, next \in Cursors \cup {"none", "bad"} : Page(page, next)
  \/ \E name \in DOMAIN mcpTools : Invoke(name)
  \/ \E k \in DOMAIN mcpCalls : \/ Run(k) \/ Answer(k) \/ CallFails(k) \/ CallTimesOut(k)
                                \/ CallCancelled(k)
  \/ \E s \in services : Lose(s)

-----------------------------------------------------------------------------
McpTypeOK ==
  /\ turn \in 0 .. Len(McpServers)
  /\ stage \in {"start", "list", "register", "registered", "ready", "failed"}
  /\ Len(listing) <= MaxListed /\ seen \subseteq Cursors
  /\ services \cup warned \cup features \cup lost \subseteq ToSet(McpServers)

\* Every tool a running server listed can be called, under a name that is its own.
EveryToolNamed ==
  stage = "ready" =>
    \A s \in services : \A t \in offered[s] :
      \E n \in DOMAIN mcpTools : mcpTools[n] = [server |-> s, tool |-> t.name]

\* Nothing that was configured is silently missing, nor counted as both.
NothingSilentlyMissing ==
  stage = "ready" =>
    /\ services \cup warned = ToSet(McpServers) /\ services \cap warned = {}
    /\ Required \subseteq services /\ features \subseteq services

\* The servers of a session: whichever of them start, in whatever way their listings end
\* and however alike their tools are named.
McpComplete == EveryToolNamed /\ NothingSilentlyMissing
=============================================================================
