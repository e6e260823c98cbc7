-------------------------- MODULE MCRuntimeSession --------------------------
(* Instances of RuntimeSession for TLC.                                    *)
EXTENDS RuntimeSession

Call(by, valid, effect, target, scoped) ==
  [by |-> by, valid |-> valid, effect |-> effect, target |-> target, scoped |-> scoped]

Read(target) == Call("fx", TRUE, "read", target, FALSE)
Write(target) == Call("fx", TRUE, "write", target, FALSE)
ScopedWrite == Call("fx", TRUE, "write", "docs", TRUE)
Malformed == Call("fx", FALSE, "write", "src", FALSE)
WebSearch == Call("provider", TRUE, "read", "web", FALSE)

\* An answer, reads in parallel, and a change.
PlainBatches == {<< >>, <<Read("src"), Read("etc")>>, <<Write("src")>>}

\* Batches of every kind of call.
MixedBatches ==
  {<< >>, <<WebSearch, Write("etc"), Malformed>>, <<ScopedWrite, Read("src"), Read("docs")>>}

\* Rules of every action, the last that matches counts.
AskEtc == <<[targets |-> {"etc"}, action |-> "ask"]>>
LayeredRules ==
  <<[targets |-> {"etc", "src"}, action |-> "allow"], [targets |-> {"docs"}, action |-> "ask"],
    [targets |-> {"etc"}, action |-> "deny"]>>

Request(kind, arg) == [kind |-> kind, arg |-> arg]
AllRequests ==
  {Request(kind, "none") : kind \in {"cancel", "close", "load"}}
    \union {Request("config_mode", "auto"), Request("set_mode", "auto"), Request("config_model", "b")}
CancelOnly == {Request("cancel", "none")}
=============================================================================
