--------------------------- MODULE MCTerminalHost ---------------------------
(***************************************************************************)
(* Instances of TerminalHost: the monitor definitions its runs use.        *)
(***************************************************************************)
EXTENDS TerminalHost

Define(condition, notify, lifetime) ==
  [condition |-> condition, notify |-> [kind |-> notify], lifetime |-> [kind |-> lifetime]]

AwaitExit(o) == [kind |-> "exit", when |-> o]
AwaitText(text) == [kind |-> "output", pattern |-> text, wildcard |-> FALSE]
AwaitQuiet(span) == [kind |-> "quiet", span |-> span]
Poll(every) == [kind |-> "poll", every |-> every]

\* Monitors on the exit and on the screen.
ExitMonitor == Define(AwaitExit(Outcomes), "on_match", "until_match")
CodeMonitor == Define(AwaitExit({0}), "on_exit", "until_session_end")
ScreenMonitor == Define([kind |-> "screen"], "on_state_change", "until_match")
EventInitial == {<<ExitMonitor, CodeMonitor>>, << >>}
EventDefinitions == {CodeMonitor}

\* Monitors on a text that overlaps itself.
TextMonitor == Define(AwaitText(<<"a", "a", "b">>), "on_match", "until_session_end")
PairMonitor == Define(AwaitText(<<"a", "a">>), "on_match", "until_match")
OutputInitial == {<<TextMonitor, PairMonitor, ScreenMonitor>>}

\* Monitors on time.
QuietMonitor == Define(AwaitQuiet(2), "on_match", "until_session_end")
ShortMonitor ==
  [condition |-> Poll(2),
   notify |-> [kind |-> "interval", every |-> 2],
   lifetime |-> [kind |-> "duration", span |-> 3]]
ShortQuietMonitor ==
  [condition |-> AwaitQuiet(1),
   notify |-> [kind |-> "on_state_change"],
   lifetime |-> [kind |-> "duration", span |-> 3]]
TimerInitial == {<<QuietMonitor>>, <<ShortMonitor>>, <<ShortQuietMonitor>>}

ExitInitial == {<<ExitMonitor>>}
NoDefinitions == {}

===============================================================================
