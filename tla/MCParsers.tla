------------------------------ MODULE MCParsers ------------------------------
(* What comes from outside, side by side: a behaviour is one fetch or the  *)
(* reading of one configuration.                                           *)
EXTENDS MCFetchers, MCConfigLoad

NoFetch ==
  /\ source = Feed /\ status = "failed" /\ answer = Absent
  /\ fetched = "done" /\ pos = 0 /\ count = -1 /\ out = <<>>
NoConfig ==
  /\ file = File(FALSE, FALSE, <<>>, <<>>, <<>>, <<>>, <<>>, <<>>)
  /\ port_override = 0 /\ home = TRUE
  /\ section = "done" /\ cfg = mc_config_defaults

Init == (FetchInit /\ NoConfig) \/ (ConfigInit /\ NoFetch)
Next ==
  \/ FetchNext /\ UNCHANGED configVars
  \/ ConfigNext /\ UNCHANGED fetchVars
Spec == Init /\ [][Next]_<<fetchVars, configVars>>
=============================================================================
