---------------------------- MODULE MCRuleEngine ----------------------------
(***************************************************************************)
(* Model-checking instances of RuleEngine: addresses of one and two bytes  *)
(* of two bits; rate limits that compete for the slots, one of them with   *)
(* two versions; rules of all four actions, a limit among them that can be *)
(* switched off; and two that the validation has to refuse.                *)
(***************************************************************************)
EXTENDS RuleEngine, TLC

Bytes == (AF_INET :> 1) @@ (AF_INET6 :> 2)

Rule(id, priority, action, cond) ==
  [ruleId |-> id, priority |-> priority, action |-> action, enabled |-> TRUE, cond |-> cond,
   rateTokens |-> 1, rateIntervalMs |-> 1, burst |-> 1]

Limit == [Rule(1, 1, "RateLimit", [processId |-> 0]) EXCEPT !.burst = 2]
Slower == [Rule(1, 0, "RateLimit", [direction |-> DIR_OUT]) EXCEPT !.rateIntervalMs = 2]
Other == Rule(2, 1, "RateLimit", [family |-> AF_INET6])
Third == Rule(3, 2, "RateLimit", [localPort |-> [min |-> 0, max |-> 1]])
Block == Rule(3, 1, "Block",
              [remoteAddr |-> [addr |-> <<<<1, 0>>, <<0, 0>>>>, prefix |-> 1],
               remotePort |-> [min |-> 1, max |-> 1], time |-> [min |-> 1, max |-> 1]])
Endless == [Limit EXCEPT !.rateIntervalMs = 0]
Reserved == Rule(2, 2, "Block", [sid |-> 0])

Watch == Rule(2, 2, "Audit", [protocol |-> 0])
Pass == Rule(4, 1, "Allow", [family |-> AF_INET])
Muted == [Limit EXCEPT !.priority = 0, !.enabled = FALSE]

\* For the buckets: more limits than slots.
Limits == {Limit, Slower, Other, Third, Endless}

\* For the verdicts, and for what the writes leave in the slots.
AllActions == {Limit, Muted, Block, Watch, Pass, Reserved}

Packet(layer, self, values) == [layer |-> layer, self |-> self, values |-> values]

MCPackets ==
  {Packet("ConnectV4", FALSE,
          [remoteAddr |-> <<<<1, 1>>, <<0, 0>>>>, remotePort |-> 1, appId |-> 7]),
   Packet("AcceptV6", FALSE, [remoteAddr |-> <<<<0, 1>>, <<1, 0>>>>, remotePort |-> 1]),
   Packet("FlowV4", FALSE, <<>>), Packet("ConnectV6", TRUE, <<>>)}

Symmetry == Permutations(Evaluators)
=============================================================================
