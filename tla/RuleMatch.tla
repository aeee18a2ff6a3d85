----------------------------- MODULE RuleMatch -----------------------------
(***************************************************************************)
(* The pure half of the rule engine: the tuple built from a packet         *)
(* (packet/classify.c), the matching of a rule (rules/rule_match.c,        *)
(* SkPkAddrMatch), the validation of a rule and the order of the rules of  *)
(* a snapshot (rules/rule_store.c).                                        *)
(*                                                                         *)
(* The mask of a rule is the domain of its function cond, which gives the  *)
(* value of each condition it has.  A tuple gives a value to every field,  *)
(* 0 where the metadata are missing.                                       *)
(***************************************************************************)
EXTENDS Integers, FiniteSets, SequencesExt

CONSTANTS
  ByteBits,      \* bits of a byte of an address (8 in the code)
  AddressBytes,  \* of each family, the bytes of an address (4 and 16)
  MaxPort,       \* 65535
  MaxProtocol    \* 255

AF_INET == 2
AF_INET6 == 23
Families == {AF_INET, AF_INET6}

ASSUME AddressAssumption ==
  /\ ByteBits \in Nat \ {0}
  /\ AddressBytes \in [Families -> Nat \ {0}]
  /\ AddressBytes[AF_INET] <= AddressBytes[AF_INET6]

\* A byte is its bits, from the highest.  An array has room for the longer address.
Byte == [1 .. ByteBits -> {0, 1}]
Addresses == [1 .. AddressBytes[AF_INET6] -> Byte]

DIR_OUT == 1
DIR_IN == 2
Actions == {"Allow", "Block", "Audit", "RateLimit"}

\* What becomes of a condition depends on the kind of its field.
ExactFields == {"family", "layerId"}
WildcardFields == {"direction", "protocol", "processId", "appId"}   \* 0 is any
PortFields == {"localPort", "remotePort"}
AddressFields == {"localAddr", "remoteAddr"}
ReservedFields == {"ifIndex", "sid"}
KnownFields ==
  ExactFields \cup WildcardFields \cup PortFields \cup AddressFields \cup ReservedFields
    \cup {"time"}

-----------------------------------------------------------------------------
(***************************************************************************)
(* Layers and tuples.  A packet has a layer and values for some fields.    *)
(***************************************************************************)
AleLayers == {"ConnectV4", "ConnectV6", "AcceptV4", "AcceptV6"}
FlowLayers == {"FlowV4", "FlowV6"}
Layers == AleLayers \cup FlowLayers

LayerFamily(layer) == IF layer \in {"ConnectV4", "AcceptV4", "FlowV4"} THEN AF_INET ELSE AF_INET6
LayerDirection(layer) ==
  CASE layer \in {"ConnectV4", "ConnectV6"} -> DIR_OUT
    [] layer \in {"AcceptV4", "AcceptV6"} -> DIR_IN
    [] OTHER -> 0
HardBlockAllowed(layer) == layer \in AleLayers

ZeroAddress == [i \in 1 .. AddressBytes[AF_INET6] |-> [b \in 1 .. ByteBits |-> 0]]

\* SkClassifyBuildTuple on a real kernel, where the layer gives the direction.
BuildTuple(packet, now) ==
  LET Given(f, missing) == IF f \in DOMAIN packet.values THEN packet.values[f] ELSE missing
  IN [f \in (KnownFields \ ReservedFields) |->
        CASE f = "layerId" -> packet.layer
          [] f = "family" -> LayerFamily(packet.layer)
          [] f = "direction" -> LayerDirection(packet.layer)
          [] f = "time" -> now
          [] f \in AddressFields -> Given(f, ZeroAddress)
          [] OTHER -> Given(f, 0)]

-----------------------------------------------------------------------------
(***************************************************************************)
(* SkPkAddrMatch: whole bytes, then what the mask leaves of the next one.  *)
(***************************************************************************)
Width(family) == AddressBytes[family] * ByteBits

SkPkAddrMatch(addr, ruleAddr, prefix, family) ==
  LET full == prefix \div ByteBits
      remBits == prefix % ByteBits
      Masked(byte) == [b \in 1 .. remBits |-> byte[b]]
  IN /\ family \in Families /\ prefix <= Width(family)
     /\ \A i \in 1 .. full : addr[i] = ruleAddr[i]
     /\ remBits # 0 => Masked(addr[full + 1]) = Masked(ruleAddr[full + 1])

Within(value, range) == range.min <= value /\ value <= range.max

\* The metadata carry neither an interface nor a user.
SkRuleMatch(rule, tuple) ==
  /\ rule.enabled
  /\ \A f \in DOMAIN rule.cond :
       LET c == rule.cond[f]
       IN CASE f \in ExactFields -> c = tuple[f]
            [] f \in WildcardFields -> c \in {0, tuple[f]}
            [] f = "ifIndex" -> c = 0
            [] f \in PortFields -> Within(tuple[f], c)
            [] f \in AddressFields -> SkPkAddrMatch(tuple[f], c.addr, c.prefix, tuple.family)
            [] f = "sid" -> FALSE
            [] f = "time" -> c = [min |-> 0, max |-> 0] \/ Within(tuple[f], c)

-----------------------------------------------------------------------------
(***************************************************************************)
(* SkRuleValidate.                                                         *)
(***************************************************************************)
\* The types of the fields of SK_RULE.
TypedCondition(cond, f) ==
  /\ f \in PortFields \cup {"time"} => cond[f] \in [min : Nat, max : Nat]
  /\ f \in AddressFields => cond[f] \in [addr : Addresses, prefix : Nat]

PrefixLimit(cond) ==
  IF "family" \in DOMAIN cond /\ cond.family = AF_INET THEN Width(AF_INET) ELSE Width(AF_INET6)

ValidCondition(cond, f) ==
  CASE f = "family" -> cond[f] \in Families
    [] f = "layerId" -> cond[f] \in Layers
    [] f = "direction" -> cond[f] <= DIR_IN
    [] f = "protocol" -> cond[f] <= MaxProtocol
    [] f \in PortFields -> cond[f].min <= cond[f].max /\ cond[f].max <= MaxPort
    [] f = "time" -> cond[f].min <= cond[f].max
    [] f \in AddressFields -> cond[f].prefix <= PrefixLimit(cond)
    [] OTHER -> TRUE

\* enabled is a BOOLEAN here; the length of an identifier of a user, a reserved condition, is
\* left out.
SkRuleValidate(rule) ==
  /\ rule.ruleId # 0
  /\ DOMAIN rule.cond \subseteq KnownFields \ ReservedFields
  /\ rule.action \in Actions
  /\ rule.action = "RateLimit" =>
       rule.rateTokens # 0 /\ rule.rateIntervalMs # 0 /\ rule.burst # 0
  /\ \A f \in DOMAIN rule.cond : ValidCondition(rule.cond, f)

-----------------------------------------------------------------------------
(***************************************************************************)
(* The order of the verdicts.                                              *)
(***************************************************************************)
SkActionRank(action) ==
  CASE action = "Block" -> 3 [] action = "RateLimit" -> 2 [] action = "Audit" -> 1 [] OTHER -> 0

SkRulePrecedes(a, b) ==
  \/ a.priority > b.priority
  \/ /\ a.priority = b.priority
     /\ \/ SkActionRank(a.action) > SkActionRank(b.action)
        \/ SkActionRank(a.action) = SkActionRank(b.action) /\ a.ruleId < b.ruleId

\* One round of the insertion sort: t moves left past the rules that it precedes.
Insert(rules, t) ==
  LET stops == {0} \cup {k \in DOMAIN rules : ~SkRulePrecedes(t, rules[k])}
      k == CHOOSE m \in stops : \A n \in stops : n <= m
  IN [i \in 1 .. Len(rules) + 1 |->
        IF i <= k THEN rules[i] ELSE IF i = k + 1 THEN t ELSE rules[i - 1]]

SkSortRules(rules) ==
  LET sorted[n \in 0 .. Len(rules)] ==
        IF n = 0 THEN <<>> ELSE Insert(sorted[n - 1], rules[n])
  IN sorted[Len(rules)]

Ids(rules) == {rules[i].ruleId : i \in DOMAIN rules}
UniqueIds(rules) == \A i, j \in DOMAIN rules : rules[i].ruleId = rules[j].ruleId => i = j

Sorted(rules) ==
  \A i, j \in DOMAIN rules : i < j => SkRulePrecedes(rules[i], rules[j])

\* The scan of SkRuleEvaluate; 0 when no rule matches.
FirstMatch(rules, tuple) ==
  LET matching == {i \in DOMAIN rules : SkRuleMatch(rules[i], tuple)}
  IN IF matching = {} THEN 0 ELSE CHOOSE i \in matching : \A j \in matching : i <= j

-----------------------------------------------------------------------------
(***************************************************************************)
(* The documented meaning, for the properties: what a rule covers, with    *)
(* addresses bit by bit, and the rule that should decide.                  *)
(***************************************************************************)
Bit(addr, n) == addr[(n \div ByteBits) + 1][(n % ByteBits) + 1]

SamePrefix(addr, other, prefix) == \A n \in 0 .. prefix - 1 : Bit(addr, n) = Bit(other, n)

Covers(rule, tuple) ==
  /\ rule.enabled
  /\ \A f \in DOMAIN rule.cond \cap ExactFields : rule.cond[f] = tuple[f]
  /\ \A f \in DOMAIN rule.cond \cap WildcardFields : rule.cond[f] # 0 => rule.cond[f] = tuple[f]
  /\ \A f \in DOMAIN rule.cond \cap PortFields : tuple[f] \in rule.cond[f].min .. rule.cond[f].max
  /\ \A f \in DOMAIN rule.cond \cap AddressFields :
       /\ rule.cond[f].prefix <= Width(tuple.family)
       /\ SamePrefix(rule.cond[f].addr, tuple[f], rule.cond[f].prefix)
  /\ "time" \in DOMAIN rule.cond /\ rule.cond.time.max # 0 =>
       tuple.time \in rule.cond.time.min .. rule.cond.time.max

\* "Higher priority wins; tie: BLOCK > RATE_LIMIT > AUDIT > ALLOW; tie: lower ruleId wins."
Strength == <<"Allow", "Audit", "RateLimit", "Block">>
Beats(a, b) ==
  LET strength(r) == CHOOSE i \in DOMAIN Strength : Strength[i] = r.action
  IN \/ a.priority > b.priority
     \/ a.priority = b.priority /\ strength(a) > strength(b)
     \/ a.priority = b.priority /\ strength(a) = strength(b) /\ a.ruleId < b.ruleId

BestOf(rules, tuple, r) ==
  /\ Covers(r, tuple)
  /\ \A o \in ToSet(rules) : Covers(o, tuple) => o = r \/ Beats(r, o)
=============================================================================
