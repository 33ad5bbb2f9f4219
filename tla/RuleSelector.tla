---------------------------- MODULE RuleSelector ----------------------------
(***************************************************************************)
(* The rules by default, data_proc/pcrf_defaultRuleSelector.cpp: the       *)
(* configuration gives each a number of conditions, and a request that the *)
(* database does not answer in time gets those whose conditions fit it.    *)
(*                                                                         *)
(* A default rule is its name and a set of conditions, pairs of parameter  *)
(* and value; what the request leaves open is a set of at most one value.  *)
(***************************************************************************)
EXTENDS Naturals, Sequences, FiniteSetsExt, SequencesExt, Lists

ValuesOf(conditions, parameter) ==
  {c[2] : c \in {d \in conditions : d[1] = parameter}}

(* A rule the configuration gives no condition is never added; one that it *)
(* names again gets the new conditions on top, where it stands.            *)
Added(lines) == {i \in DOMAIN lines : lines[i].conditions # {}}

Conditions(lines, name) ==
  UNION {lines[i].conditions : i \in {j \in Added(lines) : lines[j].name = name}}

Configured(lines) ==
  LET first == Picked(lines, {i \in Added(lines) :
                 \A j \in Added(lines) : j < i => lines[j].name # lines[i].name})
  IN  [i \in DOMAIN first |->
         [name |-> first[i].name,
          conditions |-> Conditions(lines, first[i].name)]]

(* A parameter without conditions fits everything. *)
CheckParameter(conditions, parameter, value) ==
  LET values == ValuesOf(conditions, parameter)
  IN  values = {} \/ value \in values

(* What is null in the request is not checked, and the dialect of the peer *)
(* is only when the IP-CAN-Type is there.                                  *)
Checked(rat, sgsn, ipcan, dialect) ==
  {<<"RAT_TYPE", v>> : v \in rat} \cup {<<"SGSN_ADDRESS", v>> : v \in sgsn}
    \cup {<<"IP_CAN_TYPE", v>> : v \in ipcan}
    \cup {<<"PEER_DIALECT", dialect>> : v \in ipcan}

DefaultRuleList(rules, rat, sgsn, ipcan, dialect) ==
  LET fits(rule) ==
        \A c \in Checked(rat, sgsn, ipcan, dialect) :
          CheckParameter(rule.conditions, c[1], c[2])
      selected == Picked(rules, {i \in DOMAIN rules : fits(rules[i])})
  IN  [i \in DOMAIN selected |-> selected[i].name]
=============================================================================
