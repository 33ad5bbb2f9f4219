------------------------------- MODULE GxAnswer -------------------------------
(***************************************************************************)
(* What the server and the client put into a CCA or a RAR, pcrf_server.cpp *)
(* and procera/pcrf_procera.cpp: how the rules of the subscriber are       *)
(* compared with the active ones of the session, and the AVPs that remove  *)
(* and install rules, grant quotas and set event triggers.                 *)
(*                                                                         *)
(* As in GxRequest a field that may be null is a set, and an AVP its name  *)
(* and its value.  A rule name is the sequence of the parts of its path.   *)
(***************************************************************************)
EXTENDS GxRequest

The(field) == CHOOSE v \in field : TRUE

AVP(name, value) == [name |-> name, value |-> value]

(* An AVP is added if there is a value for it. *)
IfAny(name, field) == IF field = {} THEN <<>> ELSE <<AVP(name, The(field))>>

FirstOf(seq) == IF seq = <<>> THEN {} ELSE {Head(seq)}

IsSet(flag) == flag \notin {{}, {0}}

-----------------------------------------------------------------------------
(* SDBAbonRule.  The rule cache hands out rules that are relevant and not  *)
(* active, the cache of session rules active ones that are not relevant    *)
(* yet and carry no more than their names.                                 *)
NamedRule(name, active, relevant) ==
  [name |-> name, active |-> active, relevant |-> relevant,
   dynamic |-> {}, group |-> {}, precedence |-> {}, flowStatus |-> {},
   ratingGroup |-> {}, service |-> {}, metering |-> {}, reporting |-> {},
   online |-> {}, offline |-> {}, qci |-> {},
   priority |-> {}, capability |-> {}, vulnerability |-> {},
   mbrUl |-> {}, mbrDl |-> {}, gbrUl |-> {}, gbrDl |-> {},
   redirectType |-> {}, redirectServer |-> {}, flows |-> <<>>,
   package |-> {}, monitor |-> {}, upLink |-> {}, downLink |-> {},
   keys |-> <<>>]

ActiveRule(name) == NamedRule(name, TRUE, FALSE)

Names(rules) == {rules[i].name : i \in DOMAIN rules}

(* load_rule_info: names the rule cache does not know are passed over.     *)
(* known is the rule cache, a function from names to rules.                *)
KnownRules(known, names) ==
  LET found == Picked(names, {i \in DOMAIN names : names[i] \in DOMAIN known})
  IN  [i \in DOMAIN found |-> known[found[i]]]

(* The first of the rules with the lowest precedence level; a null level   *)
(* counts as the zero it is initialised to.                                *)
Level(rule) == IF rule.precedence = {} THEN 0 ELSE The(rule.precedence)

Foremost(rules) ==
  LET best == {i \in DOMAIN rules :
                 \A j \in DOMAIN rules : Level(rules[i]) <= Level(rules[j])}
  IN  rules[Min(best)]

(* pcrf_server_load_rule_info: the rules are appended to a list, and SCE   *)
(* is left with one of the whole list.                                     *)
LoadRuleInfo(known, names, dialect, rules) ==
  LET all == rules \o KnownRules(known, names)
  IN  IF names = <<>> THEN rules
      ELSE IF dialect = "SCE" /\ all # <<>> THEN <<Foremost(all)>>
      ELSE all

(* pcrf_server_select_notrelevant_active: a rule that has the name of an   *)
(* active one is active, the active one relevant.                          *)
SelectActive(rules, active) ==
  [i \in DOMAIN rules |->
     IF rules[i].name \in Names(active)
     THEN [rules[i] EXCEPT !.active = TRUE] ELSE rules[i]]

SelectRelevant(rules, active) ==
  [i \in DOMAIN active |->
     IF active[i].name \in Names(rules)
     THEN [active[i] EXCEPT !.relevant = TRUE] ELSE active[i]]

(* pcrf_make_mk_list: the keys of the rules to be installed *)
MonitoringKeys(rules) ==
  UNION {Range(rules[i].keys) :
           i \in {j \in DOMAIN rules : rules[j].relevant /\ ~rules[j].active}}

(* pcrf_client_is_any_changes *)
IsAnyChanges(rules, active) ==
  \/ \E i \in DOMAIN active : ~active[i].relevant /\ active[i].active
  \/ \E i \in DOMAIN rules : ~rules[i].active /\ rules[i].relevant

(* The handler's walk over the rules: bRulesChanged and bMKInstalled *)
RulesChanged(rules) ==
  \E i \in DOMAIN rules : rules[i].active # rules[i].relevant

KeysInstalled(rules) ==
  \E i \in DOMAIN rules : rules[i].relevant /\ rules[i].keys # <<>>

-----------------------------------------------------------------------------
(* pcrf_make_QoSI.  A rate of a rule is granted up to what the gateway     *)
(* asks for and up to its aggregate maximum.  The aggregate is looked at   *)
(* for the guaranteed downlink rate when QoS-Information is null, that is  *)
(* never.                                                                  *)
Capped(rate, bounds) == IF rate = {} THEN {} ELSE {Min(rate \cup bounds)}

AggregateUl(request) == UNION {q.ul : q \in request.qos}
AggregateDl(request) == UNION {q.dl : q \in request.qos}

GrantedMbrUl(request, rule) ==
  Capped(rule.mbrUl, request.mbrUl \cup AggregateUl(request))
GrantedMbrDl(request, rule) ==
  Capped(rule.mbrDl, request.mbrDl \cup AggregateDl(request))
GrantedGbrUl(request, rule) ==
  Capped(rule.gbrUl, request.gbrUl \cup AggregateUl(request))
GrantedGbrDl(request, rule) == Capped(rule.gbrDl, request.gbrDl)

(* The rule's level, or else that of the default bearer, or else 2 *)
PriorityLevel(request, rule) ==
  LET asked == UNION {a.priority : a \in UNION {b.arp : b \in request.defaultBearer}}
  IN  IF rule.priority # {} THEN The(rule.priority)
      ELSE IF asked # {} THEN The(asked)
      ELSE 2

MakeQoSI(request, rule) ==
  AVP("QoS-Information",
      IfAny("QoS-Class-Identifier", rule.qci)
        \o IfAny("Max-Requested-Bandwidth-UL", GrantedMbrUl(request, rule))
        \o IfAny("Max-Requested-Bandwidth-DL", GrantedMbrDl(request, rule))
        \o IfAny("Guaranteed-Bitrate-UL", GrantedGbrUl(request, rule))
        \o IfAny("Guaranteed-Bitrate-DL", GrantedGbrDl(request, rule))
        \o <<AVP("Allocation-Retention-Priority",
                 <<AVP("Priority-Level", PriorityLevel(request, rule))>>
                   \o IfAny("Pre-emption-Capability", rule.capability)
                   \o IfAny("Pre-emption-Vulnerability", rule.vulnerability))>>)

(* pcrf_set_CRN under the name the gateway knows the rule by *)
RuleNameAVP(rule) ==
  AVP(IF IsSet(rule.group) THEN "Charging-Rule-Base-Name"
                           ELSE "Charging-Rule-Name", rule.name)

(* pcrf_make_CRD: a dynamic rule is defined, any other is named.  Of the   *)
(* monitoring keys only the first is sent.                                 *)
FlowInformation(flow) ==
  AVP("Flow-Information", IfAny("Flow-Description", flow.description)
                            \o IfAny("Flow-Direction", flow.direction))

RedirectServer(rule) ==
  IF rule.redirectType = {} \/ rule.redirectServer = {} THEN <<>>
  ELSE <<AVP("Redirect-Server",
             IfAny("Redirect-Address-Type", rule.redirectType)
               \o IfAny("Redirect-Server-Address", rule.redirectServer))>>

MakeCRD(request, rule) ==
  IF ~IsSet(rule.dynamic) THEN RuleNameAVP(rule)
  ELSE AVP("Charging-Rule-Definition",
           <<AVP("Charging-Rule-Name", rule.name)>>
             \o IfAny("Service-Identifier", rule.service)
             \o IfAny("Flow-Status", rule.flowStatus)
             \o IfAny("Rating-Group", rule.ratingGroup)
             \o [i \in DOMAIN rule.flows |-> FlowInformation(rule.flows[i])]
             \o <<MakeQoSI(request, rule)>>
             \o IfAny("Reporting-Level", rule.reporting)
             \o IfAny("Online", rule.online)
             \o IfAny("Offline", rule.offline)
             \o IfAny("Metering-Method", rule.metering)
             \o IfAny("Precedence", rule.precedence)
             \o IfAny("Monitoring-Key", FirstOf(rule.keys))
             \o RedirectServer(rule))

-----------------------------------------------------------------------------
GatewayDialect == CoreDialect \cup {"Procera"}

(* pcrf_make_CRR: the active rules that are not relevant are closed in the *)
(* cache and in the database, and a gateway other than SCE is told.        *)
NotRelevant(active) ==
  Picked(active, {i \in DOMAIN active : ~active[i].relevant})

MakeCRR(dialect, active) ==
  LET gone == NotRelevant(active)
  IN  IF dialect \notin GatewayDialect \/ gone = <<>> THEN <<>>
      ELSE <<AVP("Charging-Rule-Remove",
                 [i \in DOMAIN gone |-> RuleNameAVP(gone[i])])>>

(* pcrf_make_CRI: the rules that are not active are installed.  Whether    *)
(* they are relevant is not looked at.                                     *)
NotActive(rules) == Picked(rules, {i \in DOMAIN rules : ~rules[i].active})

(* A null m_iIPCANType is the zero it is initialised to, 3GPP-GPRS. *)
BearerIdentifier(network, request) ==
  IF network \in {{}, {"3GPP-GPRS"}}
  THEN IfAny("Bearer-Identifier", request.bearer) ELSE <<>>

ServiceControl(rule) ==
  IfAny("Cisco-SCA BB-Package-Install", rule.package)
    \o IfAny("Cisco-SCA BB-Real-time-monitor-Install", rule.monitor)
    \o IfAny("Cisco-SCA BB-Vlink-Upstream-Install", rule.upLink)
    \o IfAny("Cisco-SCA BB-Vlink-Downstream-Install", rule.downLink)

MakeCRI(dialect, network, request, rules) ==
  LET new == NotActive(rules)
  IN  IF dialect = "SCE"
      THEN FlattenSeq([i \in DOMAIN rules |-> ServiceControl(rules[i])])
      ELSE IF dialect \notin GatewayDialect \/ new = <<>> THEN <<>>
      ELSE <<AVP("Charging-Rule-Install",
                 BearerIdentifier(network, request)
                   \o [i \in DOMAIN new |-> MakeCRD(request, new[i])])>>

-----------------------------------------------------------------------------
(* pcrf_make_UMI.  A quota is [total, output, input, reported]; the total  *)
(* takes precedence over the two directions.                               *)
GrantedUnit(quota) ==
  IF quota.total # {} THEN IfAny("CC-Total-Octets", quota.total)
  ELSE IfAny("CC-Input-Octets", quota.input)
         \o IfAny("CC-Output-Octets", quota.output)

MakeUMI(quotas, needReport) ==
  LET granted == SetToSeq({k \in DOMAIN quotas :
                   quotas[k].total \cup quotas[k].output \cup quotas[k].input # {}})
      info(k) == AVP("Usage-Monitoring-Information",
        <<AVP("Monitoring-Key", k)>>
          \o (IF quotas[k].reported THEN <<>>
              ELSE <<AVP("Usage-Monitoring-Level", "PCC_RULE_LEVEL")>>)
          \o (IF needReport
              THEN <<AVP("Usage-Monitoring-Report",
                         "USAGE_MONITORING_REPORT_REQUIRED")>>
              ELSE <<>>)
          \o <<AVP("Granted-Service-Unit", GrantedUnit(quotas[k]))>>)
  IN  [i \in DOMAIN granted |-> info(granted[i])]

(* pcrf_make_SF gives back what the gateway supports. *)
MakeSF(features) ==
  [i \in DOMAIN features |->
     AVP("Supported-Features",
         <<AVP("Vendor-Id", features[i].vendorId),
           AVP("Feature-List-ID", features[i].listId),
           AVP("Feature-List", features[i].list)>>)]

(* pcrf_make_DefaultEPSBearerQoS: the requested values are accepted. *)
Priorities(arp) ==
  IF arp = {} THEN <<>>
  ELSE <<AVP("Allocation-Retention-Priority",
             IfAny("Priority-Level", The(arp).priority)
               \o IfAny("Pre-emption-Capability", The(arp).capability)
               \o IfAny("Pre-emption-Vulnerability", The(arp).vulnerability))>>

MakeDefaultEPSBearerQoS(request) ==
  IF request.defaultBearer = {} THEN <<>>
  ELSE LET b == The(request.defaultBearer)
       IN  <<AVP("Default-EPS-Bearer-QoS",
                 IfAny("QoS-Class-Identifier", b.qci) \o Priorities(b.arp))>>

(* pcrf_make_QoSInformation *)
MakeQoSInformation(request) ==
  IF request.qos = {} THEN <<>>
  ELSE <<AVP("QoS-Information",
             IfAny("APN-Aggregate-Max-Bitrate-DL", The(request.qos).dl)
               \o IfAny("APN-Aggregate-Max-Bitrate-UL", The(request.qos).ul))>>

(* set_event_trigger for each of a sequence *)
EventTriggers(triggers) ==
  [i \in DOMAIN triggers |-> AVP("Event-Trigger", triggers[i])]

UsageTrigger(dialect) == IF dialect = "SCE" THEN <<26>> ELSE <<33>>

(* The triggers of a CCA, in the order they are set ... *)
AnswerTriggers(dialect, keysInstalled) ==
  (IF dialect \in CoreDialect THEN <<2>> ELSE <<>>)
    \o (IF dialect = "UGW" THEN <<101>> ELSE <<>>)
    \o (IF dialect \in CoreDialect THEN <<13, 0>> ELSE <<>>)
    \o (IF keysInstalled THEN UsageTrigger(dialect) ELSE <<>>)

(* ... and those of a RAR, where Ericsson gets TETHERING_REPORT, too. *)
RefreshTriggers(dialect, keysInstalled) ==
  (IF dialect \in CoreDialect THEN <<2, 101, 13, 0>> ELSE <<>>)
    \o (IF keysInstalled THEN UsageTrigger(dialect) ELSE <<>>)

-----------------------------------------------------------------------------
(* pcrf_procera_make_subscription_id *)
MakeSubscriptionId(data) ==
  LET id(type, field) ==
        IF field = {} THEN <<>>
        ELSE <<AVP("Subscription-Id", <<AVP("Subscription-Id-Type", type),
                                        AVP("Subscription-Id-Data", The(field))>>)>>
  IN  id("END_USER_IMSI", data.imsi) \o id("END_USER_E164", data.e164)

ProceraRule(name) == [NamedRule(name, FALSE, TRUE) EXCEPT
                        !.dynamic = {0}, !.group = {0}]

(* The cell of the fourth generation, or else of the others *)
Cell(location) == IF location.ecgi # {} THEN location.ecgi ELSE location.cgi

(* pcrf_procera_additional_rules: one rule each for the device, the access *)
(* point and the location; all three are the same object, so a location    *)
(* that makes no name repeats the one before it.                           *)
AdditionalRules(imei, calledStation, location) ==
  LET device == IF imei = {} THEN <<>> ELSE <<<<"IMEISV", The(imei)>>>>
      point == IF calledStation = {} THEN <<>>
               ELSE <<<<"APN", The(calledStation)>>>>
      before == <<<<>>>> \o device \o point
      names == device \o point
                 \o <<UliRule(Cell(location), Last(before))>>
  IN  [i \in DOMAIN names |-> ProceraRule(names[i])]

(* pcrf_procera_oper_thetering_report: the entry of the session in         *)
(* g_pmapTethering is null or 1.  The first flag makes one, whatever it    *)
(* says, since the case of a zero falls through; a zero takes it away.     *)
TetheringEntry(entry, flag) ==
  IF flag = {} THEN entry
  ELSE IF entry # {} /\ flag = {0} THEN {}
  ELSE {1}

(* The rule it adds to the list of rules.  The AVPs are made by then, so   *)
(* the rule only counts as a change.                                       *)
TetheringRules(entry, flag) ==
  LET rule(active) == [ProceraRule(<<"PSM", "Redirect_blocked_device">>)
                         EXCEPT !.active = active]
  IN  IF entry = {}
      THEN IF flag = {} THEN <<>> ELSE <<rule(flag = {0})>>
      ELSE IF flag = {0} THEN <<>> ELSE <<rule(FALSE)>>
=============================================================================
