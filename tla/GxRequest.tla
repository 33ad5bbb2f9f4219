------------------------------ MODULE GxRequest ------------------------------
(***************************************************************************)
(* What the server reads out of a CCR, pcrf_server.cpp: the AVPs it takes, *)
(* what a repeated or an incomplete one does, and the set of actions that  *)
(* the request calls for.                                                  *)
(*                                                                         *)
(* An AVP is its name and its value; the value of a grouped AVP is the     *)
(* sequence of the AVPs in it, that of a text is one token, that of an     *)
(* enumeration its name in the dictionary or NoName.  A field that may be  *)
(* null is a set of at most one element, a text the sequence of its tokens.*)
(***************************************************************************)
EXTENDS Naturals, Sequences, SequencesExt, FiniteSetsExt, Lists, UserLocation

NoName == "NoName"

Values(avps, name) ==
  LET found == Picked(avps, {i \in DOMAIN avps : avps[i].name = name})
  IN  [i \in DOMAIN found |-> found[i].value]

LastOf(seq) == IF seq = <<>> THEN {} ELSE {Last(seq)}

(* A number is overwritten by the next AVP of its name, an enumerated      *)
(* value only by one that has a name, and a text is inserted at the front  *)
(* of the ones before it.                                                  *)
Latest(avps, name) == LastOf(Values(avps, name))
LatestNamed(avps, name) ==
  LastOf(SelectSeq(Values(avps, name), LAMBDA v : v # NoName))
Text(avps, name) == Reverse(Values(avps, name))
TextOrNull(avps, name) ==
  IF Values(avps, name) = <<>> THEN {} ELSE {Text(avps, name)}

(* All the AVPs inside the grouped ones of a name: several of these write  *)
(* into one structure.                                                     *)
Inside(avps, name) == FlattenSeq(Values(avps, name))

-----------------------------------------------------------------------------
(* pcrf_extract_SubscriptionId: the last of the type that has data *)
SubscriptionId(avps, type) ==
  LET ids == SelectSeq(Values(avps, "Subscription-Id"),
               LAMBDA g : /\ Latest(g, "Subscription-Id-Type") = {type}
                          /\ Text(g, "Subscription-Id-Data") # <<>>)
  IN  IF ids = <<>> THEN {} ELSE {Text(Last(ids), "Subscription-Id-Data")}

SubscriptionData(avps) ==
  [e164 |-> SubscriptionId(avps, "END_USER_E164"),
   imsi |-> SubscriptionId(avps, "END_USER_IMSI"),
   sipUri |-> SubscriptionId(avps, "END_USER_SIP_URI"),
   nai |-> SubscriptionId(avps, "END_USER_NAI"),
   private |-> SubscriptionId(avps, "END_USER_PRIVATE")]

(* pcrf_extract_UEI: IMEISV only *)
IMEI(avps) ==
  LET devices == SelectSeq(Values(avps, "User-Equipment-Info"),
                   LAMBDA g : Latest(g, "User-Equipment-Info-Type") = {"IMEISV"})
  IN  IF devices = <<>> THEN {}
      ELSE {Text(Last(devices), "User-Equipment-Info-Value")}

(* pcrf_extract_ChargingRuleReport: a report counts if it names a rule and *)
(* why it failed.                                                          *)
RuleReports(avps) ==
  LET reports == [i \in DOMAIN Values(avps, "Charging-Rule-Report") |->
        LET g == Values(avps, "Charging-Rule-Report")[i]
        IN  [ruleName |-> TextOrNull(g, "Charging-Rule-Name"),
             status |-> Latest(g, "PCC-Rule-Status"),
             failureCode |-> Latest(g, "Rule-Failure-Code")]]
  IN  SelectSeq(reports, LAMBDA r : r.ruleName # {} /\ r.failureCode # {})

(* pcrf_extract_SF: what lacks is zero. *)
Features(avps) ==
  LET number(g, name) == Last(<<0>> \o Values(g, name))
  IN  [i \in DOMAIN Values(avps, "Supported-Features") |->
         LET g == Values(avps, "Supported-Features")[i]
         IN  [vendorId |-> number(g, "Vendor-Id"),
              listId |-> number(g, "Feature-List-ID"),
              list |-> number(g, "Feature-List")]]

(* pcrf_extract_UMI and pcrf_extract_USU: a usage counts if it has a key *)
Usages(avps) ==
  LET usages == [i \in DOMAIN Values(avps, "Usage-Monitoring-Information") |->
        LET g == Values(avps, "Usage-Monitoring-Information")[i]
            used == Inside(g, "Used-Service-Unit")
        IN  [key |-> Latest(g, "Monitoring-Key"),
             input |-> Latest(used, "CC-Input-Octets"),
             output |-> Latest(used, "CC-Output-Octets"),
             total |-> Latest(used, "CC-Total-Octets")]]
  IN  Picked(usages, {i \in DOMAIN usages : usages[i].key # {}})

(* pcrf_extract_DefaultEPSBearerQoS calls itself for the priorities, which *)
(* count if their AVP is there.                                            *)
DefaultEPSBearerQoS(avps) ==
  LET qos == Inside(avps, "Default-EPS-Bearer-QoS")
      all == FlattenSeq([i \in DOMAIN qos |->
               IF qos[i].name = "Allocation-Retention-Priority"
               THEN qos[i].value ELSE <<qos[i]>>])
  IN  IF Values(avps, "Default-EPS-Bearer-QoS") = <<>> THEN {}
      ELSE {[qci |-> Latest(all, "QoS-Class-Identifier"),
             arp |-> IF Values(qos, "Allocation-Retention-Priority") = <<>>
                     THEN {}
                     ELSE {[priority |-> Latest(all, "Priority-Level"),
                            capability |-> Latest(all, "Pre-emption-Capability"),
                            vulnerability |->
                              Latest(all, "Pre-emption-Vulnerability")]}]}

(* pcrf_extract_QoSInformation *)
QoSInformation(avps) ==
  LET qos == Inside(avps, "QoS-Information")
  IN  IF Values(avps, "QoS-Information") = <<>> THEN {}
      ELSE {[dl |-> Latest(qos, "APN-Aggregate-Max-Bitrate-DL"),
             ul |-> Latest(qos, "APN-Aggregate-Max-Bitrate-UL")]}

-----------------------------------------------------------------------------
(* The two AVPs of the access network write one field, each if it knows    *)
(* the value.                                                              *)
RATNames == <<"UTRAN", "GERAN", "WLAN", "GAN", "HSPA Evolution">>

RATType(avps) ==
  LET name(a) == IF a.name = "RAT-Type" THEN a.value
                 ELSE IF a.name = "3GPP-RAT-Type" /\ a.value \in DOMAIN RATNames
                 THEN RATNames[a.value] ELSE NoName
  IN  LastOf(SelectSeq([i \in DOMAIN avps |-> name(avps[i])],
                       LAMBDA n : n # NoName))

(* AN-GW-Address stands in for 3GPP-SGSN-Address, the first one for good;  *)
(* an address of the sixth version goes to a field that is only stored.    *)
SGSNAddress(avps) ==
  LET instead == SelectSeq(Values(avps, "AN-GW-Address"),
                           LAMBDA a : a.version = 4)
  IN  IF Values(avps, "3GPP-SGSN-Address") # <<>>
      THEN Latest(avps, "3GPP-SGSN-Address")
      ELSE IF instead = <<>> THEN {} ELSE {Head(instead).address}

Location(avps) ==
  LET step(loc, a) ==
        IF a.name = "3GPP-User-Location-Info" THEN ParseUserLocation(loc, a.value)
        ELSE IF a.name = "RAI" THEN ParseRAI(loc, a.value)
        ELSE loc
  IN  FoldLeft(step, NoLocation, avps)

(* m_bLoaded: there is something to store about the environment *)
EnvironmentLoaded(avps) ==
  \E i \in DOMAIN avps :
    LET a == avps[i]
    IN  \/ a.name \in {"3GPP-SGSN-MCC-MNC", "IP-CAN-Type", "RAT-Type"}
        \/ a.name = "3GPP-RAT-Type" /\ a.value \in DOMAIN RATNames
        \/ a.name = "3GPP-User-Location-Info" /\ IsLocation(a.value)

(* network is m_iIPCANType, which a value without a name sets, too. *)
Environment(avps) ==
  [loaded |-> EnvironmentLoaded(avps),
   operator |-> TextOrNull(avps, "3GPP-SGSN-MCC-MNC"),
   sgsn |-> SGSNAddress(avps),
   rat |-> RATType(avps),
   ipcan |-> LatestNamed(avps, "IP-CAN-Type"),
   network |-> Latest(avps, "IP-CAN-Type"),
   location |-> Location(avps)]

(* pcrf_extract_req_data, the fields of SSessionInfo ... *)
SessionInfo(avps) ==
  [sessionId |-> Text(avps, "Session-Id"),
   originHost |-> TextOrNull(avps, "Origin-Host"),
   originRealm |-> TextOrNull(avps, "Origin-Realm"),
   originStateId |-> Latest(avps, "Origin-State-Id"),
   framedIP |-> Latest(avps, "Framed-IP-Address"),
   calledStation |-> TextOrNull(avps, "Called-Station-Id"),
   termCause |-> LatestNamed(avps, "Termination-Cause"),
   subscription |-> SubscriptionData(avps),
   imei |-> IMEI(avps),
   features |-> Features(avps)]

(* ... and those of SRequestInfo.  Only the first Bearer-Identifier counts. *)
RequestInfo(avps) ==
  [type |-> Latest(avps, "CC-Request-Type"),
   number |-> Latest(avps, "CC-Request-Number"),
   bearer |-> IF Values(avps, "Bearer-Identifier") = <<>> THEN {}
              ELSE {Head(Values(avps, "Bearer-Identifier"))},
   bearerUsage |-> LatestNamed(avps, "Bearer-Usage"),
   bearerOperation |-> LatestNamed(avps, "Bearer-Operation"),
   online |-> LatestNamed(avps, "Online"),
   offline |-> LatestNamed(avps, "Offline"),
   qosUpgrade |-> LatestNamed(avps, "QoS-Upgrade"),
   qosNegotiation |-> LatestNamed(avps, "QoS-Negotiation"),
   mbrUl |-> Latest(avps, "Max-Requested-Bandwidth-UL"),
   mbrDl |-> Latest(avps, "Max-Requested-Bandwidth-DL"),
   gbrUl |-> Latest(avps, "Guaranteed-Bitrate-UL"),
   gbrDl |-> Latest(avps, "Guaranteed-Bitrate-DL"),
   qos |-> QoSInformation(avps),
   defaultBearer |-> DefaultEPSBearerQoS(avps),
   environment |-> Environment(avps),
   tethering |-> LastOf(
     LET flags == SelectSeq(avps, LAMBDA a :
           a.name \in {"X-HW-Tethering-Status", "Procera-Tethering-Flag"})
     IN  [i \in DOMAIN flags |-> flags[i].value]),
   usages |-> Usages(avps),
   triggers |-> Values(avps, "Event-Trigger"),
   reports |-> RuleReports(avps)]

-----------------------------------------------------------------------------
CoreDialect == {"UGW", "Ericsson"}
Dialect == CoreDialect \cup {"Procera", "SCE"}

(* Cisco sends the IMSI as an E164 number, with a suffix after '_'.  A     *)
(* value with a suffix is taken to be longer than the 15 digits of an IMSI.*)
CorrectSubscription(dialect, data) ==
  LET imsi == IF data.imsi = {} THEN data.e164 ELSE data.imsi
      cut(id) == IF Contains(id, "_")
                 THEN SubSeq(id, 1, SelectInSeq(id, LAMBDA t : t = "_") - 1)
                 ELSE id
  IN  IF dialect # "SCE" THEN data
      ELSE [data EXCEPT !.imsi = {cut(id) : id \in imsi},
                        !.e164 = IF data.imsi = {} THEN {} ELSE @]

(* What the ACTION_ bit of an Event-Trigger is, by dialect *)
TriggerActions(dialect, trigger, proceraUsed) ==
  CASE trigger = 2 -> {"UPDATE_SESSIONCACHE", "OPERATE_RULE"}
    [] trigger \in {0, 13} ->
         {"UPDATE_SESSIONCACHE"}
           \cup IF dialect \in CoreDialect /\ proceraUsed
                THEN {"PROCERA_CHANGE_ULI"} ELSE {}
    [] trigger = 20 -> {"COPY_DEFBEARER"}
    [] trigger \in {26, 33} -> {"UPDATE_QUOTA"}
    [] trigger = 101 /\ dialect = "UGW" -> {"UGW_STORE_THET_INFO"}
    [] trigger = 777 /\ dialect = "Procera" -> {"PROCERA_STORE_THET_INFO"}
    [] OTHER -> {}

(* Ericsson reports usage with a CCR-T and no trigger. *)
UsedSomething(usages) ==
  \E i \in DOMAIN usages :
    (usages[i].input \cup usages[i].output \cup usages[i].total) \ {0} # {}

(* What the event triggers of a request call for, all together *)
Triggered(dialect, triggers, proceraUsed) ==
  UNION {TriggerActions(dialect, triggers[i], proceraUsed) :
           i \in DOMAIN triggers}

(* pcrf_server_determine_action_set *)
ActionSet(dialect, request, proceraUsed) ==
  Triggered(dialect, request.triggers, proceraUsed)
    \cup (IF /\ dialect = "Ericsson" /\ request.type = {"TERMINATION"}
             /\ UsedSomething(request.usages)
          THEN {"UPDATE_QUOTA"} ELSE {})
    \cup (IF request.type = {"INITIAL"} \/ dialect \notin CoreDialect
          THEN {"OPERATE_RULE"} ELSE {})
=============================================================================
