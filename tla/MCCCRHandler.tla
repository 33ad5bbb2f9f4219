---------------------------- MODULE MCCCRHandler ----------------------------
(***************************************************************************)
(* A subscriber with a session of a UGW and, where sessions are linked,    *)
(* one of Procera.  The UGW opens its session in one cell, reports another *)
(* access network and another cell, that cell alone, and the usage of a    *)
(* rule together with the failure of one.  Of the rules, one is defined in *)
(* the message, one has a monitoring key, and the default is a group.      *)
(***************************************************************************)
EXTENDS CCRHandler, TLC

MCDialectOf == [s \in Session |-> IF s = "u" THEN "UGW" ELSE "Procera"]

A(name, value) == AVP(name, value)

(* 3GPP-User-Location-Info of type CGI *)
InCell(ci) == A("3GPP-User-Location-Info", <<0, 82, 240, 16, 0, 7, 1, ci>>)

Of(s, type) == <<A("Session-Id", s), A("CC-Request-Type", type)>>

UsedAndFailed ==
  <<A("Event-Trigger", 33),
    A("Usage-Monitoring-Information",
      <<A("Monitoring-Key", "k"),
        A("Used-Service-Unit", <<A("CC-Total-Octets", 5)>>)>>),
    A("Charging-Rule-Report",
      <<A("Charging-Rule-Name", "r2"), A("PCC-Rule-Status", "INACTIVE"),
        A("Rule-Failure-Code", 10)>>)>>

Attach ==
  Of("u", "INITIAL")
    \o <<InCell(1), A("RAT-Type", "UTRAN"), A("Called-Station-Id", "apn"),
         A("IP-CAN-Type", "3GPP-GPRS"), A("Bearer-Identifier", "b"),
         A("QoS-Information", <<A("APN-Aggregate-Max-Bitrate-DL", 20),
                                A("APN-Aggregate-Max-Bitrate-UL", 8)>>)>>

Move == Of("u", "UPDATE") \o <<A("Event-Trigger", 2), A("Event-Trigger", 13),
                               A("RAT-Type", "GERAN"), InCell(2)>>

MCCoreMessage ==
  <<Attach, Move, Of("u", "UPDATE") \o UsedAndFailed, Of("u", "TERMINATION")>>

MCLinkedMessage ==
  <<Attach, Move, Of("u", "TERMINATION"),
    Of("p", "INITIAL"),
    Of("p", "UPDATE") \o <<A("Event-Trigger", 777),
                            A("Procera-Tethering-Flag", 1)>>,
    Of("p", "TERMINATION")>>

(* A change of location, and nothing else *)
MCLocationMessage ==
  <<Attach, Of("u", "UPDATE") \o <<A("Event-Trigger", 13), InCell(2)>>,
    Of("p", "INITIAL")>>

MCKnown ==
  (<<"r1">> :> [NamedRule(<<"r1">>, FALSE, TRUE) EXCEPT
                  !.dynamic = {1}, !.mbrUl = {10}, !.mbrDl = {10}]) @@
  (<<"r2">> :> [NamedRule(<<"r2">>, FALSE, TRUE) EXCEPT !.keys = <<"k">>]) @@
  (<<"g">> :> [NamedRule(<<"g">>, FALSE, TRUE) EXCEPT !.group = {1}])

MCProfiles == <<<<<<"r1">>>>, <<<<"r2">>>>>>
MCNoRules == <<<<>>>>
Default(name, conditions) == [name |-> name, conditions |-> conditions]

(* A group for the access network of the first request, a name that the    *)
(* rule cache does not know, and a rule for another network                *)
MCDefaultRule ==
  <<Default(<<"g">>, {<<"RAT_TYPE", "GERAN">>}),
    Default(<<"g">>, {<<"RAT_TYPE", "UTRAN">>}),
    Default(<<"unknown">>, {<<"IP_CAN_TYPE", "3GPP-GPRS">>}),
    Default(<<"r1">>, {<<"RAT_TYPE", "EUTRAN">>}), Default(<<"r2">>, {})>>
MCQuota == "k" :> [total |-> {100}, output |-> {}, input |-> {}, reported |-> FALSE]

Symmetry == Permutations(Thread)
=============================================================================
