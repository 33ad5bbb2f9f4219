---------------------------- MODULE UserLocation ----------------------------
(***************************************************************************)
(* Where a subscriber is, pcrf_ULI.cpp: the 3GPP-User-Location-Info and    *)
(* RAI AVPs are decoded into names that are written into the database, and *)
(* the cell becomes the name of a rule for Procera.                        *)
(*                                                                         *)
(* A name is the sequence of its parts, those that '-' separates in the    *)
(* text; a part is the sequence of the numbers printed in it one after the *)
(* other.  A null value is the empty set, any other a set of one element.  *)
(***************************************************************************)
EXTENDS Naturals, Sequences

Word(octets, i) == octets[i] * 256 + octets[i + 1]

(* SMCCMNC: two digits to an octet, the low half first *)
MCCMNC(octets) ==
  <<<<octets[1] % 16, octets[1] \div 16, octets[2] % 16>>,
    <<octets[3] % 16, octets[3] \div 16>>>>

(* The last digit of the cell is its sector, in a part of its own. *)
FormatCGI(octets) ==
  LET ci == Word(octets, 6)
  IN  MCCMNC(octets) \o <<<<Word(octets, 4)>>,
                          IF ci < 10 THEN <<>> ELSE <<ci \div 10>>,
                          <<ci % 10>>>>

FormatRAI(operator, octets) ==
  operator \o <<<<Word(octets, 1)>>, <<octets[3]>>>>

FormatTAI(octets) == MCCMNC(octets) \o <<<<Word(octets, 4)>>>>

FormatECGI(octets) ==
  MCCMNC(octets)
    \o <<<<(octets[4] % 16) * 65536 + Word(octets, 5)>>, <<octets[7]>>>>

NoLocation == [cgi |-> {}, rai |-> {}, tai |-> {}, ecgi |-> {}]

(* EUserLocationType and the sizes of the structures it tells apart *)
LocationSize == [type \in {0, 1, 2, 128, 129, 130} |->
                   CASE type = 128 -> 5 [] type = 130 -> 12 [] OTHER -> 7]

(* pcrf_parse_user_location: value is the type and the octets after it.    *)
(* The size is that of the octets, so a value without its last octet is    *)
(* taken, too; that octet comes from the stack.  No such value is decoded  *)
(* here.                                                                   *)
IsLocation(value) ==
  value[1] \in DOMAIN LocationSize /\ Len(value) >= LocationSize[value[1]]

ParseUserLocation(old, value) ==
  LET type == value[1]
      octets == Tail(value)
  IN  IF ~IsLocation(value) THEN old
      ELSE [old EXCEPT
              !.cgi = IF type = 0 THEN {FormatCGI(octets)} ELSE @,
              !.rai = IF type = 2
                      THEN {FormatRAI(MCCMNC(octets), SubSeq(octets, 4, 7))}
                      ELSE @,
              !.tai = IF type \in {128, 130} THEN {FormatTAI(octets)} ELSE @,
              !.ecgi = IF type = 129 THEN {FormatECGI(octets)}
                       ELSE IF type = 130
                       THEN {FormatECGI(SubSeq(octets, 6, 12))}
                       ELSE @]

(* pcrf_parse_RAI: the operator's digits are characters here. *)
ParseRAI(old, value) ==
  LET digit(i) == value[i] - 48
  IN  IF Len(value) < 9 THEN old
      ELSE [old EXCEPT !.rai =
              {FormatRAI(<<<<digit(1), digit(2), digit(3)>>,
                           <<digit(4), digit(5)>>>>,
                         SubSeq(value, 6, 9))}]

(* pcrf_procera_make_uli_rule: the rule is named after the last two parts  *)
(* of the cell's name, the cell and its sector; without a cell the         *)
(* subscriber is roaming.  Where a part lacks, the caller keeps the name   *)
(* it has.                                                                 *)
UliRule(cell, oldName) ==
  IF cell = {} THEN <<"User-Location", "inRoaming">>
  ELSE LET parts == CHOOSE c \in cell : TRUE
           n == Len(parts)
       IN  IF n < 3 \/ parts[n - 1] = <<>> THEN oldName
           ELSE <<"User-Location", parts[n - 1], parts[n]>>
=============================================================================
