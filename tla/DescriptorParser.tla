-------------------------- MODULE DescriptorParser --------------------------
(***************************************************************************)
(* The side-effect-free part of the device filter: the whitelist test, the *)
(* parser of configuration descriptors and the UdeCx compatibility patch.  *)
(* A descriptor is a sequence of bytes, and offsets are those of the code, *)
(* so that lengths that lie shift the reading of everything after them.    *)
(***************************************************************************)
EXTENDS Integers, Sequences, FiniteSets, SequencesExt

ConfigurationSize == 9
InterfaceSize == 9
EndpointSize == 7

ConfigurationType == 2
InterfaceType == 4
EndpointType == 5

\* The byte at offset o.
Byte(b, o) == b[o + 1]

\* A two-byte little-endian field at offset o.
Word(b, o) == Byte(b, o) + 256 * Byte(b, o + 1)

(***************************************************************************)
(* The policy: a mode and a whitelist of class tuples. Only the fields an  *)
(* entry flags are compared.                                               *)
(***************************************************************************)
Matches(e, tuple) ==
    /\ "class" \in e.match_flags => e.bClass = tuple[1]
    /\ "subclass" \in e.match_flags => e.bSubClass = tuple[2]
    /\ "protocol" \in e.match_flags => e.bProtocol = tuple[3]

is_allowed(p, tuple) ==
    \/ p.mode = "disabled"
    \/ \E i \in DOMAIN p.entries : Matches(p.entries[i], tuple)

(***************************************************************************)
(* The loop of evaluate_configuration, as the set of the offsets it        *)
(* visits. It goes forward and ends at the end of the buffer, or at a      *)
(* descriptor whose length cannot be used.                                 *)
(***************************************************************************)
HasHeader(b, o) == Len(b) - o >= 2

HasUsableLength(b, o) == Byte(b, o) >= 2 /\ Byte(b, o) <= Len(b) - o

Descriptors(b) ==
    LET from[o \in 0 .. Len(b)] ==
          IF o = Len(b) THEN {}
          ELSE IF ~HasHeader(b, o) \/ ~HasUsableLength(b, o) THEN {o}
          ELSE {o} \cup from[o + Byte(b, o)]
    IN  from[0]

IsInterface(b, o) == Byte(b, o + 1) = InterfaceType

InterfaceClass(b, o) == <<Byte(b, o + 5), Byte(b, o + 6), Byte(b, o + 7)>>

\* What the body of the loop says of the descriptor at offset o.
DescriptorError(b, p, o) ==
    CASE ~HasHeader(b, o) -> "descriptor_header_truncated"
      [] HasHeader(b, o) /\ ~HasUsableLength(b, o) -> "invalid_descriptor_length"
      [] HasHeader(b, o) /\ HasUsableLength(b, o) /\ IsInterface(b, o) ->
            IF Byte(b, o) < InterfaceSize THEN "invalid_interface_descriptor"
            ELSE IF is_allowed(p, InterfaceClass(b, o)) THEN "none"
            ELSE "interface_not_allowed"
      [] OTHER ->
            IF Byte(b, o + 1) = EndpointType /\ Byte(b, o) < EndpointSize
            THEN "invalid_endpoint_descriptor" ELSE "none"

(***************************************************************************)
(* The whole of evaluate_configuration: the first error, in the order of   *)
(* the code.                                                               *)
(***************************************************************************)
evaluate_configuration(b, p) ==
    IF Len(b) < ConfigurationSize THEN "configuration_header_too_short"
    ELSE IF Byte(b, 0) # ConfigurationSize \/ Byte(b, 1) # ConfigurationType
         THEN "invalid_configuration_header"
    ELSE IF Word(b, 2) # Len(b) THEN "total_length_mismatch"
    ELSE LET offsets == Descriptors(b)
             bad == {o \in offsets : DescriptorError(b, p, o) # "none"}
             interfaces == {o \in offsets : IsInterface(b, o)}
         IN  IF bad # {} THEN DescriptorError(b, p, Min(bad))
             ELSE IF interfaces = {} THEN "no_interfaces"
             ELSE IF Cardinality({Byte(b, o + 2) : o \in interfaces}) # Byte(b, 4)
                  THEN "interface_count_mismatch"
             ELSE "none"

\* libdrv::is_valid of a configuration descriptor's header.
is_valid(b) ==
    /\ Byte(b, 0) = ConfigurationSize
    /\ Byte(b, 1) = ConfigurationType
    /\ Word(b, 2) > Byte(b, 0)

(***************************************************************************)
(* How the operating system reads a configuration: libdrv::find_next and   *)
(* USBD_ParseDescriptors go from one descriptor to the next while the      *)
(* current one fits.                                                       *)
(***************************************************************************)
find_all(b, type) ==
    LET end == Word(b, 2)
        from[o \in 0 .. end] ==
          IF o + 2 > end \/ Byte(b, o) < 2 \/ o + Byte(b, o) > end THEN {}
          ELSE (IF Byte(b, o + 1) = type THEN {o} ELSE {}) \cup from[o + Byte(b, o)]
    IN  from[0]

(***************************************************************************)
(* The compatibility patch for low and full speed.                         *)
(***************************************************************************)
to_high_speed_interval(interval) ==
    LET fits == {i \in 1 .. 16 : 2 ^ (i - 1) >= 8 * interval}
    IN  IF fits = {} THEN 16 ELSE CHOOSE i \in fits : \A j \in fits : i <= j

\* usb_endpoint_type of the endpoint descriptor at offset o.
EndpointKind(b, o) == <<"control", "isochronous", "bulk", "interrupt">>[(Byte(b, o + 3) % 4) + 1]

PatchEndpoint(b, o) ==
    IF Byte(b, o) < EndpointSize THEN b
    ELSE CASE EndpointKind(b, o) = "bulk" -> [b EXCEPT ![o + 5] = 0, ![o + 6] = 2]
           [] EndpointKind(b, o) = "isochronous" ->
                [b EXCEPT ![o + 7] = IF @ + 3 < 16 THEN @ + 3 ELSE 16]
           [] EndpointKind(b, o) = "interrupt" ->
                [b EXCEPT ![o + 7] = to_high_speed_interval(@)]
           [] EndpointKind(b, o) = "control" -> b

patch_configuration_for_udecx(b, high) ==
    IF high THEN b
    ELSE FoldSet(LAMBDA o, acc : PatchEndpoint(acc, o), b, find_all(b, EndpointType))
=============================================================================
