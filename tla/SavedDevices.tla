---------------------------- MODULE SavedDevices ----------------------------
(***************************************************************************)
(* The persistent devices: a REG_MULTI_SZ value that clients write and     *)
(* read with the ioctls SET_PERSISTENT and GET_PERSISTENT and the driver   *)
(* reads when it starts.  libusbip/persistent.cpp makes and parses the     *)
(* strings, drivers/ude/persistent.cpp parses them in its own way.         *)
(*                                                                         *)
(* "host,service,busid,serial" is the sequence of what is between the      *)
(* commas.  A field is such a sequence too: longer than one if there is a  *)
(* comma in it, <<"">> if it is empty.                                     *)
(***************************************************************************)
EXTENDS Naturals, Sequences, SequencesExt

CONSTANTS
  Lists,        \* the devices that a client may store
  Values,       \* what may be in the registry at first
  Alnum,        \* texts of letters and digits, not longer than a serial number
  TooLong,      \* texts that do not fit into imported_device_location
  DevicesCnt,   \* vhci_ctx::devices_cnt
  FirstBuf,     \* room for so many strings in the first call, 512 characters
  MaxWrites     \* bound on the number of SET_PERSISTENT

\* persistent_device, with fields that are texts, if only empty ones.
IsDevice(d) ==
  /\ d = [host |-> d.host, service |-> d.service, busid |-> d.busid, serial |-> d.serial]
  /\ \A f \in {d.host, d.service, d.busid, d.serial} : f \in Seq(Range(f)) /\ f # <<>>

ASSUME SavedAssumption ==
  /\ DevicesCnt \in Nat /\ FirstBuf \in Nat /\ MaxWrites \in Nat
  /\ \A list \in Lists : list \in Seq(Range(list)) /\ \A d \in Range(list) : IsDevice(d)

VARIABLES
  registry,     \* PersistentDevices
  writes,       \* number of calls of SET_PERSISTENT
  stored,       \* history: the list that was stored last, if a client did that
  reader        \* the call of vhci::get_persistent

savedVars == <<registry, writes, stored, reader>>

Empty == <<"">>
Absent == [type |-> "absent", strings |-> <<>>]
MultiSz(strings) == [type |-> "REG_MULTI_SZ", strings |-> strings]

NoResult == [success |-> FALSE, devices |-> <<>>]
Idle == [at |-> "idle", buf |-> 0, held |-> {}, result |-> NoResult]
-----------------------------------------------------------------------------
(* libusbip.                                                                *)

validate_device_serial(serial) == serial = Empty \/ (Len(serial) = 1 /\ serial[1] \in Alnum)

is_malformed(d) ==
  d.host = Empty \/ d.service = Empty \/ d.busid = Empty \/ ~validate_device_serial(d.serial)

Formatted(d) == d.host \o d.service \o d.busid \o d.serial

\* One malformed device and nothing is stored.
make_multi_sz(list) ==
  IF \E i \in DOMAIN list : is_malformed(list[i]) THEN Absent
  ELSE MultiSz([i \in DOMAIN list |-> Formatted(list[i])])

Field(s, i) == IF i <= Len(s) THEN <<s[i]>> ELSE Empty

\* Mutant of parse_persistent_device: the serial number ends at the next comma.
parse_persistent_device_cut(s) ==
  [host |-> Field(s, 1), service |-> Field(s, 2), busid |-> Field(s, 3), serial |-> Field(s, 4)]

\* The serial number is all the rest.
parse_persistent_device(s) ==
  [host |-> Field(s, 1), service |-> Field(s, 2), busid |-> Field(s, 3),
   serial |-> IF Len(s) > 3 THEN SubSeq(s, 4, Len(s)) ELSE Empty]

\* The elements of s at the positions in T, in their order.
Selected(s, T) ==
  LET upto[n \in 0..Len(s)] ==
        IF n = 0 THEN <<>>
        ELSE IF n \in T THEN Append(upto[n - 1], s[n]) ELSE upto[n - 1]
  IN  upto[Len(s)]

Parsed(strings) ==
  LET devices == [i \in DOMAIN strings |-> parse_persistent_device(strings[i])]
  IN  Selected(devices, {i \in DOMAIN strings : ~is_malformed(devices[i])})

\* What the caller makes of the answer: no value is no device.
Understood(v) ==
  LET good == v.type \in {"absent", "REG_MULTI_SZ"}
  IN  [success |-> good, devices |-> IF good THEN Parsed(v.strings) ELSE <<>>]
-----------------------------------------------------------------------------
(* The driver, when it starts.                                              *)

\* libdrv::split at the first comma.
split(s) == [head |-> <<s[1]>>, tail |-> IF Len(s) > 1 THEN Tail(s) ELSE Empty]

validate_serial_number(serial) == Len(serial) = 1 /\ serial[1] \in Alnum \cup {""}

\* hashed: hash_location has the memory it needs.
parse_device_str(s, hashed) ==
  LET node == split(s)
      service == split(node.tail)
      busid == split(service.tail)
      d == [host |-> node.head, service |-> service.head, busid |-> busid.head, serial |-> busid.tail]
  IN  [ok |-> validate_serial_number(d.serial) /\ Empty \notin {d.host, d.service, d.busid} /\ hashed,
       dev |-> d]

\* fill_location, for the request that init_attach_ctx prepares.
fill_location(d) == \A f \in {d.host, d.service, d.busid} : f[1] \notin TooLong

\* get_persistent_devices: not more strings than ports, before any of them is parsed.
get_persistent_devices(v) ==
  IF v.type # "REG_MULTI_SZ" THEN <<>>
  ELSE SubSeq(v.strings, 1, IF Len(v.strings) < DevicesCnt THEN Len(v.strings) ELSE DevicesCnt)

\* The devices that the driver begins to attach, see HostController.  failed: those for
\* which it runs out of memory.
plugin_persistent_devices(v, failed) ==
  LET all == get_persistent_devices(v)
      parsed == [i \in DOMAIN all |-> parse_device_str(all[i], i \notin failed)]
  IN  Selected([i \in DOMAIN all |-> parsed[i].dev],
               {i \in DOMAIN all : parsed[i].ok /\ fill_location(parsed[i].dev)})
-----------------------------------------------------------------------------
(* The ioctls.  Both are in the parallel queue: they run at any time.       *)

\* Every value that the registry has while a client reads is remembered.
Assign(v) ==
  /\ registry' = v
  /\ reader' = IF reader.at = "idle" THEN reader ELSE [reader EXCEPT !.held = @ \cup {v}]

\* The caller is vhci::set_persistent; the registry may refuse.
set_persistent(list) ==
  /\ writes < MaxWrites /\ writes' = writes + 1
  /\ LET v == make_multi_sz(list) IN
     \/ v # Absent /\ Assign(v) /\ stored' = <<list>>
     \/ UNCHANGED <<registry, stored, reader>>

\* GET_PERSISTENT for a buffer with room for n strings and the terminator.
get_persistent(v, n) ==
  IF v.type = "absent" THEN "ERROR_FILE_NOT_FOUND"
  ELSE IF Len(v.strings) > n THEN "ERROR_MORE_DATA"
  ELSE IF v.type # "REG_MULTI_SZ" THEN "ERROR_INVALID_CONFIG_VALUE" ELSE "ok"

begin_get_persistent ==
  /\ reader.at = "idle"
  /\ reader' = [Idle EXCEPT !.at = "call", !.buf = FirstBuf, !.held = {registry}]
  /\ UNCHANGED <<registry, writes, stored>>

\* Mutant of get_persistent_call: what fits into the first buffer is all that is read.
get_persistent_call_once ==
  /\ reader.at = "call"
  /\ reader' = [reader EXCEPT !.at = "got",
                  !.result = Understood([registry EXCEPT !.strings =
                    SubSeq(@, 1, IF Len(@) < FirstBuf THEN Len(@) ELSE FirstBuf)])]
  /\ UNCHANGED <<registry, writes, stored>>

\* The loop of libusbip's get_persistent_devices: the buffer gets the size that the
\* driver asked for, and the value may have grown again.  The driver may fail to get at
\* the buffer or to open the key.
get_persistent_call ==
  /\ reader.at = "call"
  /\ \/ reader' = [reader EXCEPT !.at = "got", !.result = NoResult]
     \/ reader' =
          IF get_persistent(registry, reader.buf) = "ERROR_MORE_DATA"
            THEN [reader EXCEPT !.buf = Len(registry.strings)]
            ELSE [reader EXCEPT !.at = "got", !.result = Understood(registry)]
  /\ UNCHANGED <<registry, writes, stored>>

\* The callers mark the rows of the devices in the result.
end_get_persistent ==
  /\ reader.at = "got"
  /\ reader' = Idle
  /\ UNCHANGED <<registry, writes, stored>>

\* `usbip port --stash', another process, stores the devices that are attached.
cmd_port == \E list \in Lists : set_persistent(list)

\* MainFrame::save stores the devices that are marked among those it was given.
save == \E list \in Lists : set_persistent(list)

SavedInit ==
  /\ registry \in Values
  /\ writes = 0 /\ stored = <<>> /\ reader = Idle
-----------------------------------------------------------------------------
(* Properties.                                                              *)

\* What get_persistent returns, if it succeeds, is the meaning of one value that the
\* registry had during the call, never of a part of one or of two of them, although the
\* value may change between the calls of the loop (libusbip/persistent.cpp:84).
ReadIsOneValue ==
  reader.at = "got" =>
    reader.result = NoResult \/ \E v \in reader.held : reader.result = Understood(v)

HasNoComma(d) == \A f \in {d.host, d.service, d.busid, d.serial} : Len(f) = 1

\* The two parsers agree with the writer and with each other: of a list that was stored,
\* a client gets every device back, in order, and the driver attaches the same ones as far
\* as ports, buffers and memory reach.  A name with a comma is lost, but it never turns into
\* the name of another device.
StoredIsUnderstood ==
  stored # <<>> =>
    LET all == stored[1]
        last == IF Len(all) < DevicesCnt THEN Len(all) ELSE DevicesCnt
        plain == {i \in DOMAIN all : HasNoComma(all[i])}
    IN  /\ Understood(registry) = [success |-> TRUE, devices |-> Selected(all, plain)]
        /\ \A failed \in SUBSET DOMAIN all :
             plugin_persistent_devices(registry, failed) =
               Selected(SubSeq(all, 1, last),
                        {i \in plain \ failed : i <= last /\ fill_location(all[i])})
=============================================================================
