------------------------------ MODULE Settings ------------------------------
(***************************************************************************)
(* What the driver makes of the numbers in its registry key Parameters     *)
(* (drivers/ude/vhci.cpp): the ports of the root hub and the delays        *)
(* between attach attempts.                                                *)
(*                                                                         *)
(* A registry is a function from the names that it has to numbers.  A      *)
(* number of ports is the int that the ULONG is assigned to, so that 2^31  *)
(* and more is negative; delays and attempts are unsigned int.             *)
(***************************************************************************)
EXTENDS Integers

\* set_usb_ports_cnt
MIN_PORTS == 1
DEF_PORTS == 30
MAX_PORTS == 254
MAX_TOTAL_PORTS == 255

\* init_constants, seconds
DEF_MAX_ATTEMPTS == 20
DEF_FIRST_DELAY == 30
DEF_MAX_DELAY == 480
MIN_DELAY == 1
MAX_DELAY == 3600
MAX_TOTAL_DELAY == 72 * MAX_DELAY

Lesser(a, b) == IF a < b THEN a ELSE b
Greater(a, b) == IF a > b THEN a ELSE b

-----------------------------------------------------------------------------
(* The number of ports.                                                     *)

\* The value of a name of the registry, or the default.
query_usb_ports_cnt(reg, name) == IF name \in DOMAIN reg THEN reg[name] ELSE DEF_PORTS

in_port_range(n) == Lesser(MAX_PORTS, Greater(MIN_PORTS, n))

\* Mutant of set_usb_ports_cnt: each number is checked, their sum is not.
set_usb_ports_cnt_each(reg) ==
    [usb2 |-> in_port_range(query_usb_ports_cnt(reg, "NumberOfUsb20Ports")),
     usb3 |-> in_port_range(query_usb_ports_cnt(reg, "NumberOfUsb30Ports"))]

\* USB 3 comes first in the array, USB 2 has what is left of the total.
set_usb_ports_cnt(reg) ==
    LET n3 == in_port_range(query_usb_ports_cnt(reg, "NumberOfUsb30Ports"))
        n2 == in_port_range(query_usb_ports_cnt(reg, "NumberOfUsb20Ports"))
    IN [usb2 |-> IF n3 + n2 > MAX_TOTAL_PORTS THEN MAX_TOTAL_PORTS - n3 ELSE n2,
        usb3 |-> n3]

-----------------------------------------------------------------------------
(* The delays between attach attempts.                                      *)

\* Half as long again, up to max.  A delay of one second stays what it is.
get_next_delay(delay, max) ==
    IF delay = max THEN delay ELSE Lesser((3 * delay) \div 2, max)

\* How many delays fit into limit.  Once the delay does not change any more the
\* rest of the loop is a division.
get_max_attach_attempts(first, max, limit) ==
    LET cnt[x \in (1..max) \X (0..limit)] ==
          LET d == x[1]
              total == x[2]
          IN IF total + d > limit THEN 0
             ELSE IF get_next_delay(d, max) = d THEN (limit - total) \div d
             ELSE 1 + cnt[<<get_next_delay(d, max), total + d>>]
    IN cnt[<<first, 0>>]

in_delay_range(n) == Greater(MIN_DELAY, Lesser(n, MAX_DELAY))

\* A value that is absent is zero, as the context of a new device is.
query_reattach(reg, name) == IF name \in DOMAIN reg THEN reg[name] ELSE 0

delay_of(val, default) == IF val = 0 THEN default ELSE in_delay_range(val)

\* ReattachFirstDelay and ReattachMaxDelay: in range, and the lesser one first.
reattach_delays(a, b) ==
    LET f == delay_of(a, DEF_FIRST_DELAY)
        m == delay_of(b, DEF_MAX_DELAY)
    IN [first |-> Lesser(f, m), max |-> Greater(f, m)]

\* opened: the registry key could be opened.
init_constants(opened, reg) ==
    LET d == reattach_delays(query_reattach(reg, "ReattachFirstDelay"),
                             query_reattach(reg, "ReattachMaxDelay"))
        n == get_max_attach_attempts(d.first, d.max, MAX_TOTAL_DELAY)
    IN IF opened
         THEN [first |-> d.first, max |-> d.max,
               attempts |-> Lesser(query_reattach(reg, "ReattachMaxAttempts"), n)]
         ELSE [first |-> DEF_FIRST_DELAY, max |-> DEF_MAX_DELAY,
               attempts |-> DEF_MAX_ATTEMPTS]

-----------------------------------------------------------------------------
\* What the rest of the driver relies on.
PortsFit(p) ==
    /\ p.usb2 \in MIN_PORTS..MAX_PORTS
    /\ p.usb3 \in MIN_PORTS..MAX_PORTS
    /\ p.usb2 + p.usb3 <= MAX_TOTAL_PORTS

DelaysFit(d) ==
    /\ d.first \in MIN_DELAY..MAX_DELAY
    /\ d.max \in d.first..MAX_DELAY
=============================================================================
