------------------------------ MODULE Transfers ------------------------------
(***************************************************************************)
(* The conversion between URBs and USB/IP messages: what is sent for an    *)
(* URB, how the buffers of a message are put together from MDLs, and how   *)
(* an answer is checked and copied into the URB. The wsk_context that a    *)
(* message is made in is recycled by a lookaside list with what it had     *)
(* allocated. One URB at a time: UrbRequests has the interleavings.        *)
(***************************************************************************)
EXTENDS Integers, Sequences, FiniteSets, SequencesExt

CONSTANTS
    Urbs,           \* the URBs that the upper drivers submit, as records
    MaxIsoPackets,  \* max_iso_packets
    MaxTail,        \* MAXLEN of alloc_buf_tail
    SeqnumWidth,    \* number of values of seqnum_t
    UlongWidth,     \* number of values of ULONG
    SizeWidth,      \* number of values of size_t
    ActualLengths,  \* what the server says of the length of its data, an int
    MaxLength,      \* bound on the lengths that it says of the packets
    Depth,          \* bound on the number of contexts in the lookaside list
    Statuses,       \* what the server says of an URB
    PacketStatuses  \* what it says of an isochronous packet

ASSUME BoundsAssumption ==
    /\ MaxIsoPackets \in Nat
    /\ MaxTail \in Nat
    /\ MaxLength \in Nat
    /\ Depth \in Nat
    /\ Statuses \subseteq Int /\ PacketStatuses \subseteq Int
    /\ SeqnumWidth \in Nat /\ SeqnumWidth >= 4 /\ SeqnumWidth % 2 = 0

\* An int is narrower than ULONG, and size_t so wide that a negative one is beyond every ULONG.
ASSUME WidthsAssumption ==
    /\ UlongWidth \in Nat \ {0} /\ SizeWidth \in Nat
    /\ ActualLengths \subseteq Int
    /\ \A n \in ActualLengths : n >= UlongWidth - SizeWidth /\ n + 16 * MaxIsoPackets < UlongWidth

\* A request without an URB has no data, and only isochronous URBs have packets.
ASSUME UrbsAssumption ==
    \A u \in Urbs :
        /\ u.out \in BOOLEAN
        /\ u.length \in Nat /\ u.size \in Nat /\ u.wLength \in Nat /\ u.serial \in Nat
        /\ u.buffer \in {"mdl", "chain", "plain", "none"}
        /\ u.offsets \in Seq(Nat)
        /\ u.function = "none" => u.length = 0
        /\ u.function # "isoch" => u.offsets = <<>>

HeaderSize == 48
DescriptorSize == 16
NonIsoch == -1      \* number_of_packets_non_isoch

VARIABLES
    pool,       \* g_lookaside, the last freed context first
    tx,         \* the context of the message being sent, or a <<>>
    rx,         \* the context of the receive thread, or <<>>
    stage,      \* "unplugged", "idle", "sent", "header", "done", "undefined"
    counter,    \* device_ctx::seqnum
    urb,        \* the current URB, <<>> if there is none
    cmd,        \* header and chain of the last message that was sent
    ret,        \* the last answer, <<>> if there is none
    result      \* how the last URB was completed

transfersVars == <<pool, tx, rx, stage, counter, urb, cmd, ret, result>>

Smaller(a, b) == IF a <= b THEN a ELSE b

\* The sum of the first n numbers of s.
SumOf(s, n) == LET upto[i \in 0 .. n] == IF i = 0 THEN 0 ELSE upto[i - 1] + s[i] IN upto[n]

-----------------------------------------------------------------------------
(***************************************************************************)
(* wsk_context. mdl_isoc is the number of packets that its MDL describes,  *)
(* mdl_buf_tail the size of that MDL; zero stands for no MDL.              *)
(***************************************************************************)
allocate_function_ex ==
    [isoc_alloc_cnt |-> 0, mdl_isoc |-> 0, is_isoc |-> FALSE, buf_tail |-> FALSE,
     mdl_buf_tail |-> 0]

\* Mutant of prepare_isoc: the MDL is only rebuilt when the array has to grow.
prepare_isoc_grow(c, n) ==
    IF n = 0 THEN [c EXCEPT !.is_isoc = FALSE]
    ELSE [c EXCEPT !.is_isoc = TRUE,
                   !.isoc_alloc_cnt = IF @ < n THEN n ELSE @,
                   !.mdl_isoc = IF c.isoc_alloc_cnt < n THEN n ELSE @]

prepare_isoc(c, n) ==
    IF n = 0 THEN [c EXCEPT !.is_isoc = FALSE]
    ELSE [c EXCEPT !.is_isoc = TRUE,
                   !.isoc_alloc_cnt = IF @ < n THEN n ELSE @,
                   !.mdl_isoc = n]

\* number_of_packets(ctx), which swaps the bytes of that many descriptors.
number_of_packets(c) == c.mdl_isoc

\* MAXLEN bytes, allocated once; more than that is refused (see prepare_wsk_mdl).
alloc_buf_tail(c) == [c EXCEPT !.buf_tail = TRUE]

\* The MDL is kept if it has the same size.
alloc_mdl_buf_tail(c, length) == [alloc_buf_tail(c) EXCEPT !.mdl_buf_tail = length]

\* A context from the list, or a new one if the list is empty.
Taken == IF pool = <<>> THEN allocate_function_ex ELSE Head(pool)
PoolAfterTake == IF pool = <<>> THEN <<>> ELSE Tail(pool)

\* ExFreeToLookasideListEx: beyond its depth the list frees.
free(c, p) == IF Len(p) < Depth THEN <<c>> \o p ELSE p

-----------------------------------------------------------------------------
(***************************************************************************)
(* MDLs. The result is the number of bytes that the new MDL describes, or  *)
(* an error.                                                               *)
(***************************************************************************)
Error(n) == n < 0
NoError == 0
Invalid == -1           \* STATUS_INVALID_PARAMETER
TooSmall == -2          \* STATUS_BUFFER_TOO_SMALL
NoResources == -3       \* STATUS_INSUFFICIENT_RESOURCES and failures to lock or map
BadSize == -4           \* STATUS_INVALID_BUFFER_SIZE
NotSupported == -5

make_transfer_buffer_mdl(u, size, read) ==
    IF size > u.length THEN Invalid
    ELSE IF size = 0 THEN 0
    ELSE CASE u.buffer \in {"mdl", "chain"} /\ u.size < size /\ (u.buffer = "chain" \/ read) -> TooSmall
           [] u.buffer = "mdl" /\ ~(u.size < size /\ read) -> Smaller(u.size, size)
           [] u.buffer = "chain" /\ u.size >= size -> size
           [] u.buffer = "plain" -> size
           [] u.buffer = "none" -> Invalid

\* network.h, verify(): does the chain hold the message.
verify(length, chain, exact) ==
    length > 0 /\ IF exact THEN length = chain ELSE length <= chain

-----------------------------------------------------------------------------
(***************************************************************************)
(* Headers. seqnum_t has the direction in its first bit, zero is not       *)
(* valid; the counter wraps around.                                        *)
(***************************************************************************)
\* Mutant of next_seqnum: a number that became zero is not skipped.
next_seqnum_zero(n, in) ==
    LET c == (n + 1) % SeqnumWidth
    IN  [counter |-> c, seqnum |-> ((2 * c) % SeqnumWidth) + (IF in THEN 1 ELSE 0)]

next_seqnum(n, in) ==
    LET one == (n + 1) % SeqnumWidth
        two == (n + 2) % SeqnumWidth
        c == IF (2 * one) % SeqnumWidth # 0 THEN one ELSE two
    IN  [counter |-> c, seqnum |-> ((2 * c) % SeqnumWidth) + (IF in THEN 1 ELSE 0)]

is_valid_seqnum(n) == n \div 2 # 0
extract_dir_in(n) == n % 2 = 1

\* The direction of the endpoint, or of the setup packet, wins over the flags.
fix_transfer_flags(flags, out) ==
    IF ("IN" \notin flags) = out THEN flags
    ELSE IF out THEN flags \ {"IN", "SHORT_OK"} ELSE flags \cup {"IN", "SHORT_OK"}

to_linux_flags(flags, in) ==
    IF "ASAP" \in flags THEN {"ISO_ASAP"}
    ELSE IF in /\ "SHORT_OK" \notin flags THEN {"SHORT_NOT_OK"} ELSE {}

TransferFlags(u) == u.flags \cup (IF u.function = "isoch" THEN {"ASAP"} ELSE {})

\* The length that goes into the header; a control transfer moves wLength bytes.
WireLength(u) == IF u.function = "control" THEN Smaller(u.length, u.wLength) ELSE u.length

set_cmd_submit_usbip_header(u, seqnum) ==
    [command |-> "CMD_SUBMIT", seqnum |-> seqnum, out |-> u.out,
     transfer_flags |-> to_linux_flags(fix_transfer_flags(TransferFlags(u), u.out), ~u.out),
     transfer_buffer_length |-> WireLength(u),
     number_of_packets |-> IF u.function = "isoch" THEN Len(u.offsets) ELSE NonIsoch]

Packets(n) == IF n = NonIsoch THEN 0 ELSE n

\* get_total_size of a CMD_SUBMIT and get_payload_size of a RET_SUBMIT.
get_total_size(h) ==
    HeaderSize + (IF h.out THEN h.transfer_buffer_length ELSE 0)
        + DescriptorSize * Packets(h.number_of_packets)

\* An int, or a difference of pointers, becomes a size_t.
AsSize(n) == IF n >= 0 THEN n ELSE n + SizeWidth

get_payload_size(out, r) ==
    IF r.command = "RET_UNLINK" THEN 0
    ELSE AsSize((IF out THEN 0 ELSE r.actual_length) + DescriptorSize * Packets(r.number_of_packets))

(***************************************************************************)
(* repack: the length of a packet is the distance to the next offset.      *)
(***************************************************************************)
NextOffset(u, i) == IF i < Len(u.offsets) THEN u.offsets[i + 1] ELSE u.length

RepackAccepts(u) ==
    \A i \in DOMAIN u.offsets : NextOffset(u, i) >= u.offsets[i] /\ NextOffset(u, i) <= u.length

repack(u) ==
    [i \in DOMAIN u.offsets |-> [offset |-> u.offsets[i], length |-> NextOffset(u, i) - u.offsets[i]]]

(***************************************************************************)
(* to_windows_status_ex: the status of an URB, or of a packet, at the      *)
(* server is an error number of Linux. EXDEV means one thing for a packet  *)
(* and another for its URB; the sign does not matter.                      *)
(***************************************************************************)
LinuxErrors ==
    [STALL_PID |-> {32}, ERROR_SHORT_TRANSFER |-> {121}, DEV_NOT_RESPONDING |-> {62}, TIMEOUT |-> {110},
     CANCELED |-> {2, 104}, BABBLE_DETECTED |-> {75}, DEVICE_GONE |-> {19, 108, 113}, CRC |-> {84},
     DATA_OVERRUN |-> {70}, DATA_UNDERRUN |-> {63}, INSUFFICIENT_RESOURCES |-> {12}, BTSTUFF |-> {71},
     NO_BANDWIDTH |-> {28}, INTERNAL_HC_ERROR |-> {6}, ERROR_BUSY |-> {16}]

to_windows_status_ex(status, isoch) ==
    LET n == IF status >= 0 THEN status ELSE -status
    IN  CASE n = 0 -> "SUCCESS"
          [] n = 18 -> IF isoch THEN "ISO_TD_ERROR" ELSE "ISOCH_REQUEST_FAILED"
          [] \E e \in DOMAIN LinuxErrors : n \in LinuxErrors[e] ->
               CHOOSE e \in DOMAIN LinuxErrors : n \in LinuxErrors[e]
          [] OTHER -> "INVALID_PARAMETER"

-----------------------------------------------------------------------------
(***************************************************************************)
(* Submission. usbd is UrbHeader.Status, "PENDING" as long as nothing sets *)
(* it; packets has the status of every isochronous packet.                 *)
(***************************************************************************)
Completed(status, length, data, lengths) ==
    [status |-> status, length |-> length, data |-> data, lengths |-> lengths,
     usbd |-> "PENDING", packets |-> <<>>]

NotCompleted == Completed(NoError, 0, <<>>, <<>>)

\* fill_usb_device_serial answers for the device: header of two bytes, then wide characters.
\* If it fails the request is sent as any other.
SerialLength(u) == 2 + 2 * Smaller((u.length - 2) \div 2, u.serial)

AnsweredHere(u) == u.function = "control" /\ u.serial > 0 /\ u.length >= 2

\* Errors before a context is allocated.
Refusal(u) ==
    CASE u.function = "other" -> NotSupported
      [] u.function = "control" /\ u.length < u.wLength -> Invalid
      [] u.function = "isoch" /\ Len(u.offsets) > MaxIsoPackets -> Invalid
      [] OTHER -> NoError

usb_submit_urb_at_once ==
    /\ stage = "idle"
    /\ \E u \in Urbs :
          /\ \/ Refusal(u) # NoError
                  /\ result' = Completed(Refusal(u), 0, <<>>, <<>>)
             \/ Refusal(u) = NoError /\ AnsweredHere(u)
                  /\ result' = Completed(NoError, SerialLength(u), <<>>, <<>>)
             \/ Refusal(u) = NoError  \* no memory for a context
                  /\ result' = Completed(NoResources, 0, <<>>, <<>>)
          /\ urb' = u
    /\ stage' = "done"
    /\ UNCHANGED <<pool, tx, rx, counter, cmd, ret>>

BadFlags(u) == "DEFAULT_PIPE" \in u.flags /\ ~u.ep0

\* The descriptors that are sent; prepare_wsk_buf swaps their bytes.
SwappedPackets(c) == IF c.is_isoc THEN number_of_packets(c) ELSE 0

\* prepare_wsk_buf: the bytes of the chain, or an error.
prepare_wsk_buf(u, c) ==
    LET buf == IF u.out /\ u.function # "none" THEN make_transfer_buffer_mdl(u, u.length, TRUE) ELSE 0
    IN  IF Error(buf) THEN buf
        ELSE HeaderSize + buf + DescriptorSize * SwappedPackets(c)

NumberOfPackets(u) == IF u.function = "isoch" THEN Len(u.offsets) ELSE 0

(***************************************************************************)
(* The handlers control_transfer, bulk_or_interrupt_transfer and           *)
(* isoch_transfer, and send_ep0_out, which has no URB. On an error the     *)
(* context goes back to the list.                                          *)
(***************************************************************************)
usb_submit_urb ==
    /\ stage = "idle"
    /\ tx = <<>>
    /\ \E u \in Urbs :
          LET c == prepare_isoc(Taken, NumberOfPackets(u))
              num == next_seqnum(counter, ~u.out)
              h == set_cmd_submit_usbip_header(u, num.seqnum)
              chain == prepare_wsk_buf(u, c)
              error == IF BadFlags(u) \/ ~RepackAccepts(u) THEN Invalid
                       ELSE IF Error(chain) THEN chain ELSE NoError
          IN  /\ Refusal(u) = NoError
              /\ urb' = u
              /\ counter' = IF BadFlags(u) THEN counter ELSE num.counter
              /\ IF error # NoError
                 THEN /\ result' = Completed(error, 0, <<>>, <<>>)
                      /\ pool' = free(c, PoolAfterTake)
                      /\ stage' = "done"
                      /\ UNCHANGED <<tx, cmd>>
                 ELSE /\ cmd' = [header |-> h, chain |-> chain, isoc |-> repack(u), swapped |-> SwappedPackets(c)]
                      /\ tx' = <<c>>
                      /\ pool' = PoolAfterTake
                      /\ stage' = "sent"
                      /\ UNCHANGED result
    /\ UNCHANGED <<rx, ret>>

\* Locking or mapping of the buffer fails, after the number was taken.
usb_submit_urb_lock_failed ==
    /\ stage = "idle"
    /\ tx = <<>>
    /\ \E u \in Urbs :
          /\ Refusal(u) = NoError /\ ~BadFlags(u) /\ RepackAccepts(u)
          /\ u.out /\ u.length > 0 /\ u.buffer # "none"
          /\ urb' = u
          /\ counter' = next_seqnum(counter, FALSE).counter
          /\ pool' = free(prepare_isoc(Taken, NumberOfPackets(u)), PoolAfterTake)
    /\ result' = Completed(NoResources, 0, <<>>, <<>>)
    /\ stage' = "done"
    /\ UNCHANGED <<tx, rx, cmd, ret>>

send_complete ==
    /\ tx # <<>>
    /\ pool' = free(tx[1], pool)
    /\ tx' = <<>>
    /\ UNCHANGED <<rx, stage, counter, urb, cmd, ret, result>>

-----------------------------------------------------------------------------
(***************************************************************************)
(* Receiving. The server fills the header and the packet descriptors as it *)
(* likes; byte i of the data it sends is the number i.                     *)
(***************************************************************************)
Answers ==
    [command : {"RET_SUBMIT", "RET_UNLINK", "CMD_SUBMIT"}, seqnum : {"urb", "other", "zero"},
     actual_length : ActualLengths, number_of_packets : {NonIsoch} \cup (0 .. MaxIsoPackets + 1),
     status : Statuses, all_failed : BOOLEAN]

\* What validate_header lets through, with -1 packets turned into none.
validate_header(r, seqnum) ==
    /\ r.command \in {"RET_SUBMIT", "RET_UNLINK"}
    /\ r.command = "RET_SUBMIT" =>
          r.number_of_packets = NonIsoch \/ r.number_of_packets \in 0 .. MaxIsoPackets
    /\ is_valid_seqnum(seqnum)

\* Nothing is left of the last URB.
Forget == urb' = <<>> /\ cmd' = <<>> /\ ret' = <<>> /\ result' = NotCompleted

\* The receive loop ends: the thread frees its context, the device is detached, the URB cancelled.
Leave(c) ==
    /\ stage' = "unplugged"
    /\ pool' = free(c, pool)
    /\ rx' = <<>>
    /\ Forget

\* The number of the URB, or that of a request that was cancelled, or none at all.
SeqnumOf(r) == CASE r.seqnum = "urb" -> cmd.header.seqnum [] r.seqnum = "other" -> 3 [] OTHER -> 0

\* recv_usbip_header and ret_command.
recv_usbip_header ==
    /\ stage = "sent"
    /\ \E r \in Answers :
          /\ r.command # "RET_SUBMIT" =>
                r.actual_length = 0 /\ r.number_of_packets = NonIsoch /\ r.status = 0
          /\ r.all_failed => r.number_of_packets > 0
          /\ IF validate_header(r, SeqnumOf(r))
             THEN stage' = "header" /\ ret' = <<r>> /\ UNCHANGED <<pool, rx, urb, cmd, result>>
             ELSE Leave(rx[1])
    /\ UNCHANGED <<tx, counter>>

\* The connection is lost, or the payload does not come: the URB is cancelled.
disconnected ==
    /\ stage \in {"idle", "sent", "header", "undefined"}
    /\ Leave(rx[1])
    /\ UNCHANGED <<tx, counter>>

Answer == ret[1]
DirIn == extract_dir_in(cmd.header.seqnum)
Found == Answer.command = "RET_SUBMIT" /\ Answer.seqnum = "urb"

\* The answer is not for a request that is still there: its payload is received and dropped;
\* one that is too long for an ULONG ends the loop.
drain_payload ==
    /\ stage = "header"
    /\ ~Found
    /\ IF get_payload_size(~extract_dir_in(SeqnumOf(Answer)), Answer) < UlongWidth
       THEN stage' = "sent" /\ ret' = <<>> /\ UNCHANGED <<pool, rx, urb, cmd, result>>
       ELSE Leave(rx[1])
    /\ UNCHANGED <<tx, counter>>

check(length, actual) == actual \in 0 .. length

\* Mutant of Gap: the MDL of the URB is taken to be long enough.
NoGap(r, buf, in) == 0

\* What the MDL of the URB lacks; it is received into buf_tail and lost.
Gap(r, buf, in) == IF in THEN r.actual_length - buf ELSE 0

(***************************************************************************)
(* prepare_wsk_mdl: the bytes of the chain for the payload, or an error,   *)
(* and what it does to the context.                                        *)
(***************************************************************************)
prepare_wsk_mdl(u, r, c0, in) ==
    LET c == prepare_isoc(c0, Packets(r.number_of_packets))
        buf == IF in THEN make_transfer_buffer_mdl(u, r.actual_length, FALSE) ELSE 0
        gap == Gap(r, buf, in)
        isoc == IF c.is_isoc THEN DescriptorSize * number_of_packets(c) ELSE 0
    IN  IF \/ u.buffer = "none"
           \/ ~check(u.length, r.actual_length)
           \/ ~c.is_isoc /\ (~in \/ r.actual_length = 0)
           \/ u.length = 0
        THEN [chain |-> BadSize, ctx |-> c]
        ELSE IF Error(buf) THEN [chain |-> buf, ctx |-> c]
        ELSE IF gap > MaxTail THEN [chain |-> TooSmall, ctx |-> c]
        ELSE [chain |-> buf + gap + isoc,
              ctx |-> IF gap > 0 THEN alloc_mdl_buf_tail(c, gap) ELSE c]

\* The buffer of the URB with the data as it was received, without gaps.
Received(u, r, in) ==
    [i \in 1 .. u.length |-> IF in /\ i <= r.actual_length THEN i ELSE 0]

(***************************************************************************)
(* fill_isoc_data: from the last packet to the first, the data of each are *)
(* moved up to its offset. "left" is the code's variable length; "reach"   *)
(* is the end of the area written so far.                                  *)
(***************************************************************************)
Move(data, from, to, n) == [i \in DOMAIN data |-> IF i \in to + 1 .. to + n THEN data[i - to + from] ELSE data[i]]

\* Mutant of FillStep: the data of a packet stay where they were received.
FillStepNoMove(u, s, d, i) ==
    IF d.actual_length > s.left THEN [s EXCEPT !.status = Invalid]
    ELSE [s EXCEPT !.left = @ - d.actual_length, !.lengths[i] = d.actual_length]

FillStep(u, s, d, i) ==
    LET left == s.left - d.actual_length
        offset == u.offsets[i]
    IN  IF d.actual_length = 0 THEN [s EXCEPT !.lengths[i] = 0]
        ELSE IF \/ d.actual_length > d.length
                \/ d.offset # offset
                \/ left < 0
                \/ offset + d.actual_length > u.length
                \/ offset < left
             THEN [s EXCEPT !.status = Invalid]
        ELSE [s EXCEPT !.left = left, !.lengths[i] = d.actual_length,
                       !.data = Move(@, left, offset, d.actual_length),
                       !.reach = IF @ < offset + d.actual_length THEN offset + d.actual_length ELSE @]

fill_isoc_data(u, data, actual, src) ==
    LET n == Len(u.offsets)
        start == [status |-> NoError, left |-> actual, data |-> data, lengths |-> [i \in 1 .. n |-> 0], reach |-> 0]
        from[i \in 1 .. n + 1] ==
            IF i > n THEN start
            ELSE IF from[i + 1].status # NoError THEN from[i + 1]
            ELSE FillStep(u, from[i + 1], src[i], i)
    IN  IF from[1].status = NoError /\ from[1].left # 0 THEN [from[1] EXCEPT !.status = Invalid] ELSE from[1]

\* What the server says of the packets; its offsets may be wrong.
IsocReplies(u, n) ==
    [1 .. n -> [offset : {0} \cup Range(u.offsets), length : 0 .. MaxLength, actual_length : 0 .. MaxLength,
                status : PacketStatuses]]

SamePackets(u, r) == Packets(r.number_of_packets) = Len(u.offsets)

\* ret_submit for an isochronous URB.
isoch_transfer(u, r, in, src) ==
    IF ~SamePackets(u, r) THEN Completed(Invalid, u.length, <<>>, <<>>)
    ELSE LET packets == [i \in DOMAIN src |-> to_windows_status_ex(src[i].status, TRUE)]
             f == fill_isoc_data(u, Received(u, r, in), r.actual_length, src)
         IN  IF in THEN [Completed(f.status, f.reach, f.data, f.lengths) EXCEPT !.packets = packets]
                   ELSE [Completed(NoError, u.length, <<>>, <<>>) EXCEPT !.packets = packets]

\* ret_submit_urb for the others; prepare_wsk_mdl may have set the length already.
other_transfer(u, r, in) ==
    IF u.buffer = "none" THEN Completed(NoError, 0, <<>>, <<>>)
    ELSE IF check(u.length, r.actual_length)
         THEN Completed(NoError, r.actual_length, Received(u, r, in), <<>>)
         ELSE Completed(BadSize, 0, <<>>, <<>>)

\* all_failed: error_count is the number of packets.
UrbStatus(u, r) ==
    IF u.function = "isoch" /\ r.all_failed THEN "ISOCH_REQUEST_FAILED"
    ELSE to_windows_status_ex(r.status, FALSE)

ret_submit_urb(u, r, in, src) ==
    [(IF u.function = "isoch" THEN isoch_transfer(u, r, in, src) ELSE other_transfer(u, r, in))
        EXCEPT !.usbd = UrbStatus(u, r)]

\* A request without an URB only fails or succeeds.
ret_submit(u, r, in, src) ==
    IF u.function = "none" THEN Completed(IF r.status # 0 THEN Invalid ELSE NoError, 0, <<>>, <<>>)
    ELSE ret_submit_urb(u, r, in, src)

(***************************************************************************)
(* A negative length that cancels out the size of the descriptors: there   *)
(* is no payload to receive, and isoch_transfer swaps and reads as many    *)
(* descriptors of what an earlier answer left in the context, if it ever   *)
(* had that many. Nothing is said of what follows.                         *)
(***************************************************************************)
StaleDescriptors(u, r, size) == size = 0 /\ u.function = "isoch" /\ u.offsets # <<>> /\ SamePackets(u, r)

(***************************************************************************)
(* The rest of an iteration of recv_loop, for the request of the answer:   *)
(* its payload is received if it has one, the URB is filled and completed. *)
(* An error of the payload ends the loop; one of ret_submit does not.      *)
(***************************************************************************)
recv_payload ==
    /\ stage = "header"
    /\ Found
    /\ LET size == get_payload_size(~DirIn, Answer)
           p == prepare_wsk_mdl(urb, Answer, rx[1], DirIn)
           ctx == IF size = 0 THEN rx[1] ELSE p.ctx
       IN  IF size > 0 /\ Error(p.chain)
           THEN Leave(ctx)
           ELSE IF StaleDescriptors(urb, Answer, size)
           THEN stage' = "undefined" /\ UNCHANGED <<pool, rx, urb, cmd, ret, result>>
           ELSE /\ stage' = "done"
                /\ rx' = <<ctx>>
                /\ \E src \in IsocReplies(urb, IF urb.function = "isoch"
                                                THEN Packets(Answer.number_of_packets) ELSE 0) :
                       result' = ret_submit(urb, Answer, DirIn, src)
                /\ UNCHANGED <<pool, urb, cmd, ret>>
    /\ UNCHANGED <<tx, counter>>

\* The completed URB is back with its owner.
complete ==
    /\ stage = "done"
    /\ stage' = "idle"
    /\ Forget
    /\ UNCHANGED <<pool, tx, rx, counter>>

-----------------------------------------------------------------------------
\* recv_thread_function of a new device; its sequence numbers start again.
recv_thread_start ==
    /\ stage = "unplugged"
    /\ tx = <<>>
    /\ stage' = "idle"
    /\ rx' = <<prepare_isoc(Taken, 0)>>
    /\ pool' = PoolAfterTake
    /\ counter' = 0
    /\ UNCHANGED <<tx, urb, cmd, ret, result>>

TransfersInit ==
    /\ pool = <<>>
    /\ tx = <<>>
    /\ rx = <<>>
    /\ stage = "unplugged"
    /\ counter = 0
    /\ urb = <<>>
    /\ cmd = <<>>
    /\ ret = <<>>
    /\ result = NotCompleted

TransfersNext ==
    \/ recv_thread_start
    \/ usb_submit_urb_at_once
    \/ usb_submit_urb
    \/ usb_submit_urb_lock_failed
    \/ send_complete
    \/ recv_usbip_header
    \/ drain_payload
    \/ recv_payload
    \/ complete
    \/ disconnected

TransfersSpec == TransfersInit /\ [][TransfersNext]_transfersVars

-----------------------------------------------------------------------------
InUse == Range(pool) \cup Range(tx) \cup Range(rx)

(***************************************************************************)
(* What goes out fits what it was made from, whichever message the context *)
(* carried before: the chain of MDLs holds the message that the header     *)
(* announces, and exactly that for isochronous transfers; as many packet   *)
(* descriptors are swapped as are sent; the MDL never describes more than  *)
(* the array that was allocated. The packets lie one after the other in    *)
(* the buffer. This is verify() of network.h and NT_ASSERTs around it.     *)
(***************************************************************************)
SentMessageFits ==
    /\ \A c \in InUse : c.mdl_isoc <= c.isoc_alloc_cnt /\ (c.mdl_buf_tail > 0 => c.buf_tail)
    /\ stage = "sent" =>
          /\ verify(get_total_size(cmd.header), cmd.chain, urb.function = "isoch")
          /\ urb.function = "isoch" => cmd.swapped = Len(urb.offsets)
          /\ \A i \in DOMAIN cmd.isoc : cmd.isoc[i].offset + cmd.isoc[i].length = NextOffset(urb, i)
          /\ \A i \in DOMAIN cmd.isoc : cmd.isoc[i].length >= 0 /\ NextOffset(urb, i) <= urb.length

(***************************************************************************)
(* The payload of an answer fits the chain that was made for it, so that   *)
(* WskReceive neither writes past it nor leaves bytes in the stream, after *)
(* which every header would be read from the wrong place; and so many      *)
(* descriptors were received as isoch_transfer swaps, its NT_ASSERT. The   *)
(* one exception is a negative length of the data (StaleDescriptors).      *)
(***************************************************************************)
PayloadFits ==
    /\ stage = "header" /\ Found /\ get_payload_size(~DirIn, Answer) > 0 =>
          LET p == prepare_wsk_mdl(urb, Answer, rx[1], DirIn)
          IN  ~Error(p.chain) =>
                /\ verify(get_payload_size(~DirIn, Answer), p.chain, p.ctx.is_isoc)
                /\ urb.function = "isoch" /\ SamePackets(urb, Answer) /\ urb.offsets # <<>> =>
                      number_of_packets(p.ctx) = Len(urb.offsets)
    /\ stage = "undefined" => Answer.actual_length < 0

(***************************************************************************)
(* The server answers with zero as the direction, so the driver takes it   *)
(* from the sequence number. The number is valid and says the direction of *)
(* the URB for every value of the counter, and the flags agree with it     *)
(* although those of the URB need not.                                     *)
(***************************************************************************)
DirectionSurvives ==
    stage = "sent" =>
        /\ is_valid_seqnum(cmd.header.seqnum)
        /\ extract_dir_in(cmd.header.seqnum) = ~urb.out
        /\ cmd.header.out = urb.out
        /\ "SHORT_NOT_OK" \in cmd.header.transfer_flags => ~urb.out

(***************************************************************************)
(* Data are where they belong. Nothing is ever written past the end of the *)
(* transfer buffer, whatever the server says of its packets; and if no     *)
(* packet is longer than the one that was asked for, each packet of a      *)
(* successful transfer has its own bytes at its own offset, although they  *)
(* were moved there in the buffer that holds all of them. The owner of the *)
(* URB is told of a success just when the server had one.                  *)
(***************************************************************************)
DataInPlace ==
    stage = "done" /\ result.status = NoError =>
        /\ result.length <= urb.length
        /\ urb.function = "isoch" /\ result.data # <<>>
              /\ (\A i \in DOMAIN result.lengths : result.lengths[i] <= cmd.isoc[i].length) =>
                \A i \in DOMAIN result.lengths : \A k \in 1 .. result.lengths[i] :
                    result.data[urb.offsets[i] + k] = SumOf(result.lengths, i - 1) + k
        /\ ret # <<>> /\ urb.function # "none" =>
              (result.usbd = "SUCCESS") = (Answer.status = 0 /\ ~(urb.function = "isoch" /\ Answer.all_failed))
=============================================================================
