----------------------------- MODULE UsbReceive -----------------------------
(***************************************************************************)
(* The receive half of App/Platform/usb_cdc_stream.c: the USB interrupt     *)
(* stores packets in a byte ring, and ProtocolTask takes lines out of it,   *)
(* byte by byte, with interrupts open.  Bytes are "cr", "lf" and others.    *)
(***************************************************************************)
EXTENDS Naturals, SequencesExt

CONSTANTS
  RxCapacity,    \* USB_CDC_STREAM_RX_CAPACITY
  LineCapacity,  \* USB_CDC_STREAM_LINE_CAPACITY
  Packets,       \* the packets the host may send
  MaxPackets     \* bound: packets sent

ASSUME ReceiveAssumption ==
  /\ RxCapacity \in Nat \ {0} /\ LineCapacity \in Nat \ {0, 1}
  /\ Packets \subseteq Seq(STRING)

VARIABLES
  rx, rxWrite, rxRead,  \* the ring, its write and its read index
  line,        \* line_buffer, up to line_length
  discarding,  \* discarding_overlong_line
  packets,     \* packets sent so far
  stored,      \* history: the bytes of the packets that were not dropped
  consumed,    \* history: how many bytes were read
  results      \* history: what next_line returned, a line or "LINE_TOO_LONG"

rxVars == <<rx, rxWrite, rxRead, line, discarding, packets, stored, consumed,
          results>>

Size == RxCapacity + 1
Along(i, n) == (i + n) % Size

RxInit ==
  /\ rx = [i \in 0..RxCapacity |-> "none"]
  /\ rxWrite = 0 /\ rxRead = 0
  /\ line = <<>> /\ discarding = FALSE
  /\ packets = 0
  /\ stored = <<>> /\ consumed = 0 /\ results = <<>>

\* Variant: the slot that tells a full ring from an empty one is given away.
Free_OneTooMany == Size - ((rxWrite + Size - rxRead) % Size)

Free == (rxRead + Size - rxWrite - 1) % Size

\* usb_cdc_stream_receive_isr: a packet is stored whole or dropped whole.
Receive(p) ==
  /\ packets < MaxPackets /\ packets' = packets + 1
  /\ IF Len(p) > RxCapacity \/ Len(p) > Free
       THEN UNCHANGED <<rx, rxWrite, stored>>
       ELSE /\ rx' = [i \in 0..RxCapacity |->
                        LET n == 1 + ((i + Size - rxWrite) % Size)
                        IN IF n \in DOMAIN p THEN p[n] ELSE rx[i]]
            /\ rxWrite' = Along(rxWrite, Len(p))
            /\ stored' = stored \o p
  /\ UNCHANGED <<rxRead, line, discarding, consumed, results>>

StripCr(s) == IF s # <<>> /\ Last(s) = "cr" THEN Front(s) ELSE s

\* Variant: the end of an overlong line does not end the discarding.
EndLine_StillDiscarding ==
  /\ line' = <<>>
  /\ results' = IF discarding THEN Append(results, "LINE_TOO_LONG")
                ELSE IF StripCr(line) = <<>> THEN results
                ELSE Append(results, StripCr(line))
  /\ UNCHANGED discarding

\* At LF the line, if any is left without its CR, is returned.
EndLine ==
  /\ line' = <<>> /\ discarding' = FALSE
  /\ results' = IF discarding THEN Append(results, "LINE_TOO_LONG")
                ELSE IF StripCr(line) = <<>> THEN results
                ELSE Append(results, StripCr(line))

Room == Len(line) < LineCapacity - 1

\* One turn of the loop of usb_cdc_stream_next_line.
Byte ==
  /\ rxRead # rxWrite
  /\ rxRead' = Along(rxRead, 1) /\ consumed' = consumed + 1
  /\ IF rx[rxRead] = "lf" THEN EndLine
     ELSE IF ~discarding /\ Room
       THEN line' = Append(line, rx[rxRead]) /\ UNCHANGED <<discarding, results>>
       ELSE discarding' = TRUE /\ UNCHANGED <<line, results>>
  /\ UNCHANGED <<rx, rxWrite, packets, stored>>

RxNext == (\E p \in Packets : Receive(p)) \/ Byte

RxSpec == RxInit /\ [][RxNext]_rxVars
-----------------------------------------------------------------------------
Unread == [n \in 1..(rxWrite + Size - rxRead) % Size |-> rx[Along(rxRead, n - 1)]]
Read == SubSeq(stored, 1, consumed)

\* The interrupt never overwrites a byte the task has not read, however full the
\* ring is and wherever the indices wrap.
UnreadIsStored == Read \o Unread = stored

\* The reference: cut at every LF; too long a line is one error, the others
\* lose one CR, and empty ones do not count.
Ends(s) == SetToSortSeq({n \in DOMAIN s : s[n] = "lf"}, <)
Segment(s, k) == LET from == IF k = 1 THEN 0 ELSE Ends(s)[k - 1]
                 IN SubSeq(s, from + 1, Ends(s)[k] - 1)
Parse(s) ==
  FlattenSeq([k \in DOMAIN Ends(s) |->
    LET c == Segment(s, k)
    IN IF Len(c) >= LineCapacity THEN <<"LINE_TOO_LONG">>
       ELSE IF StripCr(c) = <<>> THEN <<>> ELSE <<StripCr(c)>>])

\* Whatever the packets are cut into and whenever they arrive, next_line has
\* returned the lines of what was read, and one error for each overlong line.
LinesAreParsed == results = Parse(Read)
=============================================================================
