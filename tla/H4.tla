--------------------------------- MODULE H4 ---------------------------------
(***************************************************************************)
(* The packets of the Bluetooth core, cut out of the messages it sends:    *)
(* hci_h4_receive_msg of utils/intersyshci/intersyshci.cpp (the version    *)
(* that receives without a thread of its own).  A packet is a type byte, a *)
(* header that ends with the length, and that many bytes of data.  The     *)
(* parser keeps its place between calls, as a message may end anywhere.    *)
(***************************************************************************)
EXTENDS Naturals, Sequences

HCI_ACL_DATA_PACKET == 2
HCI_SCO_DATA_PACKET == 3
HCI_EVENT_PACKET    == 4

hci_preamble_table == <<3, 4, 3, 2>>

\* h4_pcb: rcv_state, rcv_msg_type, rcv_len, and the bytes of the preload
\* buffer and then of the packet's
Pcb(state, type, left, bytes) ==
    [state |-> state, type |-> type, left |-> left, bytes |-> bytes]

H4Start == Pcb("MSGTYPE", 0, 0, << >>)

\* Where the loop is: the parser's state, and the packets that have ended
Upto(pcb, ended) == [pcb |-> pcb, ended |-> ended, wrong |-> FALSE]

\* The packet ends: it is given to the stack, or was ignored
End(s, kept) ==
    Upto(H4Start, Append(s.ended, IF kept THEN <<s.pcb.type>> \o s.pcb.bytes ELSE << >>))

MsgLen(type, header) ==
    IF type = HCI_ACL_DATA_PACKET THEN header[4] * 256 + header[3] ELSE header[Len(header)]

\* Fault: the data of a packet without a buffer is not skipped
WithLengthFault(s, buffer) ==
    LET left == MsgLen(s.pcb.type, s.pcb.bytes)
    IN IF left = 0 \/ ~buffer THEN End(s, buffer)
       ELSE Upto(Pcb("DATA", s.pcb.type, left, s.pcb.bytes), s.ended)

(* The header is complete: a buffer is asked for.  Events and ACL data get *)
(* one, or the firmware stops; SCO data without one is ignored.            *)
WithLength(s, buffer) ==
    LET left == MsgLen(s.pcb.type, s.pcb.bytes)
    IN IF left = 0 THEN End(s, buffer)
       ELSE Upto(Pcb(IF buffer THEN "DATA" ELSE "IGNORE", s.pcb.type, left, s.pcb.bytes), s.ended)

\* One round of the loop for one byte; HCI_GetScoBuffer has a buffer or not
OneByte(s, b, scoBuffer) ==
    LET c == s.pcb
        t == Upto(Pcb(c.state, c.type, c.left - 1, Append(c.bytes, b)), s.ended)
    IN CASE c.state = "MSGTYPE" ->
              Upto(Pcb("LEN", b, hci_preamble_table[b], << >>), s.ended)
         [] c.state = "LEN" ->
              IF t.pcb.left > 0 THEN t
              ELSE WithLength(t, c.type # HCI_SCO_DATA_PACKET \/ scoBuffer)
         [] c.state = "DATA" ->
              IF t.pcb.left > 0 THEN t ELSE End(t, TRUE)
         [] c.state = "IGNORE" ->
              IF t.pcb.left > 0 THEN Upto(Pcb(c.state, c.type, c.left - 1, c.bytes), s.ended)
              ELSE End(s, FALSE)

\* A wrong type ends it
Round(s, b, scoBuffer) ==
    IF s.wrong \/ (s.pcb.state = "MSGTYPE" /\ b \notin 1 .. 4)
    THEN [pcb |-> s.pcb, ended |-> s.ended, wrong |-> TRUE] ELSE OneByte(s, b, scoBuffer)

(* HCI_GetScoBuffer is asked for each packet: scoBuffers are those of the  *)
(* message, by number, that find a buffer                                  *)
Finds(s, scoBuffers) == Len(s.ended) + 1 \in scoBuffers

\* The loop: where it is after each number of bytes
Rounds(pcb, buf, scoBuffers) ==
    LET after[n \in 0 .. Len(buf)] ==
            IF n = 0 THEN Upto(pcb, << >>)
            ELSE Round(after[n - 1], buf[n], Finds(after[n - 1], scoBuffers))
    IN after

(* The parser's state after the message, the packets that ended in it, and *)
(* how many bytes were used: none when a type is wrong.                    *)
hci_h4_receive_msg(pcb, buf, scoBuffers) ==
    LET last == Rounds(pcb, buf, scoBuffers)[Len(buf)]
    IN [pcb |-> last.pcb, ended |-> last.ended, used |-> IF last.wrong THEN 0 ELSE Len(buf)]

(***************************************************************************)
(* The reference: where the parser should be after n bytes of packet p,    *)
(* n < Len(p), without regard to a buffer                                  *)
(***************************************************************************)
Place(p, n) ==
    LET header == hci_preamble_table[p[1]]
    IN CASE n = 0           -> [state |-> "MSGTYPE", left |-> 0]
         [] n \in 1..header -> [state |-> "LEN", left |-> header + 1 - n]
         [] OTHER           -> [state |-> "DATA", left |-> Len(p) - n]

\* The parser is where it should be, with the bytes so far
PlaceFits(pcb, p, n) ==
    /\ pcb.state = Place(p, n).state \/ (pcb.state = "IGNORE" /\ Place(p, n).state = "DATA"
                                         /\ p[1] = HCI_SCO_DATA_PACKET)
    /\ n > 0 => pcb.type = p[1] /\ pcb.left = Place(p, n).left
    /\ n > 0 /\ pcb.state # "IGNORE" => pcb.bytes = SubSeq(p, 2, n)
=============================================================================
