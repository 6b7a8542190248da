---------------------------- MODULE IntersysHci ----------------------------
(***************************************************************************)
(* How BesbtThread, which runs the Bluetooth stack, and the Bluetooth core *)
(* exchange packets: utils/intersyshci/intersyshci.cpp on channel 0 of     *)
(* platform/hal/hal_intersys.c, in the build without a receiving thread    *)
(* (INTERSYS_NO_THREAD, config/common.mk:351) and without BLE.             *)
(*                                                                         *)
(* External: the stack (EVM_Process), which sends while the core grants it *)
(* credits; the other threads that wake BesbtThread; and the core, which   *)
(* shows a message at a time and waits until it is told that it was read.  *)
(***************************************************************************)
EXTENDS IntersysSend, H4

CONSTANTS Packets,      \* the packets of the core, as bytes
          PACKETS,      \* bound: how many it sends ahead
          CREDITS,      \* bound: what the stack may send before the core answers
          EVM_QUEUE     \* bound: the size of evm_queue (128), which drops the rest

(* A type byte, the header of that type, and as many bytes of data as the  *)
(* header says.  The core sends no commands.                               *)
ASSUME PacketsAssumption ==
    \A p \in Packets :
        /\ p \in Seq(0 .. 255) /\ Len(p) > 0
        /\ p[1] \in {HCI_ACL_DATA_PACKET, HCI_SCO_DATA_PACKET, HCI_EVENT_PACKET}
        /\ LET header == hci_preamble_table[p[1]]
           IN /\ Len(p) > header
              /\ Len(p) = header + 1 + MsgLen(p[1], SubSeq(p, 2, header + 1))

\* HAL_INTERSYS_ID_0, the channel of the stack
ASSUME IdsAssumption == Ids # {}

VARIABLES
    thread,             \* BesbtThread waits for evm_queue ("wait"), runs the stack
                        \* ("evm"), sends ("send", then "sent" until the signal),
                        \* polls ("poll"), ends with the message ("read", "cleared")
    evm_queue,          \* how many messages are in it
    signal,             \* 0x1 of BesbtThread
    hci_senddata_buf,
    credits,
    rx_ind,             \* the MCU's interrupt: a message is there to be read
    recv_msg_list,      \* the message the core shows, in its own memory
    intersys_rx_queue,  \* how many messages are in intersys_rx_queue_id
    intersys_rx_buf,    \* whether it points at the core's message
    h4_pcb,
    used_all,           \* ASSERT(usedlen == intersys_rx_buf.len)
    indicated,          \* what this poll gave to HCI_RxBufferInd
    shown,              \* external: the core waits for RECV_DONE
    out,                \* external: the bytes it has not shown yet
    owed                \* external: its packets that have not ended at the stack

threadVars == <<thread, evm_queue, signal, hci_senddata_buf, credits>>
recvVars == <<rx_ind, recv_msg_list, intersys_rx_queue, intersys_rx_buf, h4_pcb, used_all, indicated>>
coreVars == <<shown, out, owed>>
hciVars == <<sendVars, threadVars, recvVars, coreVars>>

ID0 == CHOOSE id \in Ids : TRUE

\* After BESHCI_Open
Init ==
    /\ chan_opened = [id \in Ids |-> TRUE] /\ Quiet
    /\ thread = "wait" /\ evm_queue = 1 /\ signal = FALSE
    /\ hci_senddata_buf \in Messages /\ credits = CREDITS
    /\ rx_ind = FALSE /\ recv_msg_list = << >>
    /\ intersys_rx_queue = 0 /\ intersys_rx_buf = FALSE
    /\ h4_pcb = H4Start /\ used_all = TRUE /\ indicated = << >>
    /\ shown = FALSE /\ out = << >> /\ owed = << >>

(***************************************************************************)
(* BesbtThread                                                             *)
(***************************************************************************)
\* OS_NotifyEvm
NotifyEvm == evm_queue' = IF evm_queue < EVM_QUEUE THEN evm_queue + 1 ELSE evm_queue

\* Another thread gives the stack something to do
Notify == NotifyEvm /\ UNCHANGED <<sendVars, thread, signal, hci_senddata_buf, credits, recvVars, coreVars>>

Wake ==
    /\ thread = "wait" /\ evm_queue > 0
    /\ evm_queue' = evm_queue - 1 /\ thread' = "evm"
    /\ UNCHANGED <<sendVars, signal, hci_senddata_buf, credits, recvVars, coreVars>>

\* hal_intersys_send, whose result is not looked at
Transmit(m) ==
    \/ Send(ID0, m)
    \/ FirstFree(ID0) = {} /\ UNCHANGED sendVars

\* Fault: the signal is cleared after the message was handed over
SendDataFault ==
    \/ /\ thread = "evm" /\ credits > 0
       /\ \E m \in Messages : hci_senddata_buf' = m /\ Transmit(m)
       /\ credits' = credits - 1 /\ thread' = "send" /\ UNCHANGED signal
    \/ /\ thread = "send"
       /\ signal' = FALSE /\ thread' = "sent"
       /\ UNCHANGED <<sendVars, hci_senddata_buf, credits>>

\* BESHCI_SendData: the packet is copied and the signal cleared, then it is
\* handed over and the thread waits
SendData ==
    \/ /\ thread = "evm" /\ credits > 0
       /\ hci_senddata_buf' \in Messages
       /\ signal' = FALSE
       /\ credits' = credits - 1 /\ thread' = "send" /\ UNCHANGED sendVars
    \/ /\ thread = "send"
       /\ Transmit(hci_senddata_buf) /\ thread' = "sent"
       /\ UNCHANGED <<signal, hci_senddata_buf, credits>>

Sending == SendData /\ UNCHANGED <<evm_queue, recvVars, coreVars>>

\* osSignalWait returns, and the stack goes on
Sent ==
    /\ thread = "sent" /\ signal
    /\ signal' = FALSE /\ thread' = "evm"
    /\ UNCHANGED <<sendVars, evm_queue, hci_senddata_buf, credits, recvVars, coreVars>>

EvmReturns ==
    /\ thread = "evm" /\ thread' = "poll"
    /\ UNCHANGED <<sendVars, evm_queue, signal, hci_senddata_buf, credits, recvVars, coreVars>>

(* BESHCI_Poll up to the call of the parser.  The second queue, for what   *)
(* the parser leaves, stays empty while the assertion holds.  A packet at  *)
(* the stack lets it send again.                                           *)
Poll ==
    /\ thread = "poll" /\ intersys_rx_queue > 0
    /\ intersys_rx_queue' = intersys_rx_queue - 1
    /\ \E scoBuffers \in SUBSET (1 .. PACKETS) :
         LET message == IF intersys_rx_buf THEN recv_msg_list ELSE << >>
             r == hci_h4_receive_msg(h4_pcb, message, scoBuffers)
         IN /\ h4_pcb' = r.pcb /\ indicated' = r.ended
            /\ used_all' = (r.used = Len(message))
            /\ owed' = SubSeq(owed, Len(r.ended) + 1, Len(owed))
            /\ credits' = IF r.ended = << >> THEN credits ELSE CREDITS
    /\ thread' = "read"
    /\ UNCHANGED <<sendVars, evm_queue, signal, hci_senddata_buf, rx_ind, recv_msg_list,
                   intersys_rx_buf, shown, out>>

PollNothing ==
    /\ thread = "poll" /\ intersys_rx_queue = 0 /\ thread' = "wait"
    /\ UNCHANGED <<sendVars, evm_queue, signal, hci_senddata_buf, credits, recvVars, coreVars>>

Clear == intersys_rx_buf' = FALSE /\ UNCHANGED <<shown, recv_msg_list>>

\* hal_intersys_rx_done: the core takes its message back
Tell == shown' = FALSE /\ recv_msg_list' = << >> /\ UNCHANGED intersys_rx_buf

\* Fault: the core is told before the message is cleared
FinishFault ==
    \/ thread = "read" /\ thread' = "cleared" /\ Tell
    \/ thread = "cleared" /\ thread' = "wait" /\ Clear

\* The rest of BESHCI_Poll
Finish ==
    \/ thread = "read" /\ thread' = "cleared" /\ Clear
    \/ thread = "cleared" /\ thread' = "wait" /\ Tell

PollEnds ==
    /\ Finish
    /\ indicated' = << >>
    /\ UNCHANGED <<sendVars, evm_queue, signal, hci_senddata_buf, credits, rx_ind,
                   intersys_rx_queue, h4_pcb, used_all, out, owed>>

(***************************************************************************)
(* Interrupts                                                              *)
(***************************************************************************)
\* hal_intersys_tx_irq with bt_tx
SignalIrq ==
    /\ TxIrq(ID0) /\ signal' = TRUE
    /\ UNCHANGED <<thread, evm_queue, hci_senddata_buf, credits, recvVars, coreVars>>

\* Fault: the stack is not notified
TakeFault ==
    /\ intersys_rx_buf' = TRUE
    /\ intersys_rx_queue' = intersys_rx_queue + 1
    /\ UNCHANGED evm_queue

\* bt_rx
Take ==
    /\ intersys_rx_buf' = TRUE
    /\ intersys_rx_queue' = intersys_rx_queue + 1
    /\ NotifyEvm

(* hal_intersys_rx_irq with flow control: bt_rx takes the whole message,   *)
(* and the core is told later, by the poll.                                *)
RxIrq ==
    /\ rx_ind /\ rx_ind' = FALSE
    /\ Take
    /\ UNCHANGED <<sendVars, thread, signal, hci_senddata_buf, credits, recv_msg_list, h4_pcb,
                   used_all, indicated, coreVars>>

(***************************************************************************)
(* The core                                                                *)
(***************************************************************************)
CoreSends(p) ==
    /\ Len(owed) < PACKETS
    /\ owed' = Append(owed, p) /\ out' = out \o p
    /\ UNCHANGED <<sendVars, threadVars, recvVars, shown>>

CoreShows(k) ==
    /\ ~shown /\ shown' = TRUE
    /\ recv_msg_list' = SubSeq(out, 1, k) /\ out' = SubSeq(out, k + 1, Len(out))
    /\ rx_ind' = TRUE
    /\ UNCHANGED <<sendVars, threadVars, intersys_rx_queue, intersys_rx_buf, h4_pcb, used_all,
                   indicated, owed>>

CoreReads == Core(ID0) /\ UNCHANGED <<threadVars, recvVars, coreVars>>

Thread == Wake \/ Sending \/ Sent \/ EvmReturns \/ Poll \/ PollNothing \/ PollEnds

Next ==
    \/ Notify \/ Wake \/ Sending \/ Sent \/ EvmReturns \/ Poll \/ PollNothing \/ PollEnds
    \/ SignalIrq \/ RxIrq
    \/ \E p \in Packets : CoreSends(p)
    \/ \E k \in 1 .. Len(out) : CoreShows(k)
    \/ CoreReads

Spec == Init /\ [][Next]_hciVars

\* ENABLED Thread: BesbtThread only waits for evm_queue and for the signal
ThreadReady == (thread = "wait" => evm_queue > 0) /\ (thread = "sent" => signal)

(* The thread runs when it can (what WF_hciVars(Thread) says, without       *)
(* ENABLED of the parser), interrupts are taken, and the core reads what   *)
(* it is sent.                                                             *)
FairSpec ==
    /\ Spec
    /\ []<>~ThreadReady \/ []<><<Thread>>_hciVars
    /\ WF_hciVars(SignalIrq) /\ WF_hciVars(RxIrq) /\ WF_hciVars(CoreReads)

(***************************************************************************)
(* Properties                                                              *)
(***************************************************************************)
\* What the stack has not read of what the core began to send
Remaining ==
    (IF rx_ind \/ intersys_rx_queue > 0 THEN recv_msg_list ELSE << >>) \o out

\* The bytes of some packets
Joined(packets) ==
    LET first[n \in 0 .. Len(packets)] ==
            IF n = 0 THEN << >> ELSE first[n - 1] \o packets[n]
    IN first[Len(packets)]

(* However the core cuts its packets into messages, and whenever its       *)
(* interrupts come, no byte is lost or read twice: what is left is the end *)
(* of the packets it owes, and the parser is where their beginning put it. *)
InStep ==
    LET all  == Joined(owed)
        n    == Len(all) - Len(Remaining)
    IN /\ n >= 0 /\ Remaining = SubSeq(all, n + 1, Len(all))
       /\ IF owed = << >> THEN h4_pcb.state = "MSGTYPE"
          ELSE n < Len(Head(owed)) /\ PlaceFits(h4_pcb, Head(owed), n)

(* Every packet of the core reaches the stack, whole and in order, but for *)
(* SCO data that found no buffer (intersyshci.cpp:450); and the parser     *)
(* leaves nothing of a message (the assertion at :905).                    *)
InOrder ==
    [][/\ used_all'
       /\ thread = "poll" /\ thread' = "read" => \A i \in 1 .. Len(indicated') :
            \/ indicated'[i] = owed[i]
            \/ indicated'[i] = << >> /\ owed[i][1] = HCI_SCO_DATA_PACKET]_hciVars

(* The thread that waits in BESHCI_SendData for the core, for ever if need *)
(* be (osWaitForever, intersyshci.cpp:724), goes on.                       *)
SendEnds == thread = "sent" ~> thread = "evm"

(* A message of the core is read and the core told, though the thread may  *)
(* be sending, and evm_queue full or already read.                         *)
CoreTold == shown ~> ~shown
=============================================================================
