---------------------------- MODULE IntersysSend ----------------------------
(***************************************************************************)
(* The channels on which the MCU sends messages to the Bluetooth core:     *)
(* platform/hal/hal_intersys.c.  A message waits in one of a few records.  *)
(* The core walks the list it was shown while the MCU goes on sending, so  *)
(* messages sent meanwhile go to a second list, which takes the place of   *)
(* the first when the core has read it all.  The system may not sleep      *)
(* while a channel is busy.                                                *)
(*                                                                         *)
(* The core is external: shown a list, it reads the messages one by one,   *)
(* at its own pace, and then says so.  A channel is opened and closed when *)
(* it is at rest, as btdrv_SendData's wait of 1 ms is meant to ensure.     *)
(***************************************************************************)
EXTENDS Naturals, Sequences, Lists

CONSTANTS
    Ids,                    \* HAL_INTERSYS_ID_0, HAL_INTERSYS_ID_1
    MAX_SEND_RECORD_COUNT,
    Messages                \* what a sender's buffer holds

ASSUME SendAssumption == MAX_SEND_RECORD_COUNT \in Nat \ {0}

Records == 1 .. MAX_SEND_RECORD_COUNT

VARIABLES
    chan_opened,
    in_use,             \* of every channel's records
    data,               \* of every channel's records
    send_msg_list,      \* the records of the list the core was shown
    send_pending_list,  \* the records of the list it will be shown next
    chan_busy,
    busy_now,           \* the wake lock is held: the two are assigned together
    ind,                \* the core's interrupt: a list is there to be read
    done,               \* the MCU's interrupt: the list has been read
    reading,            \* external: the core is at the list
    got                 \* external: the messages it has read of the list

lists == <<send_msg_list, send_pending_list>>
records == <<in_use, data>>
busy == <<chan_busy, busy_now>>
core == <<reading, got>>
sendVars == <<chan_opened, records, lists, busy, ind, done, core>>

Quiet ==
    /\ in_use = [id \in Ids |-> [r \in Records |-> FALSE]]
    /\ data \in [Ids -> {[r \in Records |-> m] : m \in Messages}]
    /\ send_msg_list = [id \in Ids |-> << >>] /\ send_pending_list = [id \in Ids |-> << >>]
    /\ chan_busy = [id \in Ids |-> FALSE] /\ busy_now = FALSE
    /\ ind = [id \in Ids |-> FALSE] /\ done = [id \in Ids |-> FALSE]
    /\ reading = [id \in Ids |-> FALSE] /\ got = [id \in Ids |-> << >>]

SendInit == chan_opened = [id \in Ids |-> FALSE] /\ Quiet

(***************************************************************************)
(* The MCU                                                                 *)
(***************************************************************************)
AtRest(id) == send_msg_list[id] = << >>

\* hal_intersys_open: what it clears is clear already
Open(id) ==
    /\ AtRest(id)
    /\ chan_opened' = [chan_opened EXCEPT ![id] = TRUE]
    /\ UNCHANGED <<records, lists, busy, ind, done, core>>

Close(id) ==
    /\ AtRest(id)
    /\ chan_opened' = [chan_opened EXCEPT ![id] = FALSE]
    /\ UNCHANGED <<records, lists, busy, ind, done, core>>

\* Fault: the lock is let go with the first channel that rests
BusyFault(id, b) ==
    /\ chan_busy' = [chan_busy EXCEPT ![id] = b]
    /\ busy_now' = b

\* hal_intersys_busy: the lock is taken with the first busy channel and let go with the last
Busy(id, b) ==
    /\ chan_busy' = [chan_busy EXCEPT ![id] = b]
    /\ busy_now' = \E i \in Ids : chan_busy'[i]

\* The first record that is not in use, if there is one
FirstFree(id) == {r \in Records : ~in_use[id][r] /\ \A s \in 1 .. r - 1 : in_use[id][s]}

\* Fault: the message is put behind those the core is reading
LinkFault(id, r) ==
    /\ send_msg_list' = [send_msg_list EXCEPT ![id] = Append(@, r)]
    /\ ind' = [ind EXCEPT ![id] = @ \/ send_msg_list[id] = << >>]
    /\ UNCHANGED send_pending_list

\* Where hal_intersys_send puts the record
Link(id, r) ==
    IF send_msg_list[id] = << >>
    THEN /\ send_msg_list' = [send_msg_list EXCEPT ![id] = <<r>>]
         /\ ind' = [ind EXCEPT ![id] = TRUE]
         /\ UNCHANGED send_pending_list
    ELSE /\ send_pending_list' = [send_pending_list EXCEPT ![id] = Append(@, r)]
         /\ UNCHANGED <<send_msg_list, ind>>

\* hal_intersys_send, under int_lock; without a free record it is refused
Send(id, m) ==
    /\ chan_opened[id]
    /\ \E r \in FirstFree(id) :
         /\ in_use' = [in_use EXCEPT ![id][r] = TRUE]
         /\ data' = [data EXCEPT ![id][r] = m]
         /\ Link(id, r)
    /\ Busy(id, TRUE)
    /\ UNCHANGED <<chan_opened, done, core>>

\* Fault: the records of both lists are released
ReleaseFault(id) == [r \in Records |-> FALSE]

\* The senders of the messages that were read are told, and their records are free
Release(id) == [r \in Records |-> in_use[id][r] /\ r \notin InList(send_msg_list[id])]

\* Fault: the core is not told of the second list
ShowFault(id) == UNCHANGED ind

\* hal_intersys_peer_irq_set(id, HAL_INTERSYS_IRQ_SEND_IND)
Show(id) == ind' = [ind EXCEPT ![id] = TRUE]

\* hal_intersys_tx_irq
TxIrq(id) ==
    /\ done[id] /\ done' = [done EXCEPT ![id] = FALSE]
    /\ in_use' = [in_use EXCEPT ![id] = Release(id)]
    /\ send_msg_list' = [send_msg_list EXCEPT ![id] = send_pending_list[id]]
    /\ send_pending_list' = [send_pending_list EXCEPT ![id] = << >>]
    /\ IF send_pending_list[id] # << >>
       THEN Show(id) /\ UNCHANGED busy
       ELSE Busy(id, FALSE) /\ UNCHANGED ind
    /\ got' = [got EXCEPT ![id] = << >>]
    /\ UNCHANGED <<chan_opened, data, reading>>

(***************************************************************************)
(* The core                                                                *)
(***************************************************************************)
CoreStart(id) ==
    /\ ind[id] /\ ~reading[id]
    /\ ind' = [ind EXCEPT ![id] = FALSE]
    /\ reading' = [reading EXCEPT ![id] = TRUE]
    /\ UNCHANGED <<chan_opened, records, lists, busy, done, got>>

CoreRead(id) ==
    /\ reading[id] /\ Len(got[id]) < Len(send_msg_list[id])
    /\ got' = [got EXCEPT ![id] = Append(@, data[id][send_msg_list[id][Len(@) + 1]])]
    /\ UNCHANGED <<chan_opened, records, lists, busy, ind, done, reading>>

CoreDone(id) ==
    /\ reading[id] /\ Len(got[id]) >= Len(send_msg_list[id])
    /\ reading' = [reading EXCEPT ![id] = FALSE]
    /\ done' = [done EXCEPT ![id] = TRUE]
    /\ UNCHANGED <<chan_opened, records, lists, busy, ind, got>>

Core(id) == CoreStart(id) \/ CoreRead(id) \/ CoreDone(id)

SendNext ==
    \E id \in Ids :
        \/ Open(id) \/ Close(id)
        \/ \E m \in Messages : Send(id, m)
        \/ TxIrq(id)
        \/ CoreStart(id) \/ CoreRead(id) \/ CoreDone(id)

SendSpec == SendInit /\ [][SendNext]_sendVars

\* The core reads what it is shown, and an interrupt that is raised is taken.
SendFairSpec ==
    /\ SendSpec
    /\ \A id \in Ids : WF_sendVars(TxIrq(id)) /\ WF_sendVars(Core(id))

(***************************************************************************)
(* Properties                                                              *)
(***************************************************************************)
\* The values of the variables of hal_intersys.c and of the core.
TypeOK ==
    /\ chan_opened \in [Ids -> BOOLEAN]
    /\ in_use \in [Ids -> [Records -> BOOLEAN]]
    /\ data \in [Ids -> [Records -> Messages]]
    /\ send_msg_list \in [Ids -> Seq(Records)] /\ send_pending_list \in [Ids -> Seq(Records)]
    /\ chan_busy \in [Ids -> BOOLEAN] /\ busy_now \in BOOLEAN
    /\ ind \in [Ids -> BOOLEAN] /\ done \in [Ids -> BOOLEAN]
    /\ reading \in [Ids -> BOOLEAN] /\ got \in [Ids -> Seq(Messages)]

(* A record is in use exactly while it is linked, once, in one of the two  *)
(* lists: none leaks, so that sending is not refused for ever, and none is *)
(* rewritten under the core.                                               *)
RecordsAccounted ==
    \A id \in Ids :
        LET all == send_msg_list[id] \o send_pending_list[id]
        IN Distinct(all) /\ \A r \in Records : in_use[id][r] <=> r \in InList(all)

(* The system can sleep exactly when no channel has a message under way    *)
(* ("Prohibit sleep here", hal_intersys.c:440, "Allow sleep", :297).       *)
AwakeWhileSending == busy_now <=> \E id \in Ids : send_msg_list[id] # << >>

Contents(d, list) == [k \in 1 .. Len(list) |-> d[list[k]]]

\* The messages of two lists, of which n of the first have been read
Left(d, first, n, second) ==
    Contents(d, SubSeq(first, n + 1, Len(first))) \o Contents(d, second)

Unread(id) == Left(data[id], send_msg_list[id], Len(got[id]), send_pending_list[id])

Promise(id) == INSTANCE MessageChannel WITH
    Room <- MAX_SEND_RECORD_COUNT, waiting <- Unread(id), read <- got[id]

(* Every channel is a MessageChannel: with two lists, records used again   *)
(* and a core that reads while the MCU sends, each message is read once,   *)
(* in order, as it was sent, and is given back after that.                 *)
ChannelsKept ==
    /\ \A id \in Ids : Promise(id)!Init
    /\ [][\A id \in Ids : Promise(id)!Next \/ UNCHANGED <<Unread(id), got[id]>>]_sendVars

\* A record that is taken is given back.
GivenBack == \A id \in Ids : \A r \in Records : in_use[id][r] ~> ~in_use[id][r]
=============================================================================
