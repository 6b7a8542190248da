------------------------------ MODULE NvRecord ------------------------------
(***************************************************************************)
(* The paired devices and their two copies in flash:                       *)
(* services/nvrecord/nvrecord.c (over nvrec_config.c), with the callers    *)
(* that decide when the flash is written: the app thread when an audio     *)
(* stream closes, the idle thread before deep sleep, power off and resets. *)
(*                                                                         *)
(* Threads.  The records are changed by the Bluetooth thread, which holds  *)
(* the stack lock; the app thread and power off have a higher priority and *)
(* do not take that lock to write the flash, so they can run in the middle *)
(* of a change.  The idle thread runs only when the others have nothing to *)
(* do.  The flash is written with interrupts masked: what can come between *)
(* the erasure and the end of the write is a loss of power.                *)
(*                                                                         *)
(* usrdata_ddblist_pool holds a header and the heap the records live in.   *)
(* The heap is the list `ddb' and the settings of the devices in it; a     *)
(* checksum is the set of the one heap it was computed over, {} where no   *)
(* heap has it.  The names of the firmware build are numbered.             *)
(***************************************************************************)
EXTENDS Lists

CONSTANTS
    Devices,           \* Bluetooth addresses
    Settings,          \* volumes and profiles kept for a device
    Default,           \* those of a device recorded for the first time
    DDB_RECORD_NUM,    \* number of records
    QUICK_PWR_ON,      \* whether the build defines _QUICK_PWR_ON_
    MaxBuild           \* bound: firmware downloads

ASSUME NvRecordAssumption ==
    /\ DDB_RECORD_NUM \in Nat \ {0}
    /\ Default \in Settings
    /\ QUICK_PWR_ON \in BOOLEAN
    /\ MaxBuild \in Nat

Heaps == [list : Seq(Devices), set : [Devices -> Settings]]
EmptyHeap == [list |-> <<>>, set |-> [d \in Devices |-> Default]]

VARIABLES
    power,        \* "on" or "off"
    ddb,          \* the pool's heap: the ddbrec section, oldest device first
    crc,          \* usrdata_ddblist_pool[pos_crc]
    crc_buildinfo,\* usrdata_ddblist_pool[pos_crc_buildinfo]
    is_update,    \* nv_record_config.is_update
    add,          \* the device nv_record_ddbrec_add is about to append, if any
    written,      \* a setting is written and its touch is still to come
    need_flush,   \* need_flush_flash_switch_audio
    need_bak,     \* need_flush_flash_bak
    timer,        \* the timer that postpones the backup runs
    main,         \* flash at __userdata_start
    bak,          \* flash at __userdata_start_backup
    build         \* sys_build_info

ram == <<ddb, crc, crc_buildinfo, is_update, add, written, need_flush, need_bak, timer>>
vars == <<power, ram, main, bak, build>>

(***************************************************************************)
(* The flash                                                               *)
(***************************************************************************)
Sections == [crc : SUBSET Heaps, data : Heaps, build : Nat, torn : BOOLEAN]

Erased == [crc |-> {}, data |-> EmptyHeap, build |-> 0, torn |-> TRUE]

\* A write cut short after the header
Torn(c) == [Erased EXCEPT !.crc = c]

\* nv_record_data_is_valid
Valid(sec) == ~sec.torn /\ sec.crc = {sec.data}

\* What nv_record_flash_flush writes, and what nv_record_flash_backup does
FlushImage(h) == [crc |-> {h}, data |-> h, build |-> build, torn |-> FALSE]
\* ... were the checksum computed again; a name with the suffix `Fault' is a
\* fault that a change of the code could bring in
BackupImageFault == [crc |-> {ddb}, data |-> ddb, build |-> crc_buildinfo, torn |-> FALSE]

BackupImage == [crc |-> crc, data |-> ddb, build |-> crc_buildinfo, torn |-> FALSE]

(* nv_record_flash_flush, once it has the lock.                            *)
nv_record_flash_flush ==
    /\ IF is_update
       THEN /\ crc' = {ddb} /\ crc_buildinfo' = build
            /\ main' = FlushImage(ddb)
            /\ is_update' = FALSE
       ELSE UNCHANGED <<crc, crc_buildinfo, main, is_update>>
    /\ UNCHANGED ddb

nv_record_flash_backup == bak' = BackupImage

(***************************************************************************)
(* The records                                                             *)
(***************************************************************************)
Recorded(d) == d \in InList(ddb.list)

StackLockFree == power = "on" /\ add = <<>> /\ ~written

\* ... were the record freed and left in the list
ForgetLinkedFault(h, d) == [h EXCEPT !.set[d] = Default]

\* The settings of a device go with its record
Forget(h, d) ==
    [list |-> Without(h.list, Position(h.list, d)), set |-> [h.set EXCEPT ![d] = Default]]

(* nv_record_ddbrec_add up to the allocation of the record: a device that  *)
(* has one keeps its settings in local variables, another takes the place  *)
(* of the oldest when the list is full.                                    *)
AddBegin(d) ==
    /\ StackLockFree
    /\ IF Recorded(d)
       THEN /\ ddb' = Forget(ddb, d)
            /\ add' = <<[dev |-> d, set |-> ddb.set[d]]>>
            /\ is_update' = TRUE
       ELSE /\ ddb' = IF Len(ddb.list) = DDB_RECORD_NUM
                      THEN Forget(ddb, Head(ddb.list)) ELSE ddb
            /\ add' = <<[dev |-> d, set |-> Default]>>
            /\ UNCHANGED is_update
    /\ UNCHANGED <<power, crc, crc_buildinfo, written, need_flush, need_bak, timer, main, bak, build>>

\* ... were the record put first, its settings those of a new one, or the
\* update not marked
AddFirstFault ==
    /\ power = "on" /\ add # <<>>
    /\ ddb' = [list |-> <<add[1].dev>> \o ddb.list,
               set |-> [ddb.set EXCEPT ![add[1].dev] = add[1].set]]
    /\ is_update' = TRUE
    /\ add' = <<>>
    /\ UNCHANGED <<power, crc, crc_buildinfo, written, need_flush, need_bak, timer, main, bak, build>>

AddDefaultFault ==
    /\ power = "on" /\ add # <<>>
    /\ ddb' = [ddb EXCEPT !.list = Append(@, add[1].dev)]
    /\ is_update' = TRUE
    /\ add' = <<>>
    /\ UNCHANGED <<power, crc, crc_buildinfo, written, need_flush, need_bak, timer, main, bak, build>>

AddQuietFault ==
    /\ power = "on" /\ add # <<>>
    /\ ddb' = [list |-> Append(ddb.list, add[1].dev),
               set |-> [ddb.set EXCEPT ![add[1].dev] = add[1].set]]
    /\ add' = <<>>
    /\ UNCHANGED <<power, is_update, crc, crc_buildinfo, written, need_flush, need_bak, timer, main, bak, build>>

\* ... and the rest of it
AddEnd ==
    /\ power = "on" /\ add # <<>>
    /\ ddb' = [list |-> Append(ddb.list, add[1].dev),
               set |-> [ddb.set EXCEPT ![add[1].dev] = add[1].set]]
    /\ is_update' = TRUE
    /\ add' = <<>>
    /\ UNCHANGED <<power, crc, crc_buildinfo, written, need_flush, need_bak, timer, main, bak, build>>

nv_record_ddbrec_delete(d) ==
    /\ StackLockFree /\ Recorded(d)
    /\ ddb' = Forget(ddb, d)
    /\ is_update' = TRUE
    /\ UNCHANGED <<power, crc, crc_buildinfo, add, written, need_flush, need_bak, timer, main, bak, build>>

(* A volume or a profile is written through a pointer into the record ...  *)
WriteSetting(d, s) ==
    /\ StackLockFree /\ Recorded(d) /\ s # ddb.set[d]
    /\ ddb' = [ddb EXCEPT !.set[d] = s]
    /\ written' = TRUE
    /\ UNCHANGED <<power, crc, crc_buildinfo, is_update, add, need_flush, need_bak, timer, main, bak, build>>

\* ... and then marked to be saved.
nv_record_touch_cause_flush ==
    /\ power = "on" /\ written
    /\ is_update' = TRUE
    /\ written' = FALSE
    /\ UNCHANGED <<power, ddb, crc, crc_buildinfo, add, need_flush, need_bak, timer, main, bak, build>>

(***************************************************************************)
(* When the flash is written                                               *)
(***************************************************************************)
app_audio_switch_flash_flush_req ==
    /\ power = "on" /\ ~need_flush
    /\ need_flush' = TRUE
    /\ UNCHANGED <<power, ddb, crc, crc_buildinfo, is_update, add, written, need_bak, timer, main, bak, build>>

nv_record_postpone_to_save_bak_userdata ==
    /\ power = "on" /\ timer
    /\ timer' = FALSE
    /\ need_bak' = TRUE
    /\ UNCHANGED <<power, ddb, crc, crc_buildinfo, is_update, add, written, need_flush, main, bak, build>>

\* app_audio_switch_flash_proc flushes first and puts the backup off
SwitchFlash ==
    /\ power = "on" /\ need_flush
    /\ nv_record_flash_flush
    /\ need_flush' = FALSE
    /\ timer' = TRUE
    /\ UNCHANGED <<power, add, written, need_bak, bak, build>>

\* ... to a later call, after the timer
SwitchBackup ==
    /\ power = "on" /\ ~need_flush /\ need_bak
    /\ nv_record_flash_backup
    /\ need_bak' = FALSE
    /\ UNCHANGED <<power, ddb, crc, crc_buildinfo, is_update, add, written, need_flush, timer, main, build>>

\* hal_sleep_lowpower_hook, from the idle thread
SleepFlush ==
    /\ StackLockFree /\ is_update
    /\ nv_record_flash_flush
    /\ UNCHANGED <<power, add, written, need_flush, need_bak, timer, bak, build>>

\* app_deinit: more may be changed before the power is cut
DeinitFlush ==
    /\ power = "on" /\ is_update
    /\ nv_record_flash_flush
    /\ UNCHANGED <<power, add, written, need_flush, need_bak, timer, bak, build>>

(* The end of app_reset_phone_paired_list_during_charge, which has deleted *)
(* the phones: both copies are written, one after the other.               *)
FlushAndBackup ==
    /\ StackLockFree
    /\ crc' = {ddb} /\ crc_buildinfo' = build
    /\ main' = FlushImage(ddb)
    /\ bak' = FlushImage(ddb)
    /\ is_update' = FALSE
    /\ UNCHANGED <<power, ddb, add, written, need_flush, need_bak, timer, build>>

(* app_reset_paired_device_list, with no connection: both copies are       *)
(* erased by nv_record_sector_clear, nv_record_open finds neither valid    *)
(* and starts a new heap, and that is flushed.                             *)
ResetList ==
    /\ StackLockFree
    /\ ddb' = EmptyHeap /\ crc' = {EmptyHeap} /\ crc_buildinfo' = build
    /\ main' = FlushImage(EmptyHeap)
    /\ bak' = Erased
    /\ is_update' = FALSE
    /\ UNCHANGED <<power, add, written, need_flush, need_bak, timer, build>>

(***************************************************************************)
(* Loss of power, and the next start                                       *)
(***************************************************************************)
RamCleared ==
    /\ ddb' = EmptyHeap /\ crc' = {} /\ crc_buildinfo' = 0
    /\ is_update' = FALSE /\ add' = <<>> /\ written' = FALSE
    /\ need_flush' = FALSE /\ need_bak' = FALSE /\ timer' = FALSE

PowerLost ==
    /\ power = "on" /\ power' = "off"
    /\ RamCleared
    /\ UNCHANGED build

LosePower == PowerLost /\ UNCHANGED <<main, bak>>

LosePowerInFlush == PowerLost /\ is_update /\ main' = Erased /\ UNCHANGED bak

LosePowerInBackup ==
    /\ PowerLost /\ ~need_flush /\ need_bak
    /\ bak' \in {Erased, Torn(crc)}
    /\ UNCHANGED main

LosePowerInReset ==
    /\ PowerLost /\ StackLockFree
    /\ \/ main' = Erased /\ bak' \in {bak, Erased}
       \/ main' = FlushImage(ddb) /\ bak' \in {Erased, Torn({ddb})}

\* A firmware download may erase the first copy; it never sees the second
Download ==
    /\ power = "off" /\ build < MaxBuild
    /\ build' = build + 1
    /\ main' \in {main, Erased}
    /\ UNCHANGED <<power, ram, bak>>

Started ==
    /\ power = "off" /\ power' = "on"
    /\ UNCHANGED <<add, written, need_flush, need_bak, timer, build>>

\* is_backup_different_with_userdata looks at the checksum in the copy only
BackupDiffers == ~QUICK_PWR_ON /\ bak.crc # {main.data}

(* nv_record_open when the first copy is valid ...                         *)
OpenMain ==
    /\ Started /\ Valid(main)
    /\ ddb' = main.data /\ crc' = main.crc /\ crc_buildinfo' = main.build
    /\ is_update' = FALSE
    /\ bak' = IF BackupDiffers THEN main ELSE bak
    /\ UNCHANGED main

\* ... which can fail in nv_record_flash_backup ...
OpenMainFails ==
    /\ power = "off" /\ Valid(main) /\ BackupDiffers
    /\ bak' \in {Erased, Torn(main.crc)}
    /\ UNCHANGED <<power, ram, main, build>>

\* ... were the first copy left as it is when the second is loaded
OpenBackupFault ==
    /\ Started /\ ~Valid(main) /\ Valid(bak) /\ bak.build = build
    /\ ddb' = bak.data /\ crc' = {bak.data} /\ crc_buildinfo' = build
    /\ is_update' = FALSE
    /\ UNCHANGED <<main, bak>>

\* ... when only the second one is, and of the same build ...
OpenBackup ==
    /\ Started /\ ~Valid(main) /\ Valid(bak) /\ bak.build = build
    /\ ddb' = bak.data /\ crc' = {bak.data} /\ crc_buildinfo' = build
    /\ is_update' = FALSE
    /\ main' = FlushImage(bak.data)
    /\ UNCHANGED bak

\* ... and when none is.  nv_record_env_init adds a record of its own.
OpenEmpty ==
    /\ Started /\ ~Valid(main) /\ ~(Valid(bak) /\ bak.build = build)
    /\ ddb' = EmptyHeap /\ crc' = {EmptyHeap} /\ crc_buildinfo' = build
    /\ is_update' = TRUE
    /\ main' = FlushImage(EmptyHeap)
    /\ UNCHANGED bak

-----------------------------------------------------------------------------
Init ==
    /\ power = "off"
    /\ ddb = EmptyHeap /\ crc = {} /\ crc_buildinfo = 0
    /\ is_update = FALSE /\ add = <<>> /\ written = FALSE
    /\ need_flush = FALSE /\ need_bak = FALSE /\ timer = FALSE
    /\ main = Erased /\ bak = Erased
    /\ build = 1

Change ==
    \/ \E d \in Devices : AddBegin(d) \/ nv_record_ddbrec_delete(d)
    \/ \E d \in Devices, s \in Settings : WriteSetting(d, s)
    \/ AddEnd
    \/ nv_record_touch_cause_flush

Write ==
    \/ app_audio_switch_flash_flush_req
    \/ nv_record_postpone_to_save_bak_userdata
    \/ SwitchFlash \/ SwitchBackup \/ SleepFlush \/ DeinitFlush
    \/ FlushAndBackup \/ ResetList

Failure ==
    LosePower \/ LosePowerInFlush \/ LosePowerInBackup \/ LosePowerInReset \/ Download

Open == OpenMain \/ OpenMainFails \/ OpenBackup \/ OpenEmpty

Next == Change \/ Write \/ Failure \/ Open

Spec == Init /\ [][Next]_vars

-----------------------------------------------------------------------------
\* Every variable has its type.
TypeOK ==
    /\ power \in {"on", "off"}
    /\ ddb \in Heaps
    /\ crc \in SUBSET Heaps /\ crc_buildinfo \in Nat
    /\ is_update \in BOOLEAN /\ written \in BOOLEAN
    /\ add \in Seq([dev : Devices, set : Settings])
    /\ need_flush \in BOOLEAN /\ need_bak \in BOOLEAN /\ timer \in BOOLEAN
    /\ main \in Sections /\ bak \in Sections
    /\ build \in Nat

Sound(h) == Distinct(h.list) /\ Len(h.list) <= DDB_RECORD_NUM

(* No device is recorded twice and no list grows beyond DDB_RECORD_NUM, in *)
(* RAM or in a copy that nv_record_open would load: not when a record is   *)
(* moved to the end in two steps and the flash is written in between, nor  *)
(* after any loss of power.                                                *)
RecordsSound ==
    /\ Sound(ddb)
    /\ Valid(main) => Sound(main.data)
    /\ Valid(bak) => Sound(bak.data)

(* When nothing is marked to be saved and no change is under way, the      *)
(* first copy in flash is the heap in RAM: no flush is skipped by the test *)
(* of is_update that was needed.                                           *)
CleanMeansSaved ==
    power = "on" /\ ~is_update /\ add = <<>> /\ ~written =>
        Valid(main) /\ main.data = ddb

(* While the device runs the first copy is valid, so that a loss of power  *)
(* in a backup leaves one.                                                 *)
RunningMeansSaved == power = "on" => Valid(main)

(* The order of the records is the order in which the devices were added   *)
(* last: a step keeps the order of two records, and a new one is the last. *)
(* nv_record_enum_latest_two_paired_dev and the eviction depend on it.     *)
Before(h, d, e) == Position(h.list, d) < Position(h.list, e)
RecencyKept ==
    [][power = "on" /\ power' = "on" =>
         /\ \A d, e \in InList(ddb.list) \cap InList(ddb'.list) :
              Before(ddb, d, e) => Before(ddb', d, e)
         /\ \A d \in InList(ddb.list), e \in InList(ddb'.list) \ InList(ddb.list) :
              d \in InList(ddb'.list) => Before(ddb', d, e)]_vars

Adding(d) == add # <<>> /\ add[1].dev = d
Known(d) == Recorded(d) \/ Adding(d)
SettingsOf(d) == IF Adding(d) THEN add[1].set ELSE ddb.set[d]

(* Pairing again keeps the volumes and profiles of a device, and adding    *)
(* one pushes out no other than the oldest of a full list.                 *)
OthersKept ==
    [][power = "on" /\ power' = "on" =>
         \A d \in Devices :
           /\ Known(d) /\ Known(d)' /\ ~written' => SettingsOf(d)' = SettingsOf(d)
           /\ Known(d) /\ ~Known(d)' /\ add' # <<>> =>
                Len(ddb.list) = DDB_RECORD_NUM /\ d = Head(ddb.list)]_vars

(* A backup that can be loaded holds what the first copy held when it was  *)
(* written, although the heap may have changed since the flush.            *)
BackupCopiesMain ==
    [][bak' # bak /\ Valid(bak') => Valid(main') /\ bak'.data = main'.data]_vars

-----------------------------------------------------------------------------
(* The device goes to deep sleep again and again; threads finish.          *)
LiveSpec ==
    /\ Spec
    /\ SF_vars(SleepFlush)
    /\ WF_vars(AddEnd) /\ WF_vars(nv_record_touch_cause_flush)

(* A device that is added gets into the flash, unless it is removed or the *)
(* power is lost first.                                                    *)
AddedIsSaved ==
    \A d \in Devices :
        Adding(d) ~> \/ d \in InList(main.data.list)
                     \/ ~Known(d)
                     \/ power = "off"
=============================================================================
