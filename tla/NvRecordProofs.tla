--------------------------- MODULE NvRecordProofs ---------------------------
(***************************************************************************)
(* The records of NvRecord for any devices, settings and number of         *)
(* records, and any losses of power: the lists in RAM and in flash are     *)
(* sound, what is not marked to be saved is saved, and a backup that can   *)
(* be loaded is a copy of the first section.                               *)
(***************************************************************************)
EXTENDS NvRecord, ListLemmas

(* A record that is about to be appended is one step of the thread that    *)
(* holds the stack lock; it has room and is not in the list.               *)
AddHasRoom ==
    add # <<>> => /\ Len(add) = 1
                  /\ ~Recorded(add[1].dev)
                  /\ Len(ddb.list) < DDB_RECORD_NUM

(* While the device runs, the checksum in the pool's header is that of the *)
(* first section.                                                          *)
HeaderAgrees == power = "on" => crc = {main.data}

\* Without power no change is under way.
OffIsIdle == power = "off" => add = <<>>

(* The inductive invariant.  That lists are sound in RAM after a start     *)
(* needs that they were in flash, and there that they were in RAM, even in *)
(* the middle of adding a record; the rest relates the two.                *)
IInv ==
    /\ TypeOK /\ RecordsSound /\ AddHasRoom
    /\ CleanMeansSaved /\ RunningMeansSaved /\ HeaderAgrees /\ OffIsIdle

-----------------------------------------------------------------------------
\* A heap without a device is a sound heap that has room for one.
LEMMA ForgetProperties ==
    ASSUME NEW h \in Heaps, Sound(h), NEW d \in InList(h.list), NvRecordAssumption
    PROVE  /\ Forget(h, d) \in Heaps
           /\ Sound(Forget(h, d))
           /\ InList(Forget(h, d).list) = InList(h.list) \ {d}
           /\ Len(Forget(h, d).list) < DDB_RECORD_NUM
<1> DEFINE k == Position(h.list, d)
<1>1. /\ h.list \in Seq(Devices) /\ h.set \in [Devices -> Settings]
      /\ Distinct(h.list) /\ Len(h.list) <= DDB_RECORD_NUM
      /\ Len(h.list) \in Nat
  BY LenProperties DEF Heaps, Sound
<1>2. k \in 1 .. Len(h.list) /\ h.list[k] = d
  BY <1>1, PositionProperties
<1>3. /\ Without(h.list, k) \in Seq(Devices)
      /\ Distinct(Without(h.list, k))
      /\ InList(Without(h.list, k)) = InList(h.list) \ {d}
      /\ Len(Without(h.list, k)) = Len(h.list) - 1
  BY <1>1, <1>2, WithoutProperties, ZenonT(60)
<1>4. [h.set EXCEPT ![d] = Default] \in [Devices -> Settings]
  BY <1>1 DEF NvRecordAssumption
<1>5. Forget(h, d) = [list |-> Without(h.list, k), set |-> [h.set EXCEPT ![d] = Default]]
  BY DEF Forget
<1> HIDE DEF k
<1>6. DDB_RECORD_NUM \in Nat
  BY DEF NvRecordAssumption
<1> QED BY <1>1, <1>3, <1>4, <1>5, <1>6 DEF Heaps, Sound

\* The empty heap is sound.
LEMMA EmptyHeapProperties ==
    ASSUME NvRecordAssumption
    PROVE  EmptyHeap \in Heaps /\ Sound(EmptyHeap) /\ Erased \in Sections /\ ~Valid(Erased)
<1>1. EmptyHeap \in Heaps /\ Sound(EmptyHeap)
  BY DEF EmptyHeap, Heaps, Sound, Distinct, NvRecordAssumption
<1>2. Erased \in Sections /\ ~Valid(Erased)
  BY <1>1 DEF Erased, Sections, Valid
<1> QED BY <1>1, <1>2

\* What is written for a heap is a valid section that holds it.
LEMMA FlushImageProperties ==
    ASSUME NEW h \in Heaps, build \in Nat
    PROVE  /\ FlushImage(h) \in Sections
           /\ Valid(FlushImage(h))
           /\ FlushImage(h).data = h
BY DEF FlushImage, Sections, Valid

\* A write that was cut short is a section that is not valid.
LEMMA TornProperties ==
    ASSUME NvRecordAssumption, NEW c \in SUBSET Heaps
    PROVE  Torn(c) \in Sections /\ ~Valid(Torn(c))
<1>1. EmptyHeap \in Heaps
  BY EmptyHeapProperties
<1> QED BY <1>1 DEF Torn, Erased, Sections, Valid

-----------------------------------------------------------------------------
\* The invariant holds before the first start.
LEMMA InitIInv == NvRecordAssumption /\ Init => IInv
<1> SUFFICES ASSUME NvRecordAssumption, Init PROVE IInv
  OBVIOUS
<1>1. EmptyHeap \in Heaps /\ Sound(EmptyHeap) /\ Erased \in Sections /\ ~Valid(Erased)
  BY EmptyHeapProperties
<1>2. TypeOK
  <2>1. <<>> \in Seq([dev : Devices, set : Settings])
    OBVIOUS
  <2> QED BY <1>1, <2>1 DEF Init, TypeOK
<1>3. RecordsSound /\ AddHasRoom /\ CleanMeansSaved /\ RunningMeansSaved /\ HeaderAgrees /\ OffIsIdle
  BY <1>1 DEF Init, RecordsSound, AddHasRoom, CleanMeansSaved, RunningMeansSaved, HeaderAgrees, OffIsIdle
<1> QED BY <1>2, <1>3 DEF IInv

\* The two steps of nv_record_ddbrec_add keep the invariant.
LEMMA AddStep ==
    ASSUME NvRecordAssumption, IInv,
           AddEnd \/ \E d \in Devices : AddBegin(d)
    PROVE  IInv'
<1>1. /\ TypeOK /\ RecordsSound /\ ddb \in Heaps /\ Sound(ddb)
      /\ ddb.list \in Seq(Devices) /\ Len(ddb.list) \in Nat
      /\ ddb.set \in [Devices -> Settings]
  <2>1. ddb \in Heaps
    BY DEF IInv, TypeOK
  <2> QED BY <2>1, LenProperties DEF IInv, RecordsSound, Heaps
<1>2. ASSUME AddEnd PROVE IInv'
  <2>1. add[1] \in [dev : Devices, set : Settings] /\ ~Recorded(add[1].dev)
        /\ Len(ddb.list) < DDB_RECORD_NUM
    <3>1. add \in Seq([dev : Devices, set : Settings]) /\ Len(add) = 1
      BY <1>1, <1>2 DEF AddEnd, IInv, AddHasRoom, TypeOK
    <3>2. add[1] \in [dev : Devices, set : Settings]
      <4> DEFINE R == [dev : Devices, set : Settings]
      <4>1. add \in Seq(R) /\ 1 \in 1 .. Len(add)
        BY <3>1
      <4> HIDE DEF R
      <4>2. add[1] \in R
        BY <4>1, ElementOfSeq
      <4> QED BY <4>2 DEF R
    <3> QED BY <1>2, <3>2 DEF AddEnd, IInv, AddHasRoom
  <2> DEFINE l == Append(ddb.list, add[1].dev)
             s == [ddb.set EXCEPT ![add[1].dev] = add[1].set]
  <2>2. l \in Seq(Devices) /\ Distinct(l) /\ Len(l) = Len(ddb.list) + 1
    BY <1>1, <2>1, AppendKeeps DEF Sound, Recorded
  <2>3. s \in [Devices -> Settings]
    BY <1>1, <2>1
  <2>4. ddb' = [list |-> l, set |-> s]
    BY <1>2 DEF AddEnd
  <2> HIDE DEF l, s
  <2>5. ddb' \in Heaps /\ Sound(ddb')
    BY <1>1, <2>1, <2>2, <2>3, <2>4 DEF Heaps, Sound, NvRecordAssumption
  <2>6. TypeOK'
    BY <1>1, <1>2, <2>5 DEF AddEnd, TypeOK
  <2>7. RecordsSound'
    BY <1>1, <1>2, <2>5 DEF AddEnd, RecordsSound, Valid
  <2>8. AddHasRoom' /\ CleanMeansSaved' /\ RunningMeansSaved' /\ HeaderAgrees' /\ OffIsIdle'
    BY <1>2 DEF IInv, AddEnd, AddHasRoom, CleanMeansSaved, RunningMeansSaved, HeaderAgrees, OffIsIdle, Valid
  <2> QED BY <2>6, <2>7, <2>8 DEF IInv
<1>3. ASSUME NEW d \in Devices, AddBegin(d) PROVE IInv'
  <2>1. /\ ddb' \in Heaps /\ Sound(ddb') /\ d \notin InList(ddb'.list)
        /\ Len(ddb'.list) < DDB_RECORD_NUM
    <3>1. CASE Recorded(d)
      <4>1. ddb' = Forget(ddb, d)
        BY <1>3, <3>1 DEF AddBegin
      <4> QED BY <1>1, <3>1, <4>1, ForgetProperties DEF Recorded
    <3>2. CASE ~Recorded(d) /\ Len(ddb.list) = DDB_RECORD_NUM
      <4>1. ddb' = Forget(ddb, Head(ddb.list))
        BY <1>3, <3>2 DEF AddBegin
      <4>2. ddb.list # <<>>
        BY <3>2 DEF NvRecordAssumption
      <4>3. Head(ddb.list) \in InList(ddb.list)
        BY <1>1, <4>2, PopProperties DEF Sound
      <4> QED BY <1>1, <3>2, <4>1, <4>3, ForgetProperties DEF Recorded
    <3>3. CASE ~Recorded(d) /\ Len(ddb.list) # DDB_RECORD_NUM
      <4>1. ddb' = ddb
        BY <1>3, <3>3 DEF AddBegin
      <4> QED BY <1>1, <3>3, <4>1 DEF Recorded, Sound, NvRecordAssumption
    <3> QED BY <3>1, <3>2, <3>3
  <2>2. PICK s \in Settings : add' = <<[dev |-> d, set |-> s]>>
    BY <1>1, <1>3 DEF AddBegin, NvRecordAssumption
  <2>3. /\ add' \in Seq([dev : Devices, set : Settings])
        /\ Len(add') = 1 /\ add'[1].dev = d /\ add' # <<>>
    <3>1. [dev |-> d, set |-> s] \in [dev : Devices, set : Settings]
      OBVIOUS
    <3> QED BY <2>2, <3>1
  <2>4. is_update' \in BOOLEAN
    BY <1>1, <1>3 DEF AddBegin, TypeOK
  <2>5. TypeOK'
    BY <1>1, <1>3, <2>1, <2>3, <2>4 DEF AddBegin, TypeOK
  <2>6. RecordsSound'
    BY <1>1, <1>3, <2>1 DEF AddBegin, RecordsSound, Valid
  <2>7. AddHasRoom'
    BY <2>1, <2>3 DEF AddHasRoom, Recorded
  <2>8. CleanMeansSaved' /\ RunningMeansSaved' /\ HeaderAgrees' /\ OffIsIdle'
    BY <1>3, <2>3 DEF IInv, AddBegin, StackLockFree, CleanMeansSaved, RunningMeansSaved, HeaderAgrees, OffIsIdle, Valid
  <2> QED BY <2>5, <2>6, <2>7, <2>8 DEF IInv
<1> QED BY <1>2, <1>3

\* The other changes of a record keep the invariant.
LEMMA ChangeStep ==
    ASSUME NvRecordAssumption, IInv,
           \/ nv_record_touch_cause_flush
           \/ \E d \in Devices : nv_record_ddbrec_delete(d)
           \/ \E d \in Devices, s \in Settings : WriteSetting(d, s)
    PROVE  IInv'
<1>1. /\ TypeOK /\ RecordsSound /\ ddb \in Heaps /\ Sound(ddb)
      /\ ddb.list \in Seq(Devices) /\ ddb.set \in [Devices -> Settings]
  BY DEF IInv, RecordsSound, TypeOK, Heaps
<1>2. ASSUME nv_record_touch_cause_flush PROVE IInv'
  BY <1>2 DEF nv_record_touch_cause_flush, IInv, TypeOK, RecordsSound, AddHasRoom,
              CleanMeansSaved, RunningMeansSaved, HeaderAgrees, OffIsIdle, Valid, Recorded
<1>3. ASSUME NEW d \in Devices, nv_record_ddbrec_delete(d) PROVE IInv'
  <2>1. ddb' \in Heaps /\ Sound(ddb')
    BY <1>1, <1>3, ForgetProperties DEF nv_record_ddbrec_delete, Recorded
  <2>2. TypeOK'
    BY <1>1, <1>3, <2>1 DEF nv_record_ddbrec_delete, TypeOK
  <2>3. RecordsSound'
    BY <1>1, <1>3, <2>1 DEF nv_record_ddbrec_delete, RecordsSound, Valid
  <2>4. AddHasRoom' /\ CleanMeansSaved' /\ RunningMeansSaved' /\ HeaderAgrees' /\ OffIsIdle'
    BY <1>3 DEF nv_record_ddbrec_delete, StackLockFree, IInv, AddHasRoom, CleanMeansSaved,
                RunningMeansSaved, HeaderAgrees, OffIsIdle, Valid
  <2> QED BY <2>2, <2>3, <2>4 DEF IInv
<1>4. ASSUME NEW d \in Devices, NEW s \in Settings, WriteSetting(d, s) PROVE IInv'
  <2>1. ddb' = [list |-> ddb.list, set |-> [ddb.set EXCEPT ![d] = s]]
    BY <1>1, <1>4 DEF WriteSetting, Heaps
  <2>2. ddb' \in Heaps /\ Sound(ddb')
    BY <1>1, <2>1 DEF Heaps, Sound
  <2>3. TypeOK'
    BY <1>1, <1>4, <2>2 DEF WriteSetting, TypeOK
  <2>4. RecordsSound'
    BY <1>1, <1>4, <2>2 DEF WriteSetting, RecordsSound, Valid
  <2>5. AddHasRoom' /\ CleanMeansSaved' /\ RunningMeansSaved' /\ HeaderAgrees' /\ OffIsIdle'
    BY <1>4 DEF WriteSetting, StackLockFree, IInv, AddHasRoom, CleanMeansSaved,
                RunningMeansSaved, HeaderAgrees, OffIsIdle, Valid
  <2> QED BY <2>3, <2>4, <2>5 DEF IInv
<1> QED BY <1>2, <1>3, <1>4

\* The flushes keep the invariant, whatever is under way.
LEMMA FlushStep ==
    ASSUME NvRecordAssumption, IInv, SwitchFlash \/ SleepFlush \/ DeinitFlush
    PROVE  IInv'
<1>1. /\ TypeOK /\ RecordsSound /\ ddb \in Heaps /\ Sound(ddb) /\ build \in Nat
  BY DEF IInv, RecordsSound, TypeOK
<1>2. /\ nv_record_flash_flush
      /\ UNCHANGED <<power, ddb, add, written, need_bak, bak, build>>
      /\ need_flush' \in BOOLEAN /\ timer' \in BOOLEAN /\ power = "on"
  BY <1>1 DEF SwitchFlash, SleepFlush, DeinitFlush, nv_record_flash_flush, TypeOK, StackLockFree
<1>3. CASE is_update
  <2>1. /\ main' = FlushImage(ddb) /\ crc' = {ddb} /\ crc_buildinfo' = build
        /\ is_update' = FALSE
    BY <1>2, <1>3 DEF nv_record_flash_flush
  <2>2. FlushImage(ddb) \in Sections /\ Valid(FlushImage(ddb)) /\ FlushImage(ddb).data = ddb
    BY <1>1, FlushImageProperties
  <2>3. main' \in Sections /\ Valid(main)' /\ main'.data = ddb
    BY <2>1, <2>2 DEF Valid
  <2>4. TypeOK'
    BY <1>1, <1>2, <2>1, <2>3 DEF TypeOK
  <2>5. RecordsSound'
    BY <1>1, <1>2, <2>3 DEF RecordsSound, Valid
  <2>6. AddHasRoom' /\ CleanMeansSaved' /\ RunningMeansSaved' /\ HeaderAgrees' /\ OffIsIdle'
    BY <1>2, <2>1, <2>3 DEF IInv, AddHasRoom, CleanMeansSaved, RunningMeansSaved,
                            HeaderAgrees, OffIsIdle, Recorded
  <2> QED BY <2>4, <2>5, <2>6 DEF IInv
<1>4. CASE ~is_update
  <2>1. UNCHANGED <<main, crc, crc_buildinfo, is_update>>
    BY <1>2, <1>4 DEF nv_record_flash_flush
  <2>2. TypeOK'
    BY <1>1, <1>2, <2>1 DEF TypeOK
  <2>3. RecordsSound' /\ AddHasRoom' /\ CleanMeansSaved' /\ RunningMeansSaved' /\ HeaderAgrees' /\ OffIsIdle'
    BY <1>2, <2>1 DEF IInv, RecordsSound, AddHasRoom, CleanMeansSaved, RunningMeansSaved,
                      HeaderAgrees, OffIsIdle, Recorded, Valid
  <2> QED BY <2>2, <2>3 DEF IInv
<1> QED BY <1>3, <1>4

\* A backup keeps the invariant: a valid one is a copy of the first section.
LEMMA BackupStep ==
    ASSUME NvRecordAssumption, IInv, SwitchBackup
    PROVE  IInv' /\ (Valid(bak)' => Valid(main)' /\ bak'.data = main'.data)
<1>1. TypeOK /\ RecordsSound /\ ddb \in Heaps /\ Sound(ddb) /\ crc \in SUBSET Heaps
  BY DEF IInv, RecordsSound, TypeOK
<1>2. /\ bak' = BackupImage
      /\ UNCHANGED <<power, ddb, crc, crc_buildinfo, is_update, add, written, main, build, timer, need_flush>>
      /\ need_bak' = FALSE /\ power = "on"
  BY DEF SwitchBackup, nv_record_flash_backup
<1>3. bak' \in Sections /\ bak'.data = ddb /\ (Valid(bak)' => crc = {ddb})
  BY <1>1, <1>2 DEF BackupImage, Sections, Valid, TypeOK
<1>4. TypeOK'
  BY <1>1, <1>2, <1>3 DEF TypeOK
<1>5. RecordsSound'
  BY <1>1, <1>2, <1>3 DEF RecordsSound, Valid
<1>6. AddHasRoom' /\ CleanMeansSaved' /\ RunningMeansSaved' /\ HeaderAgrees' /\ OffIsIdle'
  BY <1>2 DEF IInv, AddHasRoom, CleanMeansSaved, RunningMeansSaved, HeaderAgrees, OffIsIdle, Recorded, Valid
<1>7. Valid(bak)' => Valid(main)' /\ bak'.data = main'.data
  BY <1>2, <1>3 DEF IInv, HeaderAgrees, OffIsIdle, RunningMeansSaved, Valid
<1> QED BY <1>4, <1>5, <1>6, <1>7 DEF IInv

\* The resets keep the invariant.
LEMMA ResetStep ==
    ASSUME NvRecordAssumption, IInv, FlushAndBackup \/ ResetList
    PROVE  IInv' /\ (Valid(bak)' => Valid(main)' /\ bak'.data = main'.data)
<1>1. /\ TypeOK /\ RecordsSound /\ ddb \in Heaps /\ Sound(ddb) /\ build \in Nat
      /\ EmptyHeap \in Heaps /\ Sound(EmptyHeap) /\ Erased \in Sections /\ ~Valid(Erased)
  BY EmptyHeapProperties DEF IInv, RecordsSound, TypeOK
<1>2. /\ ddb' \in Heaps /\ Sound(ddb')
      /\ main' = FlushImage(ddb') /\ bak' \in {Erased, main'}
      /\ crc' = {ddb'} /\ crc_buildinfo' = build /\ is_update' = FALSE
      /\ UNCHANGED <<power, add, written, need_flush, need_bak, timer, build>>
      /\ add = <<>>
  BY <1>1 DEF FlushAndBackup, ResetList, StackLockFree
<1>3. /\ FlushImage(ddb') \in Sections /\ Valid(FlushImage(ddb'))
      /\ FlushImage(ddb').data = ddb'
  BY <1>1, <1>2, FlushImageProperties
<1>4. main' \in Sections /\ Valid(main)' /\ main'.data = ddb'
  BY <1>2, <1>3 DEF Valid
<1>5. bak' \in Sections /\ (Valid(bak)' => bak' = main')
  BY <1>1, <1>2, <1>4 DEF Valid
<1>6. TypeOK'
  BY <1>1, <1>2, <1>4, <1>5 DEF TypeOK
<1>7. RecordsSound'
  BY <1>2, <1>4, <1>5 DEF RecordsSound
<1>8. AddHasRoom' /\ CleanMeansSaved' /\ RunningMeansSaved' /\ HeaderAgrees' /\ OffIsIdle'
  BY <1>2, <1>4 DEF AddHasRoom, CleanMeansSaved, RunningMeansSaved, HeaderAgrees, OffIsIdle
<1> QED BY <1>4, <1>5, <1>6, <1>7, <1>8 DEF IInv

\* Losing the power at any moment keeps the invariant.
LEMMA FailureStep ==
    ASSUME NvRecordAssumption, IInv, Failure \/ OpenMainFails
    PROVE  IInv' /\ (Valid(bak)' => bak' = bak)
<1>1. /\ TypeOK /\ RecordsSound /\ ddb \in Heaps /\ Sound(ddb) /\ build \in Nat
      /\ crc \in SUBSET Heaps /\ main \in Sections /\ bak \in Sections
      /\ main.crc \in SUBSET Heaps
      /\ EmptyHeap \in Heaps /\ Sound(EmptyHeap) /\ Erased \in Sections /\ ~Valid(Erased)
  <2>1. main \in Sections
    BY DEF IInv, TypeOK
  <2>2. main.crc \in SUBSET Heaps
    BY <2>1 DEF Sections
  <2> QED BY <2>2, EmptyHeapProperties DEF IInv, RecordsSound, TypeOK
<1>2. {ddb} \in SUBSET Heaps
  BY <1>1
<1>3. /\ bak' \in {bak, Erased, Torn(crc), Torn({ddb}), Torn(main.crc)}
      /\ main' \in {main, Erased, FlushImage(ddb)}
      /\ power' = "off" /\ build' \in Nat
  BY <1>1 DEF Failure, LosePower, LosePowerInFlush, LosePowerInBackup, LosePowerInReset,
              Download, PowerLost, OpenMainFails
<1>4. RamCleared \/ UNCHANGED ram
  BY DEF Failure, LosePower, LosePowerInFlush, LosePowerInBackup, LosePowerInReset,
         Download, PowerLost, OpenMainFails
<1>5. bak' \in Sections /\ (Valid(bak)' => bak' = bak)
  <2>1. /\ Torn(crc) \in Sections /\ ~Valid(Torn(crc))
        /\ Torn({ddb}) \in Sections /\ ~Valid(Torn({ddb}))
        /\ Torn(main.crc) \in Sections /\ ~Valid(Torn(main.crc))
    BY <1>1, <1>2, TornProperties
  <2> QED BY <1>1, <1>3, <2>1 DEF Valid
<1>6. main' \in Sections /\ (Valid(main)' => Sound(main'.data))
  <2>1. /\ FlushImage(ddb) \in Sections /\ Valid(FlushImage(ddb))
        /\ FlushImage(ddb).data = ddb
    BY <1>1, FlushImageProperties
  <2> QED BY <1>1, <1>3, <2>1 DEF Valid, RecordsSound
<1>7. /\ ddb' \in Heaps /\ Sound(ddb') /\ AddHasRoom'
  <2>1. CASE RamCleared
    BY <1>1, <2>1 DEF RamCleared, AddHasRoom
  <2>2. CASE UNCHANGED ram
    BY <1>1, <2>2 DEF ram, AddHasRoom, IInv, Recorded
  <2> QED BY <1>4, <2>1, <2>2
<1>8. TypeOK'
  <2>1. CASE RamCleared
    <3>1. <<>> \in Seq([dev : Devices, set : Settings])
      OBVIOUS
    <3> QED BY <1>1, <1>3, <1>5, <1>6, <1>7, <2>1, <3>1 DEF RamCleared, TypeOK
  <2>2. CASE UNCHANGED ram
    BY <1>1, <1>3, <1>5, <1>6, <1>7, <2>2 DEF ram, TypeOK
  <2> QED BY <1>4, <2>1, <2>2
<1>9. RecordsSound'
  BY <1>1, <1>5, <1>6, <1>7 DEF RecordsSound, Valid
<1>10. add' = <<>>
  BY DEF Failure, LosePower, LosePowerInFlush, LosePowerInBackup, LosePowerInReset,
         Download, PowerLost, OpenMainFails, RamCleared, ram, IInv, OffIsIdle
<1>11. CleanMeansSaved' /\ RunningMeansSaved' /\ HeaderAgrees' /\ OffIsIdle'
  BY <1>3, <1>10 DEF CleanMeansSaved, RunningMeansSaved, HeaderAgrees, OffIsIdle
<1> QED BY <1>5, <1>7, <1>8, <1>9, <1>11 DEF IInv

\* Starting keeps the invariant, whichever sections are valid.
LEMMA OpenStep ==
    ASSUME NvRecordAssumption, IInv, OpenMain \/ OpenBackup \/ OpenEmpty
    PROVE  IInv' /\ (Valid(bak)' /\ bak' # bak => Valid(main)' /\ bak'.data = main'.data)
<1>1. /\ TypeOK /\ RecordsSound /\ build \in Nat
      /\ main \in Sections /\ bak \in Sections
      /\ EmptyHeap \in Heaps /\ Sound(EmptyHeap) /\ power = "off"
      /\ add \in Seq([dev : Devices, set : Settings])
  BY EmptyHeapProperties DEF IInv, TypeOK, OpenMain, OpenBackup, OpenEmpty, Started
<1>2. /\ main.data \in Heaps /\ main.crc \in SUBSET Heaps /\ main.build \in Nat
      /\ bak.data \in Heaps
  BY <1>1 DEF Sections
<1>3. Started
  BY DEF OpenMain, OpenBackup, OpenEmpty
<1>4. /\ ddb' \in Heaps /\ Sound(ddb') /\ crc' = {ddb'} /\ crc_buildinfo' \in Nat
      /\ is_update' \in BOOLEAN
      /\ main' \in Sections /\ Valid(main)' /\ main'.data = ddb'
      /\ bak' \in {bak, main'}
  <2>1. CASE OpenMain
    BY <1>1, <1>2, <2>1 DEF OpenMain, Valid, RecordsSound
  <2>2. CASE OpenBackup
    <3>1. /\ FlushImage(bak.data) \in Sections /\ Valid(FlushImage(bak.data))
          /\ FlushImage(bak.data).data = bak.data
      BY <1>1, <1>2, FlushImageProperties
    <3> QED BY <1>1, <1>2, <2>2, <3>1 DEF OpenBackup, Valid, RecordsSound
  <2>3. CASE OpenEmpty
    <3>1. /\ FlushImage(EmptyHeap) \in Sections /\ Valid(FlushImage(EmptyHeap))
          /\ FlushImage(EmptyHeap).data = EmptyHeap
      BY <1>1, FlushImageProperties
    <3> QED BY <1>1, <2>3, <3>1 DEF OpenEmpty, Valid
  <2> QED BY <2>1, <2>2, <2>3
<1>5. bak' \in Sections /\ (Valid(bak)' => Sound(bak'.data))
  BY <1>1, <1>4 DEF RecordsSound, Valid
<1>6. TypeOK'
  BY <1>1, <1>3, <1>4, <1>5 DEF TypeOK, Started
<1>7. RecordsSound'
  BY <1>4, <1>5 DEF RecordsSound
<1>8. AddHasRoom'
  <2>1. add = <<>>
    BY <1>1 DEF IInv, OffIsIdle
  <2> QED BY <1>3, <2>1 DEF Started, AddHasRoom
<1>9. CleanMeansSaved' /\ RunningMeansSaved' /\ HeaderAgrees' /\ OffIsIdle'
  BY <1>3, <1>4 DEF Started, CleanMeansSaved, RunningMeansSaved, HeaderAgrees, OffIsIdle
<1> QED BY <1>4, <1>6, <1>7, <1>8, <1>9 DEF IInv

\* A request, the timer and a step that changes nothing keep the invariant.
LEMMA RequestStep ==
    ASSUME IInv,
           \/ app_audio_switch_flash_flush_req
           \/ nv_record_postpone_to_save_bak_userdata
           \/ UNCHANGED vars
    PROVE  IInv'
<1>1. /\ UNCHANGED <<power, ddb, crc, crc_buildinfo, is_update, add, written, main, bak, build>>
      /\ need_flush' \in BOOLEAN /\ need_bak' \in BOOLEAN /\ timer' \in BOOLEAN
  BY DEF app_audio_switch_flash_flush_req, nv_record_postpone_to_save_bak_userdata,
         vars, ram, IInv, TypeOK
<1>2. TypeOK'
  BY <1>1 DEF IInv, TypeOK
<1>3. RecordsSound' /\ AddHasRoom' /\ CleanMeansSaved' /\ RunningMeansSaved' /\ HeaderAgrees' /\ OffIsIdle'
  BY <1>1 DEF IInv, RecordsSound, AddHasRoom, CleanMeansSaved, RunningMeansSaved,
              HeaderAgrees, OffIsIdle, Recorded, Valid
<1> QED BY <1>2, <1>3 DEF IInv

\* Every step keeps the invariant, and what it writes as a backup is a copy.
LEMMA StepIInv ==
    ASSUME NvRecordAssumption, IInv, [Next]_vars
    PROVE  IInv' /\ (bak' # bak /\ Valid(bak)' => Valid(main)' /\ bak'.data = main'.data)
<1>1. CASE Change
  <2>1. IInv'
    BY <1>1, AddStep, ChangeStep DEF Change
  <2>2. UNCHANGED bak
    BY <1>1 DEF Change, AddBegin, AddEnd, nv_record_ddbrec_delete, WriteSetting,
                nv_record_touch_cause_flush
  <2> QED BY <2>1, <2>2
<1>2. CASE Write
  <2>1. CASE SwitchFlash \/ SleepFlush \/ DeinitFlush
    <3>1. UNCHANGED bak
      BY <2>1 DEF SwitchFlash, SleepFlush, DeinitFlush
    <3> QED BY <2>1, <3>1, FlushStep
  <2>2. CASE SwitchBackup
    BY <2>2, BackupStep
  <2>3. CASE FlushAndBackup \/ ResetList
    BY <2>3, ResetStep
  <2>4. CASE app_audio_switch_flash_flush_req \/ nv_record_postpone_to_save_bak_userdata
    <3>1. UNCHANGED bak
      BY <2>4 DEF app_audio_switch_flash_flush_req, nv_record_postpone_to_save_bak_userdata
    <3> QED BY <2>4, <3>1, RequestStep
  <2> QED BY <1>2, <2>1, <2>2, <2>3, <2>4 DEF Write
<1>3. CASE Failure \/ OpenMainFails
  BY <1>3, FailureStep
<1>4. CASE OpenMain \/ OpenBackup \/ OpenEmpty
  BY <1>4, OpenStep
<1>5. CASE UNCHANGED vars
  <2>1. UNCHANGED bak
    BY <1>5 DEF vars
  <2> QED BY <1>5, <2>1, RequestStep
<1> QED BY <1>1, <1>2, <1>3, <1>4, <1>5 DEF Next, Open

\* The invariant holds in every reachable state.
LEMMA AlwaysIInv == Spec => []IInv
<1>1. Init => IInv
  BY NvRecordAssumption, InitIInv
<1>2. IInv /\ [Next]_vars => IInv'
  BY NvRecordAssumption, StepIInv
<1> QED BY <1>1, <1>2, PTL DEF Spec

-----------------------------------------------------------------------------
(* The heap, the two sections and the flags keep their types, through      *)
(* losses of power at any time.                                            *)
THEOREM TypeCorrect == Spec => []TypeOK
<1>1. IInv => TypeOK
  BY DEF IInv
<1> QED BY <1>1, AlwaysIInv, PTL

(* No device is recorded twice and no list is too long, in RAM and in what *)
(* nv_record_open would load from flash, although the flash may be written *)
(* in the middle of nv_record_ddbrec_add and power lost at any time.       *)
THEOREM RecordsAlwaysSound == Spec => []RecordsSound
<1>1. IInv => RecordsSound
  BY DEF IInv
<1> QED BY <1>1, AlwaysIInv, PTL

(* nv_record_flash_flush is skipped only when the first section holds the  *)
(* heap already.                                                           *)
THEOREM UpdatesAreSaved == Spec => []CleanMeansSaved
<1>1. IInv => CleanMeansSaved
  BY DEF IInv
<1> QED BY <1>1, AlwaysIInv, PTL

(* Whenever the device runs the first section can be loaded: a loss of     *)
(* power while the second one is written leaves it.                        *)
THEOREM RunningIsSaved == Spec => []RunningMeansSaved
<1>1. IInv => RunningMeansSaved
  BY DEF IInv
<1> QED BY <1>1, AlwaysIInv, PTL

(* A backup that can be loaded is a copy of the first section at the time  *)
(* it was written, however the heap has changed since the last flush.      *)
THEOREM BackupsCopyMain == Spec => BackupCopiesMain
<1>1. IInv /\ [Next]_vars => (bak' # bak /\ Valid(bak') => Valid(main') /\ bak'.data = main'.data)
  <2> SUFFICES ASSUME IInv, [Next]_vars, bak' # bak, Valid(bak')
               PROVE  Valid(main') /\ bak'.data = main'.data
    OBVIOUS
  <2>1. Valid(bak)'
    BY DEF Valid
  <2>2. Valid(main)' /\ bak'.data = main'.data
    BY <2>1, NvRecordAssumption, StepIInv
  <2> QED BY <2>2 DEF Valid
<1> QED BY <1>1, AlwaysIInv, PTL DEF Spec, BackupCopiesMain

-----------------------------------------------------------------------------
\* From the list l to the list m records keep their order, and new ones are last.
KeepsOrder(l, m) ==
    /\ \A d, e \in InList(l) \cap InList(m) :
          Position(l, d) < Position(l, e) => Position(m, d) < Position(m, e)
    /\ \A d \in InList(l), e \in InList(m) \ InList(l) :
          d \in InList(m) => Position(m, d) < Position(m, e)

\* The changes of the records keep their order ...
LEMMA ChangeKeepsOrder ==
    ASSUME NvRecordAssumption, IInv, Change
    PROVE  KeepsOrder(ddb.list, ddb'.list)
<1> DEFINE l == ddb.list
<1>1. /\ ddb \in Heaps /\ Sound(ddb) /\ l \in Seq(Devices) /\ Distinct(l)
      /\ Len(l) \in Nat
  <2>1. ddb \in Heaps /\ Sound(ddb)
    BY DEF IInv, TypeOK, RecordsSound
  <2> QED BY <2>1, LenProperties DEF Heaps, Sound
<1>2. CASE UNCHANGED ddb
  BY <1>2 DEF KeepsOrder
<1>3. ASSUME NEW x \in InList(l), ddb' = Forget(ddb, x) PROVE KeepsOrder(l, ddb'.list)
  <2> DEFINE k == Position(l, x)
  <2>1. k \in 1 .. Len(l) /\ l[k] = x
    BY <1>1, PositionProperties
  <2>2. ddb'.list = Without(l, k)
    BY <1>3 DEF Forget
  <2> HIDE DEF k, l
  <2>3. InList(Without(l, k)) = InList(l) \ {l[k]}
    BY <1>1, <2>1, WithoutProperties
  <2>4. ASSUME NEW d \in InList(l) \ {l[k]}, NEW e \in InList(l) \ {l[k]},
               Position(l, d) < Position(l, e)
        PROVE  Position(Without(l, k), d) < Position(Without(l, k), e)
    BY <1>1, <2>1, <2>4, WithoutKeepsOrder
  <2> QED BY <2>2, <2>3, <2>4 DEF KeepsOrder
<1>4. CASE AddEnd
  <2> DEFINE t == add[1].dev
  <2>1. t \in Devices /\ t \notin InList(l)
    <3> DEFINE R == [dev : Devices, set : Settings]
    <3>1. add \in Seq(R) /\ 1 \in 1 .. Len(add) /\ ~Recorded(t)
      BY <1>4 DEF AddEnd, IInv, AddHasRoom, TypeOK
    <3> HIDE DEF R
    <3>2. add[1] \in R
      BY <3>1, ElementOfSeq
    <3> QED BY <3>1, <3>2 DEF R, Recorded
  <2>2. ddb'.list = Append(l, t)
    BY <1>4 DEF AddEnd
  <2> HIDE DEF t, l
  <2>3. InList(Append(l, t)) = InList(l) \cup {t}
    BY <1>1, <2>1, AppendKeeps
  <2>4. ASSUME NEW d \in InList(l)
        PROVE  /\ Position(Append(l, t), d) = Position(l, d)
               /\ Position(l, d) \in 1 .. Len(l)
               /\ Position(Append(l, t), t) = Len(l) + 1
    BY <1>1, <2>1, AppendKeepsOrder
  <2>5. ASSUME NEW d \in InList(l)
        PROVE  Position(Append(l, t), d) < Position(Append(l, t), t)
    BY <1>1, <2>4
  <2>6. KeepsOrder(l, Append(l, t))
    <3>1. ASSUME NEW d \in InList(l), NEW e \in InList(l), Position(l, d) < Position(l, e)
          PROVE  Position(Append(l, t), d) < Position(Append(l, t), e)
      BY <2>4, <3>1
    <3> QED BY <2>1, <2>3, <2>5, <3>1 DEF KeepsOrder
  <2> QED BY <2>2, <2>6 DEF l
<1>5. ASSUME NEW d \in Devices, AddBegin(d) PROVE KeepsOrder(l, ddb'.list)
  <2>1. CASE Recorded(d)
    BY <1>3, <1>5, <2>1 DEF AddBegin, Recorded
  <2>2. CASE ~Recorded(d) /\ Len(l) = DDB_RECORD_NUM
    <3>1. l # <<>>
      BY <2>2 DEF NvRecordAssumption
    <3>2. Head(l) \in InList(l)
      BY <1>1, <3>1, PopProperties
    <3> QED BY <1>3, <1>5, <2>2, <3>2 DEF AddBegin
  <2>3. CASE ~Recorded(d) /\ Len(l) # DDB_RECORD_NUM
    BY <1>2, <1>5, <2>3 DEF AddBegin
  <2> QED BY <2>1, <2>2, <2>3
<1>6. ASSUME NEW d \in Devices, nv_record_ddbrec_delete(d) PROVE KeepsOrder(l, ddb'.list)
  BY <1>3, <1>6 DEF nv_record_ddbrec_delete, Recorded
<1>7. ASSUME NEW d \in Devices, NEW s \in Settings, WriteSetting(d, s)
      PROVE  KeepsOrder(l, ddb'.list)
  <2>1. ddb'.list = ddb.list
    BY <1>1, <1>7 DEF WriteSetting, Heaps
  <2> QED BY <2>1 DEF KeepsOrder
<1>8. CASE nv_record_touch_cause_flush
  BY <1>2, <1>8 DEF nv_record_touch_cause_flush
<1> QED BY <1>4, <1>5, <1>6, <1>7, <1>8 DEF Change

(* The order of the records is that in which the devices were added last,  *)
(* whatever is evicted or removed: nv_record_enum_latest_two_paired_dev    *)
(* and the eviction of the oldest rely on it.                              *)
THEOREM RecencyAlwaysKept == Spec => RecencyKept
<1>1. ASSUME IInv, [Next]_vars, power = "on", power' = "on"
      PROVE  KeepsOrder(ddb.list, ddb'.list)
  <2>1. CASE Change
    BY <1>1, <2>1, NvRecordAssumption, ChangeKeepsOrder
  <2>2. CASE UNCHANGED ddb
    BY <2>2 DEF KeepsOrder
  <2>3. CASE ResetList
    <3>1. InList(ddb'.list) = {}
      BY <2>3 DEF ResetList, EmptyHeap, InList
    <3> QED BY <3>1 DEF KeepsOrder
  <2>4. Write => UNCHANGED ddb \/ ResetList
    BY DEF Write, app_audio_switch_flash_flush_req, nv_record_postpone_to_save_bak_userdata,
           SwitchFlash, SwitchBackup, SleepFlush, DeinitFlush, FlushAndBackup,
           nv_record_flash_flush
  <2>5. ~Failure /\ ~Open
    BY <1>1 DEF Failure, LosePower, LosePowerInFlush, LosePowerInBackup, LosePowerInReset,
                PowerLost, Download, Open, OpenMain, OpenMainFails, OpenBackup, OpenEmpty,
                Started
  <2>6. UNCHANGED vars => UNCHANGED ddb
    BY DEF vars, ram
  <2> QED BY <1>1, <2>1, <2>2, <2>3, <2>4, <2>5, <2>6 DEF Next
<1> DEFINE Step == power = "on" /\ power' = "on" =>
         /\ \A d, e \in InList(ddb.list) \cap InList(ddb'.list) :
              Before(ddb, d, e) => Before(ddb', d, e)
         /\ \A d \in InList(ddb.list), e \in InList(ddb'.list) \ InList(ddb.list) :
              d \in InList(ddb'.list) => Before(ddb', d, e)
<1>2. IInv /\ [Next]_vars => Step
  BY <1>1 DEF KeepsOrder, Before
<1>3. [][IInv /\ [Next]_vars]_vars => [][Step]_vars
  BY <1>2, PTL
<1> QED BY <1>3, AlwaysIInv, PTL DEF Spec, RecencyKept

-----------------------------------------------------------------------------
\* What OthersKept says of one device and one step
OtherKept(d) ==
    /\ Known(d) /\ Known(d)' /\ ~written' => SettingsOf(d)' = SettingsOf(d)
    /\ Known(d) /\ ~Known(d)' /\ add' # <<>> =>
         Len(ddb.list) = DDB_RECORD_NUM /\ d = Head(ddb.list)

\* Adding a device keeps the settings of every other, and its own.
LEMMA AddKeepsOthers ==
    ASSUME NvRecordAssumption, IInv, NEW d \in Devices, NEW x \in Devices, AddBegin(x)
    PROVE  OtherKept(d)
<1>1. ddb \in Heaps /\ Sound(ddb) /\ ddb.list \in Seq(Devices) /\ Distinct(ddb.list)
      /\ ddb.set \in [Devices -> Settings]
  BY DEF IInv, TypeOK, RecordsSound, Heaps, Sound
<1>2. /\ add = <<>> /\ ~Adding(d)
      /\ Known(d) <=> d \in InList(ddb.list)
      /\ SettingsOf(d) = ddb.set[d]
  BY DEF AddBegin, StackLockFree, Adding, Known, Recorded, SettingsOf
<1>3. PICK s \in Settings : /\ add' = <<[dev |-> x, set |-> s]>>
                            /\ Recorded(x) => s = ddb.set[x]
  BY <1>1 DEF AddBegin, NvRecordAssumption
<1>4. add' # <<>> /\ add'[1].dev = x /\ add'[1].set = s
  BY <1>3
<1>5. /\ Known(d)' <=> d \in InList(ddb'.list) \/ d = x
      /\ d = x => SettingsOf(d)' = s
      /\ d # x => SettingsOf(d)' = ddb'.set[d]
  BY <1>4 DEF Adding, Known, Recorded, SettingsOf
<1>6. CASE Recorded(x)
  <2>1. ddb' = Forget(ddb, x) /\ x \in InList(ddb.list)
    BY <1>6 DEF AddBegin, Recorded
  <2>2. InList(ddb'.list) = InList(ddb.list) \ {x}
    BY <1>1, <2>1, ForgetProperties
  <2>3. ddb'.set = [ddb.set EXCEPT ![x] = Default]
    BY <2>1 DEF Forget
  <2> QED BY <1>1, <1>2, <1>3, <1>5, <1>6, <2>2, <2>3 DEF OtherKept
<1>7. CASE ~Recorded(x) /\ Len(ddb.list) = DDB_RECORD_NUM
  <2> DEFINE o == Head(ddb.list)
  <2>1. o \in InList(ddb.list) /\ o \in Devices
    <3>1. ddb.list # <<>>
      BY <1>7 DEF NvRecordAssumption
    <3> QED BY <1>1, <3>1, PopProperties
  <2>2. ddb' = Forget(ddb, o)
    BY <1>7 DEF AddBegin
  <2> HIDE DEF o
  <2>3. InList(ddb'.list) = InList(ddb.list) \ {o}
    BY <1>1, <2>1, <2>2, ForgetProperties
  <2>4. ddb'.set = [ddb.set EXCEPT ![o] = Default]
    BY <2>2 DEF Forget
  <2>5. x \notin InList(ddb.list)
    BY <1>7 DEF Recorded
  <2>6. Known(d) /\ Known(d)' => SettingsOf(d)' = SettingsOf(d)
    BY <1>1, <1>2, <1>5, <2>3, <2>4, <2>5
  <2>7. Known(d) /\ ~Known(d)' => d = o
    BY <1>2, <1>5, <2>3
  <2> QED BY <1>7, <2>6, <2>7 DEF OtherKept, o
<1>8. CASE ~Recorded(x) /\ Len(ddb.list) # DDB_RECORD_NUM
  <2>1. ddb' = ddb /\ x \notin InList(ddb.list)
    BY <1>8 DEF AddBegin, Recorded
  <2> QED BY <1>2, <1>5, <2>1 DEF OtherKept
<1> QED BY <1>6, <1>7, <1>8

\* The other changes of the records do so too.
LEMMA ChangeKeepsOthers ==
    ASSUME NvRecordAssumption, IInv, NEW d \in Devices, Change
    PROVE  OtherKept(d)
<1>1. ddb \in Heaps /\ Sound(ddb) /\ ddb.list \in Seq(Devices) /\ Distinct(ddb.list)
      /\ ddb.set \in [Devices -> Settings]
  BY DEF IInv, TypeOK, RecordsSound, Heaps, Sound
<1>2. ASSUME NEW x \in Devices, AddBegin(x) PROVE OtherKept(d)
  BY <1>2, AddKeepsOthers
<1>3. CASE AddEnd
  <2> DEFINE x == add[1].dev
             s == add[1].set
  <2>1. x \in Devices /\ add # <<>> /\ add' = <<>>
    <3> DEFINE R == [dev : Devices, set : Settings]
    <3>1. add \in Seq(R) /\ 1 \in 1 .. Len(add) /\ add # <<>> /\ add' = <<>>
      BY <1>3 DEF AddEnd, IInv, AddHasRoom, TypeOK
    <3> HIDE DEF R
    <3>2. add[1] \in R
      BY <3>1, ElementOfSeq
    <3> QED BY <3>1, <3>2 DEF R
  <2>2. ddb'.set = [ddb.set EXCEPT ![x] = s]
    BY <1>3 DEF AddEnd
  <2>3. /\ Adding(d) <=> d = x
        /\ SettingsOf(d) = IF d = x THEN s ELSE ddb.set[d]
        /\ SettingsOf(d)' = ddb'.set[d]
    BY <2>1 DEF Adding, SettingsOf
  <2> HIDE DEF x, s
  <2>4. SettingsOf(d)' = SettingsOf(d)
    BY <1>1, <2>2, <2>3
  <2> QED BY <2>1, <2>4 DEF OtherKept
<1>4. ASSUME NEW x \in Devices, nv_record_ddbrec_delete(x) PROVE OtherKept(d)
  <2>1. /\ add = <<>> /\ add' = <<>> /\ ddb' = Forget(ddb, x) /\ x \in InList(ddb.list)
    BY <1>4 DEF nv_record_ddbrec_delete, StackLockFree, Recorded
  <2>2. InList(ddb'.list) = InList(ddb.list) \ {x}
    BY <1>1, <2>1, ForgetProperties
  <2>3. ddb'.set = [ddb.set EXCEPT ![x] = Default]
    BY <2>1 DEF Forget
  <2>4. /\ Known(d)' => d # x
        /\ SettingsOf(d) = ddb.set[d] /\ SettingsOf(d)' = ddb'.set[d]
    BY <2>1, <2>2 DEF Known, Recorded, Adding, SettingsOf
  <2>5. Known(d)' => SettingsOf(d)' = SettingsOf(d)
    BY <1>1, <2>3, <2>4
  <2> QED BY <2>1, <2>5 DEF OtherKept
<1>5. ASSUME NEW x \in Devices, NEW s \in Settings, WriteSetting(x, s)
      PROVE  OtherKept(d)
  BY <1>5 DEF WriteSetting, StackLockFree, OtherKept
<1>6. CASE nv_record_touch_cause_flush
  BY <1>6 DEF nv_record_touch_cause_flush, OtherKept, Known, Recorded, Adding, SettingsOf
<1> QED BY <1>2, <1>3, <1>4, <1>5, <1>6 DEF Change

(* Pairing again keeps the volumes and profiles of a device, in the list   *)
(* or on the way to its end, and adding one pushes out no other than the   *)
(* oldest of a full list.                                                  *)
THEOREM OthersAlwaysKept == Spec => OthersKept
<1>1. ASSUME IInv, [Next]_vars, power = "on", power' = "on", NEW d \in Devices
      PROVE  OtherKept(d)
  <2>1. CASE Change
    BY <1>1, <2>1, NvRecordAssumption, ChangeKeepsOthers
  <2>2. CASE UNCHANGED <<ddb, add>>
    BY <2>2 DEF OtherKept, Known, Recorded, Adding, SettingsOf
  <2>3. CASE ResetList
    <3>1. InList(ddb'.list) = {} /\ add' = <<>>
      BY <2>3 DEF ResetList, StackLockFree, EmptyHeap, InList
    <3> QED BY <3>1 DEF OtherKept, Known, Recorded, Adding
  <2>4. Write => UNCHANGED <<ddb, add>> \/ ResetList
    BY DEF Write, app_audio_switch_flash_flush_req, nv_record_postpone_to_save_bak_userdata,
           SwitchFlash, SwitchBackup, SleepFlush, DeinitFlush, FlushAndBackup,
           nv_record_flash_flush
  <2>5. ~Failure /\ ~Open
    BY <1>1 DEF Failure, LosePower, LosePowerInFlush, LosePowerInBackup, LosePowerInReset,
                PowerLost, Download, Open, OpenMain, OpenMainFails, OpenBackup, OpenEmpty,
                Started
  <2>6. UNCHANGED vars => UNCHANGED <<ddb, add>>
    BY DEF vars, ram
  <2> QED BY <1>1, <2>1, <2>2, <2>3, <2>4, <2>5, <2>6 DEF Next
<1> DEFINE Step == power = "on" /\ power' = "on" =>
         \A d \in Devices :
           /\ Known(d) /\ Known(d)' /\ ~written' => SettingsOf(d)' = SettingsOf(d)
           /\ Known(d) /\ ~Known(d)' /\ add' # <<>> =>
                Len(ddb.list) = DDB_RECORD_NUM /\ d = Head(ddb.list)
<1>2. IInv /\ [Next]_vars => Step
  BY <1>1 DEF OtherKept
<1>3. [][IInv /\ [Next]_vars]_vars => [][Step]_vars
  BY <1>2, PTL
<1> QED BY <1>3, AlwaysIInv, PTL DEF Spec, OthersKept

=============================================================================
