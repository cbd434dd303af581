------------------------------ MODULE MCSlotPanel ------------------------------
EXTENDS SlotPanel

MCEndpoints == {"A", "B"}

Stereo == [channels |-> 2, format |-> "float"]
MCFormats == {Stereo, [channels |-> 3, format |-> "pcm16"]}
MCFrames == {64, 128}
MCBuffer == [x \in Things |-> 128]

\* Rows on two devices and a cable's row looped back.
MCFirstTable ==
  [DefaultTable(FirstClock) EXCEPT
     !.count = 3,
     !.slot[2] = [NoSlot EXCEPT !.type = "hw", !.stream = 1],
     !.slot[3] = [NoSlot EXCEPT !.type = "virtual", !.loopback = TRUE],
     !.id[1] = "A", !.mode[1] = "shared"]

\* An old file whose cables were stereo, and a broken one with formats: it lost a
\* stream's row.
Row(type, src) ==
  [type |-> type, srcChannel |-> src, streamId |-> 0, name |-> "", enabled |-> TRUE, loopback |-> FALSE]
Tx == [ip |-> "", port |-> 6980, codec |-> "pcm", quality |-> 4, channels |-> 2]
StereoFile ==
  [version |-> 1, masterInCount |-> 2, masterIn |-> <<Row("hw", 0), Row("virtual", 3)>>,
   masterOutCount |-> 2, masterOut |-> <<Row("virtual", 1), Row("virtual", 2)>>,
   general |-> [asioBuffer |-> FirstClock, buffers |-> MCBuffer, virtualName |-> "",
                hwRender |-> <<Default, "B">>],
   netTx |-> <<Tx>>, netRx |-> <<Tx>>]
BrokenFile ==
  [StereoFile EXCEPT !.netTx = <<>>,
     !.general = [asioBuffer |-> FirstClock, buffers |-> MCBuffer, virtualName |-> "",
                 cables |-> <<Stereo>>]]
MCOldFiles == {StereoFile, BrokenFile}
=============================================================================
