---------------------------- MODULE MCSlotRouting ----------------------------
EXTENDS SlotRouting
CONSTANTS a, b

Source(type, of, ch, loop) == [type |-> type, of |-> of, ch |-> ch, loop |-> loop]
MCNone == Source("none", 0, 0, FALSE)
Mic == Source("hw", 0, 0, FALSE)
Aux == Source("hw", 1, 1, FALSE)
Loop == Source("virtual", 0, 0, TRUE)
Past == Source("virtual", 0, 1, FALSE)
Chat == Source("virtual", 1, 0, FALSE)
MCSources == {MCNone, Mic, Aux, Loop, Past, Chat}
Place(id, mode) == [id |-> id, mode |-> mode]
Default == Place(NoId, "exclusive")
First == Place(a, "exclusive")
Second == Place(b, "auto")
Mixed == Place(a, "shared")
MCEntries == {Default, First, Second, Mixed}
MCDeviceChannels == [e \in {a, b} |-> IF e = a THEN 2 ELSE 3]
MCMixChannels == [e \in {a, b} |-> IF e = a THEN 1 ELSE 3]
MCCableChannels == [c \in {0, 1} |-> 1]

Table(render, capture, out1, out2, in1, in2) ==
    [ids |-> [f \in Flow |-> [d \in Devices |-> IF f = "render" THEN render[d + 1] ELSE capture[d + 1]]],
     out |-> [o \in OutRows |-> IF o = 1 THEN out1 ELSE out2],
     in |-> [i \in InRows |-> IF i = 1 THEN in1 ELSE in2]]

\* The default, a device by name and one listed twice; devices by name; cables only.
MCFirstTables == {
    Table(<<Default, Second>>, <<First, First>>, Mic, Aux, Mic, Aux),
    Table(<<First, Second>>, <<Second, Mixed>>, Aux, Chat, Mic, Chat),
    Table(<<Default, Default>>, <<Default, Default>>, Loop, Chat, Loop, Past)}
===============================================================================
