----------------------------- MODULE MCFbUpdate -----------------------------
(* The clients, application calls and bounds with which FbUpdate is checked. *)
EXTENDS FbUpdate

CONSTANTS a, b

TwoAreas == {a, b}
OneArea == {a}

Incremental == [type |-> "fbu", inc |-> TRUE, area |-> {a}]
Full == [type |-> "fbu", inc |-> FALSE, area |-> {a}]
SetPf(p) == [type |-> "setPixelFormat", palette |-> p]
SetEnc(e) == [type |-> "setEncodings", encs |-> e]
CuOn == [type |-> "cu", on |-> TRUE, area |-> {a}]
CuOff == [type |-> "cu", on |-> FALSE, area |-> {}]
Fence(f) == [type |-> "fence", flags |-> f]
Bad == [type |-> "bad"]

PlainMsgs == {Incremental, Full, SetPf(FALSE)}
FenceMsgs == {Incremental, Fence({"before", "after"}), Fence({"sync", "after"}),
              Fence({"before"})}
NestedMsgs == {Incremental, Full, Fence({"sync", "after"}), Fence({"before"}), CuOn,
               CuOff, Bad}
FaultMsgs == {Incremental, Full, SetPf(FALSE), SetPf(TRUE), SetEnc({"cu", "name"}),
              SetEnc({"fence", "cu"}), Bad}

(* For behaviour that the README describes and the runs leave out. *)
SyncMsgs == {Incremental, Full, Fence({"sync", "after"})}

BasicEncs == {{"resize", "cursor", "ext"}}
FenceEncs == {{"fence", "resize", "cursor", "led"}}
FlowEncs == {{"fence", "resize"}}
NestedEncs == {{"fence", "cursor"}}

AllEncs == {{"name"}, {"resize", "cursor", "ext", "name"}}
AllEvents == {"damage", "cursor", "resize", "name", "close"}
PlainEvents == {"damage", "cursor", "resize"}
CursorEvents == {"cursor", "close"}
NotifyEvents == {"damage", "cursor", "led"}
FrameEvents == {"damage", "resize"}

Both == {"direct", "composite"}
NoFaults == {}
AllFaults == {"feed", "setup", "encode", "cursor"}
=============================================================================
