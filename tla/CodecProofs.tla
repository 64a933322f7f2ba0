----------------------------- MODULE CodecProofs -----------------------------
(***************************************************************************)
(* Theorems about Codec.  In the first stream of a process, the only one   *)
(* of a helper, an open encoder is the one in use and has the size of the  *)
(* loop's frames: on any machine, for any sizes and any number of switches.*)
(* And a direct stream sends in the codec it has announced.                *)
(***************************************************************************)
EXTENDS Codec, FiniteSetTheorems, TLAPS

Typed ==
    /\ handle \in [Encoder -> Nat]
    /\ codec \in Encoder \cup {"jpeg"}
    /\ pc = "loop" => size \in Size

\* The first stream finds nothing open.
Fresh ==
    /\ streams \in Nat
    /\ pc = "idle" => streams = 0 /\ \A c \in Encoder : handle[c] = 0
    /\ pc # "idle" => streams >= 1

\* Only the encoder in use may be open, and the flagged one is.
OnlyInUse(use, open, s) ==
    /\ \A c \in Encoder : open[c] # 0 => c = use /\ open[c] = s
    /\ use \in Encoder \ {"wmf"} => open[use] # 0

InUse == FirstStream => OnlyInUse(codec, handle, size)

IInv == Typed /\ Fresh /\ InUse

None == [c \in Encoder |-> 0]

-----------------------------------------------------------------------------
\* Using an encoder, or JPEG instead of it: when nothing is open, only the
\* encoder in use is open afterwards.
LEMMA Using ==
    ASSUME CodecConstants, NEW c \in Encoder \ {"wmf"}, NEW s \in Size,
           NEW open \in [Encoder -> Nat], UseOrJPEG(c, open, s)
    PROVE  /\ handle' \in [Encoder -> Nat]
           /\ codec' \in Encoder \cup {"jpeg"}
           /\ open = None => OnlyInUse(codec', handle', s)
<1>1. s \in Nat \ {0}
  BY DEF Size, CodecConstants
<1>2. CASE Use(c, open, s)
  <2>1. codec' = c /\ handle' = [open EXCEPT ![c] = IF @ = 0 THEN s ELSE @]
    BY <1>2 DEF Use
  <2>2. open = None => handle' = [None EXCEPT ![c] = s]
    BY <2>1 DEF None
  <2>3. QED
    BY <1>1, <2>1, <2>2 DEF OnlyInUse, None
<1>3. CASE codec' = "jpeg" /\ handle' = open
  BY <1>3 DEF OnlyInUse, None, Encoder
<1>4. QED
  BY <1>2, <1>3 DEF UseOrJPEG

\* A switch in the first stream closes all there is.
LEMMA NothingLeft ==
    ASSUME IInv, FirstStream
    PROVE  /\ Closing({codec, "wmf"}) = None
           /\ codec = "jpeg" => handle = None
<1>1. OnlyInUse(codec, handle, size)
  BY DEF IInv, InUse
<1>2. Closing({codec, "wmf"}) = None
  BY <1>1 DEF Closing, None, OnlyInUse
<1>3. ASSUME codec = "jpeg" PROVE handle = None
  <2>1. \A c \in Encoder : handle[c] = 0
    BY <1>1, <1>3 DEF OnlyInUse, Encoder
  <2>2. QED
    BY <2>1 DEF IInv, Typed, None
<1>4. QED
  BY <1>2, <1>3

LEMMA ClosingType ==
    ASSUME Typed, NEW cs
    PROVE  Closing(cs) \in [Encoder -> Nat]
BY DEF Typed, Closing

-----------------------------------------------------------------------------
LEMMA InitInv == ASSUME Init PROVE IInv
BY DEF Init, IInv, Typed, Fresh, InUse, FirstStream, Encoder

LEMMA OpenStep ==
    ASSUME CodecConstants, IInv, Open
    PROVE  IInv'
<1>1. streams \in Nat /\ streams' = streams + 1
  BY DEF Open, IInv, Fresh
<1>2. streams' = 1 => handle = None
  BY <1>1 DEF IInv, Typed, Fresh, None
<1>3. CASE \E s \in Size : Start(s)
  <2>1. PICK s \in Size : Start(s)
    BY <1>3
  <2>2. s \in Nat \ {0} /\ pc' = "loop" /\ size' = s
    BY <2>1 DEF Start, Size, CodecConstants
  <2>3. PICK ok \in openH264Init :
          IF ok THEN Use("openh264", handle, s)
          ELSE /\ codec' = "wmf"
               /\ handle' = IF encoderInit THEN [handle EXCEPT !["wmf"] = s] ELSE handle
    BY <2>1 DEF Start
  <2>4. /\ handle' \in [Encoder -> Nat]
        /\ codec' \in Encoder \cup {"jpeg"}
    BY <2>2, <2>3 DEF Use, IInv, Typed, Encoder
  <2>5. ASSUME handle = None PROVE OnlyInUse(codec', handle', s)
    <3>1. CASE ok
      <4>1. codec' = "openh264" /\ handle' = [None EXCEPT !["openh264"] = s]
        BY <2>3, <2>5, <3>1 DEF Use, None, Encoder
      <4>2. QED
        BY <2>2, <4>1 DEF OnlyInUse, None, Encoder
    <3>2. CASE ~ok
      BY <2>2, <2>3, <2>5, <3>2 DEF OnlyInUse, None, Encoder
    <3>3. QED
      BY <3>1, <3>2
  <2>6. QED
    BY <1>1, <1>2, <2>1, <2>2, <2>4, <2>5 DEF IInv, Typed, Fresh, InUse, FirstStream, Size
<1>4. CASE pc' = "ended" /\ UNCHANGED <<capture, size, codec, handle, told>>
  BY <1>1, <1>4 DEF IInv, Typed, Fresh, InUse, FirstStream
<1>5. QED
  BY <1>3, <1>4 DEF Open

LEMMA ReturnStep ==
    ASSUME IInv, pc = "loop", Return
    PROVE  IInv'
<1>1. handle' \in [Encoder -> Nat]
  BY ClosingType DEF Return, IInv
<1>2. QED
  BY <1>1 DEF Return, IInv, Typed, Fresh, InUse, FirstStream

LEMMA MonitorStep ==
    ASSUME CodecConstants, IInv, SwitchMonitor
    PROVE  IInv'
<1> DEFINE open == Closing({codec, "wmf"})
<1>1. pc = "loop" /\ pc' = "loop" /\ streams' = streams
  BY DEF SwitchMonitor, Request
<1>2. open \in [Encoder -> Nat] /\ (FirstStream => open = None)
  BY ClosingType, NothingLeft DEF IInv
<1>3. MonitorFails(open) \/ \E s \in Size : MonitorOpens(open, s)
  BY DEF SwitchMonitor
<1> HIDE DEF open
<1>4. CASE MonitorFails(open)
  <2>1. codec' = "wmf" /\ handle' = open /\ size' = size
    BY <1>4 DEF MonitorFails
  <2>2. FirstStream => OnlyInUse("wmf", open, size)
    BY <1>2 DEF OnlyInUse, None
  <2>3. QED
    BY <1>1, <1>2, <2>1, <2>2 DEF IInv, Typed, Fresh, InUse, FirstStream, Encoder
<1>5. ASSUME NEW s \in Size, MonitorOpens(open, s) PROVE IInv'
  <2>1. UseOrJPEG("openh264", open, s) /\ size' = s
    BY <1>5 DEF MonitorOpens
  <2>2. "openh264" \in Encoder \ {"wmf"}
    BY DEF Encoder
  <2>3. /\ handle' \in [Encoder -> Nat]
        /\ codec' \in Encoder \cup {"jpeg"}
        /\ open = None => OnlyInUse(codec', handle', s)
    BY <1>2, <2>1, <2>2, Using
  <2>4. QED
    BY <1>1, <1>2, <2>1, <2>3 DEF IInv, Typed, Fresh, InUse, FirstStream, Size
<1>6. QED
  BY <1>3, <1>4, <1>5

LEMMA CodecStep ==
    ASSUME CodecConstants, IInv, NEW name \in CodecName, SwitchCodec(name)
    PROVE  IInv'
<1> DEFINE open == IF codec = "jpeg" THEN handle ELSE Closing({codec, "wmf"})
<1>1. pc = "loop" /\ pc' = "loop" /\ streams' = streams /\ size' = size
  BY DEF SwitchCodec, Request
<1>2. open \in [Encoder -> Nat] /\ (FirstStream => open = None)
  BY ClosingType, NothingLeft DEF IInv, Typed
<1>3. Selected(name, open)
  BY DEF SwitchCodec
<1> HIDE DEF open
<1>4. size \in Size
  BY <1>1 DEF IInv, Typed
<1>5. ASSUME NEW c \in Encoder \ {"wmf"}, UseOrJPEG(c, open, size)
      PROVE  /\ handle' \in [Encoder -> Nat]
             /\ codec' \in Encoder \cup {"jpeg"}
             /\ open = None => OnlyInUse(codec', handle', size)
  BY <1>2, <1>4, <1>5, Using
<1>6. CASE name = "jpeg"
  <2>1. codec' = "jpeg" /\ handle' = open
    BY <1>3, <1>6 DEF Selected
  <2>2. FirstStream => OnlyInUse("jpeg", open, size)
    BY <1>2 DEF OnlyInUse, None, Encoder
  <2>3. QED
    BY <1>1, <1>2, <1>4, <2>1, <2>2 DEF IInv, Typed, Fresh, InUse, FirstStream
<1>7. CASE name # "jpeg"
  <2>1. \E c \in Encoder \ {"wmf"} : UseOrJPEG(c, open, size)
    BY <1>3, <1>7 DEF Selected, CodecName, Encoder
  <2>2. QED
    BY <1>1, <1>2, <1>4, <1>5, <2>1 DEF IInv, Typed, Fresh, InUse, FirstStream
<1>8. QED
  BY <1>6, <1>7

LEMMA FrameStep ==
    ASSUME IInv, Frame
    PROVE  IInv'
<1>1. CASE CaptureLost
  BY <1>1 DEF CaptureLost, IInv, Typed, Fresh, InUse, FirstStream
<1>2. CASE CaptureMissing \/ Overrun
  BY <1>2 DEF CaptureMissing, Overrun, Captured, IInv, Typed, Fresh, InUse, FirstStream
<1>3. CASE Resized
  BY <1>3, ReturnStep DEF Resized
<1>4. CASE SendFrame
  BY <1>4 DEF SendFrame, IInv, Typed, Fresh, InUse, FirstStream
<1>5. CASE WmfError
  BY <1>5 DEF WmfError, WmfFed, IInv, Typed, Fresh, InUse, FirstStream
<1>6. CASE WmfNoOutput
  <2>1. pc = "loop" /\ codec = "wmf" /\ UNCHANGED <<pc, streams, size>>
    BY <1>6 DEF WmfNoOutput, WmfFed, Captured
  <2>2. CASE JPEGFallback
    <3>1. codec' = "jpeg" /\ handle' = Closing({"wmf"})
      BY <2>2 DEF JPEGFallback
    <3>2. handle' \in [Encoder -> Nat]
      BY <3>1, ClosingType DEF IInv
    <3>3. FirstStream => OnlyInUse(codec', handle', size)
      BY <2>1, <3>1 DEF IInv, InUse, OnlyInUse, Closing, Encoder
    <3>4. QED
      BY <2>1, <3>1, <3>2, <3>3 DEF IInv, Typed, Fresh, InUse, FirstStream
  <2>3. CASE UNCHANGED <<codec, handle, told>>
    BY <2>1, <2>3 DEF IInv, Typed, Fresh, InUse, FirstStream
  <2>4. QED
    BY <1>6, <2>2, <2>3 DEF WmfNoOutput
<1>7. QED
  BY <1>1, <1>2, <1>3, <1>4, <1>5, <1>6 DEF Frame

\* The invariant the two theorems below rest on: what the loop's use-flags, the
\* encoders and the frame size have to do with each other.
THEOREM CodecInductive == Spec => []IInv
<1>1. Init => IInv
  BY InitInv
<1>2. IInv /\ [Next]_vars => IInv'
  <2> SUFFICES ASSUME IInv, [Next]_vars PROVE IInv'
    OBVIOUS
  <2>1. CASE Open
    BY <2>1, OpenStep, CodecConstants
  <2>2. CASE Stop
    BY <2>2, ReturnStep DEF Stop
  <2>3. CASE SwitchMonitor
    BY <2>3, MonitorStep, CodecConstants
  <2>4. CASE \E name \in CodecName : SwitchCodec(name)
    BY <2>4, CodecStep, CodecConstants
  <2>5. CASE Frame
    BY <2>5, FrameStep
  <2>6. CASE UNCHANGED vars
    BY <2>6 DEF vars, IInv, Typed, Fresh, InUse, FirstStream
  <2>7. QED
    BY <2>1, <2>2, <2>3, <2>4, <2>5, <2>6 DEF Next
<1>3. QED
  BY <1>1, <1>2, PTL DEF Spec

\* Through all switches, fallbacks and failures of a process's first stream, an
\* open encoder has the size of the frames it is given, and the one in use is
\* open.
THEOREM EncoderFitsAlways == Spec => []EncoderFits
<1>1. IInv => EncoderFits
  BY DEF IInv, InUse, OnlyInUse, EncoderFits
<1>2. QED
  BY <1>1, CodecInductive, PTL

\* In a process's first stream there is never a second encoder open.
THEOREM OneEncoderAlways == Spec => []OneEncoder
<1>1. IInv => OneEncoder
  <2> SUFFICES ASSUME IInv, FirstStream
               PROVE  Cardinality({c \in Encoder : handle[c] # 0}) <= 1
    BY DEF OneEncoder
  <2> DEFINE open == {c \in Encoder : handle[c] # 0}
  <2>1. open \subseteq {codec}
    BY DEF IInv, InUse, OnlyInUse
  <2>2. IsFiniteSet({codec}) /\ Cardinality({codec}) = 1
    BY FS_Singleton
  <2>3. QED
    BY <2>1, <2>2, FS_Subset
<1>2. QED
  BY <1>1, CodecInductive, PTL
-----------------------------------------------------------------------------
(* Type correctness, with the sizes of the encoders.                        *)
OpenSizes == [Encoder -> 0 .. MaxSize]

LEMMA UsingType ==
    ASSUME NEW c \in Encoder, NEW s \in Size, NEW open \in OpenSizes, UseOrJPEG(c, open, s)
    PROVE  handle' \in OpenSizes /\ codec' \in Encoder \cup {"jpeg"}
BY DEF UseOrJPEG, Use, OpenSizes, Size

LEMMA ClosingSizes ==
    ASSUME CodecConstants, handle \in OpenSizes, NEW cs
    PROVE  Closing(cs) \in OpenSizes
BY DEF CodecConstants, Closing, OpenSizes

LEMMA TypeInit == ASSUME CodecConstants, Init PROVE TypeOK
<1>1. handle \in [Encoder -> 0 .. MaxSize]
  BY DEF Init, CodecConstants
<1>2. 0 \in 0 .. MaxSize /\ 0 \in 0 .. MaxStreams /\ 0 \in 0 .. MaxRequests /\ 0 \in 0 .. Threshold
  BY DEF CodecConstants
<1>3. QED
  BY <1>1, <1>2 DEF Init, TypeOK, Encoder, CodecName

LEMMA OpenType ==
    ASSUME CodecConstants, TypeOK, Open
    PROVE  TypeOK'
<1>1. /\ streams' \in 0 .. MaxStreams
      /\ UNCHANGED <<machine, requests, wmfCounts, frames>>
  BY DEF Open, TypeOK, CodecConstants
<1>2. ASSUME NEW s \in Size, Start(s) PROVE TypeOK'
  <2>1. pc' = "loop" /\ capture' = s /\ size' = s /\ told' = "h264"
    BY <1>2 DEF Start
  <2>2. handle' \in OpenSizes /\ codec' \in Encoder
    <3>1. PICK ok \in openH264Init :
            IF ok THEN Use("openh264", handle, s)
            ELSE /\ codec' = "wmf"
                 /\ handle' = IF encoderInit THEN [handle EXCEPT !["wmf"] = s] ELSE handle
      BY <1>2 DEF Start
    <3>2. QED
      BY <1>2, <3>1 DEF Use, TypeOK, OpenSizes, Size, Encoder
  <2>3. s \in 0 .. MaxSize
    BY <1>2 DEF Size, CodecConstants
  <2>4. QED
    BY <1>1, <1>2, <2>1, <2>2, <2>3 DEF TypeOK, OpenSizes, CodecName, machine, wmfCounts
<1>3. CASE pc' = "ended" /\ UNCHANGED <<capture, size, codec, handle, told>>
  BY <1>1, <1>3 DEF TypeOK, Size, machine, wmfCounts, CodecConstants
<1>4. QED
  BY <1>2, <1>3 DEF Open

LEMMA ReturnType ==
    ASSUME CodecConstants, TypeOK, pc = "loop", Return
    PROVE  TypeOK'
<1>1. handle' \in OpenSizes
  BY ClosingSizes DEF Return, TypeOK, OpenSizes
<1>2. QED
  <2>1. pc' = "ended" /\ capture' = 0 /\ handle' \in OpenSizes
    BY <1>1 DEF Return
  <2>2. size' = size /\ size \in 0 .. MaxSize /\ 0 \in 0 .. MaxSize
    BY DEF Return, TypeOK, Size, CodecConstants
  <2>3. UNCHANGED <<program, wmf, streams, requests, codec, fed, produced, told, frames>>
    BY DEF Return, machine, wmfCounts
  <2>4. QED
    BY <2>1, <2>2, <2>3 DEF TypeOK, OpenSizes

\* What a switch changes.
Switched ==
    /\ handle' \in OpenSizes /\ codec' \in Encoder \cup {"jpeg"}
    /\ size' \in Size /\ capture' \in 0 .. MaxSize /\ told' \in CodecName

LEMMA MonitorType ==
    ASSUME CodecConstants, TypeOK, pc = "loop", SwitchMonitor
    PROVE  Switched
<1> DEFINE open == Closing({codec, "wmf"})
<1>1. open \in OpenSizes /\ size \in Size
  BY ClosingSizes DEF TypeOK, OpenSizes
<1>2. MonitorFails(open) \/ \E s \in Size : MonitorOpens(open, s)
  BY DEF SwitchMonitor
<1> HIDE DEF open
<1>3. CASE MonitorFails(open)
  BY <1>1, <1>3 DEF MonitorFails, Switched, TypeOK, Encoder, CodecConstants
<1>4. ASSUME NEW s \in Size, MonitorOpens(open, s) PROVE Switched
  <2>1. handle' \in OpenSizes /\ codec' \in Encoder \cup {"jpeg"}
    BY <1>1, <1>4, UsingType DEF MonitorOpens, Encoder
  <2>2. QED
    BY <1>4, <2>1 DEF MonitorOpens, Switched, TypeOK, Size, CodecName, CodecConstants
<1>5. QED
  BY <1>2, <1>3, <1>4

LEMMA CodecType ==
    ASSUME CodecConstants, TypeOK, pc = "loop", NEW name \in CodecName, SwitchCodec(name)
    PROVE  Switched
<1> DEFINE open == IF codec = "jpeg" THEN handle ELSE Closing({codec, "wmf"})
<1>1. open \in OpenSizes /\ size \in Size
  BY ClosingSizes DEF TypeOK, OpenSizes
<1>2. Selected(name, open)
  BY DEF SwitchCodec
<1> HIDE DEF open
<1>3. \/ codec' = "jpeg" /\ handle' = open
      \/ \E c \in Encoder : UseOrJPEG(c, open, size)
  BY <1>2 DEF Selected, CodecName, Encoder
<1>4. handle' \in OpenSizes /\ codec' \in Encoder \cup {"jpeg"}
  BY <1>1, <1>3, UsingType
<1>5. QED
  BY <1>1, <1>4 DEF SwitchCodec, Switched, TypeOK

LEMMA SwitchType ==
    ASSUME CodecConstants, TypeOK,
           SwitchMonitor \/ \E name \in CodecName : SwitchCodec(name)
    PROVE  TypeOK'
<1>1. /\ pc = "loop" /\ pc' = "loop"
      /\ requests' \in 0 .. MaxRequests
      /\ UNCHANGED <<machine, streams, wmfCounts, frames>>
  BY DEF SwitchMonitor, SwitchCodec, Request, TypeOK, CodecConstants
<1>2. Switched
  BY <1>1, MonitorType, CodecType
<1>3. QED
  BY <1>1, <1>2 DEF TypeOK, Switched, OpenSizes, machine, wmfCounts

LEMMA FrameType ==
    ASSUME CodecConstants, TypeOK, Frame
    PROVE  TypeOK'
<1>1. CASE CaptureLost
  BY <1>1 DEF CaptureLost, captureInit, TypeOK, machine, wmfCounts
<1>2. CASE CaptureMissing \/ Overrun
  BY <1>2 DEF CaptureMissing, Overrun, Captured, TypeOK, Size, machine, wmfCounts, CodecConstants
<1>3. CASE Resized
  BY <1>3, ReturnType DEF Resized
<1>4. CASE SendFrame
  <2>1. /\ fed' = fed \/ fed' = IF fed < Threshold THEN fed + 1 ELSE fed
        /\ produced' = produced \/ produced' = TRUE
    BY <1>4, Zenon DEF SendFrame, Count, wmfCounts
  <2>2. frames' \in {0, 1}
    BY <1>4 DEF SendFrame, TypeOK
  <2>3. fed' \in 0 .. Threshold
    BY <2>1 DEF TypeOK, CodecConstants
  <2>4. produced' \in BOOLEAN
    BY <2>1, Zenon DEF TypeOK
  <2>5. QED
    BY <1>4, <2>2, <2>3, <2>4 DEF SendFrame, TypeOK, machine
<1>5. CASE WmfError \/ WmfNoOutput
  <2>1. /\ fed' \in 0 .. Threshold
        /\ UNCHANGED <<machine, pc, streams, requests, capture, size, produced, frames>>
    BY <1>5 DEF WmfError, WmfNoOutput, WmfFed, Count, TypeOK, CodecConstants
  <2>2. JPEGFallback \/ UNCHANGED <<codec, handle, told>>
    BY <1>5 DEF WmfError, WmfNoOutput
  <2>3. CASE JPEGFallback
    <3>1. handle' \in OpenSizes
      BY <2>3, ClosingSizes DEF JPEGFallback, TypeOK, OpenSizes
    <3>2. QED
      BY <2>1, <2>3, <3>1 DEF JPEGFallback, TypeOK, OpenSizes, CodecName, machine
  <2>4. CASE UNCHANGED <<codec, handle, told>>
    BY <2>1, <2>4 DEF TypeOK, machine
  <2>5. QED
    BY <2>2, <2>3, <2>4
<1>6. QED
  BY <1>1, <1>2, <1>3, <1>4, <1>5 DEF Frame

\* Types hold for any sizes, bounds and machines: in its loop the process has a
\* size, and no encoder is open for one there is not.
THEOREM CodecTypeCorrect == Spec => []TypeOK
<1>1. Init => TypeOK
  BY TypeInit, CodecConstants
<1>2. TypeOK /\ [Next]_vars => TypeOK'
  <2> SUFFICES ASSUME TypeOK, [Next]_vars PROVE TypeOK'
    OBVIOUS
  <2>1. CASE Open
    BY <2>1, OpenType, CodecConstants
  <2>2. CASE Stop
    BY <2>2, ReturnType, CodecConstants DEF Stop
  <2>3. CASE SwitchMonitor \/ \E name \in CodecName : SwitchCodec(name)
    BY <2>3, SwitchType, CodecConstants
  <2>4. CASE Frame
    BY <2>4, FrameType, CodecConstants
  <2>5. CASE UNCHANGED vars
    BY <2>5 DEF vars, TypeOK, machine, wmfCounts
  <2>6. QED
    BY <2>1, <2>2, <2>3, <2>4, <2>5 DEF Next
<1>3. QED
  BY <1>1, <1>2, PTL DEF Spec

-----------------------------------------------------------------------------
(* What the viewer of a direct stream is told.  A switch of the monitor     *)
(* that fails leaves the announcement of another codec behind, but with it  *)
(* a closed capture, from which no frame comes.                             *)
Announces(name, c) == c = "jpeg" \/ name = (IF c \in {"openh264", "wmf"} THEN "h264" ELSE c)

Announced ==
    program = "direct" /\ pc = "loop" => capture = 0 \/ Announces(told, codec)

LEMMA AnnouncedStep ==
    ASSUME TypeOK, Announced, [Next]_vars
    PROVE  Announced'
<1>1. CASE Open
  BY <1>1 DEF Open, Start, Use, Announced, Announces, machine
<1>2. CASE Stop \/ Resized
  BY <1>2 DEF Stop, Resized, Return, Announced
<1>3. CASE SwitchMonitor
  <2> DEFINE open == Closing({codec, "wmf"})
  <2>1. MonitorFails(open) \/ \E s \in Size : MonitorOpens(open, s)
    BY <1>3 DEF SwitchMonitor
  <2>2. program' = program
    BY <1>3 DEF SwitchMonitor, Request, machine
  <2> HIDE DEF open
  <2>3. CASE MonitorFails(open)
    BY <2>3 DEF MonitorFails, Announced
  <2>4. CASE \E s \in Size : MonitorOpens(open, s)
    BY <2>2, <2>4 DEF MonitorOpens, UseOrJPEG, Use, Announced, Announces
  <2>5. QED
    BY <2>1, <2>3, <2>4
<1>4. ASSUME NEW name \in CodecName, SwitchCodec(name) PROVE Announced'
  <2> DEFINE open == IF codec = "jpeg" THEN handle ELSE Closing({codec, "wmf"})
  <2>1. Selected(name, open) /\ told' = name
    BY <1>4 DEF SwitchCodec
  <2> HIDE DEF open
  <2>2. codec' = "jpeg" \/ codec' = (IF name = "h264" THEN "openh264" ELSE name)
    BY <2>1 DEF Selected, UseOrJPEG, Use
  <2>3. QED
    BY <1>4, <2>1, <2>2 DEF CodecName, Announced, Announces
<1>5. CASE CaptureLost
  BY <1>5 DEF CaptureLost, Announced, machine, TypeOK
<1>6. CASE CaptureMissing \/ Overrun
  BY <1>6 DEF CaptureMissing, Overrun, Announced
<1>7. CASE SendFrame \/ WmfError
  BY <1>7 DEF SendFrame, WmfError, WmfFed, Announced, machine
<1>8. CASE WmfNoOutput
  BY <1>8 DEF WmfNoOutput, WmfFed, JPEGFallback, Announced, Announces, machine
<1>9. CASE UNCHANGED vars
  BY <1>9 DEF vars, Announced, machine
<1>10. QED
  BY <1>1, <1>2, <1>3, <1>4, <1>5, <1>6, <1>7, <1>8, <1>9 DEF Next, Frame

\* A frame of a direct stream is in the codec the viewer was last told, or it
\* is JPEG, on any machine and after any number of switches and fallbacks.
THEOREM AnnouncedAlways == Spec => AnnouncedCodec
<1> DEFINE Told ==
      frames' # frames /\ program = "direct" =>
          \/ codec = "jpeg"
          \/ told = (IF codec \in {"openh264", "wmf"} THEN "h264" ELSE codec)
<1>1. Init => Announced
  BY DEF Init, Announced
<1>2. TypeOK /\ Announced /\ [Next]_vars => Announced'
  BY AnnouncedStep
<1>3. TypeOK /\ Announced /\ [Next]_vars => [Told]_vars
  <2> SUFFICES ASSUME TypeOK, Announced, Next, frames' # frames, program = "direct"
               PROVE  Told
    BY DEF vars
  <2>1. SendFrame
    BY DEF Next, Open, Stop, Return, SwitchMonitor, SwitchCodec, Request, Frame,
       CaptureLost, CaptureMissing, Overrun, Resized, WmfError, WmfNoOutput, WmfFed
  <2>2. pc = "loop" /\ capture = size /\ size # 0
    BY <2>1, CodecConstants DEF SendFrame, Captured, TypeOK, Size, CodecConstants
  <2>3. QED
    BY <2>2 DEF Announced, Announces
<1>4. QED
  BY <1>1, <1>2, <1>3, CodecTypeCorrect, PTL DEF Spec, AnnouncedCodec
=============================================================================
