------------------------------- MODULE Codec --------------------------------
(***************************************************************************)
(* Capture and encoders of the agent: which codec the capture loop uses,   *)
(* which encoders are open, and for which frame size (agent/stream.go, run;*)
(* agent/remote_session_windows.go, runHelperMode; the encode_*.go and     *)
(* capture_*.go files).  The loop is the same in the helper and in a       *)
(* stream that the agent captures itself, up to what the viewer is told.   *)
(*                                                                         *)
(* A frame's width and height are one number, its size, which is equal,    *)
(* smaller or larger.  Which monitor is captured, bitrates and pixels are  *)
(* left out.  Encoders are C globals and outlive a stream.                 *)
(***************************************************************************)
EXTENDS Naturals, FiniteSets

CONSTANTS
    Programs,     \* who runs the loop, a subset of {"helper", "direct", "unix"}:
                  \* the helper, or the agent itself, on Windows or elsewhere
    WmfKinds,     \* the Windows encoders there may be, a subset of
                  \* {"works", "silent", "absent"}; a silent one has no output
    MaxSize,      \* frame sizes are 1 .. MaxSize
    Threshold,    \* jpegFallbackThreshold (30 in the code)
    MaxStreams,   \* bound: streams the process serves, one after another
    MaxRequests   \* bound: switches of monitor or codec

ASSUME CodecConstants ==
    /\ Programs \subseteq {"helper", "direct", "unix"}
    /\ WmfKinds \subseteq {"works", "silent", "absent"}
    /\ {MaxSize, Threshold} \subseteq Nat \ {0}
    /\ {MaxStreams, MaxRequests} \subseteq Nat

Size == 1 .. MaxSize
Encoder == {"openh264", "h265", "vp9", "av1", "wmf"}
CodecName == {"h264", "h265", "vp9", "av1", "jpeg"}

VARIABLES
    program, wmf,  \* who runs the loop, and which Windows encoder there is
    pc,            \* "idle", "loop", "ended" or "crashed"
    streams,       \* streams begun
    requests,      \* switches made
    capture,       \* the size capture is open for, 0 if it is closed
    size,          \* width and height of the loop, and of its frame buffer
    codec,         \* the use-flag that is set, "wmf" if none is
    handle,        \* per encoder, the size it was initialised for, 0 if closed
    fed, produced, \* encodeInputCount, up to Threshold, and encodeOutputCount > 0
    told,          \* the codec the viewer was last told
    frames         \* frames sent, modulo 2

machine == <<program, wmf>>
wmfCounts == <<fed, produced>>
vars == <<machine, pc, streams, requests, capture, size, codec, handle,
          wmfCounts, told, frames>>

Init ==
    /\ program \in Programs /\ wmf \in WmfKinds
    /\ pc = "idle" /\ streams = 0 /\ requests = 0
    /\ capture = 0 /\ size = 0
    /\ codec = "wmf" /\ handle = [c \in Encoder |-> 0]
    /\ fed = 0 /\ produced = FALSE
    /\ told = "h264" /\ frames = 0

-----------------------------------------------------------------------------
(* Encoders.  Each may be there or not, and initialise or not.              *)
Library == IF program = "unix" THEN {FALSE} ELSE BOOLEAN
openH264Init == Library
h265EncoderInit == Library
av1EncoderInit == Library
\* Outside Windows a stub that reports success and never has output.
vp9EncoderInit == IF program = "unix" THEN {TRUE} ELSE BOOLEAN
encoderInit == program # "unix" /\ wmf # "absent"

Outcomes(c) ==
    CASE c = "openh264" -> openH264Init
      [] c = "h265" -> h265EncoderInit
      [] c = "vp9" -> vp9EncoderInit
      [] c = "av1" -> av1EncoderInit

\* An encoder that is open stays as it is, and its init reports success.
Use(c, open, s) ==
    /\ codec' = c
    /\ handle' = [open EXCEPT ![c] = IF @ = 0 THEN s ELSE @]

UseOrJPEG(c, open, s) ==
    \E ok \in (IF open[c] # 0 THEN {TRUE} ELSE Outcomes(c)) :
        IF ok THEN Use(c, open, s) ELSE codec' = "jpeg" /\ handle' = open

Closing(cs) == [c \in Encoder |-> IF c \in cs THEN 0 ELSE handle[c]]

(* The beginning of a stream.                                               *)
Start(s) ==
    /\ pc' = "loop" /\ capture' = s /\ size' = s
    /\ told' = "h264"
    /\ \E ok \in openH264Init :
          IF ok THEN Use("openh264", handle, s)
          ELSE /\ codec' = "wmf"
               /\ handle' = IF encoderInit THEN [handle EXCEPT !["wmf"] = s] ELSE handle

\* A helper serves one stream, the agent any number.
Open ==
    /\ pc = "idle" \/ (pc = "ended" /\ program # "helper")
    /\ streams < MaxStreams /\ streams' = streams + 1
    /\ \/ \E s \in Size : Start(s)
       \/ pc' = "ended" /\ UNCHANGED <<capture, size, codec, handle, told>>
    /\ UNCHANGED <<machine, requests, wmfCounts, frames>>

\* The deferred calls close OpenH264 or WMF, whichever codec is in use.
Return ==
    /\ pc' = "ended" /\ capture' = 0
    /\ handle' = Closing({IF codec = "openh264" THEN "openh264" ELSE "wmf"})
    /\ UNCHANGED <<machine, streams, requests, size, codec, wmfCounts, told, frames>>

\* The stream is stopped, its viewer has gone, or is idle.
Stop == pc = "loop" /\ Return

-----------------------------------------------------------------------------
(* Switches.                                                                *)
Request ==
    /\ pc = "loop"
    /\ requests < MaxRequests /\ requests' = requests + 1
    /\ UNCHANGED <<machine, pc, streams, wmfCounts, frames>>

\* Fault: a failed switch goes on with the size of a closed capture.
MonitorFails_NoContinue(open) ==
    /\ capture' = 0 /\ size' = 0
    /\ codec' = "wmf" /\ handle' = open
    /\ UNCHANGED told

\* The loop goes on without capture and without encoder.
MonitorFails(open) ==
    /\ capture' = 0
    /\ codec' = "wmf" /\ handle' = open
    /\ UNCHANGED <<size, told>>

\* Fault: the viewer is not told that the new monitor starts with H.264.
MonitorOpens_Silent(open, s) ==
    /\ capture' = s /\ size' = s
    /\ UseOrJPEG("openh264", open, s)
    /\ UNCHANGED told

\* Fault: the encoder is initialised before the loop has the new size.
MonitorOpens_OldSize(open, s) ==
    /\ capture' = s /\ size' = s
    /\ UseOrJPEG("openh264", open, size)
    /\ told' = IF program = "helper" THEN told ELSE "h264"

\* The service drops the helper's second init message.
MonitorOpens(open, s) ==
    /\ capture' = s /\ size' = s
    /\ UseOrJPEG("openh264", open, s)
    /\ told' = IF program = "helper" THEN told ELSE "h264"

SwitchMonitor ==
    /\ Request
    /\ LET open == Closing({codec, "wmf"})
       IN  MonitorFails(open) \/ \E s \in Size : MonitorOpens(open, s)

Selected(name, open) ==
    CASE name = "jpeg" -> codec' = "jpeg" /\ handle' = open
      [] name = "h264" -> UseOrJPEG("openh264", open, size)
      [] OTHER -> UseOrJPEG(name, open, size)

\* The viewer is told the codec it asked for, whether or not it is JPEG instead.
SwitchCodec(name) ==
    /\ Request
    /\ Selected(name, IF codec = "jpeg" THEN handle ELSE Closing({codec, "wmf"}))
    /\ told' = name
    /\ UNCHANGED <<capture, size>>

-----------------------------------------------------------------------------
(* A tick of the frame timer.  A capture larger than the frame buffer is an *)
(* error that the loop passes over at every tick.                           *)
Captured == pc = "loop" /\ capture = size

\* DXGI, else GDI for the monitor or for the whole virtual screen, else nothing.
captureInit == capture' \in 0 .. MaxSize

\* Windows takes the screen away: capture is opened again, on the primary
\* monitor.
CaptureLost ==
    /\ pc = "loop" /\ program # "unix"
    /\ capture \in 1 .. size
    /\ captureInit
    /\ UNCHANGED <<machine, pc, streams, requests, size, codec, handle, wmfCounts,
                   told, frames>>

\* The duplication interface of a closed capture is a null pointer.
CaptureMissing ==
    /\ pc = "loop" /\ program # "unix" /\ capture = 0
    /\ pc' = "crashed"
    /\ UNCHANGED <<machine, streams, requests, capture, size, codec, handle, wmfCounts,
                   told, frames>>

\* An encoder of another size is fed: it reads or writes past the frame.
Overrun ==
    /\ Captured /\ codec \in Encoder /\ handle[codec] \notin {0, size}
    /\ pc' = "crashed"
    /\ UNCHANGED <<machine, streams, requests, capture, size, codec, handle, wmfCounts,
                   told, frames>>

\* "resolution changed": the stream ends, for the viewer to reconnect.
Resized == pc = "loop" /\ capture \in 1 .. size - 1 /\ Return

Count == fed' = IF fed < Threshold THEN fed + 1 ELSE fed

HasOutput ==
    CASE codec = "jpeg" -> TRUE
      [] codec = "wmf" -> handle["wmf"] # 0 /\ wmf = "works"
      [] OTHER -> program # "unix"

SendFrame ==
    /\ Captured /\ HasOutput
    /\ frames' = 1 - frames
    /\ IF codec = "wmf" THEN Count /\ produced' = TRUE ELSE UNCHANGED wmfCounts
    /\ UNCHANGED <<machine, pc, streams, requests, capture, size, codec, handle, told>>

WmfFed ==
    /\ Captured /\ codec = "wmf" /\ handle["wmf"] # 0
    /\ Count
    /\ UNCHANGED <<machine, pc, streams, requests, capture, size, produced, frames>>

WmfError == WmfFed /\ UNCHANGED <<codec, handle, told>>

\* Fault: the encoder that had no output stays open.
JPEGFallback_KeepsWMF ==
    /\ codec' = "jpeg" /\ UNCHANGED handle
    /\ told' = IF program = "helper" THEN told ELSE "jpeg"

\* The helper does not tell.
JPEGFallback ==
    /\ codec' = "jpeg" /\ handle' = Closing({"wmf"})
    /\ told' = IF program = "helper" THEN told ELSE "jpeg"

WmfNoOutput ==
    /\ WmfFed
    /\ IF fed' = Threshold /\ ~produced THEN JPEGFallback
       ELSE UNCHANGED <<codec, handle, told>>

Frame ==
    \/ CaptureLost \/ CaptureMissing \/ Overrun \/ Resized
    \/ SendFrame \/ WmfError \/ WmfNoOutput

Next ==
    \/ Open \/ Stop
    \/ SwitchMonitor \/ (\E name \in CodecName : SwitchCodec(name))
    \/ Frame

Spec == Init /\ [][Next]_vars
-----------------------------------------------------------------------------
TypeOK ==
    /\ program \in Programs /\ wmf \in WmfKinds
    /\ pc \in {"idle", "loop", "ended", "crashed"}
    /\ streams \in 0 .. MaxStreams /\ requests \in 0 .. MaxRequests
    /\ capture \in 0 .. MaxSize
    /\ size \in (IF pc = "loop" THEN Size ELSE 0 .. MaxSize)
    /\ codec \in Encoder \cup {"jpeg"}
    /\ handle \in [Encoder -> 0 .. MaxSize]
    /\ fed \in 0 .. Threshold /\ produced \in BOOLEAN
    /\ told \in CodecName
    /\ frames \in {0, 1}

\* The only stream of a helper, and the first of the agent.  A stream that uses
\* VP9, H.265 or AV1 leaves its encoder open at its end, to the next one.
FirstStream == pc = "loop" /\ streams = 1

\* An init of an open encoder changes nothing and an encoder reads and writes
\* as many bytes as it was initialised for: through all switches, whatever is
\* open has the size of the loop's frames, and the encoder in use is open.
EncoderFits ==
    FirstStream => /\ \A c \in Encoder : handle[c] \in {0, size}
                   /\ codec \in Encoder \ {"wmf"} => handle[codec] # 0

\* A switch leaves no encoder behind: there is never a second one open.
OneEncoder == FirstStream => Cardinality({c \in Encoder : handle[c] # 0}) <= 1

\* What a direct stream sends is in the codec it has last announced, or JPEG.
AnnouncedCodec ==
    [][frames' # frames /\ program = "direct" =>
          \/ codec = "jpeg"
          \/ told = (IF codec \in {"openh264", "wmf"} THEN "h264" ELSE codec)]_vars
=============================================================================
