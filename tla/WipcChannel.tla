------------------------------ MODULE WipcChannel ------------------------------
(***************************************************************************)
(* The WIPC channel from a running spec to the CLI.  The spec's runtime    *)
(* (assembly/util/wipc.ts) writes frames into its standard output, between *)
(* whatever else is printed there; Channel of src/cli/wipc.ts finds them   *)
(* again in chunks cut anywhere, and passes the rest on.                   *)
(*                                                                         *)
(* A frame is the magic, a type, the length of the payload and the payload.*)
(* Bytes are numbers; the magic is a short sequence of distinct bytes, the *)
(* length one byte.  onData is synchronous: one iteration of its loop is   *)
(* one action here, and nothing else reads the buffer meanwhile.           *)
(*                                                                         *)
(* A write that fails leaves a torn frame, and the runtime may write on: it *)
(* does not learn of it.  The history of what was sent ends there.         *)
(***************************************************************************)
EXTENDS Naturals, Sequences

CONSTANTS
  Magic,           \* MAGIC
  MaxFrame,        \* MAX_FRAME_SIZE
  Json,            \* payloads that JSON.parse takes
  Calls, Data,     \* payloads of the CALL and DATA frames of the runtime
  Output,          \* pieces of other output
  Following,       \* bound: what is written, at a time, behind a torn frame
  MaxItems         \* bound on frames and pieces of output written

OPEN == 0
CLOSE == 1
CALL == 2
DATA == 3
Type == {OPEN, CLOSE, CALL, DATA}

ASSUME MagicAssumption ==
  /\ Magic \in Seq(Nat) /\ Len(Magic) > 0
  /\ \A i, j \in 1..Len(Magic) : Magic[i] = Magic[j] => i = j
\* "W" is the number of no type, and a length with a byte of "WIPC" as its highest is
\* above the bound: no header reaches into the magic of the next frame.
ASSUME HeaderAssumption == Magic[1] \notin Type /\ Magic[1] > MaxFrame
ASSUME BoundAssumption == MaxFrame \in Nat /\ MaxItems \in Nat
ASSUME PayloadAssumption ==
  /\ Calls \subseteq Json /\ \A p \in Calls \cup Data : p \in Seq(Nat) /\ Len(p) <= MaxFrame
  /\ Output \subseteq Seq(Nat) /\ Following \subseteq Seq(Nat)

VARIABLES
  wire,            \* bytes in the pipe
  items,           \* how many items have been written
  stream,          \* history: "whole", "torn" behind an incomplete frame, or
                   \* "mixed" once more was written behind it
  buffer,          \* buffer
  scanning,        \* inside the loop of onData
  frames,          \* the frames dispatched
  output,          \* the bytes given to onPassthrough
  sentFrames,      \* history: the frames written before a torn one
  sentOutput,      \* history: the other bytes written before it
  written,         \* history: everything written
  delivered,       \* history: what the callbacks were given, call after call,
                   \* frames spelled out again
  text,            \* history: output since the last frame
  coincidence      \* history: some output looked like the start of a frame

senderVars == <<items, stream, sentFrames, sentOutput, written, text, coincidence>>
scanVars == <<buffer, frames, output, delivered>>
vars == <<wire, scanning, senderVars, scanVars>>

Frame == [type : Type, payload : Seq(Nat)]

TypeOK ==
  /\ {wire, buffer, output, sentOutput, written, delivered, text} \subseteq Seq(Nat)
  /\ items \in 0..MaxItems
  /\ stream \in {"whole", "torn", "mixed"}
  /\ {scanning, coincidence} \subseteq BOOLEAN
  /\ {frames, sentFrames} \subseteq Seq(Frame)

Init ==
  /\ wire = <<>> /\ buffer = <<>>
  /\ items = 0
  /\ stream = "whole" /\ scanning = FALSE /\ coincidence = FALSE
  /\ frames = <<>> /\ output = <<>>
  /\ sentFrames = <<>> /\ sentOutput = <<>>
  /\ written = <<>> /\ delivered = <<>> /\ text = <<>>

-------------------------------------------------------------------------------
(* The runtime writes *)

Encode(type, payload) == Magic \o <<type, Len(payload)>> \o payload

First(s, n) == SubSeq(s, 1, n)
Rest(s, n) == SubSeq(s, n + 1, Len(s))
MagicAt(s, i) == SubSeq(s, i, i + Len(Magic) - 1) = Magic

Emit(bytes) ==
  /\ items < MaxItems
  /\ items' = items + 1
  /\ wire' = wire \o bytes
  /\ written' = written \o bytes

\* sendFrame
WriteFrame(type, payload) ==
  /\ stream = "whole"
  /\ Emit(Encode(type, payload))
  /\ sentFrames' = Append(sentFrames, [type |-> type, payload |-> payload])
  /\ text' = <<>>
  /\ UNCHANGED <<stream, sentOutput, coincidence, scanning, scanVars>>

\* wasiWriteAll returns, or the runtime dies, with some of the frame written.  (With
\* none of it written, nothing happened.)
TearFrame(type, payload) ==
  /\ stream = "whole"
  /\ \E n \in 1..(Len(Encode(type, payload)) - 1) : Emit(First(Encode(type, payload), n))
  /\ stream' = "torn"
  /\ UNCHANGED <<sentFrames, sentOutput, text, coincidence, scanning, scanVars>>

\* Something else is printed.  It is a coincidence if it spells the start of a
\* frame: the magic, the number of a type and a length within the bound.
Print_(bytes) ==
  /\ stream = "whole"
  /\ Emit(bytes)
  /\ sentOutput' = sentOutput \o bytes
  /\ text' = text \o bytes
  /\ coincidence' = (coincidence \/
       \E i \in 1..(Len(text') - Len(Magic) - 1) :
         /\ MagicAt(text', i)
         /\ text'[i + Len(Magic)] \in Type /\ text'[i + Len(Magic) + 1] <= MaxFrame)
  /\ UNCHANGED <<stream, sentFrames, scanning, scanVars>>

\* Behind a torn frame the runtime goes on, with frames, torn or not, and output.
WriteOn(bytes) ==
  /\ stream # "whole"
  /\ Emit(bytes)
  /\ stream' = "mixed"
  /\ UNCHANGED <<sentFrames, sentOutput, text, coincidence, scanning, scanVars>>

Write ==
  \/ \E p \in Calls : WriteFrame(CALL, p) \/ TearFrame(CALL, p)
  \/ \E p \in Data : WriteFrame(DATA, p) \/ TearFrame(DATA, p)
  \/ WriteFrame(CLOSE, <<>>) \/ TearFrame(CLOSE, <<>>)
  \/ \E bytes \in Output : Print_(bytes)
  \/ \E bytes \in Following : WriteOn(bytes)

-------------------------------------------------------------------------------
(* onData *)

HEADER_SIZE == Len(Magic) + 2

FoundAt(i) ==
  /\ i \in 1..(Len(buffer) - Len(Magic) + 1) /\ MagicAt(buffer, i)
  /\ \A j \in 1..(i - 1) : ~MagicAt(buffer, j)
Found == \E i \in 1..Len(buffer) : FoundAt(i)

HasHeader == FoundAt(1) /\ Len(buffer) >= HEADER_SIZE
FrameType == buffer[Len(Magic) + 1]
Length == buffer[Len(Magic) + 2]
FrameSize == HEADER_SIZE + Length
Payload == SubSeq(buffer, HEADER_SIZE + 1, FrameSize)

\* Seeded fault: the header is not looked at.
PlausibleUnchecked == TRUE

\* The header can be one of a frame.
Plausible == FrameType \in Type /\ Length <= MaxFrame

\* onPassthrough of the first n bytes, which leave the buffer.
PassOn(n) ==
  /\ output' = output \o First(buffer, n)
  /\ delivered' = delivered \o First(buffer, n)
  /\ buffer' = Rest(buffer, n)
  /\ UNCHANGED frames

\* A chunk arrives.
Receive(n) ==
  /\ ~scanning
  /\ buffer' = buffer \o First(wire, n)
  /\ wire' = Rest(wire, n)
  /\ scanning' = TRUE
  /\ UNCHANGED <<senderVars, frames, output, delivered>>

\* Seeded fault: one byte fewer than MAGIC_PREFIX_MAX is kept.
NoMagicKeepsLess ==
  /\ scanning /\ ~Found
  /\ PassOn(IF Len(buffer) < Len(Magic) - 1 THEN 0 ELSE Len(buffer) - (Len(Magic) - 2))
  /\ scanning' = FALSE
  /\ UNCHANGED <<wire, senderVars>>

\* No magic: all but MAGIC_PREFIX_MAX bytes are output.
NoMagic ==
  /\ scanning /\ ~Found
  /\ PassOn(IF Len(buffer) < Len(Magic) THEN 0 ELSE Len(buffer) - (Len(Magic) - 1))
  /\ scanning' = FALSE
  /\ UNCHANGED <<wire, senderVars>>

\* What stands before the magic is output.
SkipToMagic ==
  /\ scanning
  /\ \E i \in 2..Len(buffer) : FoundAt(i) /\ PassOn(i - 1)
  /\ UNCHANGED <<wire, scanning, senderVars>>

\* A header, or the payload it announces, is not complete yet.
AwaitMore ==
  /\ scanning /\ FoundAt(1)
  /\ HasHeader => Plausible /\ Len(buffer) < FrameSize
  /\ scanning' = FALSE
  /\ UNCHANGED <<wire, senderVars, scanVars>>

Complete == HasHeader /\ Plausible /\ Len(buffer) >= FrameSize

\* Seeded fault: a coincidental magic is dropped.
ResyncDropping ==
  /\ scanning /\ HasHeader
  /\ ~Plausible \/ (Complete /\ FrameType = CALL /\ Payload \notin Json)
  /\ buffer' = Rest(buffer, Len(Magic))
  /\ UNCHANGED <<wire, scanning, senderVars, delivered, output, frames>>

\* Seeded fault: a coincidental magic is reported but not passed.
ResyncInPlace ==
  /\ scanning /\ HasHeader
  /\ ~Plausible \/ (Complete /\ FrameType = CALL /\ Payload \notin Json)
  /\ PassOn(0)
  /\ UNCHANGED <<wire, scanning, senderVars>>

\* resyncPastMagic: the magic was a coincidence.
Resync ==
  /\ scanning /\ HasHeader
  /\ ~Plausible \/ (Complete /\ FrameType = CALL /\ Payload \notin Json)
  /\ PassOn(Len(Magic))
  /\ UNCHANGED <<wire, scanning, senderVars>>

\* onCall and dispatchFrame
Dispatch ==
  /\ scanning /\ Complete /\ (FrameType = CALL => Payload \in Json)
  /\ frames' = Append(frames, [type |-> FrameType, payload |-> Payload])
  /\ delivered' = delivered \o Encode(FrameType, Payload)
  /\ buffer' = Rest(buffer, FrameSize)
  /\ UNCHANGED <<wire, scanning, senderVars, output>>

Scan == NoMagic \/ SkipToMagic \/ AwaitMore \/ Resync \/ Dispatch

Next ==
  \/ Write
  \/ \E n \in 1..Len(wire) : Receive(n)
  \/ Scan

Spec == Init /\ [][Next]_vars /\ WF_vars(Scan) /\ WF_vars(\E n \in 1..Len(wire) : Receive(n))

-------------------------------------------------------------------------------
(* Properties *)

Prefix(s, t) == Len(s) <= Len(t) /\ First(t, Len(s)) = s
AtRest == ~scanning /\ wire = <<>>

Comparable(s, t) == Prefix(s, t) \/ Prefix(t, s)

\* Whatever is written and however it is cut, torn frames and coincidences included:
\* what onPassthrough and the handlers of frames were given, in the order of the calls,
\* what the buffer holds and what is in the pipe are together what was written.  No
\* byte leaves the buffer without being given to one of them, none goes to two, and a
\* frame is made of the bytes that stood there.
Conserved == delivered \o buffer \o wire = written

\* Unless output spells the start of a frame, the frames dispatched are those
\* written, in order and none invented, and all of them once the pipe is empty;
\* a torn frame is never one, and a magic with no such header does no harm.  Other
\* output comes out as it went in, no frame byte among it; at rest fewer bytes than
\* a header are held back.  What is written behind a torn frame may be taken for its
\* rest, but nothing of it comes before, or instead of, what was written ahead of the
\* torn frame.
ChannelExact ==
  ~coincidence =>
    /\ Comparable(frames, sentFrames) /\ Comparable(output, sentOutput)
    /\ stream # "mixed" => Prefix(frames, sentFrames) /\ Prefix(output, sentOutput)
    /\ AtRest => Prefix(sentFrames, frames)
    /\ AtRest /\ stream = "whole" => /\ sentOutput = output \o buffer
                                     /\ Len(buffer) < HEADER_SIZE

\* The loop of onData ends, and every byte written is read.
ComesToRest == []<>AtRest
===============================================================================
