----------------------- MODULE FlexibleBufferWrapper ------------------------
(***************************************************************************)
(* rrl::FlexibleBufferWrapper (flexible_buffer_wrapper.cpp): a signal flow *)
(* that processes a fixed number of frames, its period, made usable by a   *)
(* host that asks for a different number of frames in every call.  Input   *)
(* is collected in one circular buffer until a period is complete; output  *)
(* is taken from another one that initially holds one period of silence.   *)
(*                                                                         *)
(* The flow passes each block on unchanged, so that the stream shows where *)
(* every frame went, or throws.  The loop in process() is split into what  *)
(* it does with the input, the flow and the output.  Both overloads are    *)
(* the same loop; the one for arrays of channel pointers is the planar     *)
(* layout of the one with strides.                                         *)
(***************************************************************************)
EXTENDS Integers, Sequences, CircularBuffer

CONSTANTS
  Period,           \* cInternalPeriod
  Channels,         \* number of capture channels and of playback channels
  CaptureLayouts,   \* memory layouts the host uses for its input ...
  PlaybackLayouts,  \* ... and for its output
  FrameCounts,      \* values of numFrames to consider
  MaxFrames,        \* bound: the number of frames captured
  MaxFailures       \* bound: the number of times the flow throws

ASSUME WrapperAssumption ==
  /\ Period \in Nat \ {0}
  /\ Channels \in Nat \ {0}
  /\ FrameCounts \subseteq Nat
  /\ CaptureLayouts \cup PlaybackLayouts \subseteq {"planar", "interleaved"}
  /\ MaxFrames \in Nat /\ MaxFailures \in Nat

VARIABLES
  mInputBuffer, mOutputBuffer,
  mInputBufferLevel, mOutputBufferLevel,
  call,       \* the call of process() in progress, or NoCall
  captured,   \* history: number of frames copied into mInputBuffer
  fed,        \* history: the frames the flow has processed
  played,     \* history: the frames returned to the host while failures = 0
  failures    \* history: number of times the flow has thrown

levels == <<mInputBufferLevel, mOutputBufferLevel>>
vars == <<mInputBuffer, mOutputBuffer, levels, call, captured, fed, played, failures>>

Channel == 0 .. Channels - 1
Delay   == INSTANCE PeriodDelay WITH Period <- Period, Channel <- Channel,
                                    FrameCounts <- FrameCounts, played <- played
Silence == Delay!Frame(0)
Frames  == {Delay!Frame(n) : n \in 0 .. MaxFrames}

\* What lies outside the buffers, if a read goes there.
Arbitrary == [c \in Channel |-> <<>>]

\* The host's memory starts with samples that belong to no frame.
Untouched == <<>>

NoCall == [at |-> "outside"]

\* Where a sample lies in the memory of a call, given the strides.
Address(strides, channel, frame) == channel * strides.channel + frame * strides.sample

Strides(layout, numFrames) ==
  IF layout = "planar" THEN [channel |-> numFrames, sample |-> 1]
                       ELSE [channel |-> 1, sample |-> Channels]

TypeOK ==
  /\ IsBuffer(mInputBuffer, Frames)
  /\ IsBuffer(mOutputBuffer, Frames)
  /\ mInputBufferLevel \in 0 .. Period
  /\ mOutputBufferLevel \in Nat
  /\ captured \in 0 .. MaxFrames
  /\ fed \in Seq(Frames)
  /\ failures \in 0 .. MaxFailures
  /\ call.at \in {"outside", "head", "flow", "play"}
  /\ call # NoCall =>
       /\ call.numFrames \in FrameCounts
       /\ call.processed \in 0 .. call.numFrames

Init ==
  /\ mInputBuffer = NewBuffer(2 * Period, 0, Silence)
  /\ mOutputBuffer =
       CommitWrite(WriteColumns(NewBuffer(2 * Period, 0, Silence),
                                [i \in 1 .. Period |-> Silence]), Period)
  /\ mInputBufferLevel = 0
  /\ mOutputBufferLevel = Period
  /\ call = NoCall
  /\ captured = 0
  /\ fed = <<>>
  /\ played = <<>>
  /\ failures = 0
-----------------------------------------------------------------------------
\* The host calls process() with the next frames of its input.
Call(n, captureLayout, playbackLayout) ==
  LET input == Strides(captureLayout, n)
  IN /\ call = NoCall
     /\ captured + n <= MaxFrames
     /\ call' = [at        |-> "head",
                 numFrames |-> n,
                 processed |-> 0,
                 chunk     |-> 0,
                 input     |-> input,
                 output    |-> Strides(playbackLayout, n),
                 capture   |-> [a \in 0 .. Channels * n - 1 |->
                                  CHOOSE s \in Channel \X (captured + 1 .. captured + n) :
                                    a = Address(input, s[1], s[2] - captured - 1)],
                 playback  |-> [a \in 0 .. Channels * n - 1 |-> Untouched]]
     /\ UNCHANGED <<mInputBuffer, mOutputBuffer, levels, captured, fed, played, failures>>

\* The number of frames a round of the loop handles.
ChunkFrames ==
  LET remaining == call.numFrames - call.processed
      room      == Period - mInputBufferLevel
  IN IF remaining < room THEN remaining ELSE room

\* Head of the loop: a chunk of the host's input goes to the input buffer.
CaptureChunk ==
  LET chunk == [i \in 1 .. ChunkFrames |->
                  [c \in Channel |->
                     call.capture[Address(call.input, c, call.processed + i - 1)]]]
  IN /\ call.at = "head"
     /\ call.processed < call.numFrames
     /\ mInputBuffer' = CommitWrite(WriteColumns(mInputBuffer, chunk), ChunkFrames)
     /\ mInputBufferLevel' = mInputBufferLevel + ChunkFrames
     /\ captured' = captured + ChunkFrames
     /\ call' = [call EXCEPT !.chunk = ChunkFrames,
                             !.at    = IF mInputBufferLevel' = Period THEN "flow" ELSE "play"]
     /\ UNCHANGED <<mOutputBuffer, mOutputBufferLevel, fed, played, failures>>

\* The block of one period the flow is given.
FlowBlock == ReadColumns(mInputBuffer, Period, Period, Arbitrary)

\* mutant: the levels of the buffers are not updated after processing
ProcessPeriodNoReset ==
  /\ call.at = "flow"
  /\ mOutputBuffer' = CommitWrite(WriteColumns(mOutputBuffer, FlowBlock), Period)
  /\ call' = [call EXCEPT !.at = "play"]
  /\ UNCHANGED <<mInputBuffer, levels, captured, fed, played, failures>>

\* A period is complete: the flow turns it into one of output.
ProcessPeriod ==
  /\ call.at = "flow"
  /\ mOutputBuffer' = CommitWrite(WriteColumns(mOutputBuffer, FlowBlock), Period)
  /\ mInputBufferLevel' = mInputBufferLevel - Period
  /\ mOutputBufferLevel' = mOutputBufferLevel + Period
  /\ fed' = fed \o FlowBlock
  /\ call' = [call EXCEPT !.at = "play"]
  /\ UNCHANGED <<mInputBuffer, captured, played, failures>>

\* mutant: a wrapper that forgets the period the flow has failed to process
FlowThrowsAndDrops ==
  /\ failures < MaxFailures
  /\ call.at = "flow"
  /\ mInputBufferLevel' = 0
  /\ call' = NoCall
  /\ failures' = failures + 1
  /\ UNCHANGED <<mInputBuffer, mOutputBuffer, mOutputBufferLevel, captured, fed, played>>

\* The flow throws: the exception leaves process() with the input committed.
FlowThrows ==
  /\ failures < MaxFailures
  /\ call.at = "flow"
  /\ call' = NoCall
  /\ failures' = failures + 1
  /\ UNCHANGED <<mInputBuffer, mOutputBuffer, levels, captured, fed, played>>

\* The pointer the chunk is stored to starts at processedFrames, whatever the
\* sample stride.
PlaybackAddress(c, i) == call.processed + Address(call.output, c, i)

\* End of the loop: a chunk of the output buffer goes to the host's memory.
PlayChunk ==
  LET chunk     == ReadColumns(mOutputBuffer, mOutputBufferLevel, call.chunk, Arbitrary)
      stored(a) == {s \in Channel \X (0 .. call.chunk - 1) : PlaybackAddress(s[1], s[2]) = a}
  IN /\ call.at = "play"
     /\ call' = [call EXCEPT
          !.at        = "head",
          !.processed = @ + call.chunk,
          !.playback  = [a \in DOMAIN @ |->
                           IF stored(a) = {} THEN @[a]
                           ELSE LET s == CHOOSE s \in stored(a) : TRUE IN chunk[s[2] + 1][s[1]]]]
     /\ mOutputBufferLevel' = mOutputBufferLevel - call.chunk
     /\ UNCHANGED <<mInputBuffer, mOutputBuffer, mInputBufferLevel, captured, fed, played,
                    failures>>

\* process() returns and the host reads its output.
Return ==
  /\ call.at = "head"
  /\ call.processed = call.numFrames
  /\ played' = IF failures = 0
               THEN played \o [i \in 1 .. call.numFrames |->
                      [c \in Channel |-> call.playback[Address(call.output, c, i - 1)]]]
               ELSE played
  /\ call' = NoCall
  /\ UNCHANGED <<mInputBuffer, mOutputBuffer, levels, captured, fed, failures>>

-----------------------------------------------------------------------------
Loop == CaptureChunk \/ ProcessPeriod \/ PlayChunk \/ Return

Next ==
  \/ \E n \in FrameCounts, in \in CaptureLayouts, out \in PlaybackLayouts : Call(n, in, out)
  \/ Loop
  \/ FlowThrows

\* The thread that is in process() goes on.
Spec == Init /\ [][Next]_vars /\ WF_vars(Loop)

-----------------------------------------------------------------------------
\* "This causes an additional latency of one period size": the stream the host
\* gets is the stream it gave, one period late, for every sequence of calls.
OnePeriodLatency == Delay!Spec

\* "assert( mInputBufferLevel < cInternalPeriod )" at the head of the loop, and
\* "assert( delay <= length() )" in getReadPointer().
AssertionsHold ==
  /\ call.at = "head" /\ call.processed < call.numFrames => mInputBufferLevel < Period
  /\ mOutputBufferLevel <= mOutputBuffer.length

\* The flow is fed every captured frame exactly once and in order; a period it
\* has failed to process is presented again in the next call.
FedInOrder ==
  /\ \A i \in DOMAIN fed : fed[i] = Delay!Frame(i)
  /\ captured = Len(fed) + mInputBufferLevel

\* The loop ends, also when a call meets a full input buffer after an exception.
EveryCallReturns == call # NoCall ~> call = NoCall
=============================================================================
