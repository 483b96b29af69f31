----------------------------- MODULE RingBuffer -----------------------------
(***************************************************************************)
(* The circular sample buffer of ring_buffer.h, shared without a lock by   *)
(* one writer (the host's audio thread) and one reader (the upload         *)
(* thread).  A step is one access to what the two threads share: the       *)
(* samples and the two positions are plain, unsynchronised members, so the *)
(* three loads of _writePos in getNReadableSamples are three steps (a      *)
(* build that merges them yields a subset of the behaviours).              *)
(*                                                                         *)
(* A sample is identified by its place in the stream of all the samples    *)
(* ever written: 0, 1, 2, ...                                              *)
(***************************************************************************)
EXTENDS Integers, Sequences

CONSTANTS
    BUFFER_LENGTH,  \* slots of _data
    MaxFrames,      \* largest block the host passes to write()
    MaxSamples      \* bound: samples written in a behaviour

N_CHANNELS == 2

\* One block fits in the buffer, and the buffer holds whole frames.
ASSUME BufferAssumption ==
    /\ BUFFER_LENGTH \in Nat /\ BUFFER_LENGTH % N_CHANNELS = 0
    /\ MaxFrames \in Nat
    /\ N_CHANNELS * MaxFrames < BUFFER_LENGTH
    /\ MaxSamples \in Nat

VARIABLES
    data,         \* _data
    writePos,     \* _writePos
    readPos,      \* _readPos
    wpc,          \* writer: "idle", or "copy" inside write()
    newWritePos,  \* local of write()
    toWrite,      \* samples write() has still to copy
    rpc,          \* reader: where it is in its calls
    numSamples,   \* result of getNReadableSamples(), argument of read()
    pos,          \* local readPos of read()
    copied,       \* what read() has put into its writeBuffer
    written,      \* history: samples stored so far
    published,    \* history: samples the reader can see
    consumed,     \* history: samples read or skipped
    overrun       \* history: a block was written without room for it

writerVars  == <<data, writePos, wpc, newWritePos, toWrite>>
readerVars  == <<readPos, rpc, numSamples, pos, copied>>
historyVars == <<written, published, consumed, overrun>>
vars        == <<writerVars, readerVars, historyVars>>

Slots == 0 .. BUFFER_LENGTH - 1

\* What an uninitialised slot holds: no sample of the stream.
NoSample == -1

Init ==
    /\ data = [i \in Slots |-> NoSample]
    /\ writePos = 0 /\ readPos = 0
    /\ wpc = "idle" /\ newWritePos = 0 /\ toWrite = 0
    /\ rpc = "idle" /\ numSamples = 0 /\ pos = 0 /\ copied = <<>>
    /\ written = 0 /\ published = 0 /\ consumed = 0
    /\ overrun = FALSE

-----------------------------------------------------------------------------
(* Operators both sides use. *)

\* Mutant of Slot: no wrap.
SlotUnwrapped(p) == p

\* The slot a position stands for: BUFFER_LENGTH wraps just before its use.
Slot(p) == IF p = BUFFER_LENGTH THEN 0 ELSE p

HasDataAvailable == writePos /= readPos

\* Mutant of Wrapped: the positions exchanged.
WrappedSwapped(w, r) == BUFFER_LENGTH - w + r

\* The two arms of getNReadableSamples.
Ahead(w, r)   == w - r
Wrapped(w, r) == BUFFER_LENGTH - r + w

\* A block of n samples fits when it leaves the reader's unread samples alone
\* and does not bring the positions to coincide.  The code never asks.
Fits(n) == published - consumed + n < BUFFER_LENGTH

-----------------------------------------------------------------------------
(* The writer. *)

\* Mutant of WriteBegin: the position is stored first, the samples after it.
WriteBeginPublished(nFrames) ==
    /\ wpc = "idle" /\ nFrames > 0
    /\ written + N_CHANNELS * nFrames <= MaxSamples
    /\ wpc' = "copy"
    /\ newWritePos' = writePos
    /\ toWrite' = N_CHANNELS * nFrames
    /\ writePos' = ((writePos + toWrite' - 1) % BUFFER_LENGTH) + 1
    /\ published' = written + toWrite'
    /\ overrun' = (overrun \/ ~Fits(toWrite'))
    /\ UNCHANGED <<data, readerVars, written, consumed>>

WriteBegin(nFrames) ==
    /\ wpc = "idle"
    /\ written + N_CHANNELS * nFrames <= MaxSamples
    /\ wpc' = "copy"
    /\ newWritePos' = writePos
    /\ toWrite' = N_CHANNELS * nFrames
    /\ overrun' = (overrun \/ ~Fits(N_CHANNELS * nFrames))
    /\ UNCHANGED <<data, writePos, readerVars, written, published, consumed>>

\* Mutant of WriteSample: the position is stored after every sample.
WriteSampleVisible ==
    /\ wpc = "copy" /\ toWrite > 0
    /\ data' = [data EXCEPT ![Slot(newWritePos)] = written]
    /\ newWritePos' = Slot(newWritePos) + 1 /\ writePos' = newWritePos'
    /\ toWrite' = toWrite - 1
    /\ written' = written + 1 /\ published' = written'
    /\ UNCHANGED <<wpc, readerVars, consumed, overrun>>

WriteSample ==
    /\ wpc = "copy" /\ toWrite > 0
    /\ data' = [data EXCEPT ![Slot(newWritePos)] = written]
    /\ newWritePos' = Slot(newWritePos) + 1
    /\ toWrite' = toWrite - 1
    /\ written' = written + 1
    /\ UNCHANGED <<writePos, wpc, readerVars, published, consumed, overrun>>

\* The position is stored once, after the last sample of the block.
WriteEnd ==
    /\ wpc = "copy" /\ toWrite = 0
    /\ writePos' = newWritePos
    /\ published' = written
    /\ wpc' = "idle"
    /\ UNCHANGED <<data, newWritePos, toWrite, readerVars,
                   written, consumed, overrun>>

Writer == (\E n \in 0 .. MaxFrames : WriteBegin(n)) \/ WriteSample \/ WriteEnd

-----------------------------------------------------------------------------
(* The reader.  The upload thread sees hasDataAvailable() hold before      *)
(* either of its calls; then it resets, or sizes and reads.                *)

Wake ==
    /\ rpc = "idle" /\ HasDataAvailable
    /\ rpc' = "woken"
    /\ UNCHANGED <<writerVars, readPos, numSamples, pos, copied, historyVars>>

ResetReadPosition ==
    /\ rpc = "woken"
    /\ readPos' = writePos
    /\ consumed' = published
    /\ rpc' = "idle"
    /\ UNCHANGED <<writerVars, numSamples, pos, copied,
                   written, published, overrun>>

\* The local of read() is set from the member the reader alone stores to.
StartRead(n) ==
    /\ numSamples' = n
    /\ rpc' = "read" /\ pos' = readPos /\ copied' = <<>>

\* getNReadableSamples, first load: are the positions equal?
SizeEqual ==
    /\ rpc = "woken"
    /\ IF readPos = writePos
       THEN StartRead(0)
       ELSE rpc' = "compare" /\ UNCHANGED <<numSamples, pos, copied>>
    /\ UNCHANGED <<writerVars, readPos, historyVars>>

\* Second load: which of the two is larger?
SizeCompare ==
    /\ rpc = "compare"
    /\ rpc' = IF readPos < writePos THEN "ahead" ELSE "wrapped"
    /\ UNCHANGED <<writerVars, readPos, numSamples, pos, copied, historyVars>>

\* Third load: the subtraction.
SizeSubtract ==
    /\ \/ rpc = "ahead"   /\ StartRead(Ahead(writePos, readPos))
       \/ rpc = "wrapped" /\ StartRead(Wrapped(writePos, readPos))
    /\ UNCHANGED <<writerVars, readPos, historyVars>>

ReadSample ==
    /\ rpc = "read" /\ Len(copied) < numSamples
    /\ copied' = Append(copied, data[Slot(pos)])
    /\ pos' = Slot(pos) + 1
    /\ UNCHANGED <<writerVars, readPos, rpc, numSamples, historyVars>>

\* Mutant of ReadEnd: it stores the writer's position.
ReadEndAtWriter ==
    /\ rpc = "read" /\ Len(copied) >= numSamples
    /\ readPos' = writePos
    /\ consumed' = consumed + Len(copied)
    /\ rpc' = "idle" /\ numSamples' = 0 /\ pos' = 0 /\ copied' = <<>>
    /\ UNCHANGED <<writerVars, written, published, overrun>>

ReadEnd ==
    /\ rpc = "read" /\ Len(copied) >= numSamples
    /\ readPos' = pos
    /\ consumed' = consumed + Len(copied)
    /\ rpc' = "idle" /\ numSamples' = 0 /\ pos' = 0 /\ copied' = <<>>
    /\ UNCHANGED <<writerVars, written, published, overrun>>

Reader ==
    \/ Wake \/ ResetReadPosition
    \/ SizeEqual \/ SizeCompare \/ SizeSubtract
    \/ ReadSample \/ ReadEnd

Next == Writer \/ Reader

Spec == Init /\ [][Next]_vars

-----------------------------------------------------------------------------
(* Properties. *)

\* Types and ranges of the members of RingBuffer and of the locals of write()
\* and read(): the positions stay within 0 .. BUFFER_LENGTH even when the
\* writer overruns the reader.
TypeOK ==
    /\ data \in [Slots -> Int]
    /\ writePos \in 0 .. BUFFER_LENGTH /\ readPos \in 0 .. BUFFER_LENGTH
    /\ wpc \in {"idle", "copy"}
    /\ newWritePos \in 0 .. BUFFER_LENGTH
    /\ toWrite \in 0 .. N_CHANNELS * MaxFrames
    /\ rpc \in {"idle", "woken", "compare", "ahead", "wrapped", "read"}
    /\ numSamples \in Int
    /\ pos \in 0 .. BUFFER_LENGTH
    /\ copied \in Seq(Int)
    /\ written \in Nat /\ published \in Nat /\ consumed \in Nat
    /\ overrun \in BOOLEAN

\* As long as every block had room, read() returns the samples of the stream
\* in order, none lost, none repeated and none torn by the block being written
\* at the same time, although the threads share no lock.
FifoUnlessOverrun ==
    (~overrun /\ rpc = "read") =>
        \A i \in 1 .. Len(copied) : copied[i] = consumed + i - 1

\* As long as every block had room, getNReadableSamples() never promises more
\* than was published, whatever the writer does between its three loads: so
\* read() stays inside the upload thread's work buffer of BUFFER_LENGTH floats.
ReadsOnlyPublished ==
    (~overrun /\ rpc = "read") =>
        /\ numSamples <= published - consumed
        /\ numSamples < BUFFER_LENGTH

\* The positions differ by the unread samples modulo the length, overrun or
\* not: an overrun loses whole laps of BUFFER_LENGTH samples and never shifts
\* the stream by a part of a lap.
LosesWholeLaps ==
    (writePos - readPos) % BUFFER_LENGTH = (published - consumed) % BUFFER_LENGTH

OnLap(n) == n % BUFFER_LENGTH = 0

\* Even in an overrun, what read() delivers in a place is a sample that was
\* written whole laps before or after the one that belongs there: never a slot
\* not yet written, nor a sample from elsewhere in the lap, although the sizes
\* torn between loads may make it read past what was published.
SamplesInPlace ==
    rpc = "read" =>
        \A i \in 1 .. Len(copied) :
            /\ copied[i] \in 0 .. written - 1
            /\ OnLap(copied[i] - (consumed + i - 1))

\* Between calls both threads stand at the start of a frame, so left and right
\* are never exchanged, not even by an overrun or by a size torn between loads.
ChannelsAligned ==
    /\ writePos % N_CHANNELS = 0
    /\ readPos % N_CHANNELS = 0
    /\ rpc = "read" => numSamples % N_CHANNELS = 0

\* What the comment above getNReadableSamples says of its result: it is the
\* amount of written data not yet read.  Here only that it does not report
\* nothing (or less) while published samples wait.
SizeSeesUnread ==
    (rpc = "read" /\ Len(copied) = 0 /\ numSamples <= 0) =>
        published = consumed

-----------------------------------------------------------------------------
(* The inductive invariant behind FifoUnlessOverrun and ReadsOnlyPublished,  *)
(* in positions counted from the reader's.                                   *)

\* The position n places after p, and the slot of the i-th sample after it.
PosAfter(p, n) ==
    IF p + n <= BUFFER_LENGTH THEN p + n ELSE p + n - BUFFER_LENGTH
SlotAt(p, i) ==
    IF p + i < BUFFER_LENGTH THEN p + i ELSE p + i - BUFFER_LENGTH

PositionsMatch ==
    /\ consumed <= published /\ published <= written
    /\ written - consumed + toWrite < BUFFER_LENGTH
    /\ wpc = "idle" => written = published /\ toWrite = 0
    /\ writePos = PosAfter(readPos, published - consumed)
    /\ wpc = "copy" => newWritePos = PosAfter(readPos, written - consumed)

SamplesMatch ==
    \A i \in 0 .. written - consumed - 1 :
        data[SlotAt(readPos, i)] = consumed + i

ReaderMatch ==
    /\ rpc \in {"compare", "ahead", "wrapped"} => consumed < published
    /\ rpc = "wrapped" => readPos + published - consumed > BUFFER_LENGTH
    /\ rpc = "read" =>
          /\ numSamples <= published - consumed
          /\ Len(copied) <= numSamples \/ Len(copied) = 0
          /\ pos = PosAfter(readPos, Len(copied))
          /\ \A i \in 1 .. Len(copied) : copied[i] = consumed + i - 1

\* While no block has overrun the reader: the positions are the counters
\* modulo the length, every sample not yet consumed sits in its slot, and the
\* reader's half-finished call agrees with what was published.
IInv == TypeOK /\ (~overrun => PositionsMatch /\ SamplesMatch /\ ReaderMatch)

-----------------------------------------------------------------------------
(* The inductive invariants behind LosesWholeLaps, SamplesInPlace and        *)
(* ChannelsAligned: they hold in an overrun, too.                            *)

\* Every position is its counter modulo the length.
LapInv ==
    /\ wpc = "idle" => written = published
    /\ OnLap(writePos - published) /\ OnLap(readPos - consumed)
    /\ wpc = "copy" => OnLap(newWritePos - written)
    /\ rpc = "read" => OnLap(pos - (consumed + Len(copied)))

\* Before the writer has been round once: the positions are the counters, the
\* slots below them are written, and the reader stays behind the writer.
FirstLap ==
    /\ published <= written
    /\ published <= BUFFER_LENGTH => writePos = published
    /\ wpc = "copy" /\ written <= BUFFER_LENGTH => newWritePos = written
    /\ published < BUFFER_LENGTH =>
          /\ readPos <= published
          /\ rpc \in {"compare", "ahead"} => readPos < published
          /\ rpc /= "wrapped"
          /\ rpc = "read" =>
                /\ pos = readPos + Len(copied)
                /\ readPos + numSamples <= published
                /\ Len(copied) = 0 \/ Len(copied) <= numSamples

\* A slot holds nothing until the stream has come to it, then always a sample
\* of its own place in a lap.
SlotsInPlace ==
    \A s \in Slots :
        /\ s < written => data[s] \in 0 .. written - 1 /\ OnLap(data[s] - s)
        /\ s >= written => data[s] = NoSample

PlaceInv == LapInv /\ FirstLap /\ SlotsInPlace /\ SamplesInPlace

AlignInv ==
    /\ ChannelsAligned
    /\ wpc = "idle" => written = published
    /\ wpc = "copy" =>
          /\ (newWritePos + toWrite) % N_CHANNELS = 0
          /\ written >= published
          /\ (written - published + toWrite) % N_CHANNELS = 0
    /\ rpc /= "read" => copied = <<>>
    /\ rpc = "read" =>
          /\ (pos + Len(copied)) % N_CHANNELS = 0
          /\ Len(copied) = 0 \/ Len(copied) <= numSamples

-----------------------------------------------------------------------------
(* The count that the upload buffer works with, overrun or not.              *)

Count == INSTANCE RingCount WITH
             Length <- BUFFER_LENGTH, Blocks <- {N_CHANNELS * f : f \in 0 .. MaxFrames},
             unread <- (writePos - readPos) % BUFFER_LENGTH,
             sized <- IF rpc = "read" /\ numSamples > 0
                      THEN numSamples % BUFFER_LENGTH ELSE 0

\* The block under way is one of a size the host may pass.
BlockInv ==
    wpc = "copy" =>
        \E f \in 0 .. MaxFrames : written - published + toWrite = N_CHANNELS * f

-----------------------------------------------------------------------------
(* The queue that RingBuffer implements until a block overruns the reader.   *)

\* The n samples that d holds from position p on.
Held(d, p, n) == [i \in 1 .. n |-> d[SlotAt(p, i - 1)]]

\* The published samples not yet consumed, as they sit in the slots.
Unread == IF overrun THEN <<>> ELSE Held(data, readPos, published - consumed)

Fifo == INSTANCE SampleFifo WITH
            Capacity <- BUFFER_LENGTH, FrameSize <- N_CHANNELS,
            next <- published, queue <- Unread,
            delivered <- copied, overflowed <- overrun

\* Until a block overruns the reader, write(), getNReadableSamples() and read()
\* without a lock do what one queue with atomic operations would: whole frames
\* appear, reads deliver the queue's front, and only that leaves it.
ImplementsFifo == Fifo!Spec
=============================================================================
