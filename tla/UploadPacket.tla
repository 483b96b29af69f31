---------------------------- MODULE UploadPacket ----------------------------
(***************************************************************************)
(* What the upload thread makes of the samples it has read: silence        *)
(* counting and suppression, resampling, the message lengths and the       *)
(* conversion of a sample, in queue_upload_buffer.h and resampler.h.  One  *)
(* step is one iteration of _uploadLoop without an update; the threads are *)
(* in module UploadBuffer.                                                 *)
(***************************************************************************)
EXTENDS Integers

CONSTANTS
    BUFFER_SIZE,  \* elements of _workerAudioBuffer
    SampleRates,  \* rates of input and output
    ReadSizes,    \* what getNReadableSamples() may return: whole frames, and
                  \* less than none when its loads of _writePos straddle a write
    FullScale,    \* how many parts of a sample the level 1 is cut into
    Levels,       \* levels of a resampled sample, in these parts
    MaxConsumed,  \* bound: samples read in a behaviour
    MaxSetBack    \* bound: samples the silence count is lowered by in a pause

N_CHANNELS == 2

ASSUME PacketAssumption ==
    /\ BUFFER_SIZE \in Nat /\ MaxConsumed \in Nat /\ MaxSetBack \in Nat
    /\ SampleRates \subseteq Nat \ {0}
    /\ FullScale \in Nat \ {0} /\ Levels \subseteq Int
    /\ \A n \in ReadSizes :
        n \in Int /\ n % N_CHANNELS = 0 /\ n < BUFFER_SIZE /\ -n < BUFFER_SIZE

VARIABLES
    inRate, outRate,
    type,        \* T: "short" or "float"
    nSilent,     \* _nSilentSamples
    message,     \* last message handed to _submitFunc
    consumed,    \* history: samples read
    suppressed,  \* history: samples dropped as silence
    sent,        \* history: samples the messages' length fields stand for
    quiet,       \* history: of these, silence since the last sound
    setBack,     \* history: by how much the silence count was lowered since then
    dropped      \* history: samples given to the resampler and not used

vars == <<inRate, outRate, type, nSilent, message,
          consumed, suppressed, sent, quiet, setBack, dropped>>

config == <<inRate, outRate, type>>

-----------------------------------------------------------------------------
(* The conversion of a sample. *)

SHRT_MAX == 32767

\* What is left of an integer in a short.
Narrow(i) == ((i + SHRT_MAX + 1) % (2 * (SHRT_MAX + 1))) - (SHRT_MAX + 1)

\* C++ converts to an integer towards zero.
Truncated(a, b) == IF a >= 0 THEN a \div b ELSE -((-a) \div b)

\* level * _dTypeMultiplier(), stored in a T; a float keeps the level.
Stored(level) ==
    IF type = "short" THEN Narrow(Truncated(level * SHRT_MAX, FullScale)) ELSE level

\* _copyResampleToUploadBuffer: only levels above 1 are clamped.
Converted(level) == IF level > FullScale THEN Stored(FullScale) ELSE Stored(level)

-----------------------------------------------------------------------------
(* Messages: the length field, whether a body follows it, and a sample of  *)
(* the body with the level it had.                                         *)

Sound(n, level) ==
    [hasBody |-> TRUE, length |-> n, level |-> level, sample |-> Converted(level)]

\* Mutant of Silence: no length.
SilenceWithoutLength(n) == [hasBody |-> FALSE, length |-> 0, level |-> 0, sample |-> 0]

\* A header alone: the length says how much silence the client is to write.
Silence(n) == [hasBody |-> FALSE, length |-> n, level |-> 0, sample |-> 0]

NoMessage == Silence(0)

-----------------------------------------------------------------------------
(* Resampling. *)

\* Of n samples: a loop that counts up to n, and src_process, take a negative
\* number for none.
Positive(n) == IF n > 0 THEN n ELSE 0

Smaller(a, b) == IF a <= b THEN a ELSE b

\* src_process: it stops when the input is used up or the output is full.
FramesGenerated(frames, room) == Smaller(room, (frames * outRate) \div inRate)

FramesUsed(frames, generated) ==
    IF generated = (frames * outRate) \div inRate
    THEN frames ELSE Smaller(frames, (generated * inRate) \div outRate)

\* Mutant of OutputFrames: frames divided by the channels once more.
OutputFramesHalved(frames) == frames \div N_CHANNELS

\* Room for as many output frames as there are input frames.
OutputFrames(frames) == frames

\* Mutant of Resample: samples taken for frames.
ResampleSamples(n) ==
    LET frames    == Positive(n)
        generated == FramesGenerated(frames, OutputFrames(frames))
    IN  IF inRate = outRate
        THEN [out |-> n, used |-> frames]
        ELSE [out  |-> generated * N_CHANNELS,
              used |-> FramesUsed(frames, generated) * N_CHANNELS]

\* Samples produced from n samples, and samples of the n made use of.
Resample(n) ==
    LET frames    == Positive(n) \div N_CHANNELS
        generated == FramesGenerated(frames, OutputFrames(frames))
    IN  IF inRate = outRate
        THEN [out |-> n, used |-> Positive(n)]
        ELSE [out  |-> generated * N_CHANNELS,
              used |-> FramesUsed(frames, generated) * N_CHANNELS]

-----------------------------------------------------------------------------
Init ==
    /\ inRate \in SampleRates /\ outRate \in SampleRates
    /\ type \in {"short", "float"}
    /\ nSilent = 0 /\ message = NoMessage
    /\ consumed = 0 /\ suppressed = 0 /\ sent = 0 /\ quiet = 0 /\ setBack = 0
    /\ dropped = 0

SilentAfter(n, hasSound) == IF hasSound THEN 0 ELSE nSilent + n

\* Mutant of Suppressed: a second at the other rate.
SuppressedAtOutput(silent) == silent >= 2 * outRate

Suppressed(silent) == silent >= 2 * inRate

\* A negative size copies nothing, lowers the silence count and is handed on.
Upload(n, hasSound, level) ==
    /\ consumed + Positive(n) <= MaxConsumed
    /\ setBack + Positive(-n) <= MaxSetBack
    /\ consumed' = consumed + Positive(n)
    /\ nSilent' = SilentAfter(n, hasSound)
    /\ setBack' = IF hasSound THEN 0 ELSE setBack + Positive(-n)
    /\ IF Suppressed(nSilent')
       THEN /\ suppressed' = suppressed + Positive(n)
            /\ UNCHANGED <<message, sent, quiet, dropped>>
       ELSE LET r == Resample(n) IN
            /\ message' = IF hasSound THEN Sound(r.out, level) ELSE Silence(r.out)
            /\ sent' = sent + Positive(message'.length)
            /\ quiet' = IF hasSound THEN 0 ELSE quiet + Positive(n)
            /\ dropped' = dropped + Positive(n) - r.used
            /\ UNCHANGED suppressed
    /\ UNCHANGED config

\* read() finds no sound in nothing.
Next ==
    \E n \in ReadSizes :
        \/ Upload(n, FALSE, 0)
        \/ n > 0 /\ \E level \in Levels : Upload(n, TRUE, level)

Spec == Init /\ [][Next]_vars

-----------------------------------------------------------------------------
(* Properties. *)

\* Types of the counters and of a message.
TypeOK ==
    /\ inRate \in SampleRates /\ outRate \in SampleRates
    /\ type \in {"short", "float"}
    /\ nSilent \in Int /\ consumed \in Nat /\ suppressed \in Nat
    /\ sent \in Nat /\ quiet \in Nat /\ setBack \in Nat /\ dropped \in Nat
    /\ message \in [hasBody : BOOLEAN, length : Int, level : Int,
                   sample : Int]

\* Without rate conversion a client that plays bodies and writes the given
\* length of silence, none for a negative one, is behind by the suppressed
\* silence and nothing else, whatever sizes the ring buffer reports.
TimelineKept ==
    inRate = outRate => sent + suppressed = consumed

\* A pause costs at most one second of silence messages (two channels at the
\* input rate), counted anew after every sound, and what negative sizes took
\* back from the count in that pause: each lets that much more silence through,
\* even after the suppression had begun.
PauseBounded ==
    quiet < 2 * inRate + setBack

\* Downsampling and copying use every sample read; upsampling does not, as the
\* output has room for no more frames than the input.
NothingDroppedDownwards ==
    outRate <= inRate => dropped = 0

\* What a client reads from a message is the level clipped to 1, to less than
\* one step of a short and with its sign, although resampling overshoots; levels
\* below -1 are left out, they wrap round to the other sign.
SamplesFaithful ==
    (message.hasBody /\ message.level >= -FullScale) =>
        LET clipped == Smaller(message.level, FullScale)
            error   == message.sample * FullScale - clipped * SHRT_MAX
        IN  IF type = "short"
            THEN /\ error < FullScale /\ -error < FullScale
                 /\ message.sample * clipped >= 0
            ELSE message.sample = clipped
=============================================================================
