------------------------- MODULE UploadPacketProofs -------------------------
(***************************************************************************)
(* Theorems about UploadPacket, for any rates, read sizes - negative ones  *)
(* too - and levels: what a client is told keeps its time, a pause is      *)
(* bounded, and no level from -1 on is distorted by more than a step.      *)
(***************************************************************************)
EXTENDS UploadPacket, TLAPS

-----------------------------------------------------------------------------
(* Arithmetic. *)

\* Integer division rounds down.
LEMMA Quotient ==
    ASSUME NEW a \in Nat, NEW b \in Nat \ {0}
    PROVE  /\ a \div b \in Nat
           /\ b * (a \div b) <= a
           /\ a < b * (a \div b) + b
OBVIOUS

\* Products of counts are counts.
LEMMA ProductInNat ==
    ASSUME NEW a \in Nat, NEW b \in Nat
    PROVE  a * b \in Nat
OBVIOUS

\* A larger count gives a product at least as large.
LEMMA ProductMonotone ==
    ASSUME NEW a \in Nat, NEW b \in Nat, NEW c \in Nat, b <= c
    PROVE  a * b <= a * c
OBVIOUS

\* And the other way round.
LEMMA ProductReflects ==
    ASSUME NEW a \in Nat \ {0}, NEW b \in Nat, NEW c \in Nat, a * b <= a * c
    PROVE  b <= c
<1>1. CASE b > c
    <2>1. a * b = a * c + a * (b - c)
        OBVIOUS
    <2>2. a * (b - c) > 0
        BY <1>1
    <2>3. a * b \in Nat /\ a * c \in Nat /\ a * (b - c) \in Int
        BY <1>1, ProductInNat
    <2> QED
        BY <2>1, <2>2, <2>3
<1> QED
    BY <1>1

-----------------------------------------------------------------------------
(* What resampling returns. *)

Rates == inRate \in Nat \ {0} /\ outRate \in Nat \ {0}

\* Half of an even number of samples is a number of frames.
LEMMA WholeFrames ==
    ASSUME NEW n \in Nat, n % N_CHANNELS = 0
    PROVE  n \div N_CHANNELS \in Nat /\ (n \div N_CHANNELS) * N_CHANNELS = n
BY DEF N_CHANNELS

\* The resampler uses no more frames than it is given.
LEMMA FrameBounds ==
    ASSUME Rates, NEW frames \in Nat
    PROVE  /\ FramesGenerated(frames, OutputFrames(frames)) \in Nat
           /\ \A g \in Nat : FramesUsed(frames, g) \in 0 .. frames
<1>1. (frames * outRate) \div inRate \in Nat
    BY ProductInNat, Quotient DEF Rates
<1>2. \A g \in Nat : (g * inRate) \div outRate \in Nat
    BY ProductInNat, Quotient DEF Rates
<1> QED
    BY <1>1, <1>2 DEF FramesGenerated, FramesUsed, OutputFrames, Smaller

\* With a ratio not above 1 the output has room for all.
LEMMA AllUsedDownwards ==
    ASSUME Rates, outRate <= inRate, NEW frames \in Nat
    PROVE  FramesUsed(frames, FramesGenerated(frames, OutputFrames(frames))) = frames
<1> DEFINE q == (frames * outRate) \div inRate
<1>1. q \in Nat /\ inRate * q <= frames * outRate
    BY ProductInNat, Quotient DEF Rates
<1>2. frames * outRate <= inRate * frames
    BY ProductMonotone DEF Rates
<1>3. inRate * q <= inRate * frames
    <2>1. inRate * q \in Nat /\ frames * outRate \in Nat /\ inRate * frames \in Nat
        BY <1>1, ProductInNat DEF Rates
    <2> QED
        BY <1>1, <1>2, <2>1
<1>4. q <= frames
    BY <1>1, <1>3, ProductReflects DEF Rates
<1> QED
    BY <1>1, <1>4 DEF FramesUsed, FramesGenerated, OutputFrames, Smaller

\* Samples taken are never negative, and of a positive size all are meant.
LEMMA PositiveFacts ==
    ASSUME NEW n \in Int, n % N_CHANNELS = 0
    PROVE  /\ Positive(n) \in Nat /\ Positive(n) % N_CHANNELS = 0
           /\ n <= Positive(n) /\ n = Positive(n) - Positive(-n)
           /\ Positive(-n) \in Nat
BY DEF Positive, N_CHANNELS

\* What Resampler::resample does with n samples; a negative n is handed back at
\* equal rates.
LEMMA ResampleFacts ==
    ASSUME Rates, NEW n \in Int, n % N_CHANNELS = 0
    PROVE  /\ Resample(n).out \in Int /\ Resample(n).used \in 0 .. Positive(n)
           /\ inRate = outRate => Resample(n).out = n
           /\ outRate <= inRate => Resample(n).used = Positive(n)
<1> DEFINE frames == Positive(n) \div N_CHANNELS
           generated == FramesGenerated(frames, OutputFrames(frames))
<1>0. Positive(n) \in Nat /\ Positive(n) % N_CHANNELS = 0
    BY PositiveFacts
<1>1. frames \in Nat /\ frames * N_CHANNELS = Positive(n)
    BY <1>0, WholeFrames
<1>2. CASE inRate = outRate
    BY <1>0, <1>2 DEF Resample
<1>3. CASE inRate /= outRate
    <2>1. generated \in Nat /\ FramesUsed(frames, generated) \in 0 .. frames
        BY <1>1, FrameBounds
    <2>2. outRate <= inRate => FramesUsed(frames, generated) = frames
        BY <1>1, AllUsedDownwards
    <2>3. Resample(n) = [out  |-> generated * N_CHANNELS,
                         used |-> FramesUsed(frames, generated) * N_CHANNELS]
        BY <1>3 DEF Resample
    <2> HIDE DEF frames, generated
    <2> QED
        BY <1>0, <1>1, <1>3, <2>1, <2>2, <2>3 DEF N_CHANNELS
<1> QED
    BY <1>2, <1>3

-----------------------------------------------------------------------------
(* What the conversion of a sample returns. *)

\* The converted sample is a number, clamped or not.
LEMMA ConvertedInInt ==
    ASSUME FullScale \in Nat \ {0}, NEW level \in Int
    PROVE  Converted(level) \in Int
<1>1. \A a \in Int : Truncated(a, FullScale) \in Int
    BY DEF Truncated
<1>2. \A i \in Int : Narrow(i) \in Int
    BY DEF Narrow, SHRT_MAX
<1>3. \A l \in Int : l * SHRT_MAX \in Int
    BY DEF SHRT_MAX
<1>4. \A l \in Int : Stored(l) \in Int
    BY <1>1, <1>2, <1>3 DEF Stored
<1> QED
    BY <1>4 DEF Converted

\* Numbers below the modulus are their own remainder.
LEMMA Remainder ==
    ASSUME NEW m \in Nat \ {0}, NEW x \in Nat, x < m
    PROVE  x % m = x
<1>1. x = m * (x \div m) + (x % m) /\ x \div m \in Nat /\ x % m \in Nat
    OBVIOUS
<1>2. x \div m = 0
    BY <1>1
<1> QED
    BY <1>1, <1>2

\* An integer that fits is not changed by the conversion to a short.
LEMMA NarrowFits ==
    ASSUME NEW i \in Int, -32767 <= i, i <= 32767
    PROVE  Narrow(i) = i
<1>1. i + 32768 \in Nat /\ i + 32768 < 65536
    OBVIOUS
<1>2. (i + 32768) % 65536 = i + 32768
    BY <1>1, Remainder
<1>3. Narrow(i) = ((i + 32768) % 65536) - 32768
    <2>1. i + SHRT_MAX + 1 = i + 32768 /\ 2 * (SHRT_MAX + 1) = 65536 /\ SHRT_MAX + 1 = 32768
        BY DEF SHRT_MAX
    <2> QED
        BY <2>1 DEF Narrow
<1> QED
    BY <1>2, <1>3

\* The narrowing to a short leaves what fits in one alone.
LEMMA NarrowBoth ==
    ASSUME NEW q \in 0 .. SHRT_MAX
    PROVE  Narrow(q) = q /\ Narrow(-q) = -q
<1>1. q \in Int /\ 0 <= q /\ q <= 32767
    BY DEF SHRT_MAX
<1>2. -q \in Int /\ -32767 <= -q /\ -q <= 32767 /\ -32767 <= q
    BY <1>1
<1> QED
    BY <1>1, <1>2, NarrowFits

\* Scaling a level keeps its sign.
LEMMA Scaled ==
    ASSUME NEW l \in Int
    PROVE  /\ l * SHRT_MAX \in Int
           /\ l >= 0 => l * SHRT_MAX >= 0
           /\ l < 0 => l * SHRT_MAX < 0
           /\ -(l * SHRT_MAX) = (-l) * SHRT_MAX
BY DEF SHRT_MAX

\* Signs in products.
LEMMA Opposites ==
    ASSUME NEW a \in Int, NEW b \in Int
    PROVE  (-a) * b = -(a * b) /\ (-a) * (-b) = a * b
OBVIOUS

\* A level m of b parts, scaled to shorts and rounded down.
LEMMA Rounded ==
    ASSUME NEW b \in Nat \ {0}, NEW m \in 0 .. b
    PROVE  /\ (m * SHRT_MAX) \div b \in 0 .. SHRT_MAX
           /\ ((m * SHRT_MAX) \div b) * b <= m * SHRT_MAX
           /\ m * SHRT_MAX < ((m * SHRT_MAX) \div b) * b + b
           /\ ((m * SHRT_MAX) \div b) * b \in Nat
           /\ ((m * SHRT_MAX) \div b) * m \in Nat
<1> DEFINE a == m * SHRT_MAX
           q == a \div b
<1>1. SHRT_MAX \in Nat \ {0}
    BY DEF SHRT_MAX
<1>2. a \in Nat
    BY <1>1, ProductInNat
<1> HIDE DEF a
<1>3. q \in Nat /\ b * q <= a /\ a < b * q + b
    BY <1>2, Quotient
<1>4. b * q \in Nat /\ q * m \in Nat /\ b * q = q * b
    BY <1>3, ProductInNat
<1>5. SHRT_MAX * m <= SHRT_MAX * b
    BY <1>1, ProductMonotone
<1>6. a = SHRT_MAX * m /\ SHRT_MAX * b = b * SHRT_MAX /\ b * SHRT_MAX \in Nat
    BY <1>1 DEF a, SHRT_MAX
<1>7. b * q <= b * SHRT_MAX
    BY <1>2, <1>3, <1>4, <1>5, <1>6
<1>8. q <= SHRT_MAX
    BY <1>1, <1>3, <1>7, ProductReflects
<1> HIDE DEF q
<1>9. q \in 0 .. SHRT_MAX /\ q * b <= a /\ a < q * b + b /\ q * b \in Nat /\ q * m \in Nat
    BY <1>1, <1>2, <1>3, <1>4, <1>8
<1> QED
    BY <1>9 DEF a, q

\* A level within -1 .. 1 is stored to less than a step, with its sign.
LEMMA StoredFaithful ==
    ASSUME FullScale \in Nat \ {0}, type = "short",
           NEW l \in -FullScale .. FullScale
    PROVE  /\ Stored(l) * FullScale - l * SHRT_MAX < FullScale
           /\ -(Stored(l) * FullScale - l * SHRT_MAX) < FullScale
           /\ Stored(l) * l >= 0
<1> DEFINE q(m) == (m * SHRT_MAX) \div FullScale
<1>1. CASE l >= 0
    <2>1. l \in 0 .. FullScale /\ l * SHRT_MAX \in Int /\ l * SHRT_MAX >= 0
        BY <1>1, Scaled
    <2>2. Truncated(l * SHRT_MAX, FullScale) = q(l)
        BY <2>1 DEF Truncated
    <2>3. /\ q(l) \in 0 .. SHRT_MAX
          /\ q(l) * FullScale <= l * SHRT_MAX
          /\ l * SHRT_MAX < q(l) * FullScale + FullScale
          /\ q(l) * FullScale \in Nat /\ q(l) * l \in Nat
        BY <2>1, Rounded
    <2> HIDE DEF q
    <2>4. Stored(l) = q(l)
        BY <2>2, <2>3, NarrowBoth DEF Stored
    <2> QED
        BY <2>1, <2>3, <2>4
<1>2. CASE l < 0
    <2>1. /\ -l \in 0 .. FullScale /\ l \in Int
          /\ l * SHRT_MAX \in Int /\ l * SHRT_MAX < 0
          /\ -(l * SHRT_MAX) = (-l) * SHRT_MAX
        BY <1>2, Scaled
    <2>2. Truncated(l * SHRT_MAX, FullScale) = -q(-l)
        BY <2>1 DEF Truncated
    <2>3. /\ q(-l) \in 0 .. SHRT_MAX
          /\ q(-l) * FullScale <= (-l) * SHRT_MAX
          /\ (-l) * SHRT_MAX < q(-l) * FullScale + FullScale
          /\ q(-l) * FullScale \in Nat /\ q(-l) * (-l) \in Nat
        BY <2>1, Rounded
    <2> HIDE DEF q
    <2>4. Stored(l) = -q(-l)
        BY <2>2, <2>3, NarrowBoth DEF Stored
    <2>5. q(-l) \in Int /\ FullScale \in Int
        <3>1. \A x \in 0 .. SHRT_MAX : x \in Int
            OBVIOUS
        <3> QED
            BY <2>3, <3>1
    <2>6. /\ (-q(-l)) * FullScale = -(q(-l) * FullScale)
          /\ (-q(-l)) * l = q(-l) * (-l)
        BY <2>1, <2>5, Opposites
    <2> QED
        BY <2>1, <2>3, <2>4, <2>6
<1> QED
    BY <1>1, <1>2

-----------------------------------------------------------------------------
(* The module's theorems. *)

\* Both rates are positive.
LEMMA RatesTyped == TypeOK => Rates
BY PacketAssumption DEF TypeOK, Rates

\* Reads are of whole frames, counted up or down.
LEMMA ReadTyped ==
    \A n \in ReadSizes :
        /\ n \in Int /\ n % N_CHANNELS = 0
        /\ Positive(n) \in Nat /\ Positive(-n) \in Nat
        /\ n = Positive(n) - Positive(-n)
BY PacketAssumption, PositiveFacts

\* A step is an upload of some samples with some level.
LEMMA StepIsUpload ==
    Next => \E n \in ReadSizes, hasSound \in BOOLEAN, level \in Int :
                Upload(n, hasSound, level)
<1>1. ASSUME NEW n \in ReadSizes, Upload(n, FALSE, 0)
      PROVE  \E h \in BOOLEAN, l \in Int : Upload(n, h, l)
    <2>1. FALSE \in BOOLEAN /\ 0 \in Int
        OBVIOUS
    <2> QED
        BY <1>1, <2>1, Zenon
<1>2. ASSUME NEW n \in ReadSizes, NEW level \in Levels, Upload(n, TRUE, level)
      PROVE  \E h \in BOOLEAN, l \in Int : Upload(n, h, l)
    BY <1>2, PacketAssumption
<1> QED
    BY <1>1, <1>2 DEF Next

\* Types of the counters and of the message, for any rates and reads.
THEOREM TypeCorrect == Spec => []TypeOK
<1>1. Init => TypeOK
    BY DEF Init, TypeOK, NoMessage, Silence
<1>2. ASSUME TypeOK, NEW n \in ReadSizes, NEW hasSound \in BOOLEAN, NEW level \in Int,
             Upload(n, hasSound, level)
      PROVE  TypeOK'
    <2>1. /\ n \in Int /\ n % N_CHANNELS = 0 /\ Rates
          /\ Positive(n) \in Nat /\ Positive(-n) \in Nat
        BY <1>2, ReadTyped, RatesTyped
    <2>2. Resample(n).out \in Int /\ Resample(n).used \in 0 .. Positive(n)
        BY <2>1, ResampleFacts
    <2>3. Converted(level) \in Int
        BY PacketAssumption, ConvertedInInt
    <2>4. consumed' \in Nat /\ nSilent' \in Int /\ setBack' \in Nat
        BY <1>2, <2>1 DEF Upload, SilentAfter, TypeOK
    <2>5. CASE Suppressed(nSilent')
        BY <1>2, <2>1, <2>4, <2>5 DEF Upload, TypeOK, config
    <2>6. CASE ~Suppressed(nSilent')
        <3> DEFINE r == Resample(n)
        <3>1. /\ message' = IF hasSound THEN Sound(r.out, level) ELSE Silence(r.out)
              /\ sent' = sent + Positive(message'.length)
              /\ quiet' = IF hasSound THEN 0 ELSE quiet + Positive(n)
              /\ dropped' = dropped + Positive(n) - r.used
              /\ UNCHANGED <<suppressed, inRate, outRate, type>>
            BY <1>2, <2>6 DEF Upload, config
        <3>2. message' \in [hasBody : BOOLEAN, length : Int, level : Int, sample : Int]
            BY <2>2, <2>3, <3>1 DEF Sound, Silence
        <3>3. sent' \in Nat
            BY <1>2, <3>1, <3>2 DEF TypeOK, Positive
        <3>4. quiet' \in Nat /\ dropped' \in Nat
            BY <1>2, <2>1, <2>2, <3>1 DEF TypeOK
        <3> QED
            BY <1>2, <2>4, <3>1, <3>2, <3>3, <3>4 DEF TypeOK
    <2> QED
        BY <2>5, <2>6
<1>3. TypeOK /\ UNCHANGED vars => TypeOK'
    BY DEF TypeOK, vars
<1>4. TypeOK /\ [Next]_vars => TypeOK'
    BY <1>2, <1>3, StepIsUpload
<1> QED
    BY <1>1, <1>4, PTL DEF Spec

\* Without conversion of the rate the lengths add up, whatever is read.
THEOREM Timeline == Spec => []TimelineKept
<1>1. Init => TimelineKept
    BY DEF Init, TimelineKept
<1>2. ASSUME TypeOK, TimelineKept, NEW n \in ReadSizes, NEW hasSound \in BOOLEAN,
             NEW level \in Int, Upload(n, hasSound, level)
      PROVE  TimelineKept'
    <2>1. n \in Int /\ n % N_CHANNELS = 0 /\ Rates /\ Positive(n) \in Nat
        BY <1>2, ReadTyped, RatesTyped
    <2>2. inRate = outRate => Resample(n).out = n
        BY <2>1, ResampleFacts
    <2>3. CASE Suppressed(nSilent')
        BY <1>2, <2>1, <2>3 DEF Upload, TypeOK, TimelineKept, config
    <2>4. CASE ~Suppressed(nSilent')
        <3>1. message'.length = Resample(n).out /\ sent' = sent + Positive(message'.length)
            BY <1>2, <2>4 DEF Upload, Sound, Silence
        <3> QED
            BY <1>2, <2>1, <2>2, <2>4, <3>1 DEF Upload, TypeOK, TimelineKept, config
    <2> QED
        BY <2>3, <2>4
<1>3. TimelineKept /\ UNCHANGED vars => TimelineKept'
    BY DEF TimelineKept, vars
<1>4. TypeOK /\ TimelineKept /\ [Next]_vars => TimelineKept'
    BY <1>2, <1>3, StepIsUpload
<1> QED
    BY <1>1, <1>4, TypeCorrect, PTL DEF Spec

\* Silence sent since the last sound is at most what is counted and what the
\* count was set back by; suppressed silence is counted and not sent.
QuietCounted ==
    /\ quiet <= nSilent + setBack
    /\ PauseBounded

\* A pause costs a second of silence messages and what negative sizes set the
\* count back by, for any rate and reads.
THEOREM Pause == Spec => []PauseBounded
<1>1. Init => QuietCounted
    BY PacketAssumption DEF Init, QuietCounted, PauseBounded, Suppressed
<1>2. ASSUME TypeOK, QuietCounted, NEW n \in ReadSizes, NEW hasSound \in BOOLEAN,
             NEW level \in Int, Upload(n, hasSound, level)
      PROVE  QuietCounted'
    <2>1. /\ n \in Int /\ Rates /\ Positive(n) \in Nat /\ Positive(-n) \in Nat
          /\ n = Positive(n) - Positive(-n)
        BY <1>2, ReadTyped, RatesTyped
    <2> QED
        BY <1>2, <2>1 DEF Upload, SilentAfter, QuietCounted, PauseBounded,
                          Suppressed, TypeOK, Rates, config
<1>3. QuietCounted /\ UNCHANGED vars => QuietCounted'
    BY DEF QuietCounted, PauseBounded, Suppressed, vars
<1>4. QuietCounted => PauseBounded
    BY DEF QuietCounted
<1>5. TypeOK /\ QuietCounted /\ [Next]_vars => QuietCounted'
    BY <1>2, <1>3, StepIsUpload
<1> QED
    BY <1>1, <1>4, <1>5, TypeCorrect, PTL DEF Spec

\* Nothing is lost when the rate goes down or stays.
THEOREM Downwards == Spec => []NothingDroppedDownwards
<1>1. Init => NothingDroppedDownwards
    BY DEF Init, NothingDroppedDownwards
<1>2. ASSUME TypeOK, NothingDroppedDownwards, NEW n \in ReadSizes,
             NEW hasSound \in BOOLEAN, NEW level \in Int, Upload(n, hasSound, level)
      PROVE  NothingDroppedDownwards'
    <2>1. n \in Int /\ n % N_CHANNELS = 0 /\ Rates /\ Positive(n) \in Nat
        BY <1>2, ReadTyped, RatesTyped
    <2>2. outRate <= inRate => Resample(n).used = Positive(n)
        BY <2>1, ResampleFacts
    <2> QED
        BY <1>2, <2>1, <2>2 DEF Upload, TypeOK, NothingDroppedDownwards, config
<1>3. NothingDroppedDownwards /\ UNCHANGED vars => NothingDroppedDownwards'
    BY DEF NothingDroppedDownwards, vars
<1>4. TypeOK /\ NothingDroppedDownwards /\ [Next]_vars => NothingDroppedDownwards'
    BY <1>2, <1>3, StepIsUpload
<1> QED
    BY <1>1, <1>4, TypeCorrect, PTL DEF Spec

\* The message's sample is its level, converted.
SampleConverted ==
    message.level \in Int /\ (message.hasBody => message.sample = Converted(message.level))

\* Every level from -1 on is faithful, at any scale.
THEOREM Samples == Spec => []SamplesFaithful
<1>1. Init => SampleConverted
    BY DEF Init, SampleConverted, NoMessage, Silence
<1>2. ASSUME SampleConverted, NEW n \in ReadSizes, NEW hasSound \in BOOLEAN,
             NEW level \in Int, Upload(n, hasSound, level)
      PROVE  SampleConverted'
    <2>1. \A l \in Int : Converted(l)' = Converted(l)
        BY <1>2 DEF Upload, Converted, Stored, config
    <2>2. \/ UNCHANGED message
          \/ \E out : message' \in {Sound(out, level), Silence(out)}
        BY <1>2 DEF Upload
    <2> QED
        BY <1>2, <2>1, <2>2 DEF SampleConverted, Sound, Silence
<1>3. SampleConverted /\ UNCHANGED vars => SampleConverted'
    BY DEF SampleConverted, Converted, Stored, vars
<1>4. ASSUME TypeOK, SampleConverted
      PROVE  SamplesFaithful
    <2>1. SUFFICES ASSUME message.hasBody, message.level >= -FullScale
                   PROVE  LET clipped == Smaller(message.level, FullScale)
                              error   == message.sample * FullScale - clipped * SHRT_MAX
                          IN  IF type = "short"
                              THEN /\ error < FullScale /\ -error < FullScale
                                   /\ message.sample * clipped >= 0
                              ELSE message.sample = clipped
        BY DEF SamplesFaithful
    <2> DEFINE clipped == Smaller(message.level, FullScale)
    <2>2. FullScale \in Nat \ {0} /\ message.level \in Int
        BY <1>4, PacketAssumption DEF SampleConverted
    <2>3. clipped \in -FullScale .. FullScale
        BY <2>1, <2>2 DEF Smaller
    <2>4. message.sample = Stored(clipped)
        BY <1>4, <2>1, <2>2 DEF SampleConverted, Converted, Smaller
    <2>5. CASE type = "short"
        <3> HIDE DEF clipped
        <3>1. /\ Stored(clipped) * FullScale - clipped * SHRT_MAX < FullScale
              /\ -(Stored(clipped) * FullScale - clipped * SHRT_MAX) < FullScale
              /\ Stored(clipped) * clipped >= 0
            BY <2>2, <2>3, <2>5, StoredFaithful
        <3> QED
            BY <2>4, <2>5, <3>1 DEF clipped
    <2>6. CASE type /= "short"
        BY <2>4, <2>6 DEF Stored
    <2> QED
        BY <2>5, <2>6
<1>5. TypeOK /\ SampleConverted /\ [Next]_vars => SampleConverted'
    BY <1>2, <1>3, StepIsUpload
<1> QED
    BY <1>1, <1>4, <1>5, TypeCorrect, PTL DEF Spec
=============================================================================
