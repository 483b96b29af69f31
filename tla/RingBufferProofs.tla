-------------------------- MODULE RingBufferProofs --------------------------
(* Proofs about RingBuffer, for every buffer length and block size.         *)
EXTENDS RingBuffer, SequenceTheorems, TLAPS

-----------------------------------------------------------------------------
(* Arithmetic of positions. *)

\* One increment of a position, as write() and read() make it, is one place.
LEMMA PosStep ==
    ASSUME NEW p \in 0 .. BUFFER_LENGTH, NEW n \in 0 .. BUFFER_LENGTH - 1
    PROVE  /\ Slot(PosAfter(p, n)) = SlotAt(p, n)
           /\ Slot(PosAfter(p, n)) + 1 = PosAfter(p, n + 1)
           /\ SlotAt(p, n) \in Slots
           /\ PosAfter(p, n) \in 0 .. BUFFER_LENGTH
BY BufferAssumption DEF Slot, PosAfter, SlotAt, Slots

\* Moving the start of the count forward by k places.
LEMMA PosShift ==
    ASSUME NEW p \in 0 .. BUFFER_LENGTH, NEW n \in 0 .. BUFFER_LENGTH - 1,
           NEW k \in 0 .. n
    PROVE  /\ PosAfter(PosAfter(p, k), n - k) = PosAfter(p, n)
           /\ \A i \in 0 .. n - k - 1 :
                 SlotAt(PosAfter(p, k), i) = SlotAt(p, i + k)
BY BufferAssumption DEF PosAfter, SlotAt

\* Less than a lap apart, two samples never share a slot.
LEMMA SlotsDiffer ==
    ASSUME NEW p \in 0 .. BUFFER_LENGTH, NEW n \in 0 .. BUFFER_LENGTH - 1,
           NEW i \in 0 .. n - 1
    PROVE  SlotAt(p, i) \in Slots /\ SlotAt(p, i) /= SlotAt(p, n)
BY BufferAssumption DEF SlotAt, Slots

-----------------------------------------------------------------------------
(* Types. *)

\* The length of the buffer, as the proofs use it.
LEMMA Length == BUFFER_LENGTH \in Nat /\ BUFFER_LENGTH > 0
BY BufferAssumption DEF N_CHANNELS

\* What a read begins with is a sequence.
LEMMA Empty == <<>> \in Seq(Int)
OBVIOUS

\* A new RingBuffer is well typed.
LEMMA TypeInit == Init => TypeOK
<1> USE BufferAssumption DEF TypeOK, Slots, N_CHANNELS
<1>1. Init => overrun \in BOOLEAN
  BY DEF Init
<1> QED
  BY Empty, <1>1 DEF Init, NoSample

\* Every access by the writer or the reader keeps the types.
LEMMA TypeStep == TypeOK /\ [Next]_vars => TypeOK'
<1> USE BufferAssumption DEF TypeOK, Slots, N_CHANNELS
<1> SUFFICES ASSUME TypeOK, [Next]_vars PROVE TypeOK'
  OBVIOUS
<1>1. ASSUME NEW n \in 0 .. MaxFrames, WriteBegin(n) PROVE TypeOK'
  BY <1>1 DEF WriteBegin, readerVars
<1>2. CASE WriteSample
  <2>1. Slot(newWritePos) \in Slots
    BY DEF Slot
  <2> QED
    BY <1>2, <2>1 DEF WriteSample, readerVars
<1>3. CASE WriteEnd
  BY <1>3 DEF WriteEnd, readerVars
<1>4. CASE Wake
  BY <1>4 DEF Wake, writerVars, historyVars
<1>5. CASE ResetReadPosition
  BY <1>5 DEF ResetReadPosition, writerVars
<1>6. CASE SizeEqual
  <2>1. CASE readPos = writePos
    BY Empty, <1>6, <2>1 DEF SizeEqual, StartRead, writerVars, historyVars
  <2>2. CASE readPos /= writePos
    BY <1>6, <2>2 DEF SizeEqual, writerVars, historyVars
  <2> QED
    BY <2>1, <2>2
<1>7. CASE SizeCompare
  BY <1>7 DEF SizeCompare, writerVars, historyVars
<1>8. CASE SizeSubtract
  <2>1. /\ rpc' = "read" /\ numSamples' \in Int
        /\ pos' = readPos /\ copied' = <<>>
    BY <1>8 DEF SizeSubtract, StartRead, Ahead, Wrapped
  <2> QED
    BY Empty, <1>8, <2>1 DEF SizeSubtract, writerVars, historyVars
<1>9. CASE ReadSample
  <2>1. Slot(pos) \in Slots
    BY DEF Slot
  <2>2. copied' \in Seq(Int)
    BY <1>9, <2>1 DEF ReadSample
  <2>3. /\ pos' = Slot(pos) + 1
        /\ UNCHANGED <<writerVars, readPos, rpc, numSamples, historyVars>>
    BY <1>9 DEF ReadSample
  <2>4. pos' \in 0 .. BUFFER_LENGTH
    BY <2>1, <2>3
  <2> QED
    BY <2>2, <2>3, <2>4 DEF writerVars, historyVars
<1>10. CASE ReadEnd
  BY Empty, <1>10 DEF ReadEnd, writerVars
<1>11. CASE UNCHANGED vars
  BY <1>11 DEF vars, writerVars, readerVars, historyVars
<1> QED
  BY <1>1, <1>2, <1>3, <1>4, <1>5, <1>6, <1>7, <1>8, <1>9, <1>10, <1>11
  DEF Next, Writer, Reader

\* The positions and locals of RingBuffer stay in range, overrun or not.
THEOREM TypeCorrect == Spec => []TypeOK
BY TypeInit, TypeStep, PTL DEF Spec

-----------------------------------------------------------------------------
(* The stream. *)

\* The inductive invariant: while no block has overrun the reader, positions
\* and slots are the counters modulo the length.
THEOREM Inductive == Spec => []IInv
<1> USE Length
<1> DEFINE Match == PositionsMatch /\ SamplesMatch /\ ReaderMatch
<1>1. Init => IInv
  <2> SUFFICES ASSUME Init PROVE IInv
    OBVIOUS
  <2>1. TypeOK
    BY TypeInit
  <2>2. PositionsMatch
    BY BufferAssumption DEF Init, PositionsMatch, PosAfter
  <2>3. SamplesMatch
    BY DEF Init, SamplesMatch
  <2>4. ReaderMatch
    BY DEF Init, ReaderMatch
  <2> QED
    BY <2>1, <2>2, <2>3, <2>4 DEF IInv
<1>2. IInv /\ [Next]_vars => IInv'
  <2> SUFFICES ASSUME IInv, [Next]_vars, ~overrun' PROVE Match'
    BY TypeStep DEF IInv
  <2>1. TypeOK /\ TypeOK'
    BY TypeStep DEF IInv
  <2>2. ~overrun
    BY DEF Next, Writer, Reader, WriteBegin, WriteSample, WriteEnd, Wake,
        ResetReadPosition, SizeEqual, SizeCompare, SizeSubtract, ReadSample,
        ReadEnd, vars, historyVars
  <2>3. PositionsMatch /\ SamplesMatch /\ ReaderMatch
    BY <2>2 DEF IInv
  <2>Ranges. /\ written \in Nat /\ published \in Nat /\ consumed \in Nat
        /\ toWrite \in Nat /\ numSamples \in Int
        /\ copied \in Seq(Int) /\ Len(copied) \in Nat
        /\ readPos \in 0 .. BUFFER_LENGTH /\ pos \in 0 .. BUFFER_LENGTH
    BY <2>1 DEF TypeOK
  <2>Room. /\ written - consumed \in 0 .. BUFFER_LENGTH - 1
        /\ published - consumed \in 0 .. written - consumed
    BY <2>Ranges, <2>3 DEF PositionsMatch
  <2>WriterAt. writePos = PosAfter(readPos, published - consumed)
    BY <2>3 DEF PositionsMatch
  <2>Stored. \A i \in 0 .. written - consumed - 1 : data[SlotAt(readPos, i)] = consumed + i
    BY <2>3 DEF SamplesMatch
  <2>4. ASSUME NEW n \in 0 .. MaxFrames, WriteBegin(n) PROVE Match'
    <3>1. Fits(N_CHANNELS * n)
      BY <2>4 DEF WriteBegin
    <3>2. PositionsMatch'
      BY <2>1, <2>3, <2>4, <3>1, BufferAssumption
      DEF WriteBegin, Fits, PositionsMatch, PosAfter, readerVars, TypeOK, N_CHANNELS
    <3>3. SamplesMatch'
      BY <2>3, <2>4 DEF WriteBegin, SamplesMatch, SlotAt, readerVars
    <3>4. ReaderMatch'
      BY <2>3, <2>4 DEF WriteBegin, ReaderMatch, PosAfter, readerVars
    <3> QED
      BY <3>2, <3>3, <3>4
  <2>5. CASE WriteSample
    <3> DEFINE w == written - consumed
    <3>1. /\ w \in 0 .. BUFFER_LENGTH - 1 /\ w + 1 < BUFFER_LENGTH
          /\ newWritePos = PosAfter(readPos, w)
      BY <2>1, <2>3, <2>5 DEF WriteSample, PositionsMatch, TypeOK
    <3>2. /\ Slot(newWritePos) = SlotAt(readPos, w)
          /\ Slot(newWritePos) + 1 = PosAfter(readPos, w + 1)
          /\ SlotAt(readPos, w) \in Slots
      BY <2>1, <3>1, PosStep DEF TypeOK
    <3>3. PositionsMatch'
      BY <2>1, <2>3, <2>5, <3>1, <3>2
      DEF WriteSample, PositionsMatch, TypeOK, readerVars, PosAfter
    <3>4. SamplesMatch'
      <4>0. written' - consumed' - 1 = w /\ consumed' = consumed /\ readPos' = readPos
        BY <2>Ranges, <2>5 DEF WriteSample, readerVars
      <4> SUFFICES ASSUME NEW i \in 0 .. w PROVE data'[SlotAt(readPos, i)] = consumed + i
        BY <4>0 DEF SamplesMatch
      <4>1. CASE i = w
        BY <2>1, <2>5, <3>2, <4>1 DEF WriteSample, TypeOK
      <4>2. CASE i \in 0 .. w - 1
        <5>1. SlotAt(readPos, i) \in Slots /\ SlotAt(readPos, i) /= SlotAt(readPos, w)
          BY <2>1, <3>1, <4>2, SlotsDiffer DEF TypeOK
        <5>2. data[SlotAt(readPos, i)] = consumed + i
          BY <2>3, <4>2 DEF SamplesMatch
        <5> QED
          BY <2>1, <2>5, <3>2, <5>1, <5>2 DEF WriteSample, TypeOK
      <4> QED
        BY <4>1, <4>2, <3>1
    <3>5. ReaderMatch'
      BY <2>3, <2>5 DEF WriteSample, ReaderMatch, PosAfter, readerVars
    <3> QED
      BY <3>3, <3>4, <3>5
  <2>6. CASE WriteEnd
    <3>1. PositionsMatch'
      BY <2>1, <2>3, <2>6
      DEF WriteEnd, PositionsMatch, TypeOK, readerVars, PosAfter
    <3>2. SamplesMatch'
      BY <2>3, <2>6 DEF WriteEnd, SamplesMatch, SlotAt, readerVars
    <3>3. ReaderMatch'
      BY <2>1, <2>3, <2>6
      DEF WriteEnd, PositionsMatch, ReaderMatch, TypeOK, PosAfter, readerVars
    <3> QED
      BY <3>1, <3>2, <3>3
  <2>7. CASE Wake
    BY <2>3, <2>7 DEF Wake, PositionsMatch, SamplesMatch, ReaderMatch, SlotAt,
        PosAfter, writerVars, historyVars
  <2>8. CASE ResetReadPosition
    <3> DEFINE u == published - consumed
               w == written - consumed
    <3>1. /\ w \in 0 .. BUFFER_LENGTH - 1 /\ u \in 0 .. w
          /\ readPos \in 0 .. BUFFER_LENGTH
          /\ writePos = PosAfter(readPos, u)
      BY <2>Ranges, <2>Room, <2>WriterAt
    <3>2. /\ PosAfter(writePos, w - u) = PosAfter(readPos, w)
          /\ \A i \in 0 .. w - u - 1 : SlotAt(writePos, i) = SlotAt(readPos, i + u)
      BY <3>1, PosShift
    <3>3. PositionsMatch'
      BY <2>1, <2>3, <2>8, <3>1, <3>2
      DEF ResetReadPosition, PositionsMatch, TypeOK, writerVars, PosAfter
    <3>4. SamplesMatch'
      <4>0. /\ written' - consumed' - 1 = w - u - 1 /\ consumed' = published
            /\ readPos' = writePos /\ data' = data
        BY <2>Ranges, <2>8 DEF ResetReadPosition, writerVars
      <4> SUFFICES ASSUME NEW i \in 0 .. w - u - 1
                   PROVE  data[SlotAt(writePos, i)] = published + i
        BY <4>0 DEF SamplesMatch
      <4>1. i + u \in 0 .. written - consumed - 1 /\ consumed + (i + u) = published + i
        BY <2>Ranges, <3>1
      <4>2. data[SlotAt(readPos, i + u)] = consumed + (i + u)
        BY <2>Stored, <4>1
      <4> QED
        BY <3>2, <4>1, <4>2
    <3>5. ReaderMatch'
      BY <2>8 DEF ResetReadPosition, ReaderMatch
    <3> QED
      BY <3>3, <3>4, <3>5
  <2>9. CASE SizeEqual
    <3>1. PositionsMatch' /\ SamplesMatch'
      BY <2>3, <2>9 DEF SizeEqual, PositionsMatch, SamplesMatch, SlotAt, PosAfter,
          writerVars, historyVars
    <3>2. ReaderMatch'
      <4>1. CASE readPos = writePos
        BY <2>1, <2>3, <2>9, <4>1, BufferAssumption
        DEF SizeEqual, StartRead, PositionsMatch, ReaderMatch, TypeOK, PosAfter,
            historyVars
      <4>2. CASE readPos /= writePos
        BY <2>1, <2>3, <2>9, <4>2
        DEF SizeEqual, PositionsMatch, ReaderMatch, TypeOK, PosAfter, historyVars
      <4> QED
        BY <4>1, <4>2
    <3> QED
      BY <3>1, <3>2
  <2>10. CASE SizeCompare
    <3>1. PositionsMatch' /\ SamplesMatch'
      BY <2>3, <2>10 DEF SizeCompare, PositionsMatch, SamplesMatch, SlotAt,
          PosAfter, writerVars, historyVars
    <3>2. ReaderMatch'
      BY <2>1, <2>3, <2>10
      DEF SizeCompare, PositionsMatch, ReaderMatch, TypeOK, PosAfter, historyVars,
          writerVars
    <3> QED
      BY <3>1, <3>2
  <2>11. CASE SizeSubtract
    <3>1. PositionsMatch' /\ SamplesMatch'
      BY <2>3, <2>11 DEF SizeSubtract, PositionsMatch, SamplesMatch, SlotAt,
          PosAfter, writerVars, historyVars
    <3>2. /\ rpc' = "read" /\ pos' = readPos /\ copied' = <<>>
          /\ numSamples' <= published - consumed
      BY <2>1, <2>3, <2>11, SMTT(30)
      DEF SizeSubtract, StartRead, Ahead, Wrapped, PositionsMatch, ReaderMatch,
          TypeOK, PosAfter
    <3>3. readPos' = readPos /\ published' = published /\ consumed' = consumed
      BY <2>11 DEF SizeSubtract, historyVars
    <3>4. ReaderMatch'
      BY <2>1, <3>2, <3>3 DEF ReaderMatch, PosAfter, TypeOK
    <3> QED
      BY <3>1, <3>4
  <2>12. CASE ReadSample
    <3> DEFINE k == Len(copied)
    <3>1. PositionsMatch' /\ SamplesMatch'
      BY <2>3, <2>12 DEF ReadSample, PositionsMatch, SamplesMatch, SlotAt,
          PosAfter, writerVars, historyVars
    <3>2. /\ k \in 0 .. BUFFER_LENGTH - 1
          /\ k < numSamples /\ k < written - consumed
          /\ pos = PosAfter(readPos, k)
      <4>1. k < numSamples /\ numSamples <= published - consumed /\ pos = PosAfter(readPos, k)
        BY <2>3, <2>12 DEF ReadSample, ReaderMatch
      <4> QED
        BY <2>Ranges, <2>Room, <4>1
    <3>3. /\ Slot(pos) = SlotAt(readPos, k)
          /\ Slot(pos) + 1 = PosAfter(readPos, k + 1)
      BY <2>1, <3>2, PosStep DEF TypeOK
    <3>4. data[Slot(pos)] = consumed + k
      <4>1. k \in 0 .. written - consumed - 1
        BY <2>Ranges, <3>2
      <4> QED
        BY <2>Stored, <3>3, <4>1
    <3>5. /\ copied' = Append(copied, consumed + k)
          /\ pos' = PosAfter(readPos, k + 1)
          /\ rpc' = "read"
          /\ UNCHANGED <<readPos, numSamples, published, consumed>>
      BY <2>12, <3>3, <3>4 DEF ReadSample, historyVars
    <3>6. /\ Len(copied') = k + 1
          /\ \A i \in 1 .. k : copied'[i] = copied[i]
          /\ copied'[k + 1] = consumed + k
      BY <2>1, <3>5 DEF TypeOK
    <3>7. \A i \in 1 .. k : copied[i] = consumed + i - 1
      BY <2>3, <2>12 DEF ReadSample, ReaderMatch
    <3>8. \A i \in 1 .. k + 1 : copied'[i] = consumed' + i - 1
      <4> SUFFICES ASSUME NEW i \in 1 .. k + 1 PROVE copied'[i] = consumed + i - 1
        BY <3>5
      <4>1. CASE i = k + 1
        BY <2>1, <3>2, <3>6, <4>1 DEF TypeOK
      <4>2. CASE i \in 1 .. k
        BY <3>6, <3>7, <4>2
      <4> QED
        BY <3>2, <4>1, <4>2
    <3>9. ReaderMatch'
      <4>1. numSamples <= published - consumed
        BY <2>3, <2>12 DEF ReadSample, ReaderMatch
      <4>2. Len(copied') <= numSamples'
        BY <2>Ranges, <3>2, <3>5, <3>6
      <4>3. pos' = PosAfter(readPos', Len(copied'))
        BY <3>5, <3>6
      <4> QED
        BY <3>5, <3>6, <3>8, <4>1, <4>2, <4>3 DEF ReaderMatch
    <3> QED
      BY <3>1, <3>9
  <2>13. CASE ReadEnd
    <3> DEFINE k == Len(copied)
               w == written - consumed
               u == published - consumed
    <3>1. /\ w \in 0 .. BUFFER_LENGTH - 1 /\ u \in 0 .. w /\ k \in 0 .. u
          /\ readPos \in 0 .. BUFFER_LENGTH
          /\ pos = PosAfter(readPos, k)
      BY <2>1, <2>3, <2>13 DEF ReadEnd, PositionsMatch, ReaderMatch, TypeOK
    <3>2. /\ PosAfter(pos, w - k) = PosAfter(readPos, w)
          /\ \A i \in 0 .. w - k - 1 : SlotAt(pos, i) = SlotAt(readPos, i + k)
      BY <3>1, PosShift
    <3>3. PosAfter(pos, u - k) = PosAfter(readPos, u)
      BY <3>1, PosShift
    <3>4. readPos' = pos /\ consumed' = consumed + k /\ rpc' = "idle"
      BY <2>13 DEF ReadEnd
    <3>5. UNCHANGED <<data, writePos, wpc, newWritePos, toWrite, written, published>>
      BY <2>13 DEF ReadEnd, writerVars
    <3>6. PositionsMatch'
      <4>1. written' - consumed' = w - k /\ published' - consumed' = u - k
        BY <2>1, <3>1, <3>4, <3>5 DEF TypeOK
      <4>2. /\ writePos' = PosAfter(readPos', published' - consumed')
            /\ wpc' = "copy" => newWritePos' = PosAfter(readPos', written' - consumed')
        BY <2>3, <3>2, <3>3, <3>4, <3>5, <4>1 DEF PositionsMatch
      <4>3. /\ consumed' <= published' /\ published' <= written'
            /\ written' - consumed' <= written - consumed
        BY <2>Ranges, <2>Room, <3>1, <3>4, <3>5
      <4>4. /\ written' - consumed' + toWrite' < BUFFER_LENGTH
            /\ wpc' = "idle" => written' = published' /\ toWrite' = 0
        <5>1. /\ written - consumed + toWrite < BUFFER_LENGTH
              /\ wpc = "idle" => written = published /\ toWrite = 0
          BY <2>3 DEF PositionsMatch
        <5> QED
          BY <2>Ranges, <3>1, <3>4, <3>5, <5>1, Length
      <4> QED
        BY <4>2, <4>3, <4>4 DEF PositionsMatch
    <3>7. SamplesMatch'
      <4>0. written' - consumed' - 1 = w - k - 1
        BY <2>Ranges, <3>4, <3>5
      <4> SUFFICES ASSUME NEW i \in 0 .. w - k - 1
                   PROVE  data[SlotAt(pos, i)] = consumed + k + i
        BY <3>4, <3>5, <4>0 DEF SamplesMatch
      <4>1. i + k \in 0 .. written - consumed - 1 /\ consumed + (i + k) = consumed + k + i
        BY <2>Ranges, <3>1
      <4>2. data[SlotAt(readPos, i + k)] = consumed + (i + k)
        BY <2>Stored, <4>1
      <4> QED
        BY <3>2, <4>1, <4>2
    <3>8. ReaderMatch'
      BY <3>4 DEF ReaderMatch
    <3> QED
      BY <3>6, <3>7, <3>8
  <2>14. CASE UNCHANGED vars
    BY <2>3, <2>14 DEF vars, PositionsMatch, SamplesMatch, ReaderMatch, SlotAt,
        PosAfter, writerVars, readerVars, historyVars
  <2> QED
    BY <2>4, <2>5, <2>6, <2>7, <2>8, <2>9, <2>10, <2>11, <2>12, <2>13, <2>14
    DEF Next, Writer, Reader
<1> QED
  BY <1>1, <1>2, PTL DEF Spec

\* Nothing is lost, repeated, reordered or torn while every block had room.
THEOREM StreamKept == Spec => []FifoUnlessOverrun
<1>1. IInv => FifoUnlessOverrun
  BY DEF IInv, ReaderMatch, FifoUnlessOverrun
<1> QED
  BY <1>1, Inductive, PTL

\* read() is never asked for more than was published, nor for a whole buffer.
THEOREM SizeBounded == Spec => []ReadsOnlyPublished
<1>1. IInv => ReadsOnlyPublished
  BY Length DEF IInv, TypeOK, PositionsMatch, ReaderMatch, ReadsOnlyPublished
<1> QED
  BY <1>1, Inductive, PTL

-----------------------------------------------------------------------------
(* Whole laps, in an overrun too. *)

\* Division with remainder determines the remainder.
LEMMA Remainder ==
    ASSUME NEW L \in Nat \ {0}, NEW a \in Int, NEW q \in Int, NEW r \in 0 .. L - 1,
           a = q * L + r
    PROVE  a % L = r
OBVIOUS

\* Numbers a multiple of L apart have the same remainder.
LEMMA SameRemainder ==
    ASSUME NEW L \in Nat \ {0}, NEW a \in Int, NEW b \in Int, NEW k \in Int,
           a = b + k * L
    PROVE  a % L = b % L
<1> DEFINE q == b \div L
           r == b % L
<1>1. r \in 0 .. L - 1 /\ q \in Int
  OBVIOUS
<1>2. b = q * L + r
  OBVIOUS
<1> HIDE DEF q, r
<1>3. (q + k) * L = q * L + k * L
  BY <1>1
<1>4. a = (q + k) * L + r /\ q + k \in Int
  BY <1>1, <1>2, <1>3
<1>5. a % L = r
  BY <1>1, <1>4, Remainder, Zenon
<1> QED
  BY <1>5 DEF r

\* A multiple of the length is whole laps.
LEMMA MultipleIsLap ==
    ASSUME NEW n \in Int, NEW k \in Int, n = k * BUFFER_LENGTH
    PROVE  OnLap(n)
<1>1. BUFFER_LENGTH \in Nat \ {0} /\ 0 \in 0 .. BUFFER_LENGTH - 1
  BY Length
<1>2. n = k * BUFFER_LENGTH + 0
  BY Length
<1>3. n % BUFFER_LENGTH = 0
  BY <1>1, <1>2, Remainder, Zenon
<1> QED
  BY <1>3 DEF OnLap

\* Whole laps are a multiple of the length.
LEMMA LapIsMultiple ==
    ASSUME NEW n \in Int, OnLap(n)
    PROVE  \E k \in Int : n = k * BUFFER_LENGTH
<1> DEFINE q == n \div BUFFER_LENGTH
           r == n % BUFFER_LENGTH
<1>1. BUFFER_LENGTH \in Nat \ {0}
  BY Length
<1>2. r = 0 /\ q \in Int
  BY <1>1 DEF OnLap
<1>3. n = q * BUFFER_LENGTH + r
  BY <1>1
<1> HIDE DEF q, r
<1>4. n = q * BUFFER_LENGTH
  BY <1>1, <1>2, <1>3
<1> QED
  BY <1>2, <1>4

\* Sums and differences of whole laps, and one lap less, are whole laps.
LEMMA LapSum ==
    ASSUME NEW m \in Int, NEW n \in Int, OnLap(m), OnLap(n)
    PROVE  OnLap(m + n) /\ OnLap(m - n) /\ OnLap(m - BUFFER_LENGTH) /\ OnLap(0)
<1>1. PICK j \in Int : m = j * BUFFER_LENGTH
  BY LapIsMultiple
<1>2. PICK k \in Int : n = k * BUFFER_LENGTH
  BY LapIsMultiple
<1>3. /\ m + n = (j + k) * BUFFER_LENGTH
      /\ m - n = (j - k) * BUFFER_LENGTH
      /\ m - BUFFER_LENGTH = (j - 1) * BUFFER_LENGTH
      /\ 0 = 0 * BUFFER_LENGTH
  BY <1>1, <1>2, Length
<1>4. /\ m + n \in Int /\ m - n \in Int /\ m - BUFFER_LENGTH \in Int
      /\ j + k \in Int /\ j - k \in Int /\ j - 1 \in Int /\ 0 \in Int
  BY Length
<1>5. OnLap(m + n)
  BY <1>3, <1>4, MultipleIsLap, Zenon
<1>6. OnLap(m - n)
  BY <1>3, <1>4, MultipleIsLap, Zenon
<1>7. OnLap(m - BUFFER_LENGTH)
  BY <1>3, <1>4, MultipleIsLap, Zenon
<1>8. OnLap(0)
  BY <1>3, <1>4, MultipleIsLap, Zenon
<1> QED
  BY <1>5, <1>6, <1>7, <1>8

\* One increment of a position is one place, or one place less a lap.
LEMMA NextPlace ==
    ASSUME NEW p \in 0 .. BUFFER_LENGTH
    PROVE  Slot(p) + 1 = p + 1 \/ Slot(p) + 1 = p + 1 - BUFFER_LENGTH
BY Length DEF Slot

\* The invariant behind LosesWholeLaps.
LEMMA LapInductive == Spec => []LapInv
<1>1. Init => LapInv
  BY Length, Remainder DEF Init, LapInv, OnLap
<1>2. TypeOK /\ LapInv /\ [Next]_vars => LapInv'
  <2> SUFFICES ASSUME TypeOK, LapInv, [Next]_vars PROVE LapInv'
    OBVIOUS
  <2> DEFINE W == writePos - published
             R == readPos - consumed
             N == newWritePos - written
             P == pos - (consumed + Len(copied))
  <2>1. /\ BUFFER_LENGTH \in Nat
        /\ writePos \in 0 .. BUFFER_LENGTH /\ readPos \in 0 .. BUFFER_LENGTH
        /\ newWritePos \in 0 .. BUFFER_LENGTH /\ pos \in 0 .. BUFFER_LENGTH
        /\ written \in Nat /\ published \in Nat /\ consumed \in Nat
        /\ copied \in Seq(Int) /\ Len(copied) \in Nat
    BY Length DEF TypeOK
  <2>2. W \in Int /\ R \in Int /\ N \in Int /\ P \in Int
    BY <2>1
  <2>3. /\ OnLap(W) /\ OnLap(R)
        /\ wpc = "idle" => written = published
        /\ wpc = "copy" => OnLap(N)
        /\ rpc = "read" => OnLap(P)
    BY DEF LapInv
  <2>4. ASSUME NEW n \in 0 .. MaxFrames, WriteBegin(n) PROVE LapInv'
    BY <2>3, <2>4 DEF WriteBegin, LapInv, readerVars
  <2>5. CASE WriteSample
    <3>1. newWritePos' = newWritePos + 1 \/ newWritePos' = newWritePos + 1 - BUFFER_LENGTH
      BY <2>1, <2>5, NextPlace DEF WriteSample
    <3>2. newWritePos' - written' = N \/ newWritePos' - written' = N - BUFFER_LENGTH
      BY <2>1, <2>5, <3>1 DEF WriteSample
    <3>3. OnLap(N) /\ OnLap(N - BUFFER_LENGTH)
      BY <2>2, <2>3, <2>5, LapSum DEF WriteSample
    <3>4. OnLap(newWritePos' - written')
      BY <3>2, <3>3, Zenon
    <3> QED
      BY <2>3, <2>5, <3>4 DEF WriteSample, LapInv, readerVars
  <2>6. CASE WriteEnd
    BY <2>3, <2>6 DEF WriteEnd, LapInv, readerVars
  <2>7. CASE Wake \/ SizeCompare
    BY <2>3, <2>7 DEF Wake, SizeCompare, LapInv, writerVars, historyVars
  <2>8. CASE ResetReadPosition
    BY <2>3, <2>8 DEF ResetReadPosition, LapInv, writerVars
  <2>9. CASE SizeEqual \/ SizeSubtract
    <3>1. \/ rpc' /= "read"
          \/ pos' = readPos /\ copied' = <<>>
      BY <2>9 DEF SizeEqual, SizeSubtract, StartRead
    <3>2. UNCHANGED <<writerVars, readPos, historyVars>>
      BY <2>9 DEF SizeEqual, SizeSubtract
    <3>3. ASSUME rpc' = "read" PROVE pos' - (consumed' + Len(copied')) = R
      <4>1. pos' = readPos /\ consumed' = consumed /\ Len(copied') = 0
        BY <3>1, <3>2, <3>3 DEF historyVars
      <4> QED
        BY <2>1, <4>1
    <3> QED
      BY <2>3, <3>2, <3>3 DEF LapInv, writerVars, historyVars
  <2>10. CASE ReadSample
    <3>1. pos' = pos + 1 \/ pos' = pos + 1 - BUFFER_LENGTH
      BY <2>1, <2>10, NextPlace DEF ReadSample
    <3>2. Len(copied') = Len(copied) + 1 /\ consumed' = consumed
      BY <2>1, <2>10 DEF ReadSample, historyVars
    <3>3. \/ pos' - (consumed' + Len(copied')) = P
          \/ pos' - (consumed' + Len(copied')) = P - BUFFER_LENGTH
      BY <2>1, <3>1, <3>2
    <3>4. OnLap(P) /\ OnLap(P - BUFFER_LENGTH)
      BY <2>2, <2>3, <2>10, LapSum DEF ReadSample
    <3>5. OnLap(pos' - (consumed' + Len(copied')))
      BY <3>3, <3>4, Zenon
    <3> QED
      BY <2>3, <2>10, <3>5 DEF ReadSample, LapInv, writerVars, historyVars
  <2>11. CASE ReadEnd
    <3>1. readPos' - consumed' = P
      BY <2>1, <2>11 DEF ReadEnd
    <3> QED
      BY <2>3, <2>11, <3>1 DEF ReadEnd, LapInv, writerVars
  <2>12. CASE UNCHANGED vars
    BY <2>3, <2>12 DEF vars, LapInv, writerVars, readerVars, historyVars
  <2> QED
    BY <2>4, <2>5, <2>6, <2>7, <2>8, <2>9, <2>10, <2>11, <2>12
    DEF Next, Writer, Reader
<1> QED
  BY <1>1, <1>2, TypeCorrect, PTL DEF Spec

\* An overrun loses whole laps of the buffer and nothing else.
THEOREM WholeLaps == Spec => []LosesWholeLaps
<1>1. TypeOK /\ LapInv => LosesWholeLaps
  <2> SUFFICES ASSUME TypeOK, LapInv PROVE LosesWholeLaps
    OBVIOUS
  <2> DEFINE a == writePos - readPos
             b == published - consumed
             W == writePos - published
             R == readPos - consumed
  <2>1. a \in Int /\ b \in Int /\ W \in Int /\ R \in Int /\ a = b + (W - R)
    BY Length DEF TypeOK
  <2>2. OnLap(W) /\ OnLap(R)
    BY DEF LapInv
  <2> HIDE DEF a, b, W, R
  <2>3. OnLap(W - R) /\ W - R \in Int
    BY <2>1, <2>2, LapSum
  <2>4. PICK k \in Int : W - R = k * BUFFER_LENGTH
    BY <2>3, LapIsMultiple
  <2>5. a = b + k * BUFFER_LENGTH
    BY <2>1, <2>4, Length
  <2>6. a % BUFFER_LENGTH = b % BUFFER_LENGTH
    <3>1. BUFFER_LENGTH \in Nat \ {0}
      BY Length
    <3> QED
      BY <2>1, <2>5, <3>1, SameRemainder, Zenon
  <2> QED
    BY <2>6 DEF a, b, LosesWholeLaps
<1> QED
  BY <1>1, LapInductive, TypeCorrect, PTL

-----------------------------------------------------------------------------
(* Samples in their places, in an overrun too. *)

\* What is whole laps from a place is so from the place before and after a lap.
LEMMA LapBetween ==
    ASSUME NEW a \in Int, NEW b \in Int, NEW c \in Int, NEW d \in Int,
           OnLap(a - b), OnLap(c - d), b = c \/ b = c - BUFFER_LENGTH
    PROVE  OnLap(a - d)
<1> USE Length
<1>1. a - b \in Int /\ c - d \in Int
    OBVIOUS
<1> DEFINE e == (a - b) + (c - d)
<1>2. OnLap(e) /\ e \in Int
    BY <1>1, LapSum
<1>3. OnLap(e - BUFFER_LENGTH)
    BY <1>2, LapSum
<1>4. a - d = e \/ a - d = e - BUFFER_LENGTH
    OBVIOUS
<1> HIDE DEF e
<1> QED
    BY <1>2, <1>3, <1>4, Zenon

\* The negative of whole laps is whole laps.
LEMMA LapMinus ==
    ASSUME NEW a \in Int, NEW b \in Int, OnLap(a - b)
    PROVE  OnLap(b - a)
<1> USE Length
<1>1. a - b \in Int /\ OnLap(0) /\ 0 - (a - b) = b - a
    BY LapSum
<1>2. OnLap(0 - (a - b))
    BY <1>1, LapSum
<1> QED
    BY <1>1, <1>2

\* In its first lap the writer stays ahead of the reader.
LEMMA FirstLapStep == TypeOK /\ LapInv /\ FirstLap /\ [Next]_vars => FirstLap'
<1> SUFFICES ASSUME TypeOK, LapInv, FirstLap, [Next]_vars PROVE FirstLap'
    OBVIOUS
<1>1. /\ BUFFER_LENGTH \in Nat
      /\ writePos \in 0 .. BUFFER_LENGTH /\ readPos \in 0 .. BUFFER_LENGTH
      /\ newWritePos \in 0 .. BUFFER_LENGTH /\ pos \in 0 .. BUFFER_LENGTH
      /\ written \in Nat /\ published \in Nat /\ numSamples \in Int
      /\ copied \in Seq(Int) /\ Len(copied) \in Nat
      /\ wpc \in {"idle", "copy"}
    BY Length DEF TypeOK
<1>2. wpc = "idle" => written = published
    BY DEF LapInv
<1> USE DEF FirstLap
<1>3. ASSUME NEW n \in 0 .. MaxFrames, WriteBegin(n) PROVE FirstLap'
    BY <1>2, <1>3 DEF WriteBegin, readerVars
<1>4. CASE WriteSample
    <2>1. newWritePos' = Slot(newWritePos) + 1 /\ written' = written + 1 /\ wpc' = wpc
          /\ UNCHANGED <<published, writePos, readerVars>> /\ wpc = "copy"
        BY <1>4 DEF WriteSample
    <2>2. written' <= BUFFER_LENGTH => newWritePos' = written'
        BY <1>1, <2>1 DEF Slot
    <2> QED
        BY <1>1, <2>1, <2>2 DEF readerVars
<1>5. CASE WriteEnd
    BY <1>1, <1>5 DEF WriteEnd, readerVars
<1>6. CASE Wake \/ SizeEqual \/ SizeCompare \/ SizeSubtract
    <2>1. UNCHANGED <<writerVars, readPos, historyVars>>
        BY <1>6 DEF Wake, SizeEqual, SizeCompare, SizeSubtract
    <2>2. CASE Wake
        BY <2>1, <2>2 DEF Wake, writerVars, historyVars
    <2>3. CASE SizeEqual /\ readPos = writePos
        <3>1. rpc' = "read" /\ numSamples' = 0 /\ pos' = readPos /\ Len(copied') = 0
            BY <2>3 DEF SizeEqual, StartRead
        <3> QED
            BY <1>1, <2>1, <3>1 DEF writerVars, historyVars
    <2>4. CASE SizeEqual /\ readPos /= writePos
        BY <1>1, <2>1, <2>4 DEF SizeEqual, writerVars, historyVars
    <2>5. CASE SizeCompare
        BY <1>1, <2>1, <2>5 DEF SizeCompare, writerVars, historyVars
    <2>6. CASE SizeSubtract
        <3>1. rpc' = "read" /\ pos' = readPos /\ Len(copied') = 0
            BY <2>6 DEF SizeSubtract, StartRead
        <3>2. published < BUFFER_LENGTH => numSamples' = published - readPos
            BY <1>1, <2>6 DEF SizeSubtract, StartRead, Ahead
        <3> QED
            BY <1>1, <2>1, <3>1, <3>2 DEF writerVars, historyVars
    <2> QED
        BY <1>6, <2>2, <2>3, <2>4, <2>5, <2>6
<1>7. CASE ResetReadPosition
    BY <1>1, <1>7 DEF ResetReadPosition, writerVars
<1>8. CASE ReadSample
    <2>1. /\ rpc = "read" /\ rpc' = "read" /\ Len(copied) < numSamples
          /\ Len(copied') = Len(copied) + 1 /\ pos' = Slot(pos) + 1
          /\ UNCHANGED <<writerVars, readPos, numSamples, historyVars>>
        BY <1>1, <1>8 DEF ReadSample
    <2>2. published < BUFFER_LENGTH => pos' = pos + 1
        BY <1>1, <2>1 DEF Slot
    <2> QED
        BY <1>1, <2>1, <2>2 DEF writerVars, historyVars
<1>9. CASE ReadEnd
    BY <1>1, <1>9 DEF ReadEnd, writerVars
<1>10. CASE UNCHANGED vars
    BY <1>10 DEF vars, writerVars, readerVars, historyVars
<1> QED
    BY <1>3, <1>4, <1>5, <1>6, <1>7, <1>8, <1>9, <1>10 DEF Next, Writer, Reader

\* Only the writer touches the slots, and it puts each sample into its own.
LEMMA SlotsStep ==
    TypeOK /\ LapInv /\ FirstLap /\ SlotsInPlace /\ [Next]_vars => SlotsInPlace'
<1> SUFFICES ASSUME TypeOK, LapInv, FirstLap, SlotsInPlace, [Next]_vars
             PROVE  SlotsInPlace'
    OBVIOUS
<1>1. CASE WriteSample
    <2> DEFINE k == Slot(newWritePos)
    <2>1. /\ BUFFER_LENGTH \in Nat /\ newWritePos \in 0 .. BUFFER_LENGTH
          /\ written \in Nat /\ k \in Slots /\ k \in Int
          /\ data \in [Slots -> Int]
        BY Length DEF TypeOK, Slot, Slots
    <2>2. /\ data' = [data EXCEPT ![k] = written] /\ written' = written + 1
          /\ wpc = "copy"
        BY <1>1 DEF WriteSample
    <2>3. written < BUFFER_LENGTH => k = written
        BY <2>1, <2>2 DEF FirstLap, Slot
    <2>4. OnLap(written - k)
        <3>1. OnLap(newWritePos - written) /\ newWritePos \in Int /\ written \in Int
            BY <2>1, <2>2 DEF LapInv
        <3>2. OnLap(written - newWritePos)
            BY <3>1, LapMinus, Zenon
        <3>3. k = newWritePos \/ k = newWritePos - BUFFER_LENGTH
            BY <2>1 DEF Slot
        <3>4. CASE k = newWritePos
            BY <3>2, <3>4
        <3>5. CASE k = newWritePos - BUFFER_LENGTH
            <4>1. newWritePos - written \in Int
                BY <2>1
            <4>2. OnLap((newWritePos - written) - BUFFER_LENGTH)
                BY <3>1, <4>1, LapSum
            <4>3. (newWritePos - written) - BUFFER_LENGTH = k - written
                BY <2>1, <3>5
            <4>4. OnLap(k - written)
                BY <4>2, <4>3, Zenon
            <4> QED
                BY <2>1, <3>1, <4>4, LapMinus, Zenon
        <3> QED
            BY <3>3, <3>4, <3>5
    <2> SUFFICES ASSUME NEW s \in Slots
                 PROVE  /\ s < written' => /\ data'[s] \in 0 .. written' - 1
                                           /\ OnLap(data'[s] - s)
                        /\ s >= written' => data'[s] = NoSample
        BY DEF SlotsInPlace
    <2>5. CASE s = k
        <3>1. data'[s] = written /\ ~(s >= written')
            BY <2>1, <2>2, <2>3, <2>5 DEF Slots
        <3> QED
            BY <2>1, <2>2, <2>4, <2>5, <3>1
    <2>6. CASE s /= k
        <3>1. data'[s] = data[s] /\ s /= written
            BY <2>1, <2>2, <2>3, <2>6 DEF Slots
        <3>2. /\ s < written => data[s] \in 0 .. written - 1 /\ OnLap(data[s] - s)
              /\ s >= written => data[s] = NoSample
            BY DEF SlotsInPlace
        <3>3. s \in Int
            BY <2>1 DEF Slots
        <3> QED
            BY <2>1, <2>2, <3>1, <3>2, <3>3
    <2> QED
        BY <2>5, <2>6
<1>2. CASE ~WriteSample
    <2>1. UNCHANGED <<data, written>>
        BY <1>2 DEF Next, Writer, Reader, WriteBegin, WriteEnd, Wake, ResetReadPosition,
                    SizeEqual, SizeCompare, SizeSubtract, ReadSample, ReadEnd, vars,
                    writerVars, historyVars
    <2> QED
        BY <2>1 DEF SlotsInPlace
<1> QED
    BY <1>1, <1>2

\* The slot read next has been written, with a sample of its place.
LEMMA PlaceStep ==
    TypeOK /\ PlaceInv /\ [Next]_vars => SamplesInPlace'
<1> SUFFICES ASSUME TypeOK, PlaceInv, [Next]_vars PROVE SamplesInPlace'
    OBVIOUS
<1>1. /\ BUFFER_LENGTH \in Nat /\ pos \in 0 .. BUFFER_LENGTH /\ readPos \in Nat
      /\ written \in Nat /\ published \in Nat /\ consumed \in Nat /\ numSamples \in Int
      /\ copied \in Seq(Int) /\ Len(copied) \in Nat
      /\ published <= written
    BY Length DEF TypeOK, PlaceInv, FirstLap
<1>2. CASE ReadSample
    <2> DEFINE k == Len(copied)
               q == Slot(pos)
               x == data[q]
    <2>1. /\ rpc = "read" /\ k < numSamples
          /\ copied' = Append(copied, x)
          /\ UNCHANGED <<written, consumed>>
        BY <1>2 DEF ReadSample, historyVars
    <2>2. q \in Slots /\ q \in Int /\ (q = pos \/ q = pos - BUFFER_LENGTH)
        BY <1>1, Length DEF Slot, Slots
    <2>3. q < written
        <3>1. CASE published < BUFFER_LENGTH
            <4>1. pos = readPos + k /\ readPos + numSamples <= published
                BY <2>1, <3>1 DEF PlaceInv, FirstLap
            <4>2. pos < published
                BY <1>1, <2>1, <4>1
            <4> QED
                BY <1>1, <3>1, <4>2 DEF Slot
        <3>2. CASE published >= BUFFER_LENGTH
            BY <1>1, <2>2, <3>2 DEF Slots
        <3> QED
            BY <1>1, <3>1, <3>2
    <2>4. x \in 0 .. written - 1 /\ x \in Int /\ OnLap(x - q)
        BY <1>1, <2>2, <2>3 DEF PlaceInv, SlotsInPlace
    <2>5. OnLap(pos - (consumed + k)) /\ consumed + k \in Int
        BY <1>1, <2>1 DEF PlaceInv, LapInv
    <2> HIDE DEF x, q
    <2>6. OnLap(x - (consumed + k))
        <3>1. pos \in Int
            BY <1>1
        <3> QED
            BY <2>2, <2>4, <2>5, <3>1, LapBetween, Zenon
    <2>7. /\ Len(copied') = k + 1
          /\ \A i \in 1 .. k : copied'[i] = copied[i]
          /\ copied'[k + 1] = x
        BY <1>1, <2>1, <2>4
    <2>8. consumed + (k + 1) - 1 = consumed + k
        BY <1>1
    <2>9. \A i \in 1 .. k :
              copied[i] \in 0 .. written - 1 /\ OnLap(copied[i] - (consumed + i - 1))
        BY <2>1 DEF PlaceInv, SamplesInPlace
    <2> SUFFICES ASSUME NEW i \in 1 .. k + 1
                 PROVE  copied'[i] \in 0 .. written - 1 /\ OnLap(copied'[i] - (consumed + i - 1))
        BY <2>1, <2>7 DEF SamplesInPlace
    <2>10. CASE i = k + 1
        BY <2>4, <2>6, <2>7, <2>8, <2>10
    <2>11. CASE i \in 1 .. k
        BY <2>7, <2>9, <2>11
    <2> QED
        BY <1>1, <2>10, <2>11
<1>3. CASE SizeEqual \/ SizeSubtract
    <2>1. rpc' = "read" => copied' = <<>>
        BY <1>3 DEF SizeEqual, SizeSubtract, StartRead
    <2>2. \A i \in 1 .. Len(<<>>) : FALSE
        OBVIOUS
    <2> QED
        BY <2>1, <2>2 DEF SamplesInPlace
<1>4. CASE ResetReadPosition \/ ReadEnd \/ SizeCompare \/ Wake
    BY <1>4 DEF ResetReadPosition, ReadEnd, SizeCompare, Wake, SamplesInPlace
<1>5. CASE Writer \/ UNCHANGED vars
    <2>1. /\ UNCHANGED <<rpc, copied, consumed>>
          /\ written' = written \/ written' = written + 1
        BY <1>5 DEF Writer, WriteBegin, WriteSample, WriteEnd, vars, readerVars,
                    historyVars
    <2>2. \A n \in 0 .. written - 1 : n \in 0 .. written' - 1
        BY <1>1, <2>1
    <2> QED
        BY <2>1, <2>2 DEF PlaceInv, SamplesInPlace
<1> QED
    BY <1>2, <1>3, <1>4, <1>5 DEF Next, Reader

\* An overrun mixes samples of different laps, but every one stands where one of
\* its place in the lap and of its channel belongs; no unwritten slot is read.
THEOREM InPlace == Spec => []SamplesInPlace
<1>1. Init => FirstLap /\ SlotsInPlace /\ SamplesInPlace
    BY Length DEF Init, FirstLap, SlotsInPlace, SamplesInPlace, Slots
<1> QED
    BY <1>1, FirstLapStep, SlotsStep, PlaceStep, LapInductive, TypeCorrect, PTL
       DEF Spec, PlaceInv

-----------------------------------------------------------------------------
(* Whole frames. *)

\* One increment of a position changes its channel.
LEMMA OtherChannel ==
    ASSUME NEW p \in 0 .. BUFFER_LENGTH, NEW n \in Int, (p + n) % 2 = 0
    PROVE  (Slot(p) + 1 + (n + 1)) % 2 = 0 /\ (Slot(p) + 1 + (n - 1)) % 2 = 0
BY BufferAssumption DEF Slot, N_CHANNELS

\* The invariant behind ChannelsAligned.
LEMMA AlignInductive == Spec => []AlignInv
<1> USE DEF N_CHANNELS, ChannelsAligned
<1>1. Init => AlignInv
  BY DEF Init, AlignInv
<1>2. TypeOK /\ AlignInv /\ [Next]_vars => AlignInv'
  <2> SUFFICES ASSUME TypeOK, AlignInv, [Next]_vars PROVE AlignInv'
    OBVIOUS
  <2>1. /\ BUFFER_LENGTH \in Nat /\ BUFFER_LENGTH % 2 = 0
        /\ writePos \in 0 .. BUFFER_LENGTH /\ readPos \in 0 .. BUFFER_LENGTH
        /\ newWritePos \in 0 .. BUFFER_LENGTH /\ pos \in 0 .. BUFFER_LENGTH
        /\ toWrite \in Nat /\ numSamples \in Int
        /\ written \in Nat /\ published \in Nat /\ consumed \in Nat
        /\ copied \in Seq(Int) /\ Len(copied) \in Nat
    BY BufferAssumption DEF TypeOK
  <2>2. /\ writePos % 2 = 0 /\ readPos % 2 = 0
        /\ wpc = "idle" => written = published
        /\ rpc /= "read" => copied = <<>>
    BY DEF AlignInv
  <2>3. ASSUME NEW n \in 0 .. MaxFrames, WriteBegin(n) PROVE AlignInv'
    <3>1. /\ newWritePos' = writePos /\ writePos' = writePos /\ toWrite' = 2 * n
          /\ written' = written /\ published' = written
      BY <2>2, <2>3 DEF WriteBegin
    <3>2. /\ (newWritePos' + toWrite') % 2 = 0 /\ written' >= published'
          /\ (written' - published' + toWrite') % 2 = 0
      BY <2>1, <2>2, <3>1, BufferAssumption
    <3> QED
      BY <2>3, <3>2 DEF WriteBegin, AlignInv, readerVars
  <2>4. CASE WriteSample
    <3>1. /\ newWritePos' = Slot(newWritePos) + 1 /\ toWrite' = toWrite - 1
          /\ written' = written + 1 /\ published' = published /\ wpc = "copy"
      BY <2>4 DEF WriteSample
    <3>2. /\ (newWritePos + toWrite) % 2 = 0 /\ written >= published
          /\ (written - published + toWrite) % 2 = 0
      BY <3>1 DEF AlignInv
    <3>3. (newWritePos' + toWrite') % 2 = 0
      BY <2>1, <3>1, <3>2, OtherChannel
    <3>4. /\ written' >= published'
          /\ written' - published' + toWrite' = written - published + toWrite
      BY <2>1, <3>1, <3>2
    <3> QED
      BY <2>4, <3>2, <3>3, <3>4 DEF WriteSample, AlignInv, readerVars
  <2>5. CASE WriteEnd
    <3>1. writePos' = newWritePos /\ toWrite = 0 /\ wpc = "copy"
      BY <2>5 DEF WriteEnd
    <3>2. writePos' % 2 = 0
      BY <2>1, <3>1 DEF AlignInv
    <3> QED
      BY <2>5, <3>2 DEF WriteEnd, AlignInv, readerVars
  <2>6. CASE Wake
    BY <2>6 DEF Wake, AlignInv, writerVars, historyVars
  <2>7. CASE ResetReadPosition
    BY <2>7 DEF ResetReadPosition, AlignInv, writerVars
  <2>8. CASE SizeEqual \/ SizeSubtract
    <3>1. \/ rpc' /= "read" /\ copied' = copied /\ rpc /= "read" /\ numSamples' = numSamples
          \/ /\ pos' = readPos /\ copied' = <<>>
             /\ \/ numSamples' = 0
                \/ numSamples' = writePos - readPos
                \/ numSamples' = BUFFER_LENGTH - readPos + writePos
      BY <2>8 DEF SizeEqual, SizeSubtract, StartRead, Ahead, Wrapped
    <3>2. UNCHANGED <<writerVars, readPos, historyVars>>
      BY <2>8 DEF SizeEqual, SizeSubtract
    <3>3. ASSUME rpc' = "read"
          PROVE  (pos' + Len(copied')) % 2 = 0 /\ numSamples' % 2 = 0 /\ Len(copied') = 0
      <4>1. pos' = readPos /\ Len(copied') = 0
        BY <3>1, <3>3
      <4>2. numSamples' % 2 = 0
        BY <2>1, <2>2, <3>1, <3>3
      <4> QED
        BY <2>1, <2>2, <4>1, <4>2
    <3>4. rpc' /= "read" => copied' = <<>>
      BY <2>2, <3>1
    <3> QED
      BY <3>2, <3>3, <3>4 DEF AlignInv, writerVars, historyVars
  <2>9. CASE SizeCompare
    BY <2>9 DEF SizeCompare, AlignInv, writerVars, historyVars
  <2>10. CASE ReadSample
    <3>1. /\ pos' = Slot(pos) + 1 /\ Len(copied') = Len(copied) + 1
          /\ Len(copied) < numSamples /\ numSamples' = numSamples
          /\ rpc = "read" /\ rpc' = "read"
      BY <2>1, <2>10 DEF ReadSample, TypeOK
    <3>2. (pos + Len(copied)) % 2 = 0
      BY <3>1 DEF AlignInv
    <3>3. (pos' + Len(copied')) % 2 = 0
      BY <2>1, <3>1, <3>2, OtherChannel
    <3>4. Len(copied') <= numSamples'
      BY <2>1, <3>1
    <3> QED
      BY <2>10, <3>1, <3>3, <3>4 DEF ReadSample, AlignInv, writerVars, historyVars
  <2>11. CASE ReadEnd
    <3>1. /\ (pos + Len(copied)) % 2 = 0
          /\ numSamples % 2 = 0
          /\ Len(copied) = 0 \/ Len(copied) <= numSamples
          /\ Len(copied) >= numSamples
      BY <2>11 DEF ReadEnd, AlignInv
    <3>2. pos % 2 = 0
      BY <2>1, <3>1
    <3> QED
      BY <2>11, <3>2 DEF ReadEnd, AlignInv, writerVars
  <2>12. CASE UNCHANGED vars
    BY <2>12 DEF vars, AlignInv, writerVars, readerVars, historyVars
  <2> QED
    BY <2>3, <2>4, <2>5, <2>6, <2>7, <2>8, <2>9, <2>10, <2>11, <2>12
    DEF Next, Writer, Reader
<1> QED
  BY <1>1, <1>2, TypeCorrect, PTL DEF Spec

\* Between calls left and right are where they belong, in an overrun too.
THEOREM Aligned == Spec => []ChannelsAligned
<1>1. AlignInv => ChannelsAligned
  BY DEF AlignInv
<1> QED
  BY <1>1, AlignInductive, PTL

-----------------------------------------------------------------------------
(* The count of unread samples, in an overrun too. *)

\* What is whole laps apart has the same remainder, and a number and its
\* remainder are whole laps apart.
LEMMA LapRemainder ==
    ASSUME NEW a \in Int, NEW b \in Int
    PROVE  /\ OnLap(a - b) => a % BUFFER_LENGTH = b % BUFFER_LENGTH
           /\ a % BUFFER_LENGTH \in Int /\ OnLap((a % BUFFER_LENGTH) - a)
<1> DEFINE q == a \div BUFFER_LENGTH
           r == a % BUFFER_LENGTH
<1>1. BUFFER_LENGTH \in Nat \ {0}
  BY Length
<1>2. q \in Int /\ r \in Int /\ a = q * BUFFER_LENGTH + r
  BY <1>1
<1>3. ASSUME OnLap(a - b) PROVE r = b % BUFFER_LENGTH
  <2>1. PICK k \in Int : a - b = k * BUFFER_LENGTH
    BY <1>3, LapIsMultiple
  <2>2. a = b + k * BUFFER_LENGTH
    BY <1>1, <2>1
  <2> QED
    BY <1>1, <2>2, SameRemainder, Zenon DEF r
<1> HIDE DEF q, r
<1>4. r - a = (0 - q) * BUFFER_LENGTH /\ r - a \in Int /\ 0 - q \in Int
  BY <1>1, <1>2
<1>5. OnLap(r - a)
  BY <1>4, MultipleIsLap, Zenon
<1> QED
  BY <1>2, <1>3, <1>5 DEF r

\* The remainder of a sum or difference is that of the remainders.
LEMMA RemainderOfSum ==
    ASSUME NEW a \in Int, NEW b \in Int
    PROVE  /\ ((a % BUFFER_LENGTH) + b) % BUFFER_LENGTH = (a + b) % BUFFER_LENGTH
           /\ ((a % BUFFER_LENGTH) - (b % BUFFER_LENGTH)) % BUFFER_LENGTH
                = (a - b) % BUFFER_LENGTH
<1> DEFINE r == a % BUFFER_LENGTH
           t == b % BUFFER_LENGTH
<1>1. r \in Int /\ t \in Int /\ OnLap(r - a) /\ OnLap(t - b)
  BY LapRemainder
<1> HIDE DEF r, t
<1>2. r - a \in Int /\ t - b \in Int
  BY <1>1
<1>3. OnLap((r - a) - (t - b))
  BY <1>1, <1>2, LapSum
<1>4. (r + b) - (a + b) = r - a /\ (r - t) - (a - b) = (r - a) - (t - b)
      /\ r + b \in Int /\ a + b \in Int /\ r - t \in Int /\ a - b \in Int
  BY <1>1
<1>5. OnLap((r + b) - (a + b)) /\ OnLap((r - t) - (a - b))
  BY <1>1, <1>3, <1>4, Zenon
<1>6. (r + b) % BUFFER_LENGTH = (a + b) % BUFFER_LENGTH
  BY <1>4, <1>5, LapRemainder
<1>7. (r - t) % BUFFER_LENGTH = (a - b) % BUFFER_LENGTH
  BY <1>4, <1>5, LapRemainder
<1> QED
  BY <1>6, <1>7 DEF r, t

\* Blocks keep the size they were begun with.
LEMMA BlockInductive == Spec => []BlockInv
<1>1. Init => BlockInv
  BY DEF Init, BlockInv
<1>2. TypeOK /\ LapInv /\ BlockInv /\ [Next]_vars => BlockInv'
  <2> SUFFICES ASSUME TypeOK, LapInv, BlockInv, [Next]_vars PROVE BlockInv'
    OBVIOUS
  <2>1. written \in Nat /\ published \in Nat /\ toWrite \in Int
    BY BufferAssumption DEF TypeOK, N_CHANNELS
  <2>2. ASSUME NEW n \in 0 .. MaxFrames, WriteBegin(n) PROVE BlockInv'
    <3>1. /\ written' = written /\ published' = published /\ written = published
          /\ toWrite' = N_CHANNELS * n
      BY <2>2 DEF WriteBegin, LapInv
    <3>2. written' - published' + toWrite' = N_CHANNELS * n
      BY <2>1, <3>1 DEF N_CHANNELS
    <3> QED
      BY <3>2 DEF BlockInv
  <2>3. CASE WriteSample
    <3>1. /\ wpc = "copy" /\ wpc' = "copy"
          /\ written' - published' + toWrite' = written - published + toWrite
      BY <2>1, <2>3 DEF WriteSample
    <3> QED
      BY <3>1 DEF BlockInv
  <2>4. CASE WriteEnd
    BY <2>4 DEF WriteEnd, BlockInv
  <2>5. CASE Reader \/ UNCHANGED vars
    <3>1. UNCHANGED <<wpc, written, published, toWrite>>
      BY <2>5 DEF Reader, Wake, ResetReadPosition, SizeEqual, SizeCompare, SizeSubtract,
          ReadSample, ReadEnd, vars, writerVars, historyVars
    <3> QED
      BY <3>1 DEF BlockInv
  <2> QED
    BY <2>2, <2>3, <2>4, <2>5 DEF Next, Writer
<1> QED
  BY <1>1, <1>2, TypeCorrect, LapInductive, PTL DEF Spec

\* Every step of the two threads is a step of the count, or leaves it alone.
LEMMA CountStep ==
    TypeOK /\ LapInv /\ BlockInv /\ AlignInv /\ [Next]_vars => [Count!Next]_Count!vars
<1> SUFFICES ASSUME TypeOK, LapInv, BlockInv, AlignInv, [Next]_vars
             PROVE  Count!Next \/ UNCHANGED Count!vars
  OBVIOUS
<1> DEFINE d == writePos - readPos
           u == d % BUFFER_LENGTH
           z == IF rpc = "read" /\ numSamples > 0 THEN numSamples % BUFFER_LENGTH ELSE 0
<1>1. /\ BUFFER_LENGTH \in Nat \ {0}
      /\ writePos \in Int /\ readPos \in Int /\ newWritePos \in Int /\ pos \in Int
      /\ written \in Nat /\ published \in Nat /\ consumed \in Nat /\ numSamples \in Int
      /\ Len(copied) \in Nat /\ d \in Int
  BY Length DEF TypeOK
<1>2. CASE WriteEnd
  <2> DEFINE n == written - published
             W == writePos - published
             N == newWritePos - written
  <2>1. /\ wpc = "copy" /\ toWrite = 0 /\ writePos' = newWritePos
        /\ UNCHANGED <<readPos, rpc, numSamples>>
    BY <1>2 DEF WriteEnd, readerVars
  <2>2. n \in {N_CHANNELS * f : f \in 0 .. MaxFrames}
    BY <1>1, <2>1 DEF BlockInv
  <2>3. OnLap(N) /\ OnLap(W) /\ N \in Int /\ W \in Int /\ n \in Int
    BY <1>1, <2>1 DEF LapInv
  <2>4. d' - (d + n) = N - W /\ d' \in Int /\ d + n \in Int
    BY <1>1, <2>1
  <2> HIDE DEF d, n, N, W
  <2>5. OnLap(d' - (d + n))
    BY <2>3, <2>4, LapSum
  <2>6. (d' % BUFFER_LENGTH) = (d + n) % BUFFER_LENGTH
    BY <2>4, <2>5, LapRemainder
  <2>7. u' = (u + n) % BUFFER_LENGTH
    BY <1>1, <2>3, <2>6, RemainderOfSum
  <2>8. z' = z
    BY <2>1
  <2>9. Count!Put(n)
    BY <2>7, <2>8 DEF Count!Put, d
  <2> QED
    BY <2>2, <2>9 DEF Count!Next
<1>3. CASE ResetReadPosition
  <2>1. rpc = "woken" /\ rpc' = "idle" /\ readPos' = writePos /\ writePos' = writePos
    BY <1>3 DEF ResetReadPosition, writerVars
  <2>2. d' = 0 /\ z = 0 /\ z' = 0
    BY <1>1, <2>1
  <2>3. u' = 0
    BY <1>1, <2>2
  <2>4. Count!Discard
    BY <2>2, <2>3 DEF Count!Discard
  <2> QED
    BY <2>4 DEF Count!Next
<1>4. CASE ReadEnd
  <2>1. /\ rpc = "read" /\ rpc' = "idle" /\ readPos' = pos /\ writePos' = writePos
        /\ Len(copied) >= numSamples
    BY <1>4 DEF ReadEnd, writerVars
  <2>2. numSamples > 0 => Len(copied) = numSamples
    BY <1>1, <2>1 DEF AlignInv
  <2>3. ~(numSamples > 0) => Len(copied) = 0
    BY <1>1, <2>1 DEF AlignInv
  <2> DEFINE k == Len(copied)
             P == pos - (consumed + Len(copied))
             R == readPos - consumed
  <2>4. OnLap(P) /\ OnLap(R) /\ P \in Int /\ R \in Int /\ k \in Int
    BY <1>1, <2>1 DEF LapInv
  <2>5. d' - (d - k) = R - P /\ d' \in Int /\ d - k \in Int
    BY <1>1, <2>1
  <2>6. z = k % BUFFER_LENGTH /\ z' = 0
    BY <1>1, <2>1, <2>2, <2>3
  <2> HIDE DEF d, k, P, R, z
  <2>7. OnLap(d' - (d - k))
    BY <2>4, <2>5, LapSum
  <2>8. (d' % BUFFER_LENGTH) = (d - k) % BUFFER_LENGTH
    BY <2>5, <2>7, LapRemainder
  <2>9. u' = (u - z) % BUFFER_LENGTH
    <3>1. ((d % BUFFER_LENGTH) - (k % BUFFER_LENGTH)) % BUFFER_LENGTH
            = (d - k) % BUFFER_LENGTH
      BY <1>1, <2>4, RemainderOfSum, Zenon
    <3> QED
      BY <2>6, <2>8, <3>1
  <2>10. Count!Take
    BY <2>6, <2>9 DEF Count!Take, d, z
  <2> QED
    BY <2>10 DEF Count!Next
<1>5. CASE SizeEqual \/ SizeSubtract
  <2>1. rpc /= "read" /\ UNCHANGED <<readPos, writePos>>
    BY <1>5 DEF SizeEqual, SizeSubtract, writerVars
  <2>2. \/ rpc' /= "read"
        \/ rpc' = "read" /\ numSamples' \in {0, d, BUFFER_LENGTH + d}
    BY <1>1, <1>5 DEF SizeEqual, SizeSubtract, StartRead, Ahead, Wrapped
  <2>3. (BUFFER_LENGTH + d) % BUFFER_LENGTH = u
    <3>1. BUFFER_LENGTH + d = d + 1 * BUFFER_LENGTH /\ BUFFER_LENGTH + d \in Int /\ 1 \in Int
      BY <1>1
    <3> QED
      BY <1>1, <3>1, SameRemainder, Zenon
  <2>4. z = 0 /\ u' = u
    BY <2>1
  <2>5. z' \in {u, 0}
    BY <2>2, <2>3
  <2>6. Count!Size
    BY <2>4, <2>5 DEF Count!Size
  <2> QED
    BY <2>6 DEF Count!Next
<1>6. CASE \/ (\E n \in 0 .. MaxFrames : WriteBegin(n)) \/ WriteSample
           \/ Wake \/ SizeCompare \/ ReadSample \/ UNCHANGED vars
  <2>1. /\ UNCHANGED <<writePos, readPos>>
        /\ \/ UNCHANGED <<rpc, numSamples>>
           \/ rpc /= "read" /\ rpc' /= "read"
    BY <1>6 DEF WriteBegin, WriteSample, Wake, SizeCompare, ReadSample, vars, readerVars,
        writerVars
  <2> QED
    BY <2>1 DEF Count!vars
<1> QED
  BY <1>2, <1>3, <1>4, <1>5, <1>6 DEF Next, Writer, Reader

\* Overrun or not, and torn or not: the two threads move the positions only as
\* RingCount says, which is all the model of the upload buffer relies on.
THEOREM CountsUnread == Spec => Count!Spec
<1>1. Init => Count!Init
  BY Length DEF Init, Count!Init
<1> QED
  BY <1>1, CountStep, BlockInductive, LapInductive, AlignInductive, TypeCorrect, PTL
  DEF Spec, Count!Spec

-----------------------------------------------------------------------------
(* The queue that the two threads implement without a lock. *)

\* n samples of the stream, the first of them the c-th.
Stream(c, n) == [i \in 1 .. n |-> c + i - 1]

\* The length and the elements of a piece of the stream.
LEMMA StreamSeq ==
    ASSUME NEW c \in Int, NEW n \in Nat
    PROVE  /\ Stream(c, n) \in Seq(Int) /\ Len(Stream(c, n)) = n
           /\ \A i \in 1 .. n : Stream(c, n)[i] = c + i - 1
<1>1. Stream(c, n) \in [1 .. n -> Int]
  BY DEF Stream
<1>2. Stream(c, n) \in Seq(Int)
  BY <1>1, SeqDef
<1>3. DOMAIN Stream(c, n) = 1 .. n
  BY DEF Stream
<1>4. Len(Stream(c, n)) = n
  BY <1>2, <1>3, LenProperties
<1> QED
  BY <1>2, <1>4 DEF Stream

\* A piece of the stream followed by the next piece.
LEMMA StreamJoin ==
    ASSUME NEW c \in Int, NEW m \in Nat, NEW n \in Nat
    PROVE  Stream(c, m) \o [i \in 1 .. n |-> (c + m) + i - 1] = Stream(c, m + n)
<1> DEFINE s == Stream(c, m)
           t == Stream(c + m, n)
           u == Stream(c, m + n)
<1>0. c + m \in Int /\ m + n \in Nat
  OBVIOUS
<1>1. /\ s \in Seq(Int) /\ Len(s) = m /\ \A i \in 1 .. m : s[i] = c + i - 1
      /\ t \in Seq(Int) /\ Len(t) = n /\ \A i \in 1 .. n : t[i] = (c + m) + i - 1
      /\ u \in Seq(Int) /\ Len(u) = m + n /\ \A i \in 1 .. m + n : u[i] = c + i - 1
  BY <1>0, StreamSeq, Zenon
<1> HIDE DEF s, t, u
<1>2. s \o t \in Seq(Int) /\ Len(s \o t) = m + n
  BY <1>1, ConcatProperties
<1>3. \A i \in 1 .. m + n : (s \o t)[i] = u[i]
  <2>1. \A i \in 1 .. m + n : (s \o t)[i] = IF i <= m THEN s[i] ELSE t[i - m]
    BY <1>1, ConcatProperties
  <2> SUFFICES ASSUME NEW i \in 1 .. m + n PROVE (s \o t)[i] = u[i]
    OBVIOUS
  <2>2. CASE i <= m
    BY <1>1, <2>1, <2>2
  <2>3. CASE i > m
    <3>1. (s \o t)[i] = t[i - m]
      <4>1. ~(i <= m)
        BY <2>3
      <4> QED
        BY <2>1, <4>1, Zenon
    <3>2. i - m \in 1 .. n /\ (c + m) + (i - m) - 1 = c + i - 1
      BY <2>3
    <3>3. t[i - m] = (c + m) + (i - m) - 1
      BY <1>1, <3>2
    <3>4. u[i] = c + i - 1
      BY <1>1
    <3> QED
      BY <3>1, <3>2, <3>3, <3>4
  <2>4. i <= m \/ i > m
    OBVIOUS
  <2> QED
    BY <2>2, <2>3, <2>4
<1>4. s \o t = u
  BY <1>1, <1>2, <1>3, SeqEqual
<1> QED
  BY <1>4 DEF s, t, u, Stream

\* A piece of the stream without its first k samples.
LEMMA StreamRest ==
    ASSUME NEW c \in Int, NEW n \in Nat, NEW k \in 0 .. n
    PROVE  SubSeq(Stream(c, n), k + 1, n) = Stream(c + k, n - k)
<1> DEFINE s == Stream(c, n)
           t == Stream(c + k, n - k)
<1>1. /\ s \in Seq(Int) /\ Len(s) = n /\ \A i \in 1 .. n : s[i] = c + i - 1
      /\ t \in Seq(Int) /\ Len(t) = n - k /\ \A i \in 1 .. n - k : t[i] = c + k + i - 1
  BY StreamSeq
<1> HIDE DEF s, t
<1>2. /\ SubSeq(s, k + 1, n) \in Seq(Int) /\ Len(SubSeq(s, k + 1, n)) = n - k
      /\ \A i \in 1 .. n - k : SubSeq(s, k + 1, n)[i] = s[k + i]
  BY <1>1
<1>3. \A i \in 1 .. n - k : SubSeq(s, k + 1, n)[i] = t[i]
  BY <1>1, <1>2
<1>4. SubSeq(s, k + 1, n) = t
  BY <1>1, <1>2, <1>3, SeqEqual
<1> QED
  BY <1>4 DEF s, t

\* From position p on, d holds n samples of the stream, the first the c-th.
HoldsStream(d, p, c, n) == \A i \in 0 .. n - 1 : d[SlotAt(p, i)] = c + i

\* What the slots hold, when they hold the stream.
LEMMA SlotsHoldStream ==
    ASSUME NEW d, NEW p, NEW c \in Nat, NEW n \in Nat, HoldsStream(d, p, c, n)
    PROVE  Held(d, p, n) = Stream(c, n)
<1>1. ASSUME NEW i \in 1 .. n PROVE d[SlotAt(p, i - 1)] = c + i - 1
  <2>1. i - 1 \in 0 .. n - 1 /\ c + (i - 1) = c + i - 1
    OBVIOUS
  <2> QED
    BY <2>1 DEF HoldsStream
<1> QED
  BY <1>1, Zenon DEF Stream, Held

\* Until a block overruns the reader, every access of the two threads is an
\* operation on one queue or changes nothing there.
THEOREM Refines == Spec => ImplementsFifo
<1> USE Length
<1>1. Init => Fifo!Init
  <2> SUFFICES ASSUME Init PROVE Fifo!Init
    OBVIOUS
  <2>1. published - consumed = 0 /\ ~overrun
    BY DEF Init
  <2>2. Held(data, readPos, 0) = <<>>
    BY DEF Held
  <2>3. Unread = <<>>
    BY <2>1, <2>2 DEF Unread
  <2> QED
    BY <2>3 DEF Init, Fifo!Init
<1>2. IInv /\ IInv' /\ AlignInv /\ [Next]_vars => [Fifo!Next]_(Fifo!vars)
  <2> SUFFICES ASSUME IInv, IInv', AlignInv, [Next]_vars, ~overrun'
               PROVE  [Fifo!Next]_(Fifo!vars)
    BY DEF Fifo!Next
  <2>1. ~overrun
    BY DEF Next, Writer, Reader, WriteBegin, WriteSample, WriteEnd, Wake,
        ResetReadPosition, SizeEqual, SizeCompare, SizeSubtract, ReadSample,
        ReadEnd, vars, historyVars
  <2> DEFINE u == published - consumed
  <2>2. /\ consumed \in Nat /\ published \in Nat /\ written \in Nat
        /\ consumed <= published /\ published <= written
        /\ copied \in Seq(Int) /\ Len(copied) \in Nat
    BY <2>1 DEF IInv, TypeOK, PositionsMatch
  <2>3. Unread = Stream(consumed, u) /\ u \in Nat
    <3>1. u \in Nat
      BY <2>2
    <3>2. HoldsStream(data, readPos, consumed, u)
      BY <2>1, <2>2 DEF IInv, SamplesMatch, HoldsStream
    <3>3. Held(data, readPos, u) = Stream(consumed, u)
      <4> HIDE DEF u
      <4> QED
        BY <2>2, <3>1, <3>2, SlotsHoldStream, Zenon
    <3> QED
      BY <2>1, <3>1, <3>3 DEF Unread
  <2>5. Unread' = Stream(consumed', u') /\ u' \in Nat
    <3> DEFINE d == data'
               p == readPos'
               w == written'
               m == published'
               c == consumed'
    <3>1. w \in Nat /\ m \in Nat /\ c \in Nat /\ c <= m /\ m <= w
      BY DEF IInv, TypeOK, PositionsMatch
    <3>2. \A i \in 0 .. w - c - 1 : d[SlotAt(p, i)] = c + i
      BY DEF IInv, SamplesMatch, SlotAt
    <3>3. Unread' = Held(d, p, m - c) /\ u' = m - c
      BY DEF Unread, Held, SlotAt
    <3>4. consumed' = c
      OBVIOUS
    <3> HIDE DEF d, p, w, m, c, u
    <3>5. m - c \in Nat
      BY <3>1
    <3>6. HoldsStream(d, p, c, m - c)
      BY <3>1, <3>2 DEF HoldsStream
    <3>7. Held(d, p, m - c) = Stream(c, m - c)
      BY <3>1, <3>5, <3>6, SlotsHoldStream, Zenon
    <3> QED
      BY <3>3, <3>4, <3>5, <3>7
  <2>u. u = published - consumed /\ u' = published' - consumed'
    OBVIOUS
  <2> HIDE DEF u
  <2>6. Len(Unread) = u /\ \A i \in 1 .. u : Unread[i] = consumed + i - 1
    <3>1. consumed \in Int
      BY <2>2
    <3> QED
      BY <2>3, <3>1, StreamSeq, Zenon
  <2>7. ASSUME UNCHANGED <<published, consumed, copied>>
        PROVE  UNCHANGED Fifo!vars
    <3>1. u' = u
      BY <2>u, <2>7
    <3>2. Unread' = Unread
      BY <2>3, <2>5, <2>7, <3>1
    <3>3. overrun' = overrun
      BY <2>1 DEF IInv, TypeOK
    <3> QED
      BY <2>7, <3>2, <3>3 DEF Fifo!vars
  <2>8. ASSUME NEW n \in 0 .. MaxFrames, WriteBegin(n) PROVE UNCHANGED Fifo!vars
    BY <2>7, <2>8 DEF WriteBegin, readerVars
  <2>9. CASE WriteSample \/ Wake \/ SizeCompare \/ UNCHANGED vars
    BY <2>7, <2>9 DEF WriteSample, Wake, SizeCompare, vars, readerVars, historyVars
  <2>10. CASE WriteEnd
    <3> DEFINE n == written - published
               frames == n \div 2
    <3>1. /\ n \in Nat /\ n % 2 = 0 /\ u + n < BUFFER_LENGTH
          /\ published' = published + n /\ consumed' = consumed
      <4>1. /\ wpc = "copy" /\ toWrite = 0
            /\ published' = written /\ consumed' = consumed
        BY <2>10 DEF WriteEnd
      <4>2. written - consumed + toWrite < BUFFER_LENGTH
        BY <2>1 DEF IInv, PositionsMatch
      <4>3. (written - published + toWrite) % 2 = 0
        BY <4>1 DEF AlignInv, N_CHANNELS
      <4> QED
        BY <2>2, <2>u, <4>1, <4>2, <4>3
    <3>3. consumed + u = published /\ u' = u + n /\ consumed \in Int
      BY <2>2, <2>u, <3>1
    <3> HIDE DEF n
    <3>2. frames \in 0 .. BUFFER_LENGTH /\ N_CHANNELS * frames = n
      BY <2>2, <2>3, <3>1 DEF N_CHANNELS
    <3> HIDE DEF frames
    <3>4. Stream(consumed, u) \o [i \in 1 .. n |-> published + i - 1] = Stream(consumed, u + n)
      <4>1. Stream(consumed, u) \o [i \in 1 .. n |-> (consumed + u) + i - 1]
                = Stream(consumed, u + n)
        BY <2>3, <3>1, <3>3, StreamJoin, Zenon
      <4> QED
        BY <3>3, <4>1, Zenon
    <3>5. Unread' = Unread \o [i \in 1 .. n |-> published + i - 1]
      BY <2>3, <2>5, <3>1, <3>3, <3>4, Zenon
    <3>6. UNCHANGED <<copied, overrun>>
      BY <2>10 DEF WriteEnd, readerVars
    <3>7. Fifo!Put(N_CHANNELS * frames)
      BY <2>6, <3>1, <3>2, <3>5, <3>6 DEF Fifo!Put
    <3> QED
      BY <2>1, <3>2, <3>7 DEF Fifo!Next
  <2>11. CASE ResetReadPosition
    <3>1. u' = 0 /\ UNCHANGED <<published, copied, overrun>>
      BY <2>2, <2>u, <2>11 DEF ResetReadPosition
    <3>2. Unread' = <<>>
      BY <2>5, <3>1 DEF Stream
    <3>3. Fifo!Discard
      BY <3>1, <3>2 DEF Fifo!Discard
    <3> QED
      BY <2>1, <3>3 DEF Fifo!Next
  <2>12. CASE SizeEqual \/ SizeSubtract
    <3>1. copied = <<>>
      BY <2>12 DEF SizeEqual, SizeSubtract, AlignInv
    <3>2. copied' = copied /\ UNCHANGED historyVars
      BY <2>12, <3>1 DEF SizeEqual, SizeSubtract, StartRead
    <3> QED
      BY <2>7, <3>2 DEF historyVars
  <2>13. CASE ReadSample
    <3>1. /\ rpc' = "read" /\ readPos' = readPos /\ data' = data
          /\ UNCHANGED <<published, consumed, overrun>>
          /\ copied' = Append(copied, data[Slot(pos)])
      BY <2>13 DEF ReadSample, writerVars, historyVars
    <3> DEFINE k == Len(copied)
    <3>2. k < u
      BY <2>1, <2>2, <2>u, <2>13 DEF ReadSample, IInv, TypeOK, ReaderMatch
    <3>3. copied'[k + 1] = consumed + k
      <4>1. Len(copied') = k + 1
        BY <2>2, <3>1, AppendProperties DEF IInv, TypeOK
      <4>2. \A i \in 1 .. Len(copied') : copied'[i] = consumed' + i - 1
        BY <3>1 DEF IInv, ReaderMatch
      <4> QED
        BY <2>2, <3>1, <4>1, <4>2
    <3>4. copied'[k + 1] = data[Slot(pos)]
      <4>1. data[Slot(pos)] \in Int
        <5>1. pos \in 0 .. BUFFER_LENGTH /\ data \in [Slots -> Int]
          BY DEF IInv, TypeOK
        <5>2. Slot(pos) \in Slots
          BY <5>1 DEF Slot, Slots
        <5> QED
          BY <5>1, <5>2
      <4> QED
        BY <2>2, <3>1, <4>1, AppendProperties
    <3>5. Unread[k + 1] = consumed + k
      <4>1. k + 1 \in 1 .. u
        BY <2>2, <2>3, <3>2
      <4> QED
        BY <2>2, <2>6, <4>1
    <3>6. copied' = Append(copied, Unread[k + 1])
      BY <3>1, <3>3, <3>4, <3>5
    <3>7. Unread' = Unread
      BY <2>3, <2>5, <2>u, <3>1
    <3>8. Fifo!Deliver
      BY <2>6, <3>1, <3>2, <3>6, <3>7 DEF Fifo!Deliver
    <3> QED
      BY <2>1, <3>8 DEF Fifo!Next
  <2>14. CASE ReadEnd
    <3> DEFINE k == Len(copied)
    <3>1. /\ consumed' = consumed + k /\ copied' = <<>>
          /\ UNCHANGED <<published, overrun>>
      BY <2>14 DEF ReadEnd
    <3>2. k \in 0 .. u
      BY <2>1, <2>2, <2>u, <2>14 DEF ReadEnd, IInv, TypeOK, ReaderMatch
    <3>3. u' = u - k /\ consumed \in Int
      BY <2>2, <2>u, <3>1
    <3>4. SubSeq(Stream(consumed, u), k + 1, u) = Stream(consumed + k, u - k)
      BY <2>3, <3>2, <3>3, StreamRest, Zenon
    <3>5. Unread' = SubSeq(Unread, k + 1, Len(Unread))
      BY <2>3, <2>5, <2>6, <3>1, <3>3, <3>4
    <3>6. Fifo!Take
      BY <3>1, <3>5 DEF Fifo!Take
    <3> QED
      BY <2>1, <3>6 DEF Fifo!Next
  <2> QED
    BY <2>8, <2>9, <2>10, <2>11, <2>12, <2>13, <2>14 DEF Next, Writer, Reader
<1> QED
  BY <1>1, <1>2, Inductive, AlignInductive, PTL DEF Spec, ImplementsFifo, Fifo!Spec
=============================================================================
