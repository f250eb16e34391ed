--------------------------- MODULE AlgorithmsProofs ---------------------------
(***************************************************************************)
(* Proofs about the algorithms of the firmware: the pages of a signature,  *)
(* for every size that fits the pages there are; the patterns of the       *)
(* lights, for every phase and every value of the clock; the key parser,   *)
(* for every text, key and buffer.                                         *)
(***************************************************************************)
EXTENDS Algorithms, TLAPS, FiniteSetTheorems, SequenceTheorems,
        WellFoundedInduction

(* A receiver finds byte i where fill_auth_pages has put it (auth.c:105-126). *)
LEMMA BytesArrive ==
    ASSUME NEW i \in 0 .. SignatureSize - 1
    PROVE  ByteArrives(i)
  <1> USE AuthPagesAssumption DEF ByteArrives, PageOf, PlaceOf, PagesFilled,
          LastPageIndex, CopyLen, Offset, ByteAt, PageZeroSize,
          PageNonzeroSize, MaxPages
  <1>1. CASE i < PageZeroSize
    BY <1>1
  <1>2. CASE i >= PageZeroSize
    <2> DEFINE q == (i - 17) \div 23
               r == (i - 17) % 23
               p == (SignatureSize - 17 + 22) \div 23
    <2>1. q \in Nat /\ r \in 0 .. 22 /\ i = 17 + 23 * q + r
      BY <1>2
    <2>2. p \in Nat /\ SignatureSize <= 17 + 23 * p
      BY <1>2
    <2>3. 1 + q <= p
      BY <2>1, <2>2
    <2>. QED
      BY <1>2, <2>1, <2>2, <2>3
  <1>. QED
    BY <1>1, <1>2

(* Every page that is filled can be encoded and carries a byte              *)
(* (auth.c:95-103, 205-212).                                                *)
LEMMA PagesArrive ==
    ASSUME NEW page \in PagesFilled
    PROVE  PageArrives(page)
  <1> USE AuthPagesAssumption DEF PageArrives, Encodable, PagesFilled,
          LastPageIndex, CopyLen, Offset, PageZeroSize, PageNonzeroSize, MaxPages
  <1> DEFINE p == (SignatureSize - 17 + 22) \div 23
  <1>1. /\ p \in Nat
        /\ SignatureSize <= 17 + 23 * p
        /\ 23 * p <= SignatureSize - 17 + 22
    OBVIOUS
  <1>2. p < MaxPages
    BY <1>1
  <1>3. page \in 0 .. p
    OBVIOUS
  <1>. QED
    BY <1>1, <1>2, <1>3

-----------------------------------------------------------------------------
(* What an algorithm is given; the bytes are those of the signature. *)
InputInv ==
    input \in
        [kind : {"text"}, text : Seq(Tokens)]
        \cup [kind : {"byte"}, index : 0 .. SignatureSize - 1]
        \cup [kind : {"lights"}, pattern : Patterns, phase_ms : Phases,
              elapsed_ms : Nat]

LEMMA InputInit == Init => InputInv
  <1> SUFFICES ASSUME Init PROVE InputInv
    OBVIOUS
  <1> USE DEF InputInv
  <1>1. CASE input = [kind |-> "text", text |-> <<>>]
    BY <1>1
  <1>2. CASE input = [kind |-> "byte", index |-> 0]
    BY <1>2, AuthPagesAssumption DEF PageZeroSize
  <1>3. CASE input \in [kind : {"lights"}, pattern : Patterns,
                        phase_ms : Phases, elapsed_ms : {0}]
    BY <1>3
  <1>. QED
    BY <1>1, <1>2, <1>3 DEF Init

LEMMA InputStep == InputInv /\ [Next]_input => InputInv'
  <1> SUFFICES ASSUME InputInv, [Next]_input PROVE InputInv'
    OBVIOUS
  <1> USE DEF InputInv
  <1>1. CASE ReadToken
    <2>1. input \in [kind : {"text"}, text : Seq(Tokens)]
      BY <1>1 DEF ReadToken
    <2>2. PICK token \in Tokens :
             input' = [input EXCEPT !.text =
                          IF Len(@) = MaxText THEN <<>> ELSE Append(@, token)]
      BY <1>1 DEF ReadToken
    <2>3. Append(input.text, token) \in Seq(Tokens)
      BY <2>1
    <2> DEFINE text == IF Len(input.text) = MaxText THEN <<>>
                       ELSE Append(input.text, token)
    <2>4. text \in Seq(Tokens)
      BY <2>3
    <2>5. input' = [input EXCEPT !.text = text]
      BY <2>2
    <2>6. input' \in [kind : {"text"}, text : Seq(Tokens)]
      <3> HIDE DEF text
      <3>. QED
        BY <2>1, <2>4, <2>5
    <2>. QED
      BY <2>6
  <1>2. CASE NextByte
    <2>1. input \in [kind : {"byte"}, index : 0 .. SignatureSize - 1]
      BY <1>2 DEF NextByte
    <2>2. (input.index + 1) % SignatureSize \in 0 .. SignatureSize - 1
      BY <2>1, AuthPagesAssumption DEF PageZeroSize
    <2>. QED
      BY <1>2, <2>1, <2>2 DEF NextByte
  <1>3. CASE LightingRound
    <2>1. input \in [kind : {"lights"}, pattern : Patterns, phase_ms : Phases,
                     elapsed_ms : Nat]
      BY <1>3 DEF LightingRound
    <2>2. \A ms \in RoundTimes : (input.elapsed_ms + ms) % ClockMod \in Nat
      BY <2>1, AlgorithmsAssumption, LightPatternAssumption
    <2>. QED
      BY <1>3, <2>1, <2>2 DEF LightingRound
  <1>4. CASE UNCHANGED input
    BY <1>4
  <1>. QED
    BY <1>1, <1>2, <1>3, <1>4 DEF Next

(* A signature arrives whole, whatever its size: four pages carry the 64   *)
(* bytes of Ed25519, one for each AUTH slot of the schedule                *)
(* (auth.c:90-129, 205-212).                                               *)
THEOREM SignatureArrivesWhole == Spec => []SignatureArrives
  <1>1. InputInv => SignatureArrives
    BY BytesArrive, PagesArrive DEF InputInv, SignatureArrives
  <1>. QED
    BY <1>1, InputInit, InputStep, PTL DEF Spec

-----------------------------------------------------------------------------
(* The tables of led_pattern_steps, one by one. *)
LEMMA StepsTyped ==
    ASSUME NEW pattern \in Patterns
    PROVE  /\ Len(Steps(pattern)) \in 1 .. 6
           /\ DOMAIN Steps(pattern) = 1 .. Len(Steps(pattern))
           /\ \A n \in 1 .. Len(Steps(pattern)) :
                 /\ Steps(pattern)[n].duration_ms \in Nat
                 /\ Steps(pattern)[n].duration_ms >= 60
  <1> USE DEF Steps, On, Off
  <1>1. CASE pattern = "SOLID"
    BY <1>1
  <1>2. CASE pattern = "BEACON_1HZ_SHORT"
    BY <1>2
  <1>3. CASE pattern = "BEACON_1HZ_50"
    BY <1>3
  <1>4. CASE pattern = "STROBE_SINGLE"
    BY <1>4
  <1>5. CASE pattern = "FAST_STROBE"
    BY <1>5
  <1>6. CASE pattern = "STROBE_DOUBLE"
    BY <1>6
  <1>7. CASE pattern = "STROBE_TRIPLE"
    BY <1>7
  <1> HIDE DEF Steps, On, Off
  <1>. QED
    BY <1>1, <1>2, <1>3, <1>4, <1>5, <1>6, <1>7 DEF Patterns

(* The sums of led_pattern_period_ms, step by step. *)
LEMMA ElapsedSteps ==
    ASSUME NEW pattern \in Patterns
    PROVE  /\ Elapsed(pattern, 0) = 0
           /\ \A i \in 1 .. Len(Steps(pattern)) :
                 Elapsed(pattern, i) =
                     Elapsed(pattern, i - 1) + Steps(pattern)[i].duration_ms
  <1> DEFINE len == Len(Steps(pattern))
             d(n) == Steps(pattern)[n].duration_ms
             sum(n) == IF n = 0 THEN 0
                       ELSE IF n = 1 THEN d(1)
                       ELSE IF n = 2 THEN d(1) + d(2)
                       ELSE IF n = 3 THEN d(1) + d(2) + d(3)
                       ELSE IF n = 4 THEN d(1) + d(2) + d(3) + d(4)
                       ELSE IF n = 5 THEN d(1) + d(2) + d(3) + d(4) + d(5)
                       ELSE d(1) + d(2) + d(3) + d(4) + d(5) + d(6)
  <1>1. /\ len \in 1 .. 6
        /\ \A n \in 1 .. len : d(n) \in Nat
    BY StepsTyped
  <1> HIDE DEF len
  <1>2. \A n \in 1 .. len : sum(n) = sum(n - 1) + d(n)
    <2> HIDE DEF d
    <2> TAKE n \in 1 .. len
    <2>1. \A m \in 1 .. n : d(m) \in Nat
      BY <1>1
    <2>2. CASE n = 1
      BY <2>1, <2>2
    <2>3. CASE n = 2
      BY <2>1, <2>3
    <2>4. CASE n = 3
      BY <2>1, <2>4
    <2>5. CASE n = 4
      BY <2>1, <2>5
    <2>6. CASE n = 5
      BY <2>1, <2>6
    <2>7. CASE n = 6
      BY <2>1, <2>7
    <2>8. n \in {1, 2, 3, 4, 5, 6}
      BY <1>1
    <2> HIDE DEF sum
    <2>. QED
      BY <2>2, <2>3, <2>4, <2>5, <2>6, <2>7, <2>8
  <1>3. sum(0) = 0
    OBVIOUS
  <1>4. ASSUME NEW i \in 0 .. len
        PROVE  Elapsed(pattern, i) = sum(i)
    <2> DEFINE Unfold(g) ==
            [n \in 0 .. i |-> IF n = 0 THEN 0
                              ELSE g[n - 1] + Steps(pattern)[n].duration_ms]
               before == CHOOSE g : g = Unfold(g)
               sums == [n \in 0 .. i |-> sum(n)]
    <2>1. sums = Unfold(sums)
      <3> HIDE DEF sum
      <3>1. \A n \in 0 .. i : n # 0 => sums[n - 1] = sum(n - 1)
        OBVIOUS
      <3>. QED
        BY <1>1, <1>2, <1>3, <3>1
    <2>2. before = Unfold(before)
      BY <2>1
    <2>3. before[i] = sum(i)
      <3> HIDE DEF before, sum, d
      <3>1. before[0] = sum(0)
        BY <1>3, <2>2
      <3>2. \A n \in 1 .. i : before[n] = before[n - 1] + d(n)
        BY <2>2 DEF d
      <3>3. \A n \in 1 .. i : before[n - 1] = sum(n - 1) => before[n] = sum(n)
        BY <1>1, <1>2, <3>2
      <3>4. i \in Nat /\ i <= 6
        BY <1>1
      <3>5. /\ i >= 1 => before[1] = sum(1)
            /\ i >= 2 => before[2] = sum(2)
            /\ i >= 3 => before[3] = sum(3)
        BY <3>1, <3>3, <3>4
      <3>6. /\ i >= 4 => before[4] = sum(4)
            /\ i >= 5 => before[5] = sum(5)
            /\ i >= 6 => before[6] = sum(6)
        BY <3>3, <3>4, <3>5
      <3>7. i \in {0, 1, 2, 3, 4, 5, 6}
        BY <3>4
      <3>. QED
        BY <3>1, <3>5, <3>6, <3>7
    <2>. QED
      BY <2>3 DEF Elapsed
  <1> HIDE DEF sum
  <1>. QED
    BY <1>1, <1>2, <1>3, <1>4 DEF len

(* The steps of a pattern follow one another for 60 ms or more each, from   *)
(* 0 to the period (pattern.c:3-41).                                        *)
LEMMA ElapsedTyped ==
    ASSUME NEW pattern \in Patterns
    PROVE  /\ \A i \in 0 .. Len(Steps(pattern)) : Elapsed(pattern, i) \in Nat
           /\ \A i, j \in 0 .. Len(Steps(pattern)) :
                 i < j => Elapsed(pattern, i) + 60 <= Elapsed(pattern, j)
  <1> DEFINE len == Len(Steps(pattern))
             d(n) == Steps(pattern)[n].duration_ms
             e(i) == Elapsed(pattern, i)
  <1>1. /\ len \in 1 .. 6
        /\ \A n \in 1 .. len : d(n) \in Nat /\ d(n) >= 60
    BY StepsTyped
  <1>2. e(0) = 0 /\ \A i \in 1 .. len : e(i) = e(i - 1) + d(i)
    BY ElapsedSteps
  <1> HIDE DEF len, d, e
  <1>3. \A i \in 1 .. len : e(i - 1) \in Nat => e(i) \in Nat /\ e(i - 1) + 60 <= e(i)
    BY <1>1, <1>2
  <1>4. len \in Nat /\ len <= 6
    BY <1>1
  <1>5. /\ e(0) \in Nat
        /\ len >= 1 => e(1) \in Nat /\ e(0) + 60 <= e(1)
        /\ len >= 2 => e(2) \in Nat /\ e(1) + 60 <= e(2)
        /\ len >= 3 => e(3) \in Nat /\ e(2) + 60 <= e(3)
    BY <1>2, <1>3, <1>4
  <1>6. /\ len >= 4 => e(4) \in Nat /\ e(3) + 60 <= e(4)
        /\ len >= 5 => e(5) \in Nat /\ e(4) + 60 <= e(5)
        /\ len >= 6 => e(6) \in Nat /\ e(5) + 60 <= e(6)
    BY <1>3, <1>4, <1>5
  <1>7. \A i \in 0 .. len : i \in {0, 1, 2, 3, 4, 5, 6} /\ e(i) \in Nat
    <2> TAKE i \in 0 .. len
    <2>1. i \in {0, 1, 2, 3, 4, 5, 6}
      BY <1>4
    <2>. QED
      BY <1>5, <1>6, <2>1
  <1>8. \A i, j \in 0 .. len : i < j => e(i) + 60 <= e(j)
    <2> SUFFICES ASSUME NEW i \in 0 .. len, NEW j \in 0 .. len, i < j
                 PROVE  e(i) + 60 <= e(j)
      OBVIOUS
    <2>1. i \in {0, 1, 2, 3, 4, 5} /\ j \in {1, 2, 3, 4, 5, 6}
      BY <1>4
    <2>2. CASE j = 1
      BY <1>4, <1>5, <2>1, <2>2
    <2>3. CASE j = 2
      BY <1>4, <1>5, <2>1, <2>3
    <2>4. CASE j = 3
      BY <1>4, <1>5, <2>1, <2>4
    <2>5. CASE j = 4
      BY <1>4, <1>5, <1>6, <2>1, <2>5
    <2>6. CASE j = 5
      BY <1>4, <1>5, <1>6, <2>1, <2>6
    <2>7. CASE j = 6
      BY <1>4, <1>5, <1>6, <2>1, <2>7
    <2>. QED
      BY <2>1, <2>2, <2>3, <2>4, <2>5, <2>6, <2>7
  <1>. QED
    BY <1>7, <1>8 DEF len, e

(* The periods of the tables. *)
LEMMA Periods ==
    ASSUME NEW pattern \in Patterns
    PROVE  /\ Period(pattern) \in {500, 1000, 2000}
           /\ 2 * Period(pattern) <= ClockMod
           /\ ClockMod \in Nat
  <1> DEFINE len == Len(Steps(pattern))
             d(n) == Steps(pattern)[n].duration_ms
             e(i) == Elapsed(pattern, i)
  <1>1. Period(pattern) \in {500, 1000, 2000}
    <2>1. \/ len = 1 /\ d(1) = 1000
          \/ len = 2 /\ d(1) + d(2) \in {500, 1000, 2000}
          \/ len = 4 /\ d(1) + d(2) + d(3) + d(4) = 2000
          \/ len = 6 /\ d(1) + d(2) + d(3) + d(4) + d(5) + d(6) = 2000
      BY DEF Patterns, Steps, On, Off
    <2>2. e(0) = 0 /\ \A i \in 1 .. len : e(i) = e(i - 1) + d(i)
      BY ElapsedSteps
    <2>3. \A i \in 1 .. len : d(i) \in Nat
      BY StepsTyped
    <2> HIDE DEF len, d, e
    <2>4. ASSUME len = 1 PROVE e(len) \in {500, 1000, 2000}
      BY <2>1, <2>2, <2>3, <2>4
    <2>5. ASSUME len = 2 PROVE e(len) \in {500, 1000, 2000}
      <3>1. d(1) \in Nat /\ d(2) \in Nat /\ e(1) = e(0) + d(1) /\ e(2) = e(1) + d(2)
        BY <2>2, <2>3, <2>5
      <3>. QED
        BY <2>1, <2>2, <2>5, <3>1
    <2>6. ASSUME len = 4 PROVE e(len) \in {500, 1000, 2000}
      <3>1. /\ d(1) \in Nat /\ d(2) \in Nat /\ d(3) \in Nat /\ d(4) \in Nat
            /\ e(1) = e(0) + d(1) /\ e(2) = e(1) + d(2)
            /\ e(3) = e(2) + d(3) /\ e(4) = e(3) + d(4)
        BY <2>2, <2>3, <2>6
      <3>. QED
        BY <2>1, <2>2, <2>6, <3>1
    <2>7. ASSUME len = 6 PROVE e(len) \in {500, 1000, 2000}
      <3>1. /\ d(1) \in Nat /\ d(2) \in Nat /\ d(3) \in Nat
            /\ d(4) \in Nat /\ d(5) \in Nat /\ d(6) \in Nat
            /\ e(1) = e(0) + d(1) /\ e(2) = e(1) + d(2) /\ e(3) = e(2) + d(3)
            /\ e(4) = e(3) + d(4) /\ e(5) = e(4) + d(5) /\ e(6) = e(5) + d(6)
        BY <2>2, <2>3, <2>7
      <3>. QED
        BY <2>1, <2>2, <2>7, <3>1
    <2>8. e(len) \in {500, 1000, 2000}
      BY <2>1, <2>4, <2>5, <2>6, <2>7
    <2>. QED
      BY <2>8 DEF Period, e, len
  <1>. QED
    BY <1>1, LightPatternAssumption

(* position_ms is where in the period the clock is with the phase, for its  *)
(* sum does not overflow (pattern.c:79-85).                                 *)
LEMMA PositionIs ==
    ASSUME NEW pattern \in Patterns, NEW elapsed_ms \in Nat, NEW phase_ms \in Nat
    PROVE  /\ Position(pattern, elapsed_ms, phase_ms)
                 = (elapsed_ms + phase_ms) % Period(pattern)
           /\ Position(pattern, elapsed_ms, phase_ms) \in 0 .. Period(pattern) - 1
  <1> DEFINE p == Period(pattern)
             sum == (elapsed_ms % p) + (phase_ms % p)
  <1>1. p \in {500, 1000, 2000} /\ 2 * p <= ClockMod /\ ClockMod \in Nat
    BY Periods
  <1> HIDE DEF p
  <1>2. sum \in Nat /\ sum < ClockMod
    BY <1>1
  <1>3. sum % ClockMod = sum
    <2> HIDE DEF sum
    <2>. QED
      BY <1>1, <1>2
  <1>4. sum % p = (elapsed_ms + phase_ms) % p /\ sum % p \in 0 .. p - 1
    <2>1. CASE p = 500
      BY <2>1
    <2>2. CASE p = 1000
      BY <2>2
    <2>3. CASE p = 2000
      BY <2>3
    <2>. QED
      BY <1>1, <2>1, <2>2, <2>3
  <1>. QED
    BY <1>3, <1>4 DEF Position, p

(* led_pattern_is_on takes the durations off the position one by one, and   *)
(* stops in the step whose turn it is (pattern.c:93-106).                   *)
LEMMA IsOnInTurn ==
    ASSUME NEW pattern \in Patterns, NEW elapsed_ms \in Nat, NEW phase_ms \in Nat,
           NEW m \in DOMAIN Steps(pattern),
           Position(pattern, elapsed_ms, phase_ms)
               \in Elapsed(pattern, m - 1) .. (Elapsed(pattern, m) - 1)
    PROVE  IsOn(pattern, elapsed_ms, phase_ms) <=> Steps(pattern)[m].on
  <1> DEFINE len == Len(Steps(pattern))
             d(n) == Steps(pattern)[n].duration_ms
             e(i) == Elapsed(pattern, i)
             pos == Position(pattern, elapsed_ms, phase_ms)
             Unfold(g) == [i \in 1 .. len |-> IF i = 1 THEN pos
                                              ELSE g[i - 1] - d(i - 1)]
             left == CHOOSE g : g = Unfold(g)
             behind == [i \in 1 .. len |-> pos - e(i - 1)]
             over == {i \in DOMAIN Steps(pattern) : Within(left[i], Steps(pattern)[i])}
  <1>1. /\ len \in 1 .. 6
        /\ DOMAIN Steps(pattern) = 1 .. len
        /\ \A n \in 1 .. len : d(n) \in Nat
    BY StepsTyped
  <1>2. /\ e(0) = 0
        /\ \A i \in 1 .. len : e(i) = e(i - 1) + d(i)
    BY ElapsedSteps
  <1>3. /\ \A i \in 0 .. len : e(i) \in Nat
        /\ \A i, j \in 0 .. len : i < j => e(i) + 60 <= e(j)
    BY ElapsedTyped
  <1>4. pos \in 0 .. Period(pattern) - 1 /\ pos \in e(m - 1) .. (e(m) - 1)
    BY PositionIs
  <1>5. pos \in Nat
    <2> HIDE DEF pos
    <2>. QED
      BY <1>4, Periods
  <1>6. DOMAIN Steps(pattern) = 1 .. len /\ m \in 1 .. len
    BY <1>1
  <1> HIDE DEF len, d, e, pos
  <1>7. len \in Nat /\ len >= 1 /\ len <= 6
    BY <1>1
  <1>8. behind = Unfold(behind)
    <2>1. ASSUME NEW i \in 1 .. len, i # 1
          PROVE  behind[i - 1] - d(i - 1) = pos - e(i - 1)
      <3>1. i - 1 \in 1 .. len /\ (i - 1) - 1 \in 0 .. len
        BY <1>7, <2>1
      <3>2. behind[i - 1] = pos - e((i - 1) - 1)
        BY <3>1
      <3>3. e(i - 1) = e((i - 1) - 1) + d(i - 1)
        BY <1>2, <3>1
      <3>4. e((i - 1) - 1) \in Nat /\ d(i - 1) \in Nat
        BY <1>1, <1>3, <3>1
      <3> HIDE DEF behind
      <3>. QED
        BY <1>5, <3>2, <3>3, <3>4
    <2>2. pos - e(1 - 1) = pos
      BY <1>2, <1>5
    <2>3. \A i \in 1 .. len :
             pos - e(i - 1) = IF i = 1 THEN pos ELSE behind[i - 1] - d(i - 1)
      BY <2>1, <2>2
    <2>. QED
      BY <2>3
  <1>9. left = Unfold(left)
    BY <1>8
  <1>10. \A i \in 1 .. len : left[i] = pos - e(i - 1)
    <2> HIDE DEF left
    <2>1. left[1] = pos - e(0)
      BY <1>2, <1>5, <1>7, <1>9
    <2>2. \A i \in 2 .. len : left[i] = left[i - 1] - d(i - 1)
      BY <1>7, <1>9
    <2>3. ASSUME NEW i \in 2 .. len, left[i - 1] = pos - e((i - 1) - 1)
          PROVE  left[i] = pos - e(i - 1)
      <3>1. i - 1 \in 1 .. len /\ (i - 1) - 1 \in 0 .. len
        BY <1>7
      <3>2. e(i - 1) = e((i - 1) - 1) + d(i - 1)
        BY <1>2, <3>1
      <3>3. e((i - 1) - 1) \in Nat /\ d(i - 1) \in Nat
        BY <1>1, <1>3, <3>1
      <3>. QED
        BY <1>5, <2>2, <2>3, <3>2, <3>3
    <2>4. /\ len >= 2 => left[2] = pos - e(1)
          /\ len >= 3 => left[3] = pos - e(2)
      BY <1>7, <2>1, <2>3
    <2>5. /\ len >= 4 => left[4] = pos - e(3)
          /\ len >= 5 => left[5] = pos - e(4)
          /\ len >= 6 => left[6] = pos - e(5)
      BY <1>7, <2>3, <2>4
    <2>6. SUFFICES ASSUME NEW i \in 1 .. len
                   PROVE  left[i] = pos - e(i - 1)
      OBVIOUS
    <2>7. i \in {1, 2, 3, 4, 5, 6}
      BY <1>7
    <2>. QED
      BY <1>7, <2>1, <2>4, <2>5, <2>7
  <1>11. over = {i \in 1 .. len : pos < e(i)}
    <2> HIDE DEF left
    <2>1. ASSUME NEW i \in 1 .. len
          PROVE  left[i] < Steps(pattern)[i].duration_ms <=> pos < e(i)
      <3>1. i - 1 \in 0 .. len
        BY <1>7
      <3>2. e(i - 1) \in Nat /\ d(i) \in Nat /\ e(i) = e(i - 1) + d(i)
        BY <1>1, <1>2, <1>3, <3>1
      <3>. QED
        BY <1>5, <1>10, <3>2 DEF d
    <2>. QED
      BY <1>6, <2>1 DEF Within
  <1> HIDE DEF over
  <1>12. m \in over /\ \A i \in over : m <= i
    <2>1. e(m - 1) <= pos /\ pos < e(m)
      BY <1>3, <1>4, <1>6, <1>7
    <2>2. ASSUME NEW i \in 1 .. len, i < m PROVE ~(pos < e(i))
      <3>1. i \in 0 .. len /\ m - 1 \in 0 .. len /\ (i = m - 1 \/ i < m - 1)
        BY <1>6, <1>7, <2>2
      <3>2. e(i) \in Nat /\ e(m - 1) \in Nat /\ e(i) <= e(m - 1)
        BY <1>3, <3>1
      <3>. QED
        BY <1>5, <2>1, <3>2
    <2>. QED
      BY <1>6, <1>7, <1>11, <2>1, <2>2
  <1>13. Min(over) = m
    <2> HIDE DEF left
    <2>1. over \subseteq Int
      BY <1>11
    <2>2. Min(over) \in over /\ \A i \in over : Min(over) <= i
      BY <1>12 DEF Min
    <2>3. Min(over) \in Int /\ m \in Int
      BY <1>12, <2>1, <2>2
    <2>4. m <= Min(over) /\ Min(over) <= m
      BY <1>12, <2>2
    <2>. QED
      BY <2>3, <2>4
  <1>14. IsOn(pattern, elapsed_ms, phase_ms)
           <=> over # {} /\ Steps(pattern)[Min(over)].on
    BY DEF IsOn, over, left, len, d, pos
  <1> HIDE DEF left
  <1>. QED
    BY <1>12, <1>13, <1>14

(* At each time of the period it is exactly one step's turn. *)
LEMMA OneStepAtATime ==
    ASSUME NEW pattern \in Patterns, NEW time \in 0 .. Period(pattern) - 1
    PROVE  /\ \E i \in DOMAIN Steps(pattern) :
                 time \in Elapsed(pattern, i - 1) .. (Elapsed(pattern, i) - 1)
           /\ \A i, j \in DOMAIN Steps(pattern) :
                 /\ time \in Elapsed(pattern, i - 1) .. (Elapsed(pattern, i) - 1)
                 /\ time \in Elapsed(pattern, j - 1) .. (Elapsed(pattern, j) - 1)
                 => i = j
  <1> DEFINE len == Len(Steps(pattern))
             e(i) == Elapsed(pattern, i)
  <1>1. len \in 1 .. 6 /\ DOMAIN Steps(pattern) = 1 .. len
    BY StepsTyped
  <1>2. e(0) = 0
    BY ElapsedSteps
  <1>3. /\ \A i \in 0 .. len : e(i) \in Nat
        /\ \A i, j \in 0 .. len : i < j => e(i) + 60 <= e(j)
    BY ElapsedTyped
  <1>4. Period(pattern) = e(len)
    BY DEF Period
  <1> HIDE DEF len, e
  <1>5. len \in Nat /\ len >= 1 /\ len <= 6
    BY <1>1
  <1>6. time \in Nat /\ time < e(len)
    BY <1>3, <1>4, <1>5
  <1>7. \E i \in 1 .. len : time \in e(i - 1) .. (e(i) - 1)
    <2>1. \A i \in 1 .. len :
             e(i - 1) <= time /\ time < e(i) => time \in e(i - 1) .. (e(i) - 1)
      <3> TAKE i \in 1 .. len
      <3>1. i - 1 \in 0 .. len
        BY <1>5
      <3>. QED
        BY <1>3, <1>6, <3>1
    <2> SUFFICES \E i \in 1 .. len : e(i - 1) <= time /\ time < e(i)
      BY <2>1
    <2>2. SUFFICES ASSUME \A i \in 1 .. len : ~(e(i - 1) <= time /\ time < e(i))
                   PROVE  FALSE
      OBVIOUS
    <2>3. ASSUME NEW i \in 1 .. len, e(i - 1) <= time PROVE e(i) <= time
      BY <1>3, <1>5, <1>6, <2>2, <2>3
    <2>4. e(0) <= time
      BY <1>2, <1>6
    <2>5. e(1) <= time
      BY <1>5, <2>3, <2>4
    <2>6. /\ len >= 2 => e(2) <= time
          /\ len >= 3 => e(3) <= time
      BY <1>5, <2>3, <2>5
    <2>7. /\ len >= 4 => e(4) <= time
          /\ len >= 5 => e(5) <= time
          /\ len >= 6 => e(6) <= time
      BY <1>5, <2>3, <2>6
    <2>8. len \in {1, 2, 3, 4, 5, 6}
      BY <1>5
    <2>9. e(len) <= time
      BY <1>5, <2>5, <2>6, <2>7, <2>8
    <2>. QED
      BY <1>3, <1>5, <1>6, <2>9
  <1>8. ASSUME NEW i \in 1 .. len, NEW j \in 1 .. len, i < j,
               time \in e(i - 1) .. (e(i) - 1), time \in e(j - 1) .. (e(j) - 1)
        PROVE  FALSE
    <2>1. /\ i \in 0 .. len /\ j - 1 \in 0 .. len
          /\ i = j - 1 \/ i < j - 1
      BY <1>5, <1>8
    <2>2. e(i) \in Nat /\ e(j - 1) \in Nat /\ e(i) <= e(j - 1)
      BY <1>3, <2>1
    <2>3. i - 1 \in 0 .. len /\ j \in 0 .. len
      BY <1>5
    <2>4. time < e(i) /\ e(j - 1) <= time
      BY <1>3, <1>8, <2>2, <2>3
    <2>. QED
      BY <1>6, <2>2, <2>4
  <1>9. \A i, j \in 1 .. len :
           time \in e(i - 1) .. (e(i) - 1) /\ time \in e(j - 1) .. (e(j) - 1) => i = j
    <2> SUFFICES ASSUME NEW i \in 1 .. len, NEW j \in 1 .. len, i # j,
                        time \in e(i - 1) .. (e(i) - 1),
                        time \in e(j - 1) .. (e(j) - 1)
                 PROVE  FALSE
      OBVIOUS
    <2>1. i < j \/ j < i
      BY <1>5
    <2>. QED
      BY <1>8, <2>1
  <1>. QED
    BY <1>1, <1>7, <1>9 DEF e

(* pattern.c against what its tables stand for, at every time and phase.    *)
LEMMA PatternFollowed ==
    ASSUME NEW pattern \in Patterns, NEW elapsed_ms \in Nat, NEW phase_ms \in Nat
    PROVE  FollowsPattern(pattern, elapsed_ms, phase_ms)
  <1> DEFINE time == Position(pattern, elapsed_ms, phase_ms)
             Turn(i) == time \in Elapsed(pattern, i - 1) .. (Elapsed(pattern, i) - 1)
  <1>1. /\ time = (elapsed_ms + phase_ms) % Period(pattern)
        /\ time \in 0 .. Period(pattern) - 1
    BY PositionIs
  <1>2. \A i \in DOMAIN Steps(pattern) :
           Turn(i) => (IsOn(pattern, elapsed_ms, phase_ms) <=> Steps(pattern)[i].on)
    BY IsOnInTurn
  <1>3. /\ \E i \in DOMAIN Steps(pattern) : Turn(i)
        /\ \A i, j \in DOMAIN Steps(pattern) : Turn(i) /\ Turn(j) => i = j
    <2> HIDE DEF time
    <2>. QED
      BY <1>1, OneStepAtATime
  <1>4. PICK m \in DOMAIN Steps(pattern) : Turn(m)
    BY <1>3
  <1>5. IsOn(pattern, elapsed_ms, phase_ms) <=>
           \E i \in DOMAIN Steps(pattern) : Steps(pattern)[i].on /\ Turn(i)
    <2> HIDE DEF Turn
    <2>. QED
      BY <1>2, <1>3, <1>4
  <1>. QED
    BY <1>1, <1>5 DEF FollowsPattern

(* Two edges of an output are 60 ms apart or more, also from one period to  *)
(* the next (pattern.c:3-41).                                               *)
LEMMA EdgesApart ==
    ASSUME NEW pattern \in Patterns, NEW phase_ms \in Nat,
           NEW from_ms \in Nat, NEW to_ms \in Nat, to_ms <= from_ms + 60
    PROVE  Cardinality(EdgesBetween(pattern, from_ms, to_ms, phase_ms)) <= 1
  <1> DEFINE len == Len(Steps(pattern))
             e(i) == Elapsed(pattern, i)
             p == Period(pattern)
             edges == EdgesBetween(pattern, from_ms, to_ms, phase_ms)
  <1>0. len \in 1 .. 6 /\ DOMAIN Steps(pattern) = 1 .. len
    BY StepsTyped
  <1>2. /\ \A i \in 0 .. len : e(i) \in Nat
        /\ \A i, j \in 0 .. len : i < j => e(i) + 60 <= e(j)
    BY ElapsedTyped
  <1>3. p = e(len) /\ p \in {500, 1000, 2000}
    BY Periods DEF Period
  <1> HIDE DEF len, e, p
  <1>1. len \in Nat /\ len >= 1 /\ DOMAIN Steps(pattern) = 1 .. len
    BY <1>0
  <1>4. ASSUME NEW a \in Edges(pattern), NEW b \in Edges(pattern)
        PROVE  /\ a \in Nat /\ b \in Nat
               /\ a # b => a + 60 <= b \/ b + 60 <= a
               /\ a + 60 <= p
    <2>1. PICK i \in 1 .. len, j \in 1 .. len : a = e(i - 1) /\ b = e(j - 1)
      BY <1>1 DEF Edges, e
    <2>2. i - 1 \in 0 .. len /\ j - 1 \in 0 .. len /\ len \in 0 .. len /\ i - 1 < len
      BY <1>1
    <2>3. i - 1 = j - 1 \/ i - 1 < j - 1 \/ j - 1 < i - 1
      BY <2>2
    <2>. QED
      BY <1>2, <1>3, <2>1, <2>2, <2>3
  <1>5. ASSUME NEW t \in edges, NEW u \in edges, t < u PROVE FALSE
    <2> DEFINE x == t + phase_ms
               y == u + phase_ms
    <2>1. /\ x \in Nat /\ y \in Nat /\ x < y /\ y < x + 60
          /\ x % p \in Edges(pattern) /\ y % p \in Edges(pattern)
      BY <1>5 DEF EdgesBetween, p
    <2> HIDE DEF x, y
    <2>2. \/ y % p = (x % p) + (y - x)
          \/ y % p = (x % p) + (y - x) - p
      <3>1. CASE p = 500
        BY <2>1, <3>1
      <3>2. CASE p = 1000
        BY <2>1, <3>2
      <3>3. CASE p = 2000
        BY <2>1, <3>3
      <3>. QED
        BY <1>3, <3>1, <3>2, <3>3
    <2>3. /\ x % p \in Nat /\ y % p \in Nat
          /\ x % p # y % p => (x % p) + 60 <= y % p \/ (y % p) + 60 <= x % p
          /\ (x % p) + 60 <= p
      BY <1>4, <2>1
    <2>. QED
      BY <1>3, <2>1, <2>2, <2>3
  <1>6. edges \subseteq Int
    BY DEF EdgesBetween
  <1> HIDE DEF edges
  <1>7. CASE edges = {}
    BY <1>7, FS_EmptySet DEF edges
  <1>8. CASE edges # {}
    <2>1. PICK t \in edges : TRUE
      BY <1>8
    <2>2. ASSUME NEW u \in edges PROVE u = t
      <3>1. t \in Int /\ u \in Int
        BY <1>6
      <3>. QED
        BY <1>5, <3>1
    <2>3. Cardinality({t}) = 1
      BY FS_Singleton
    <2>4. edges = {t}
      BY <2>2
    <2>. QED
      BY <2>3, <2>4 DEF edges
  <1>. QED
    BY <1>7, <1>8

(* An output is on exactly during the flashes of its pattern, with its       *)
(* phase, at every value of the clock (pattern.c:84-107, lighting.c:272).   *)
THEOREM PatternsFollowed == Spec => []LightsFollowPattern
  <1>1. InputInv => LightsFollowPattern
    BY PatternFollowed, AlgorithmsAssumption DEF InputInv, LightsFollowPattern
  <1>. QED
    BY <1>1, InputInit, InputStep, PTL DEF Spec

(* No round of the lighting task passes over a flash or a gap, whichever    *)
(* pattern and phase, as long as it comes within 60 ms of the one before    *)
(* (lighting.c:276-287).                                                    *)
THEOREM FlashesSeen == Spec => NoFlashMissed
  <1> DEFINE Seen ==
        input.kind = "lights" /\ input'.elapsed_ms > input.elapsed_ms =>
            Cardinality(EdgesBetween(input.pattern, input.elapsed_ms,
                                     input'.elapsed_ms, input.phase_ms)) <= 1
  <1>1. ASSUME InputInv, Next, input.kind = "lights",
               input'.elapsed_ms > input.elapsed_ms
        PROVE  Cardinality(EdgesBetween(input.pattern, input.elapsed_ms,
                                        input'.elapsed_ms, input.phase_ms)) <= 1
    <2>1. PICK ms \in RoundTimes :
             input' = [input EXCEPT !.elapsed_ms = (@ + ms) % ClockMod]
      BY <1>1 DEF Next, ReadToken, NextByte, LightingRound
    <2>2. /\ input.pattern \in Patterns /\ input.phase_ms \in Nat
          /\ input.elapsed_ms \in Nat
          /\ input'.elapsed_ms = (input.elapsed_ms + ms) % ClockMod
      BY <1>1, <2>1, AlgorithmsAssumption DEF InputInv
    <2>3. ms \in Nat /\ ms <= 60 /\ ClockMod \in Nat \ {0}
      BY AlgorithmsAssumption, LightPatternAssumption
    <2>4. /\ (input.elapsed_ms + ms) % ClockMod \in Nat
          /\ (input.elapsed_ms + ms) % ClockMod <= input.elapsed_ms + ms
      BY <2>2, <2>3
    <2>5. input'.elapsed_ms \in Nat /\ input'.elapsed_ms <= input.elapsed_ms + 60
      BY <2>2, <2>3, <2>4
    <2>. QED
      BY <2>2, <2>5, EdgesApart
  <1>2. InputInv /\ [Next]_input => [Seen]_input
    BY <1>1
  <1>. QED
    BY <1>2, InputInit, InputStep, PTL DEF Spec, NoFlashMissed

-----------------------------------------------------------------------------
(* Induction, and loops. *)

(* Every set of numbers has a least one: NatLessThanWellFounded says so     *)
(* without taking an operator as a parameter.                               *)
LEMMA LeastNat ==
    ASSUME NEW T \in SUBSET Nat, T # {}
    PROVE  \E x \in T : \A y \in T : x <= y
  <1> DEFINE R == OpToRel(<, Nat)
  <1>1. PICK x \in T : \A y \in T : ~ (<<y, x>> \in R)
    BY WFMin, NatLessThanWellFounded, Zenon
  <1>2. \A ss \in Nat \X Nat : ss[1] < ss[2] => ss \in R
    BY Zenon DEF OpToRel
  <1> HIDE DEF R
  <1>3. \A y \in T : ~(y < x)
    <2> TAKE y \in T
    <2>1. <<y, x>> \in Nat \X Nat /\ <<y, x>>[1] = y /\ <<y, x>>[2] = x
      OBVIOUS
    <2>. QED
      BY <1>1, <1>2, <2>1
  <1>. QED
    BY <1>3

(* Induction, for what is stated as a set of numbers. *)
LEMMA Induction ==
    ASSUME NEW T \in SUBSET Nat, 0 \in T, \A n \in T : n + 1 \in T
    PROVE  T = Nat
  <1> SUFFICES ASSUME Nat \ T # {} PROVE FALSE
    OBVIOUS
  <1>1. PICK x \in Nat \ T : \A y \in Nat \ T : x <= y
    BY LeastNat
  <1>2. x - 1 \in Nat /\ x - 1 \in T
    BY <1>1
  <1>. QED
    BY <1>1, <1>2

(* The same up to a bound. *)
LEMMA InductionUpTo ==
    ASSUME NEW n \in Nat, NEW T, 0 \in T,
           \A i \in 1 .. n : i - 1 \in T => i \in T
    PROVE  0 .. n \subseteq T
  <1> DEFINE U == {i \in Nat : i <= n => i \in T}
  <1>1. 0 \in U
    OBVIOUS
  <1>2. \A i \in U : i + 1 \in U
    <2> SUFFICES ASSUME NEW i \in U, i + 1 <= n PROVE i + 1 \in T
      OBVIOUS
    <2>1. i + 1 \in 1 .. n /\ (i + 1) - 1 = i /\ i \in T
      OBVIOUS
    <2>. QED
      BY <2>1
  <1> HIDE DEF U
  <1>3. U = Nat
    BY <1>1, <1>2, Induction DEF U
  <1>. QED
    BY <1>3 DEF U

(* What a loop goes through: a first value, and n values each got from the  *)
(* one before it.                                                           *)
StepFunctions(S, n) == [S \X (1 .. n) -> S]

IsRun(g, S, n, base, step) ==
    /\ g \in [0 .. n -> S]
    /\ g[0] = base
    /\ \A i \in 1 .. n : g[i] = step[<<g[i - 1], i>>]

(* There is such a run, whatever the steps do. *)
LEMMA RunExists ==
    ASSUME NEW n \in Nat, NEW S, NEW base \in S, NEW step \in StepFunctions(S, n)
    PROVE  \E g : IsRun(g, S, n, base, step)
  <1> DEFINE Run(g, m) ==
                /\ g \in [0 .. m -> S]
                /\ g[0] = base
                /\ \A i \in 1 .. m : g[i] = step[<<g[i - 1], i>>]
             T == {m \in Nat : \E g : Run(g, m)}
  <1> USE DEF StepFunctions
  <1>1. 0 \in T
    <2>1. Run([i \in 0 .. 0 |-> base], 0)
      OBVIOUS
    <2>. QED
      BY <2>1
  <1>2. ASSUME NEW m \in 1 .. n, m - 1 \in T
        PROVE  m \in T
    <2>1. PICK g : Run(g, m - 1)
      BY <1>2
    <2> DEFINE h == [i \in 0 .. m |-> IF i = m THEN step[<<g[m - 1], m>>] ELSE g[i]]
    <2>2. /\ g \in [0 .. m - 1 -> S]
          /\ g[0] = base
          /\ \A i \in 1 .. m - 1 : g[i] = step[<<g[i - 1], i>>]
      BY <2>1
    <2>3. g[m - 1] \in S
      BY <2>2
    <2>4. step[<<g[m - 1], m>>] \in S
      BY <2>3
    <2>5. h \in [0 .. m -> S]
      BY <2>2, <2>4
    <2>6. h[0] = base
      BY <2>2
    <2>7. ASSUME NEW i \in 1 .. m PROVE h[i] = step[<<h[i - 1], i>>]
      <3>1. h[i - 1] = g[i - 1]
        OBVIOUS
      <3>2. CASE i = m
        <4>1. h[m] = step[<<g[m - 1], m>>]
          OBVIOUS
        <4>. QED
          BY <3>1, <3>2, <4>1
      <3>3. CASE i # m
        <4>1. i \in 1 .. m - 1
          BY <3>3
        <4>. QED
          BY <2>2, <3>1, <3>3, <4>1
      <3>. QED
        BY <3>2, <3>3
    <2> HIDE DEF h
    <2>8. Run(h, m)
      BY <2>5, <2>6, <2>7
    <2>. QED
      BY <2>8
  <1> HIDE DEF T, Run
  <1>3. n \in T
    BY <1>1, <1>2, InductionUpTo
  <1>. QED
    BY <1>3 DEF T, Run, IsRun

-----------------------------------------------------------------------------
(* The key parser: the two loops first, then what a text is between its     *)
(* header and its footer, and where that is in the text without its layout. *)

(* The loop that copies the key, character by character (auth.c:62-66). *)
(* The loop that copies the key, character by character (auth.c:62-66). *)
LEMMA CopiedSteps ==
    ASSUME NEW body \in Seq(Tokens)
    PROVE  /\ \A i \in 0 .. Len(body) : Copied(body)[i] \in Seq(Tokens)
           /\ Copied(body)[0] = <<>>
           /\ \A i \in 1 .. Len(body) :
                 Copied(body)[i] =
                     IF body[i] \in Skipped \/ Len(Copied(body)[i - 1]) = Capacity
                     THEN Copied(body)[i - 1]
                     ELSE Append(Copied(body)[i - 1], body[i])
  <1> DEFINE n == Len(body)
             Grown(b64, c) == IF c \in Skipped \/ Len(b64) = Capacity THEN b64
                              ELSE Append(b64, c)
             Unfold(g) == [i \in 0 .. n |-> IF i = 0 THEN <<>>
                                            ELSE Grown(g[i - 1], body[i])]
             step == [p \in Seq(Tokens) \X (1 .. n) |-> Grown(p[1], body[p[2]])]
             f == CHOOSE g : g = Unfold(g)
  <1>1. n \in Nat /\ \A i \in 1 .. n : body[i] \in Tokens
    OBVIOUS
  <1>2. \A b64 \in Seq(Tokens), c \in Tokens : Grown(b64, c) \in Seq(Tokens)
    OBVIOUS
  <1>3. Copied(body) = f
    BY DEF Copied
  <1> HIDE DEF n, Grown
  <1>4. step \in StepFunctions(Seq(Tokens), n) /\ <<>> \in Seq(Tokens)
    BY <1>1, <1>2 DEF StepFunctions
  <1>5. PICK g : IsRun(g, Seq(Tokens), n, <<>>, step)
    <2> HIDE DEF step
    <2>. QED
      BY <1>1, <1>4, RunExists
  <1>6. g = Unfold(g)
    <2>1. ASSUME NEW i \in 1 .. n PROVE g[i] = Grown(g[i - 1], body[i])
      <3>1. i - 1 \in 0 .. n
        BY <1>1
      <3>2. g[i - 1] \in Seq(Tokens)
        BY <1>5, <3>1 DEF IsRun
      <3>3. step[<<g[i - 1], i>>] = Grown(g[i - 1], body[i])
        BY <3>2
      <3>. QED
        BY <1>5, <3>3 DEF IsRun
    <2> HIDE DEF step
    <2>2. \A i \in 0 .. n : g[i] = IF i = 0 THEN <<>> ELSE Grown(g[i - 1], body[i])
      BY <1>1, <1>5, <2>1 DEF IsRun
    <2>. QED
      BY <1>5, <2>2 DEF IsRun
  <1>7. f = Unfold(f)
    BY <1>6
  <1> HIDE DEF f
  <1>8. f[0] = <<>> /\ \A i \in 1 .. n : f[i] = Grown(f[i - 1], body[i])
    <2>1. \A i \in 0 .. n : f[i] = IF i = 0 THEN <<>> ELSE Grown(f[i - 1], body[i])
      BY <1>7
    <2>. QED
      BY <1>1, <2>1
  <1>9. \A i \in 0 .. n : f[i] \in Seq(Tokens)
    <2> DEFINE T == {i \in 0 .. n : f[i] \in Seq(Tokens)}
    <2>1. 0 \in T
      <3>1. 0 \in 0 .. n /\ <<>> \in Seq(Tokens)
        BY <1>1
      <3>. QED
        BY <1>8, <3>1
    <2>2. \A i \in 1 .. n : i - 1 \in T => i \in T
      <3> SUFFICES ASSUME NEW i \in 1 .. n, f[i - 1] \in Seq(Tokens)
                   PROVE  i \in T
        OBVIOUS
      <3>1. i \in 0 .. n
        BY <1>1
      <3>. QED
        BY <1>1, <1>2, <1>8, <3>1
    <2> HIDE DEF T
    <2>3. 0 .. n \subseteq T
      BY <1>1, <2>1, <2>2, InductionUpTo
    <2>. QED
      BY <2>3 DEF T
  <1>. QED
    BY <1>3, <1>8, <1>9 DEF n, Grown

(* The same for the characters that are kept. *)
(* The same for the characters that are kept. *)
LEMMA KeptSteps ==
    ASSUME NEW text \in Seq(Tokens), NEW left_out
    PROVE  /\ \A i \in 0 .. Len(text) : Kept(text, left_out)[i] \in Seq(Tokens)
           /\ Kept(text, left_out)[0] = <<>>
           /\ \A i \in 1 .. Len(text) :
                 Kept(text, left_out)[i] =
                     IF text[i] \in left_out
                     THEN Kept(text, left_out)[i - 1]
                     ELSE Append(Kept(text, left_out)[i - 1], text[i])
  <1> DEFINE n == Len(text)
             Grown(b64, c) == IF c \in left_out THEN b64
                              ELSE Append(b64, c)
             Unfold(g) == [i \in 0 .. n |-> IF i = 0 THEN <<>>
                                            ELSE Grown(g[i - 1], text[i])]
             step == [p \in Seq(Tokens) \X (1 .. n) |-> Grown(p[1], text[p[2]])]
             f == CHOOSE g : g = Unfold(g)
  <1>1. n \in Nat /\ \A i \in 1 .. n : text[i] \in Tokens
    OBVIOUS
  <1>2. \A b64 \in Seq(Tokens), c \in Tokens : Grown(b64, c) \in Seq(Tokens)
    OBVIOUS
  <1>3. Kept(text, left_out) = f
    BY DEF Kept
  <1> HIDE DEF n, Grown
  <1>4. step \in StepFunctions(Seq(Tokens), n) /\ <<>> \in Seq(Tokens)
    BY <1>1, <1>2 DEF StepFunctions
  <1>5. PICK g : IsRun(g, Seq(Tokens), n, <<>>, step)
    <2> HIDE DEF step
    <2>. QED
      BY <1>1, <1>4, RunExists
  <1>6. g = Unfold(g)
    <2>1. ASSUME NEW i \in 1 .. n PROVE g[i] = Grown(g[i - 1], text[i])
      <3>1. i - 1 \in 0 .. n
        BY <1>1
      <3>2. g[i - 1] \in Seq(Tokens)
        BY <1>5, <3>1 DEF IsRun
      <3>3. step[<<g[i - 1], i>>] = Grown(g[i - 1], text[i])
        BY <3>2
      <3>. QED
        BY <1>5, <3>3 DEF IsRun
    <2> HIDE DEF step
    <2>2. \A i \in 0 .. n : g[i] = IF i = 0 THEN <<>> ELSE Grown(g[i - 1], text[i])
      BY <1>1, <1>5, <2>1 DEF IsRun
    <2>. QED
      BY <1>5, <2>2 DEF IsRun
  <1>7. f = Unfold(f)
    BY <1>6
  <1> HIDE DEF f
  <1>8. f[0] = <<>> /\ \A i \in 1 .. n : f[i] = Grown(f[i - 1], text[i])
    <2>1. \A i \in 0 .. n : f[i] = IF i = 0 THEN <<>> ELSE Grown(f[i - 1], text[i])
      BY <1>7
    <2>. QED
      BY <1>1, <2>1
  <1>9. \A i \in 0 .. n : f[i] \in Seq(Tokens)
    <2> DEFINE T == {i \in 0 .. n : f[i] \in Seq(Tokens)}
    <2>1. 0 \in T
      <3>1. 0 \in 0 .. n /\ <<>> \in Seq(Tokens)
        BY <1>1
      <3>. QED
        BY <1>8, <3>1
    <2>2. \A i \in 1 .. n : i - 1 \in T => i \in T
      <3> SUFFICES ASSUME NEW i \in 1 .. n, f[i - 1] \in Seq(Tokens)
                   PROVE  i \in T
        OBVIOUS
      <3>1. i \in 0 .. n
        BY <1>1
      <3>. QED
        BY <1>1, <1>2, <1>8, <3>1
    <2> HIDE DEF T
    <2>3. 0 .. n \subseteq T
      BY <1>1, <2>1, <2>2, InductionUpTo
    <2>. QED
      BY <2>3 DEF T
  <1>. QED
    BY <1>3, <1>8, <1>9 DEF n, Grown

(* A least number is what Min chooses. *)
LEMMA MinNat ==
    ASSUME NEW T \in SUBSET Nat, T # {}
    PROVE  Min(T) \in T /\ \A y \in T : Min(T) <= y
  BY LeastNat DEF Min

(* Where header and footer are, the key is text between them (auth.c:42-57). *)
LEMMA BodyTyped ==
    ASSUME NEW text \in Seq(Tokens), ~Malformed(text)
    PROVE  Body(text) \in Seq(Tokens)
  <1>1. CASE ~HasHeader(text)
    BY <1>1 DEF Body
  <1>2. CASE HasHeader(text)
    <2>1. /\ HeaderEnds(text) # {} /\ HeaderEnds(text) \subseteq 1 .. Len(text)
          /\ Footers(text) # {} /\ Footers(text) \subseteq 1 .. Len(text)
      <3>1. DOMAIN text = 1 .. Len(text)
        OBVIOUS
      <3>. QED
        BY <1>2, <3>1 DEF Malformed, HeaderEnds, Footers
    <2>2. /\ Min(HeaderEnds(text)) \in 1 .. Len(text)
          /\ Min(Footers(text)) \in 1 .. Len(text)
      BY <2>1, MinNat
    <2> DEFINE m == Min(HeaderEnds(text)) + 1
               n == Min(Footers(text)) - 1
    <2>3. m \in 1 .. Len(text) + 1 /\ n \in 0 .. Len(text)
      BY <2>2
    <2> HIDE DEF m, n
    <2>4. SubSeq(text, m, n) \in Seq(Tokens)
      BY <2>3
    <2>. QED
      BY <1>2, <2>4 DEF Body, m, n
  <1>. QED
    BY <1>1, <1>2

(* What has not filled the buffer is everything. *)
LEMMA CopiedWhole ==
    ASSUME NEW body \in Seq(Tokens), Len(Strip(body)) < Capacity
    PROVE  Strip(body) = Without(body, Skipped)
  <1> DEFINE n == Len(body)
             c(i) == Copied(body)[i]
             k(i) == Kept(body, Skipped)[i]
             T == {i \in 0 .. n : /\ Len(c(i)) <= Capacity
                                  /\ Len(c(i)) < Capacity => c(i) = k(i)}
  <1>1. /\ n \in Nat
        /\ c(0) = <<>> /\ k(0) = <<>>
        /\ Capacity \in Nat \ {0}
        /\ \A i \in 1 .. n : body[i] \in Tokens
    BY CopiedSteps, KeptSteps, AuthKeyAssumption
  <1>2. \A i \in 0 .. n : c(i) \in Seq(Tokens) /\ k(i) \in Seq(Tokens)
    BY CopiedSteps, KeptSteps
  <1>3. \A i \in 1 .. n :
           /\ c(i) = IF body[i] \in Skipped \/ Len(c(i - 1)) = Capacity THEN c(i - 1)
                     ELSE Append(c(i - 1), body[i])
           /\ k(i) = IF body[i] \in Skipped THEN k(i - 1)
                     ELSE Append(k(i - 1), body[i])
    BY CopiedSteps, KeptSteps
  <1> HIDE DEF n, c, k
  <1>4. 0 \in T
    BY <1>1
  <1>5. ASSUME NEW i \in 1 .. n, i - 1 \in T PROVE i \in T
    <2>1. i \in 0 .. n /\ i - 1 \in 0 .. n
      BY <1>1
    <2>2. /\ c(i - 1) \in Seq(Tokens)
          /\ Len(c(i - 1)) <= Capacity
          /\ Len(c(i - 1)) < Capacity => c(i - 1) = k(i - 1)
      BY <1>2, <1>5, <2>1
    <2>3. CASE body[i] \in Skipped
      BY <1>3, <2>1, <2>2, <2>3
    <2>4. CASE body[i] \notin Skipped /\ Len(c(i - 1)) = Capacity
      BY <1>1, <1>3, <2>1, <2>2, <2>4
    <2>5. CASE body[i] \notin Skipped /\ Len(c(i - 1)) < Capacity
      <3>1. c(i) = Append(c(i - 1), body[i]) /\ k(i) = Append(c(i - 1), body[i])
        BY <1>1, <1>3, <2>2, <2>5
      <3>2. Len(c(i)) = Len(c(i - 1)) + 1
        BY <1>1, <2>2, <3>1
      <3>3. Len(c(i - 1)) \in Nat
        BY <2>2
      <3>4. Len(c(i)) <= Capacity /\ c(i) = k(i)
        BY <1>1, <2>5, <3>1, <3>2, <3>3
      <3>. QED
        BY <2>1, <3>4
    <2>6. Len(c(i - 1)) \in Nat
      BY <2>2
    <2>. QED
      BY <1>1, <2>2, <2>3, <2>4, <2>5, <2>6
  <1> HIDE DEF T
  <1>6. 0 .. n \subseteq T
    BY <1>1, <1>4, <1>5, InductionUpTo
  <1>7. n \in T
    BY <1>1, <1>6
  <1>. QED
    BY <1>7 DEF T, Strip, Without, n, c, k

(* A key is shorter than the buffer, so it was not cut off to be one.       *)
LEMMA KeyWhole ==
    ASSUME NEW text \in Seq(Tokens), Parse(text) # Refused
    PROVE  Parse(text) = KeyIn(text)
  <1>1. ~Malformed(text) /\ Parse(text) = Strip(Body(text)) /\ IsKey(Strip(Body(text)))
    BY DEF Parse
  <1>2. Len(Strip(Body(text))) < Capacity
    BY <1>1, AuthKeyAssumption DEF IsKey
  <1>. QED
    BY <1>1, <1>2, BodyTyped, CopiedWhole DEF KeyIn

(* A key that is accepted is the whole key of the text, however long text,  *)
(* key and buffer are, as long as a key is shorter than the buffer          *)
(* (auth.c:59-82).                                                          *)
THEOREM KeysWhole == Spec => []AcceptedKeyIsWhole
  <1>1. InputInv => AcceptedKeyIsWhole
    BY KeyWhole DEF InputInv, AcceptedKeyIsWhole
  <1>. QED
    BY <1>1, InputInit, InputStep, PTL DEF Spec

(* Where a character of a text is found when the text has no blanks. *)
Place(text, i) == Len(Kept(text, {"blank"})[i])

(* What the characters of a text without blanks are. *)
LEMMA Places ==
    ASSUME NEW text \in Seq(Tokens)
    PROVE  /\ Plain(text) \in Seq(Tokens)
           /\ Len(Plain(text)) = Place(text, Len(text))
           /\ Place(text, 0) = 0
           /\ \A i \in 0 .. Len(text) : Place(text, i) \in Nat
           /\ \A i \in 1 .. Len(text) :
                 Place(text, i) = IF text[i] = "blank" THEN Place(text, i - 1)
                                  ELSE Place(text, i - 1) + 1
           /\ \A i, j \in 0 .. Len(text) : i <= j => Place(text, i) <= Place(text, j)
           /\ \A i \in 1 .. Len(text) :
                 text[i] # "blank" => Plain(text)[Place(text, i)] = AsNewline(text[i])
           /\ \A l \in 1 .. Len(Plain(text)) :
                 \E i \in 1 .. Len(text) : text[i] # "blank" /\ Place(text, i) = l
  <1> DEFINE n == Len(text)
             k(i) == Kept(text, {"blank"})[i]
             pos(i) == Place(text, i)
  <1>1. /\ n \in Nat
        /\ \A i \in 1 .. n : text[i] \in Tokens
        /\ k(0) = <<>>
        /\ \A i \in 0 .. n : k(i) \in Seq(Tokens)
    BY KeptSteps
  <1>2. \A i \in 1 .. n : k(i) = IF text[i] = "blank" THEN k(i - 1)
                                 ELSE Append(k(i - 1), text[i])
    BY KeptSteps
  <1>3. \A i \in 0 .. n : pos(i) = Len(k(i))
    BY DEF Place
  <1>4. Plain(text) = [i \in DOMAIN k(n) |-> AsNewline(k(n)[i])]
    BY DEF Plain, Without
  <1> HIDE DEF n, k, pos
  <1>5. pos(0) = 0 /\ \A i \in 0 .. n : pos(i) \in Nat
    BY <1>1, <1>3
  <1>6. ASSUME NEW i \in 1 .. n
        PROVE  /\ text[i] = "blank" => k(i) = k(i - 1) /\ pos(i) = pos(i - 1)
               /\ text[i] # "blank" =>
                     /\ pos(i) = pos(i - 1) + 1
                     /\ k(i)[pos(i)] = text[i]
                     /\ \A l \in 1 .. pos(i - 1) : k(i)[l] = k(i - 1)[l]
    <2>1. i \in 0 .. n /\ i - 1 \in 0 .. n
      BY <1>1
    <2>2. k(i - 1) \in Seq(Tokens) /\ text[i] \in Tokens
      BY <1>1, <2>1
    <2>3. pos(i) = Len(k(i)) /\ pos(i - 1) = Len(k(i - 1))
      BY <1>3, <2>1
    <2>4. CASE text[i] = "blank"
      BY <1>2, <2>3, <2>4
    <2>5. CASE text[i] # "blank"
      <3>1. k(i) = Append(k(i - 1), text[i])
        BY <1>2, <2>5
      <3>. QED
        BY <2>2, <2>3, <2>5, <3>1
    <2>. QED
      BY <2>4, <2>5
  <1>7. ASSUME NEW j \in 0 .. n
        PROVE  \A i \in 0 .. j : /\ pos(i) <= pos(j)
                                 /\ \A l \in 1 .. pos(i) : k(j)[l] = k(i)[l]
    <2> DEFINE Starts(m) == \A i \in 0 .. m :
                              /\ pos(i) <= pos(m)
                              /\ \A l \in 1 .. pos(i) : k(m)[l] = k(i)[l]
               T == {m \in 0 .. n : Starts(m)}
    <2>1. 0 \in T
      BY <1>1, <1>5
    <2>2. ASSUME NEW m \in 1 .. n, m - 1 \in T PROVE m \in T
      <3>1. m \in 0 .. n /\ m - 1 \in 0 .. n /\ pos(m) \in Nat /\ pos(m - 1) \in Nat
        BY <1>1, <1>5
      <3>2. Starts(m - 1)
        BY <2>2
      <3>3. /\ pos(m - 1) <= pos(m)
            /\ \A l \in 1 .. pos(m - 1) : k(m)[l] = k(m - 1)[l]
        BY <1>6, <3>1
      <3>4. ASSUME NEW i \in 0 .. m
            PROVE  /\ pos(i) <= pos(m)
                   /\ \A l \in 1 .. pos(i) : k(m)[l] = k(i)[l]
        <4>1. CASE i = m
          BY <3>1, <4>1
        <4>2. CASE i # m
          <5>1. i \in 0 .. m - 1 /\ i \in 0 .. n
            BY <1>1, <4>2
          <5>2. /\ pos(i) \in Nat /\ pos(i) <= pos(m - 1)
                /\ \A l \in 1 .. pos(i) : k(m - 1)[l] = k(i)[l]
            BY <1>5, <3>2, <5>1
          <5>3. \A l \in 1 .. pos(i) : l \in 1 .. pos(m - 1)
            BY <3>1, <5>2
          <5>. QED
            BY <3>1, <3>3, <5>2, <5>3
        <4>. QED
          BY <4>1, <4>2
      <3>. QED
        BY <3>1, <3>4
    <2> HIDE DEF T
    <2>3. 0 .. n \subseteq T
      BY <1>1, <2>1, <2>2, InductionUpTo
    <2>. QED
      BY <2>3 DEF T
  <1>8. ASSUME NEW j \in 0 .. n
        PROVE  \A l \in 1 .. pos(j) : \E i \in 1 .. n : text[i] # "blank" /\ pos(i) = l
    <2> DEFINE Found(m) == \A l \in 1 .. pos(m) :
                              \E i \in 1 .. n : text[i] # "blank" /\ pos(i) = l
               T == {m \in 0 .. n : Found(m)}
    <2>1. 0 \in T
      BY <1>1, <1>5
    <2>2. ASSUME NEW m \in 1 .. n, m - 1 \in T PROVE m \in T
      <3>1. m \in 0 .. n /\ m - 1 \in 0 .. n /\ pos(m) \in Nat /\ pos(m - 1) \in Nat
        BY <1>1, <1>5
      <3>2. Found(m - 1)
        BY <2>2
      <3>3. Found(m)
        <4>1. CASE text[m] = "blank"
          BY <1>6, <3>2, <4>1
        <4>2. CASE text[m] # "blank"
          <5>1. pos(m) = pos(m - 1) + 1
            BY <1>6, <4>2
          <5>2. \A l \in 1 .. pos(m) : l \in 1 .. pos(m - 1) \/ l = pos(m)
            BY <3>1, <5>1
          <5>. QED
            BY <3>2, <4>2, <5>2
        <4>. QED
          BY <4>1, <4>2
      <3>. QED
        BY <3>1, <3>3
    <2> HIDE DEF T
    <2>3. 0 .. n \subseteq T
      BY <1>1, <2>1, <2>2, InductionUpTo
    <2>. QED
      BY <2>3 DEF T
  <1>9. n \in 0 .. n /\ k(n) \in Seq(Tokens) /\ Len(k(n)) = pos(n)
    BY <1>1, <1>3
  <1>10. /\ Plain(text) \in Seq(Tokens)
         /\ Len(Plain(text)) = pos(n)
         /\ \A l \in 1 .. pos(n) : Plain(text)[l] = AsNewline(k(n)[l])
    <2>1. DOMAIN k(n) = 1 .. pos(n)
      BY <1>9
    <2>2. \A l \in 1 .. pos(n) : k(n)[l] \in Tokens
      BY <1>9
    <2>3. \A c \in Tokens : AsNewline(c) \in Tokens
      BY DEF AsNewline, Tokens, Skipped, Newlines
    <2>4. pos(n) \in Nat
      BY <1>5, <1>9
    <2>5. Plain(text) = [l \in 1 .. pos(n) |-> AsNewline(k(n)[l])]
      BY <1>4, <2>1
    <2>6. \A l \in 1 .. pos(n) : AsNewline(k(n)[l]) \in Tokens
      BY <2>2, <2>3
    <2>7. Plain(text) \in [1 .. pos(n) -> Tokens]
      BY <2>5, <2>6
    <2>. QED
      BY <2>4, <2>5, <2>7
  <1>11. ASSUME NEW i \in 1 .. n, text[i] # "blank"
         PROVE  Plain(text)[pos(i)] = AsNewline(text[i])
    <2>1. i \in 0 .. n /\ i - 1 \in 0 .. n
      BY <1>1
    <2>2. pos(i) = pos(i - 1) + 1 /\ k(i)[pos(i)] = text[i]
      BY <1>6, <1>11
    <2>3. pos(i) \in 1 .. pos(i) /\ pos(i) \in 1 .. pos(n)
      <3>1. pos(i) \in Nat /\ pos(i - 1) \in Nat /\ pos(n) \in Nat
        BY <1>5, <1>9, <2>1
      <3>2. i \in 0 .. n
        BY <2>1
      <3>3. pos(i) <= pos(n)
        BY <1>7, <1>9, <3>2
      <3>. QED
        BY <2>2, <3>1, <3>3
    <2>4. k(n)[pos(i)] = k(i)[pos(i)]
      BY <1>7, <1>9, <2>1, <2>3
    <2>. QED
      BY <1>10, <2>2, <2>3, <2>4
  <1>12. \A i, j \in 0 .. n : i <= j => pos(i) <= pos(j)
    <2> SUFFICES ASSUME NEW i \in 0 .. n, NEW j \in 0 .. n, i <= j
                 PROVE  pos(i) <= pos(j)
      OBVIOUS
    <2>1. i \in 0 .. j
      BY <1>1
    <2>. QED
      BY <1>7, <2>1
  <1>13. \A i \in 1 .. n : pos(i) = IF text[i] = "blank" THEN pos(i - 1)
                                    ELSE pos(i - 1) + 1
    BY <1>6
  <1>14. \A l \in 1 .. Len(Plain(text)) :
            \E i \in 1 .. n : text[i] # "blank" /\ pos(i) = l
    BY <1>8, <1>9, <1>10
  <1>. QED
    BY <1>5, <1>10, <1>11, <1>12, <1>13, <1>14 DEF n, pos

(* The first of some characters is the first of them without the blanks. *)
LEMMA FirstPlace ==
    ASSUME NEW text \in Seq(Tokens), NEW S \in SUBSET (1 .. Len(text)), S # {},
           NEW R, R = {Place(text, i) : i \in S}
    PROVE  /\ Min(S) \in S
           /\ \A i \in S : Min(S) <= i
           /\ Min(R) = Place(text, Min(S))
  <1> DEFINE n == Len(text)
             pos(i) == Place(text, i)
  <1>1. /\ n \in Nat
        /\ \A i \in 0 .. n : pos(i) \in Nat
        /\ \A i, j \in 0 .. n : i <= j => pos(i) <= pos(j)
    <2>1. n \in Nat
      OBVIOUS
    <2> HIDE DEF pos, n
    <2>. QED
      BY <2>1, Places DEF pos, n
  <1> HIDE DEF n
  <1>2. S \in SUBSET Nat /\ S \subseteq 0 .. n
    BY <1>1 DEF n
  <1>3. Min(S) \in S /\ \A i \in S : Min(S) <= i
    BY <1>2, MinNat
  <1>4. R = {pos(i) : i \in S}
    OBVIOUS
  <1> HIDE DEF pos
  <1>5. /\ pos(Min(S)) \in R
        /\ R \in SUBSET Nat
    BY <1>1, <1>2, <1>3, <1>4
  <1>6. \A l \in R : pos(Min(S)) <= l
    BY <1>1, <1>2, <1>3, <1>4
  <1>7. Min(R) \in R /\ \A l \in R : Min(R) <= l
    BY <1>5, MinNat
  <1>8. Min(R) \in Nat /\ pos(Min(S)) \in Nat
    BY <1>5, <1>7
  <1>9. Min(R) <= pos(Min(S)) /\ pos(Min(S)) <= Min(R)
    BY <1>5, <1>6, <1>7
  <1>10. Min(R) = pos(Min(S))
    BY <1>8, <1>9
  <1>. QED
    BY <1>3, <1>10 DEF pos

(* A text has its header, line ends and footers where it has them without   *)
(* its layout.                                                              *)
LEMMA SameEnds ==
    ASSUME NEW text \in Seq(Tokens)
    PROVE  /\ HeaderEnds(text) \subseteq 1 .. Len(text)
           /\ HeaderEnds(Plain(text)) = {Place(text, i) : i \in HeaderEnds(text)}
           /\ HeaderEnds(text) # {} =>
                 /\ Footers(text) \subseteq 1 .. Len(text)
                 /\ Footers(Plain(text)) = {Place(text, i) : i \in Footers(text)}
  <1> DEFINE n == Len(text)
             pos(i) == Place(text, i)
             plain == Plain(text)
             m == Min(HeaderEnds(text))
  <1>1. /\ n \in Nat /\ DOMAIN text = 1 .. n
        /\ \A i \in 1 .. n : text[i] \in Tokens
        /\ plain \in Seq(Tokens)
        /\ Len(plain) = pos(n)
        /\ \A i \in 0 .. n : pos(i) \in Nat
        /\ \A i, j \in 0 .. n : i <= j => pos(i) <= pos(j)
    <2>1. n \in Nat /\ DOMAIN text = 1 .. n /\ \A i \in 1 .. n : text[i] \in Tokens
      OBVIOUS
    <2>2. /\ plain \in Seq(Tokens)
          /\ Len(plain) = pos(n)
          /\ \A i \in 0 .. n : pos(i) \in Nat
      BY Places
    <2>3. \A i, j \in 0 .. n : i <= j => pos(i) <= pos(j)
      BY Places
    <2> HIDE DEF n, pos, plain
    <2>. QED
      BY <2>1, <2>2, <2>3
  <1>2. /\ \A i \in 1 .. n :
              pos(i) = IF text[i] = "blank" THEN pos(i - 1) ELSE pos(i - 1) + 1
        /\ \A i \in 1 .. n : text[i] # "blank" => plain[pos(i)] = AsNewline(text[i])
        /\ \A l \in 1 .. Len(plain) :
              \E i \in 1 .. n : text[i] # "blank" /\ pos(i) = l
    BY Places
  <1>3. DOMAIN plain = 1 .. pos(n)
    BY <1>1
  <1>4. HeaderEnds(text) = {i \in 1 .. n : text[i] \in Newlines}
    BY <1>1 DEF HeaderEnds
  <1>5. HeaderEnds(plain) = {l \in 1 .. pos(n) : plain[l] \in Newlines}
    BY <1>3 DEF HeaderEnds
  <1>6. Footers(text) = {i \in 1 .. n : text[i] = "END" /\ i > m}
    BY <1>1 DEF Footers
  <1>7. Footers(plain) =
           {l \in 1 .. pos(n) : plain[l] = "END" /\ l > Min(HeaderEnds(plain))}
    BY <1>3 DEF Footers
  <1> HIDE DEF n, pos, plain, m
  <1>8. \A i \in 1 .. n : text[i] # "blank" => pos(i) \in 1 .. pos(n)
    <2> TAKE i \in 1 .. n
    <2> HAVE text[i] # "blank"
    <2>1. i \in 0 .. n /\ i - 1 \in 0 .. n /\ n \in 0 .. n /\ i <= n
      BY <1>1
    <2>. QED
      BY <1>1, <1>2, <2>1
  <1>9. \A c : /\ AsNewline(c) \in Newlines <=> c \in Newlines
               /\ AsNewline(c) = "END" <=> c = "END"
               /\ c \in Newlines \/ c = "END" => c # "blank"
    BY DEF AsNewline, Newlines
  <1>10. HeaderEnds(plain) = {pos(i) : i \in HeaderEnds(text)}
    <2>1. ASSUME NEW l \in HeaderEnds(plain)
          PROVE  \E i \in HeaderEnds(text) : pos(i) = l
      <3>1. l \in 1 .. Len(plain) /\ plain[l] \in Newlines
        BY <1>1, <1>5, <2>1
      <3>2. PICK i \in 1 .. n : text[i] # "blank" /\ pos(i) = l
        BY <1>2, <3>1
      <3>. QED
        BY <1>2, <1>4, <1>9, <3>1, <3>2
    <2>2. ASSUME NEW i \in HeaderEnds(text)
          PROVE  pos(i) \in HeaderEnds(plain)
      BY <1>2, <1>4, <1>5, <1>8, <1>9, <2>2
    <2>. QED
      BY <2>1, <2>2
  <1>11. ASSUME HeaderEnds(text) # {}
         PROVE  Footers(plain) = {pos(i) : i \in Footers(text)}
    <2>1. m \in HeaderEnds(text) /\ Min(HeaderEnds(plain)) = pos(m)
      <3>1. HeaderEnds(text) \in SUBSET (1 .. Len(text))
        BY <1>4 DEF n
      <3>2. HeaderEnds(plain) = {Place(text, i) : i \in HeaderEnds(text)}
        BY <1>10 DEF pos
      <3>. QED
        BY <1>11, <3>1, <3>2, FirstPlace DEF m, pos
    <2>2. m \in 1 .. n /\ m \in 0 .. n
      BY <1>1, <1>4, <2>1
    <2>3. ASSUME NEW i \in 1 .. n, text[i] = "END"
          PROVE  i > m <=> pos(i) > pos(m)
      <3>1. i \in 0 .. n /\ i - 1 \in 0 .. n
        BY <1>1
      <3>2. pos(i) = pos(i - 1) + 1
        BY <1>2, <2>3
      <3>3. pos(i) \in Nat /\ pos(i - 1) \in Nat /\ pos(m) \in Nat
        BY <1>1, <2>2, <3>1
      <3>4. CASE i > m
        <4>1. m <= i - 1
          BY <1>1, <2>2, <3>4
        <4>2. pos(m) <= pos(i - 1)
          BY <1>1, <2>2, <3>1, <4>1
        <4>. QED
          BY <3>2, <3>3, <3>4, <4>2
      <3>5. CASE i <= m
        <4>1. pos(i) <= pos(m)
          BY <1>1, <2>2, <3>1, <3>5
        <4>. QED
          BY <1>1, <2>2, <3>3, <3>5, <4>1
      <3>. QED
        BY <1>1, <2>2, <3>4, <3>5
    <2>4. ASSUME NEW l \in Footers(plain)
          PROVE  \E i \in Footers(text) : pos(i) = l
      <3>1. l \in 1 .. Len(plain) /\ plain[l] = "END" /\ l > pos(m)
        BY <1>1, <1>7, <2>1, <2>4
      <3>2. PICK i \in 1 .. n : text[i] # "blank" /\ pos(i) = l
        BY <1>2, <3>1
      <3>3. text[i] = "END"
        BY <1>2, <1>9, <3>1, <3>2
      <3>. QED
        BY <1>6, <2>3, <3>1, <3>2, <3>3
    <2>5. ASSUME NEW i \in Footers(text)
          PROVE  pos(i) \in Footers(plain)
      <3>1. i \in 1 .. n /\ text[i] = "END" /\ i > m /\ text[i] # "blank"
        BY <1>6, <2>5
      <3>2. plain[pos(i)] = "END"
        BY <1>2, <1>9, <3>1
      <3>. QED
        BY <1>7, <1>8, <2>1, <2>3, <3>1, <3>2
    <2>. QED
      BY <2>4, <2>5
  <1>12. HeaderEnds(text) \subseteq 1 .. n /\ Footers(text) \subseteq 1 .. n
    BY <1>4, <1>6
  <1>. QED
    BY <1>10, <1>11, <1>12 DEF n, pos, plain

(* A stretch of a text, by how many characters come before it. *)
LEMMA Stretch ==
    ASSUME NEW s \in Seq(Tokens), NEW p \in 0 .. Len(s), NEW q \in p .. Len(s)
    PROVE  /\ SubSeq(s, p + 1, q) \in Seq(Tokens)
           /\ Len(SubSeq(s, p + 1, q)) = q - p
           /\ \A l \in 1 .. q - p : SubSeq(s, p + 1, q)[l] = s[p + l]
  OBVIOUS

(* What is copied of a stretch of a text is what is copied of it without    *)
(* its layout.                                                              *)
LEMMA SameCopied ==
    ASSUME NEW text \in Seq(Tokens), NEW a \in 0 .. Len(text), NEW z \in a .. Len(text)
    PROVE  Strip(SubSeq(Plain(text), Place(text, a) + 1, Place(text, z)))
             = Strip(SubSeq(text, a + 1, z))
  <1> DEFINE n == Len(text)
             pos(i) == Place(text, i)
             plain == Plain(text)
             body == SubSeq(text, a + 1, z)
             short == SubSeq(plain, pos(a) + 1, pos(z))
             c(i) == Copied(body)[i]
             d(i) == Copied(short)[i]
             Grown(b64, t) == IF t \in Skipped \/ Len(b64) = Capacity THEN b64
                              ELSE Append(b64, t)
             T == {i \in 0 .. z - a : c(i) = d(pos(a + i) - pos(a))}
  <1>1. /\ n \in Nat /\ a \in 0 .. n /\ z \in 0 .. n /\ a <= z
        /\ \A i \in 1 .. n : text[i] \in Tokens
    OBVIOUS
  <1>2. /\ plain \in Seq(Tokens)
        /\ Len(plain) = pos(n)
        /\ \A i \in 0 .. n : pos(i) \in Nat
    BY Places
  <1>3. \A i, j \in 0 .. n : i <= j => pos(i) <= pos(j)
    BY Places
  <1>4. \A i \in 1 .. n :
           /\ pos(i) = IF text[i] = "blank" THEN pos(i - 1) ELSE pos(i - 1) + 1
           /\ text[i] # "blank" => plain[pos(i)] = AsNewline(text[i])
    BY Places
  <1>5. /\ body \in Seq(Tokens)
        /\ Len(body) = z - a
        /\ \A i \in 1 .. z - a : body[i] = text[a + i]
    BY Stretch
  <1>6. /\ pos(a) \in Nat /\ pos(z) \in Nat /\ pos(a) <= pos(z) /\ pos(z) <= Len(plain)
    <2> HIDE DEF n, pos, plain
    <2>1. n \in 0 .. n /\ z <= n
      BY <1>1
    <2>. QED
      BY <1>1, <1>2, <1>3, <2>1
  <1>7. /\ short \in Seq(Tokens)
        /\ Len(short) = pos(z) - pos(a)
        /\ \A l \in 1 .. pos(z) - pos(a) : short[l] = plain[pos(a) + l]
    <2> HIDE DEF n, pos, plain, short
    <2>1. pos(a) \in 0 .. Len(plain) /\ pos(z) \in pos(a) .. Len(plain)
      BY <1>2, <1>6
    <2>. QED
      BY <1>2, <2>1, Stretch DEF short
  <1>8. /\ c(0) = <<>>
        /\ \A i \in 1 .. Len(body) : c(i) = Grown(c(i - 1), body[i])
    BY <1>5, CopiedSteps
  <1>9. /\ d(0) = <<>>
        /\ \A l \in 1 .. Len(short) : d(l) = Grown(d(l - 1), short[l])
    BY <1>7, CopiedSteps
  <1>10. /\ Strip(body) = c(Len(body))
         /\ Strip(short) = d(Len(short))
    BY DEF Strip
  <1> HIDE DEF n, pos, plain, body, short, c, d
  <1>11. 0 \in T
    BY <1>1, <1>6, <1>8, <1>9
  <1>12. ASSUME NEW i \in 1 .. z - a, i - 1 \in T PROVE i \in T
    <2>1. /\ a + i \in 1 .. n /\ a + i \in 0 .. n /\ a + (i - 1) \in 0 .. n
          /\ (a + i) - 1 = a + (i - 1)
          /\ a <= a + (i - 1) /\ a + i <= z
          /\ i \in 0 .. z - a
      BY <1>1
    <2> DEFINE l == pos(a + i) - pos(a)
               l0 == pos(a + (i - 1)) - pos(a)
    <2>2. /\ pos(a + i) \in Nat /\ pos(a + (i - 1)) \in Nat
          /\ pos(a) <= pos(a + (i - 1)) /\ pos(a + i) <= pos(z)
      BY <1>1, <1>2, <1>3, <2>1
    <2>3. c(i - 1) = d(l0) /\ c(i) = Grown(c(i - 1), text[a + i])
      BY <1>5, <1>8, <1>12
    <2>4. CASE text[a + i] = "blank"
      <3>1. l = l0
        BY <1>4, <2>1, <2>4
      <3>2. c(i) = c(i - 1)
        BY <2>3, <2>4 DEF Skipped
      <3>. QED
        BY <2>1, <2>3, <3>1, <3>2
    <2>5. CASE text[a + i] # "blank"
      <3>1. pos(a + i) = pos(a + (i - 1)) + 1 /\ plain[pos(a + i)] = AsNewline(text[a + i])
        BY <1>4, <2>1, <2>5
      <3>2. /\ l \in 1 .. pos(z) - pos(a)
            /\ l - 1 = l0
            /\ pos(a) + l = pos(a + i)
        <4> DEFINE x == pos(a + i)
                   y == pos(a + (i - 1))
                   u == pos(a)
                   w == pos(z)
        <4>1. /\ x \in Nat /\ y \in Nat /\ u \in Nat /\ w \in Nat
              /\ u <= y /\ x <= w /\ x = y + 1
          BY <1>6, <2>2, <3>1
        <4> HIDE DEF x, y, u, w
        <4>2. x - u \in 1 .. w - u /\ (x - u) - 1 = y - u /\ u + (x - u) = x
          BY <4>1
        <4>. QED
          BY <4>2 DEF x, y, u, w
      <3>3. d(l) = Grown(d(l0), AsNewline(text[a + i]))
        <4> HIDE DEF l, l0, Grown
        <4>. QED
          BY <1>7, <1>9, <3>1, <3>2
      <3>4. Grown(d(l0), AsNewline(text[a + i])) = Grown(d(l0), text[a + i])
        <4>1. CASE text[a + i] \in Newlines
          BY <4>1 DEF AsNewline, Skipped, Newlines
        <4>2. CASE text[a + i] \notin Newlines
          BY <4>2 DEF AsNewline, Newlines
        <4>. QED
          BY <4>1, <4>2
      <3> HIDE DEF Grown
      <3>. QED
        BY <2>1, <2>3, <3>3, <3>4
    <2>. QED
      BY <2>4, <2>5
  <1> HIDE DEF T
  <1>13. z - a \in T
    <2>1. z - a \in Nat
      BY <1>1
    <2>2. 0 .. z - a \subseteq T
      BY <1>11, <1>12, <2>1, InductionUpTo
    <2>. QED
      BY <2>1, <2>2
  <1>14. c(z - a) = d(pos(z) - pos(a))
    <2>1. a + (z - a) = z
      BY <1>1
    <2>. QED
      BY <1>13, <2>1 DEF T
  <1>. QED
    BY <1>5, <1>7, <1>10, <1>14 DEF n, pos, plain, body, short

(* A text that does not begin with a blank begins the same without layout.  *)
LEMMA SameHeader ==
    ASSUME NEW text \in Seq(Tokens), text = <<>> \/ Head(text) # "blank"
    PROVE  HasHeader(Plain(text)) <=> HasHeader(text)
  <1> DEFINE n == Len(text)
             pos(i) == Place(text, i)
             plain == Plain(text)
  <1>1. /\ plain \in Seq(Tokens)
        /\ Len(plain) = pos(n)
        /\ pos(0) = 0
        /\ \A i \in 0 .. n : pos(i) \in Nat
    BY Places
  <1>2. /\ \A i, j \in 0 .. n : i <= j => pos(i) <= pos(j)
        /\ \A i \in 1 .. n :
              /\ pos(i) = IF text[i] = "blank" THEN pos(i - 1) ELSE pos(i - 1) + 1
              /\ text[i] # "blank" => plain[pos(i)] = AsNewline(text[i])
    BY Places
  <1>3. CASE text = <<>>
    <2>1. n = 0
      BY <1>3
    <2>2. plain = <<>>
      <3> HIDE DEF plain, n
      <3>. QED
        BY <1>1, <2>1
    <2>. QED
      BY <1>3, <2>2 DEF HasHeader
  <1>4. CASE text # <<>>
    <2>1. n \in Nat \ {0} /\ Head(text) = text[1] /\ text[1] # "blank"
      BY <1>4
    <2> HIDE DEF n, pos, plain
    <2>2. pos(1) = 1 /\ plain[1] = AsNewline(text[1])
      BY <1>1, <1>2, <2>1
    <2>3. pos(n) \in Nat /\ pos(n) >= 1
      BY <1>1, <1>2, <2>1, <2>2
    <2>4. plain # <<>> /\ Head(plain) = plain[1]
      BY <1>1, <2>3
    <2>. QED
      BY <1>4, <2>1, <2>2, <2>4 DEF HasHeader, AsNewline, plain
  <1>. QED
    BY <1>3, <1>4

(* Header and footer are found in either text, and the same is copied from  *)
(* between them.                                                            *)
LEMMA SameKey ==
    ASSUME NEW text \in Seq(Tokens), text = <<>> \/ Head(text) # "blank"
    PROVE  Parse(text) = Parse(Plain(text))
  <1> DEFINE plain == Plain(text)
             pos(i) == Place(text, i)
             m == Min(HeaderEnds(text))
             e == Min(Footers(text))
  <1>1. HasHeader(plain) <=> HasHeader(text)
    BY SameHeader
  <1>2. /\ HeaderEnds(text) \subseteq 1 .. Len(text)
        /\ HeaderEnds(plain) = {pos(i) : i \in HeaderEnds(text)}
    BY SameEnds
  <1>3. HeaderEnds(text) # {} =>
           /\ Footers(text) \subseteq 1 .. Len(text)
           /\ Footers(plain) = {pos(i) : i \in Footers(text)}
    BY SameEnds
  <1>4. Malformed(plain) <=> Malformed(text)
    <2> HIDE DEF plain, pos
    <2>1. HeaderEnds(plain) = {} <=> HeaderEnds(text) = {}
      BY <1>2
    <2>2. HeaderEnds(text) # {} => (Footers(plain) = {} <=> Footers(text) = {})
      BY <1>3
    <2>. QED
      BY <1>1, <2>1, <2>2 DEF Malformed
  <1>5. ASSUME ~Malformed(text)
        PROVE  Strip(Body(plain)) = Strip(Body(text))
    <2>1. CASE ~HasHeader(text)
      <3>1. Len(text) \in Nat /\ text = SubSeq(text, 0 + 1, Len(text))
        OBVIOUS
      <3>2. plain = SubSeq(plain, pos(0) + 1, pos(Len(text)))
        <4>1. plain \in Seq(Tokens) /\ Len(plain) = pos(Len(text)) /\ pos(0) = 0
          BY Places
        <4> HIDE DEF plain, pos
        <4>2. plain = SubSeq(plain, 1, Len(plain))
          BY <4>1
        <4>. QED
          BY <4>1, <4>2
      <3>3. 0 \in 0 .. Len(text) /\ Len(text) \in 0 .. Len(text)
        BY <3>1
      <3>4. Strip(SubSeq(plain, pos(0) + 1, pos(Len(text))))
              = Strip(SubSeq(text, 0 + 1, Len(text)))
        BY <3>3, SameCopied
      <3>5. Body(plain) = plain /\ Body(text) = text
        BY <1>1, <2>1 DEF Body
      <3> HIDE DEF plain, pos
      <3>. QED
        BY <3>1, <3>2, <3>4, <3>5
    <2>2. CASE HasHeader(text)
      <3>1. HeaderEnds(text) # {} /\ Footers(text) # {}
        BY <1>5, <2>2 DEF Malformed
      <3>2. m \in HeaderEnds(text) /\ Min(HeaderEnds(plain)) = pos(m)
        BY <1>2, <3>1, FirstPlace
      <3>3. e \in Footers(text) /\ Min(Footers(plain)) = pos(e)
        BY <1>3, <3>1, FirstPlace
      <3>4. text[e] = "END" /\ e > m
        BY <3>3 DEF Footers
      <3>5. /\ m \in 0 .. Len(text) /\ e \in 1 .. Len(text) /\ e - 1 \in m .. Len(text)
            /\ e - 1 \in 0 .. Len(text)
        <4>1. m \in 1 .. Len(text) /\ e \in 1 .. Len(text)
          BY <1>2, <1>3, <3>1, <3>2, <3>3
        <4> HIDE DEF m, e
        <4>2. Len(text) \in Nat
          OBVIOUS
        <4>. QED
          BY <3>4, <4>1, <4>2
      <3>6. pos(e) - 1 = pos(e - 1)
        <4>1. pos(e) = pos(e - 1) + 1 /\ pos(e - 1) \in Nat
          BY <3>4, <3>5, Places
        <4> HIDE DEF pos
        <4>. QED
          BY <4>1
      <3>7. Body(plain) = SubSeq(plain, pos(m) + 1, pos(e) - 1)
        BY <1>1, <2>2, <3>2, <3>3 DEF Body
      <3>8. Body(text) = SubSeq(text, m + 1, e - 1)
        BY <2>2 DEF Body
      <3>9. Strip(SubSeq(plain, pos(m) + 1, pos(e - 1)))
              = Strip(SubSeq(text, m + 1, e - 1))
        BY <3>5, SameCopied
      <3>. QED
        BY <3>6, <3>7, <3>8, <3>9
    <2>. QED
      BY <2>1, <2>2
  <1> HIDE DEF plain
  <1>. QED
    BY <1>4, <1>5 DEF Parse, plain

(* With real or escaped newlines and blanks anywhere but in front, a text   *)
(* gives the same key or is refused alike, whatever its length              *)
(* (auth.c:30-66).                                                          *)
THEOREM LayoutIrrelevant == Spec => []LayoutDoesNotMatter
  <1>1. InputInv => LayoutDoesNotMatter
    BY SameKey DEF InputInv, LayoutDoesNotMatter
  <1>. QED
    BY <1>1, InputInit, InputStep, PTL DEF Spec

=============================================================================
