------------------------- MODULE TimestampSyncProofs -------------------------
(***************************************************************************)
(* Proofs about TimestampSync for every warming up, bound, weight and      *)
(* modulus: BudgetInv is inductive, now() converts ticks only with the     *)
(* frequency that the counter has, and noise that was there from the       *)
(* beginning is learned.                                                   *)
(***************************************************************************)
EXTENDS TimestampSync, TLAPS

(* A step of the average leaves it positive: a quotient by two or more is    *)
(* smaller than the number.                                                  *)
LEMMA QuotientSmaller ==
  ASSUME NEW x \in Nat, NEW w \in Nat, w >= 2
  PROVE  x \div w \in Nat /\ x \div w <= x /\ (x > 0 => x \div w < x)
<1>1. x \div w \in Int /\ w * (x \div w) <= x /\ x < w * (x \div w) + w
  OBVIOUS
<1> DEFINE q == x \div w
<1> HIDE DEF q
<1>2. q \in Int /\ w * q <= x /\ x < w * q + w
  BY <1>1 DEF q
<1>3. q >= 0
  <2> SUFFICES ASSUME q <= -1 PROVE FALSE
    BY <1>2
  <2>1. w * q <= w * (-1)
    BY <1>2
  <2> QED
    BY <1>2, <2>1
<1>4. w * q >= 2 * q
  BY <1>2, <1>3
<1>5. q \in Nat /\ q <= x /\ (x > 0 => q < x)
  BY <1>2, <1>3, <1>4
<1> QED
  BY <1>5 DEF q

LEMMA ApproachPositive ==
  ASSUME NEW average \in Nat \ {0}, NEW value \in Nat
  PROVE  Approach(average, value) \in Nat \ {0}
<1>1. CASE value < average
  <2>1. average - value \in Nat /\ average - value <= average
    BY <1>1
  <2>2. (average - value) \div Weight \in Nat
        /\ (average - value) \div Weight < average - value
    BY <1>1, <2>1, QuotientSmaller, SyncAssumption
  <2> QED
    BY <1>1, <2>1, <2>2 DEF Approach
<1>2. CASE ~(value < average)
  <2>1. value - average \in Nat
    BY <1>2
  <2>2. (value - average) \div Weight \in Nat
    BY <2>1, QuotientSmaller, SyncAssumption
  <2> QED
    BY <1>2, <2>2 DEF Approach
<1> QED
  BY <1>1, <1>2

-----------------------------------------------------------------------------
(* What a measurement does to the count, the budget and the average.         *)
LEMMA ConvertKeeps ==
  ASSUME BudgetInv, NEW d \in Deviations, NEW average \in Nat \ {0},
         ConvertNativeToLocal(d, average),
         steady' \subseteq Deviations,
         nativeFreq' \in Frequencies, hpcFreq' \in Frequencies,
         owner' \in {"application", "now"}, bUseHpc' \in BOOLEAN,
         lastHpcFreq' \in Frequencies \cup {0}
  PROVE  BudgetInv'
<1> DEFINE square == IF m_events = 0 THEN 0 ELSE d
           ok == Inlier(square, average)
<1> USE SyncAssumption
<1>1. square \in Nat
  OBVIOUS
<1>2. /\ m_outlierBudget' = Budget(ok)
      /\ m_avgDeviationSquare' = IF ok THEN Average(average, square) ELSE average
      /\ m_events' = (m_events + 1) % EventModulus
      /\ Remember(d, ok)
  BY DEF ConvertNativeToLocal
<1>3. ok => /\ m_outlierBudget' = AtMost(Cap, m_outlierBudget + 1)
             /\ debt' = AtLeast(0, debt - 1)
  BY <1>2 DEF Budget, Remember
<1>4. ~ok => m_outlierBudget' = m_outlierBudget - 2 /\ debt' = debt + 2
  BY <1>2 DEF Budget, Remember
<1>5. ok \in BOOLEAN /\ (m_outlierBudget < 0 => ok)
  BY DEF Inlier
<1> HIDE DEF ok
<1>6. m_events' \in 0 .. EventModulus - 1
  BY <1>2 DEF BudgetInv, SyncTypeOK
<1>7. m_avgDeviationSquare' \in Nat \ {0}
  <2>1. Average(average, square) \in Nat \ {0}
    BY <1>1, ApproachPositive DEF Average
  <2> QED
    BY <1>2, <2>1
<1>8. /\ treated \in 0 .. WarmUp /\ debt \in Nat /\ m_outlierBudget \in Int
      /\ m_outlierBudget <= Cap /\ debt + m_outlierBudget <= Cap
      /\ debt <= Cap + 2
      /\ treated < WarmUp => m_outlierBudget = treated - WarmUp /\ debt = 0
      /\ treated = WarmUp => m_outlierBudget >= -2
  BY DEF BudgetInv, SyncTypeOK, WarmUpAccepts, RejectionsPaidFor
<1>9. treated' \in 0 .. WarmUp /\ (treated' < WarmUp => treated < WarmUp /\ treated' = treated + 1)
  BY <1>2, <1>8 DEF Remember, AtMost
<1>10. accepted' = ok /\ offered' = d
  BY <1>2 DEF Remember
<1>11. CASE ok
  <2>1. m_outlierBudget' = IF m_outlierBudget + 1 < Cap THEN m_outlierBudget + 1 ELSE Cap
    BY <1>3, <1>11 DEF AtMost
  <2>2. debt' = IF debt - 1 > 0 THEN debt - 1 ELSE 0
    BY <1>3, <1>11 DEF AtLeast
  <2>3. treated' = IF treated + 1 < WarmUp THEN treated + 1 ELSE WarmUp
    BY <1>2 DEF Remember, AtMost
  <2>4. /\ m_outlierBudget' \in Int /\ debt' \in Nat
        /\ m_outlierBudget' <= Cap /\ debt' + m_outlierBudget' <= Cap
        /\ debt' <= Cap + 2
    BY <2>1, <2>2, <1>8
  <2>5. treated' < WarmUp => m_outlierBudget' = treated' - WarmUp /\ debt' = 0
    BY <2>1, <2>2, <2>3, <1>8
  <2>6. treated' = WarmUp => m_outlierBudget' >= -2
    BY <2>1, <2>3, <1>8
  <2> QED
    BY <1>6, <1>7, <1>9, <1>10, <1>11, <2>4, <2>5, <2>6
    DEF BudgetInv, SyncTypeOK, WarmUpAccepts, RejectionsPaidFor
<1>12. CASE ~ok
  <2>1. m_outlierBudget >= 0 /\ treated = WarmUp
    BY <1>5, <1>12, <1>8
  <2>2. m_outlierBudget' = m_outlierBudget - 2 /\ debt' = debt + 2
    BY <1>4, <1>12
  <2>3. treated' = WarmUp
    BY <1>2, <2>1 DEF Remember, AtMost
  <2> QED
    BY <1>5, <1>6, <1>7, <1>8, <1>10, <2>1, <2>2, <2>3
    DEF BudgetInv, SyncTypeOK, WarmUpAccepts, RejectionsPaidFor
<1> QED
  BY <1>5, <1>11, <1>12

(* now() has told the estimate the frequency it last read.                   *)
NowInv ==
  owner = "now" /\ m_events > 0 => nativeFreq = lastHpcFreq

LEMMA BudgetInit == Init => BudgetInv /\ NowInv
BY SyncAssumption
DEF Init, BudgetInv, SyncTypeOK, WarmUpAccepts, RejectionsPaidFor, NowInv

LEMMA BudgetStep == BudgetInv /\ [Next]_vars => BudgetInv'
<1> SUFFICES ASSUME BudgetInv, [Next]_vars PROVE BudgetInv'
  OBVIOUS
<1>0. /\ m_avgDeviationSquare \in Nat \ {0} /\ InitialSquare \in Nat \ {0}
      /\ nativeFreq \in Frequencies /\ hpcFreq \in Frequencies
      /\ owner \in {"application", "now"} /\ bUseHpc \in BOOLEAN
      /\ lastHpcFreq \in Frequencies \cup {0} /\ steady \subseteq Deviations
  BY SyncAssumption DEF BudgetInv, SyncTypeOK
<1>1. ASSUME NEW d \in Deviations, Convert(d) PROVE BudgetInv'
  <2>1. ConvertNativeToLocal(d, m_avgDeviationSquare)
    BY <1>1 DEF Convert
  <2>2. /\ steady' \subseteq Deviations
        /\ UNCHANGED <<nativeFreq, owner, bUseHpc, lastHpcFreq, hpcFreq>>
    BY <1>0, <1>1 DEF Convert, nowVars
  <2> QED
    BY <1>0, <2>1, <2>2, ConvertKeeps
<1>2. ASSUME NEW d \in Deviations, NowInitialise(d) PROVE BudgetInv'
  <2>1. ConvertNativeToLocal(d, InitialSquare)
    BY <1>2 DEF NowInitialise
  <2>2. /\ steady' \subseteq Deviations
        /\ nativeFreq' = hpcFreq /\ lastHpcFreq' = hpcFreq
        /\ UNCHANGED <<owner, bUseHpc, hpcFreq>>
    BY <1>0, <1>2 DEF NowInitialise
  <2> QED
    BY <1>0, <2>1, <2>2, ConvertKeeps
<1>3. ASSUME NEW d \in Deviations, NowConvert(d) PROVE BudgetInv'
  <2>1. ConvertNativeToLocal(d, m_avgDeviationSquare)
    BY <1>3 DEF NowConvert
  <2>2. /\ steady' \subseteq Deviations
        /\ UNCHANGED <<nativeFreq, owner, bUseHpc, lastHpcFreq, hpcFreq>>
    BY <1>0, <1>3 DEF NowConvert, nowVars
  <2> QED
    BY <1>0, <2>1, <2>2, ConvertKeeps
<1>4. ASSUME NEW f \in Frequencies, SetFrequency(f) PROVE BudgetInv'
  BY <1>0, <1>4 DEF SetFrequency, nowVars, BudgetInv, SyncTypeOK, WarmUpAccepts, RejectionsPaidFor
<1>5. CASE NowGivesUp
  BY <1>5 DEF NowGivesUp, syncVars, historyVars, BudgetInv, SyncTypeOK,
              WarmUpAccepts, RejectionsPaidFor
<1>6. CASE FrequencyChanges
  BY <1>6 DEF FrequencyChanges, syncVars, nowVars, historyVars, BudgetInv, SyncTypeOK,
              WarmUpAccepts, RejectionsPaidFor
<1>7. CASE UNCHANGED vars
  BY <1>7 DEF vars, syncVars, nowVars, historyVars, BudgetInv, SyncTypeOK,
              WarmUpAccepts, RejectionsPaidFor
<1> QED
  BY <1>1, <1>2, <1>3, <1>4, <1>5, <1>6, <1>7 DEF Next, Measure

(* The budget for outliers, whatever is measured: no measurement of the      *)
(* warming up is rejected, and afterwards no stretch of measurements has     *)
(* more rejections than it has paid for.                                     *)
THEOREM OutliersPaidFor == Spec => []BudgetInv
<1>1. Init => BudgetInv
  BY BudgetInit
<1> QED
  BY <1>1, BudgetStep, PTL DEF Spec

-----------------------------------------------------------------------------
LEMMA NowStep == NowInv /\ [Next]_vars => NowInv'
<1> SUFFICES ASSUME NowInv, [Next]_vars PROVE NowInv'
  OBVIOUS
<1> USE DEF NowInv
<1>1. ASSUME NEW d \in Deviations, Convert(d) PROVE NowInv'
  BY <1>1 DEF Convert
<1>2. ASSUME NEW d \in Deviations, NowInitialise(d) PROVE NowInv'
  BY <1>2 DEF NowInitialise
<1>3. ASSUME NEW d \in Deviations, NowConvert(d) PROVE NowInv'
  BY <1>3 DEF NowConvert, nowVars
<1>4. ASSUME NEW f \in Frequencies, SetFrequency(f) PROVE NowInv'
  BY <1>4 DEF SetFrequency
<1>5. CASE NowGivesUp
  BY <1>5 DEF NowGivesUp, syncVars
<1>6. CASE FrequencyChanges
  BY <1>6 DEF FrequencyChanges, syncVars, nowVars
<1>7. CASE UNCHANGED vars
  BY <1>7 DEF vars, syncVars, nowVars
<1> QED
  BY <1>1, <1>2, <1>3, <1>4, <1>5, <1>6, <1>7 DEF Next, Measure

(* now() converts ticks only with the frequency that the counter has at that *)
(* moment, also after the count of events has wrapped.                       *)
THEOREM TicksConvertedRight == Spec => ConstantFrequency
<1> DEFINE Right == owner = "now" /\ m_events' # m_events => nativeFreq' = hpcFreq
<1>1. Init => NowInv
  BY BudgetInit
<1>2. NowInv /\ [Next]_vars => [Right]_vars
  <2> SUFFICES ASSUME NowInv, Next, owner = "now", m_events' # m_events
               PROVE  nativeFreq' = hpcFreq
    OBVIOUS
  <2>1. ASSUME NEW d \in Deviations, NowInitialise(d) PROVE nativeFreq' = hpcFreq
    BY <2>1 DEF NowInitialise
  <2>2. ASSUME NEW d \in Deviations, NowConvert(d) PROVE nativeFreq' = hpcFreq
    BY <2>2 DEF NowConvert, NowInv
  <2> QED
    BY <2>1, <2>2
    DEF Next, Measure, Convert, SetFrequency, NowGivesUp, FrequencyChanges, syncVars
<1> QED
  BY <1>1, <1>2, NowStep, PTL DEF Spec, ConstantFrequency

-----------------------------------------------------------------------------
LEMMA QuotientGrows ==
  ASSUME NEW x \in Nat, NEW y \in Nat, x <= y, NEW w \in Nat, w >= 2
  PROVE  x \div w <= y \div w
<1> DEFINE p == x \div w
           q == y \div w
<1>1. p \in Int /\ q \in Int /\ w * p <= x /\ y < w * q + w
  OBVIOUS
<1> HIDE DEF p, q
<1>2. SUFFICES ASSUME p >= q + 1 PROVE FALSE
  BY <1>1 DEF p, q
<1>3. w * p >= w * (q + 1) /\ w * (q + 1) = w * q + w
  BY <1>1, <1>2
<1>4. QED BY <1>1, <1>3

(* What an accepted deviation does to an average: one that takes it for an   *)
(* inlier goes on to, another one comes nearer.                              *)
LEMMA ApproachLearns ==
  ASSUME NEW average \in Nat \ {0}, NEW d \in Nat
  PROVE  /\ d < 9 * average => d < 9 * Approach(average, d)
         /\ ~(d < 9 * average) => Approach(average, d) >= average + Gain(d)
<1>0. Weight \in Nat /\ Weight >= 2
  BY SyncAssumption
<1>1. CASE d < average
  <2>1. average - d \in Nat
    BY <1>1
  <2>2. (average - d) \div Weight \in Nat /\ (average - d) \div Weight <= average - d
    BY <1>0, <2>1, QuotientSmaller
  <2>3. Approach(average, d) >= d
    BY <1>1, <2>2 DEF Approach
  <2>4. Approach(average, d) \in Nat \ {0}
    BY ApproachPositive
  <2>5. QED BY <1>1, <2>3, <2>4
<1>2. CASE ~(d < average)
  <2>1. d - average \in Nat
    BY <1>2
  <2>2. (d - average) \div Weight \in Nat
    BY <1>0, <2>1, QuotientSmaller
  <2>3. Approach(average, d) = average + ((d - average) \div Weight)
    BY <1>2 DEF Approach
  <2>4. d < 9 * average => d < 9 * Approach(average, d)
    BY <2>2, <2>3
  <2>5. ASSUME ~(d < 9 * average) PROVE (d - average) \div Weight >= Gain(d)
    <3>1. d \div 9 \in Nat /\ average <= d \div 9 /\ d \div 9 <= d
      BY <2>5
    <3>2. d - (d \div 9) \in Nat /\ d - (d \div 9) <= d - average
      <4> DEFINE n == d \div 9
      <4>1. n \in Nat /\ average <= n /\ n <= d
        BY <3>1
      <4> HIDE DEF n
      <4>2. d - n \in Nat /\ d - n <= d - average
        BY <4>1
      <4>3. QED BY <4>2 DEF n
    <3>3. QED BY <1>0, <2>1, <3>2, QuotientGrows DEF Gain
  <2>6. Gain(d) \in Int
    BY <1>0 DEF Gain
  <2>7. QED BY <2>2, <2>3, <2>4, <2>5, <2>6
<1>3. QED BY <1>1, <1>2

(* How far the average has come to the deviation that every measurement had. *)
Learns(d) ==
  \/ d < 9 * m_avgDeviationSquare
  \/ /\ treated < WarmUp
     /\ m_avgDeviationSquare >= InitialSquare + AtLeast(0, treated - 1 - Settle) * Gain(d)

SteadyInv ==
  /\ treated = 0 => m_avgDeviationSquare = InitialSquare /\ m_events = 0
  /\ steady # {} => accepted /\ (treated < WarmUp => m_events = treated)
  /\ \A d \in steady : Learns(d)

LEMMA SteadyInit == Init => SteadyInv
<1> SUFFICES ASSUME Init PROVE SteadyInv
  OBVIOUS
<1>1. /\ treated = 0 /\ m_avgDeviationSquare = InitialSquare /\ m_events = 0
      /\ accepted /\ steady = Deviations
  BY DEF Init
<1>2. ASSUME NEW d \in Deviations PROVE Learns(d)
  <2>1. d \in Nat /\ InitialSquare \in Nat /\ Settle \in Nat /\ WarmUp \in Nat
    BY SyncAssumption
  <2>2. Gain(d) \in Int
    BY <2>1, SyncAssumption DEF Gain
  <2>3. AtLeast(0, treated - 1 - Settle) = 0
    BY <1>1, <2>1 DEF AtLeast
  <2>4. QED BY <1>1, <2>1, <2>2, <2>3, LearnAssumption DEF Learns
<1>3. QED BY <1>1, <1>2 DEF SteadyInv

(* A measurement of the deviation that all of them have.                     *)
LEMMA ConvertLearns ==
  ASSUME BudgetInv, SteadyInv, NEW d \in steady, ConvertNativeToLocal(d, m_avgDeviationSquare)
  PROVE  /\ accepted' /\ treated' # 0
         /\ treated' < WarmUp => m_events' = treated'
         /\ Learns(d)'
<1> DEFINE square == IF m_events = 0 THEN 0 ELSE d
           average == m_avgDeviationSquare
           ok == Inlier(square, average)
<1>1. /\ m_avgDeviationSquare' = IF ok THEN Average(average, square) ELSE average
      /\ m_events' = (m_events + 1) % EventModulus
      /\ accepted' = ok /\ treated' = AtMost(WarmUp, treated + 1)
  BY DEF ConvertNativeToLocal, Remember
<1>2. /\ m_events \in 0 .. EventModulus - 1 /\ m_outlierBudget \in Int
      /\ average \in Nat \ {0} /\ treated \in 0 .. WarmUp /\ d \in Nat
      /\ treated < WarmUp => m_outlierBudget < 0 /\ m_events = treated
      /\ WarmUp \in Nat \ {0} /\ Settle \in Nat /\ InitialSquare \in Nat
  BY SyncAssumption, LearnAssumption DEF BudgetInv, SyncTypeOK, SteadyInv
<1>3. Learns(d)
  BY DEF SteadyInv
<1>4. ok
  <2>1. CASE treated < WarmUp
    BY <1>2, <2>1 DEF Inlier
  <2>2. CASE ~(treated < WarmUp)
    <3>1. d < 9 * average
      BY <1>3, <2>2 DEF Learns
    <3>2. square < 9 * average
      BY <1>2, <3>1
    <3>3. QED BY <3>2 DEF Inlier
  <2>3. QED BY <2>1, <2>2
<1> HIDE DEF ok
<1>5. /\ m_events > Settle => m_avgDeviationSquare' = Approach(average, d)
      /\ ~(m_events > Settle) => m_avgDeviationSquare' = average
  BY <1>1, <1>2, <1>4 DEF Average
<1>6. /\ treated < WarmUp => treated' = treated + 1
      /\ ~(treated < WarmUp) => treated' = WarmUp
  BY <1>1, <1>2 DEF AtMost
<1> HIDE DEF average
<1>7. treated' < WarmUp => m_events' = treated'
  <2> SUFFICES ASSUME treated' < WarmUp PROVE m_events' = treated'
    OBVIOUS
  <2>1. treated < WarmUp /\ treated' = treated + 1 /\ m_events = treated
    BY <1>2, <1>6
  <2>2. m_events + 1 < EventModulus /\ EventModulus \in Nat
    BY <1>2, <2>1, LearnAssumption, SyncAssumption
  <2>3. (m_events + 1) % EventModulus = m_events + 1
    BY <1>2, <2>2
  <2>4. QED BY <1>1, <2>1, <2>3
<1>8. m_avgDeviationSquare' \in Nat \ {0} /\ Gain(d) \in Int
  <2>1. Approach(average, d) \in Nat \ {0}
    BY <1>2, ApproachPositive
  <2>2. QED BY <1>2, <1>5, <2>1, SyncAssumption DEF Gain
<1>9. Learns(d)'
  <2>1. CASE d < 9 * average
    <3>1. d < 9 * m_avgDeviationSquare'
      BY <1>2, <1>5, <2>1, ApproachLearns
    <3>2. QED BY <3>1 DEF Learns
  <2>2. CASE ~(d < 9 * average)
    <3> DEFINE n == AtLeast(0, treated - 1 - Settle)
               m == AtLeast(0, treated - Settle)
               g == Gain(d)
    <3>1. treated < WarmUp /\ average >= InitialSquare + n * g /\ m_events = treated
      BY <1>2, <1>3, <2>2 DEF Learns, average
    <3>2. m_avgDeviationSquare' >= InitialSquare + m * g
      <4>1. CASE m_events > Settle
        <5>1. m = n + 1 /\ n \in Nat /\ m \in Nat
          BY <1>2, <3>1, <4>1 DEF AtLeast
        <5>2. m_avgDeviationSquare' >= average + g
          BY <1>2, <1>5, <2>2, <4>1, ApproachLearns
        <5> HIDE DEF n, m, g
        <5>3. n * g \in Int /\ g \in Int /\ m * g = n * g + g
          BY <1>8, <5>1 DEF g
        <5>4. QED BY <1>2, <1>8, <3>1, <5>2, <5>3
      <4>2. CASE ~(m_events > Settle)
        <5>1. m = 0 /\ n = 0
          BY <1>2, <3>1, <4>2 DEF AtLeast
        <5>2. QED BY <1>5, <3>1, <4>2, <5>1
      <4>3. QED BY <4>1, <4>2
    <3>3. treated' = treated + 1 /\ treated' - 1 - Settle = treated - Settle
      BY <1>2, <1>6, <3>1
    <3>4. CASE treated' < WarmUp
      BY <3>2, <3>3, <3>4 DEF Learns
    <3>5. CASE ~(treated' < WarmUp)
      <4>1. m = LearnSteps
        BY <1>2, <3>1, <3>3, <3>5 DEF LearnSteps
      <4>2. d < 9 * (InitialSquare + m * g)
        BY <4>1, LearnAssumption DEF BudgetInv, SyncTypeOK
      <4>3. m * g \in Int
        BY <1>2, <1>8 DEF AtLeast
      <4> HIDE DEF m, g, n
      <4> DEFINE k == m * g
      <4>4. d < 9 * m_avgDeviationSquare'
        <5>1. k \in Int /\ d < 9 * (InitialSquare + k) /\ m_avgDeviationSquare' >= InitialSquare + k
          BY <3>2, <4>2, <4>3
        <5> HIDE DEF k
        <5>2. \A a, b, c, e \in Int : e < 9 * (a + b) /\ c >= a + b => e < 9 * c
          OBVIOUS
        <5>3. m_avgDeviationSquare' \in Int /\ InitialSquare \in Int /\ d \in Int
          BY <1>2, <1>8
        <5>4. QED BY <5>1, <5>2, <5>3
      <4>5. QED BY <4>4 DEF Learns
    <3>6. QED BY <3>4, <3>5
  <2>3. QED BY <2>1, <2>2
<1>10. QED BY <1>1, <1>2, <1>4, <1>6, <1>7, <1>9

LEMMA SteadyStep == BudgetInv /\ SteadyInv /\ [Next]_vars => SteadyInv'
<1> SUFFICES ASSUME BudgetInv, SteadyInv, [Next]_vars PROVE SteadyInv'
  OBVIOUS
<1>0. treated \in Nat /\ WarmUp \in Nat /\ WarmUp > 0
  BY LearnAssumption, SyncAssumption DEF BudgetInv, SyncTypeOK
<1>1. ASSUME NEW d \in Deviations, ConvertNativeToLocal(d, m_avgDeviationSquare),
             steady' = steady \cap {d}
      PROVE  SteadyInv'
  <2>1. CASE d \in steady
    <3>1. /\ accepted' /\ treated' # 0
          /\ treated' < WarmUp => m_events' = treated'
          /\ Learns(d)'
      BY <1>1, <2>1, ConvertLearns
    <3>2. steady' = {d}
      BY <1>1, <2>1
    <3>3. \A e \in steady' : Learns(e)'
      BY <3>1, <3>2 DEF Learns
    <3>4. QED BY <3>1, <3>3 DEF SteadyInv
  <2>2. CASE d \notin steady
    <3>1. steady' = {}
      BY <1>1, <2>2
    <3>2. treated' # 0
      BY <1>1, <1>0 DEF ConvertNativeToLocal, Remember, AtMost
    <3>3. QED BY <3>1, <3>2 DEF SteadyInv
  <2>3. QED BY <2>1, <2>2
<1>2. ASSUME NEW d \in Deviations, Convert(d) PROVE SteadyInv'
  BY <1>1, <1>2 DEF Convert
<1>3. ASSUME NEW d \in Deviations, NowInitialise(d) PROVE SteadyInv'
  <2>1. CASE treated = 0
    <3>1. m_avgDeviationSquare = InitialSquare
      BY <2>1 DEF SteadyInv
    <3>2. ConvertNativeToLocal(d, m_avgDeviationSquare) /\ steady' = steady \cap {d}
      BY <1>3, <2>1, <3>1 DEF NowInitialise
    <3>3. QED BY <1>1, <3>2
  <2>2. CASE treated # 0
    <3>1. steady' = {} /\ treated' # 0
      BY <1>0, <1>3, <2>2 DEF NowInitialise, ConvertNativeToLocal, Remember, AtMost
    <3>2. QED BY <3>1 DEF SteadyInv
  <2>3. QED BY <2>1, <2>2
<1>4. ASSUME NEW d \in Deviations, NowConvert(d) PROVE SteadyInv'
  BY <1>1, <1>4 DEF NowConvert
<1>5. ASSUME NEW f \in Frequencies, SetFrequency(f) PROVE SteadyInv'
  <2>1. /\ m_avgDeviationSquare' = InitialSquare /\ m_events' = m_events
        /\ treated' = treated /\ accepted' = accepted
        /\ steady' = IF treated = 0 THEN steady ELSE {}
    BY <1>5 DEF SetFrequency
  <2>2. CASE treated = 0
    BY <2>1, <2>2 DEF SteadyInv, Learns
  <2>3. CASE treated # 0
    BY <2>1, <2>3 DEF SteadyInv
  <2>4. QED BY <2>2, <2>3
<1>6. CASE NowGivesUp
  BY <1>6 DEF NowGivesUp, syncVars, historyVars, SteadyInv, Learns
<1>7. CASE FrequencyChanges
  BY <1>7 DEF FrequencyChanges, syncVars, historyVars, SteadyInv, Learns
<1>8. CASE UNCHANGED vars
  BY <1>8 DEF vars, syncVars, historyVars, SteadyInv, Learns
<1>9. QED BY <1>2, <1>3, <1>4, <1>5, <1>6, <1>7, <1>8 DEF Next, Measure

(* Noise that is the same from the beginning is no outlier, however large:   *)
(* the warming up accepts it, and the average learns it meanwhile.           *)
THEOREM SteadyNoiseAccepted == Spec => []SteadyAccepted
<1>1. SteadyInv => SteadyAccepted
  BY DEF SteadyInv, SteadyAccepted
<1>2. QED BY <1>1, BudgetInit, SteadyInit, BudgetStep, SteadyStep, PTL DEF Spec
=============================================================================
