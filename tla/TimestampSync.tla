---------------------------- MODULE TimestampSync ----------------------------
(***************************************************************************)
(* TimestampSync relates the clock of a sensor to the local one and keeps  *)
(* measurements that do not fit, the outliers, away from its estimate.     *)
(* The estimate itself is a Kalman filter in floating point; what is       *)
(* modelled is who decides over it: the count of events, the budget for    *)
(* outliers and the average deviation that makes the threshold.  The       *)
(* deviation of each measurement from the estimate is any of Deviations.   *)
(*                                                                         *)
(* One object is owned either by the application, which may call           *)
(* setFrequency whenever it likes, or by now(), which on Windows           *)
(* synchronises the performance counter with the real time clock.          *)
(***************************************************************************)
EXTENDS Integers

CONSTANTS WarmUp,         \* measurements without outlier detection (100)
          Settle,         \* the last event that leaves the average alone (50)
          Cap,            \* the most the budget can be (40)
          Weight,         \* a measurement's part in the average is 1/Weight (100)
          EventModulus,   \* values of an unsigned (2^32)
          InitialSquare,  \* the average that setFrequency assumes
          Deviations,     \* squares of the deviations, in the units of InitialSquare
          Frequencies     \* those the performance counter may run at

ASSUME SyncAssumption ==
  /\ WarmUp \in Nat /\ Settle \in Nat /\ Cap \in Nat
  /\ Weight \in Nat /\ Weight >= 2
  /\ EventModulus \in Nat /\ EventModulus > 0
  /\ InitialSquare \in Nat /\ InitialSquare > 0
  /\ Deviations \subseteq Nat

VARIABLES
  m_events, m_outlierBudget, m_avgDeviationSquare,
  nativeFreq,            \* what setFrequency was last told
  owner,                 \* "application" or "now"
  bUseHpc, lastHpcFreq,  \* the statics of now()
  hpcFreq                \* the frequency that the hardware runs at

(* What the properties remember. *)
VARIABLES
  accepted,   \* the last measurement was no outlier
  offered,    \* its deviation
  treated,    \* measurements so far, up to WarmUp
  debt,       \* the most that a stretch of measurements up to the last has
              \* of rejections, counted twice, over acceptances
  steady      \* deviations that every measurement since setFrequency had

syncVars == <<m_events, m_outlierBudget, m_avgDeviationSquare>>
nowVars == <<bUseHpc, lastHpcFreq>>
historyVars == <<accepted, offered, treated, debt, steady>>
vars == <<syncVars, nativeFreq, owner, nowVars, hpcFreq, historyVars>>

Init ==
  /\ m_events = 0
  /\ m_outlierBudget = -WarmUp
  /\ m_avgDeviationSquare = InitialSquare
  /\ owner \in {"application", "now"}
  /\ hpcFreq \in Frequencies /\ nativeFreq \in Frequencies
  /\ bUseHpc = TRUE /\ lastHpcFreq = 0
  /\ accepted = TRUE /\ offered \in Deviations
  /\ treated = 0 /\ debt = 0 /\ steady = Deviations

-----------------------------------------------------------------------------
AtMost(bound, n) == IF n < bound THEN n ELSE bound
AtLeast(bound, n) == IF n > bound THEN n ELSE bound

(* A step of the running average towards a value; the rest that is too      *)
(* small for it is lost, as it is in floating point.                        *)
Approach(average, value) ==
  IF value < average THEN average - ((average - value) \div Weight)
                     ELSE average + ((value - average) \div Weight)

(* How often the average moves before an outlier can be told, and how much   *)
(* nearer it comes to a deviation of which it is not yet a ninth.            *)
LearnSteps == AtLeast(0, WarmUp - 1 - Settle)
Gain(d) == (d - (d \div 9)) \div Weight

(* The warming up is long enough for the average to learn any deviation: the *)
(* 49 steps of the code, each of a hundredth of at least 8/9, sum up to more *)
(* than the ninth that is enough; and the count does not wrap meanwhile.     *)
ASSUME LearnAssumption ==
  /\ 0 < WarmUp /\ WarmUp < EventModulus
  /\ \A d \in Deviations : d < 9 * (InitialSquare + LearnSteps * Gain(d))

(* FaultBudget has no upper bound, FaultAverage keeps the average until the  *)
(* warming up is over: plausible mistakes for the checks to find, not part   *)
(* of the specification.                                                     *)
FaultBudget(ok) == IF ok THEN m_outlierBudget + 1 ELSE m_outlierBudget - 2

FaultAverage(average, square) ==
  IF m_events > WarmUp THEN Approach(average, square) ELSE average

(* FaultThreshold lets only what is within the threshold change it.          *)
FaultThreshold(average, square) ==
  IF m_events > Settle /\ square < 9 * average
    THEN Approach(average, square) ELSE average

-----------------------------------------------------------------------------
(* Within three standard deviations, or while the budget is overdrawn. *)
Inlier(square, average) == square < 9 * average \/ m_outlierBudget < 0

Budget(ok) == IF ok THEN AtMost(Cap, m_outlierBudget + 1) ELSE m_outlierBudget - 2

Average(average, square) ==
  IF m_events > Settle THEN Approach(average, square) ELSE average

Remember(d, ok) ==
  /\ accepted' = ok
  /\ offered' = d
  /\ treated' = AtMost(WarmUp, treated + 1)
  /\ debt' = IF ok THEN AtLeast(0, debt - 1) ELSE debt + 2

(* convertNativeToLocal, with the average that it finds; the first event     *)
(* makes the estimate agree with the local clock.                            *)
ConvertNativeToLocal(d, average) ==
  LET square == IF m_events = 0 THEN 0 ELSE d
      ok == Inlier(square, average)
  IN
  /\ m_outlierBudget' = Budget(ok)
  /\ m_avgDeviationSquare' = IF ok THEN Average(average, square) ELSE average
  /\ m_events' = (m_events + 1) % EventModulus
  /\ Remember(d, ok)

(* The application converts a timestamp. *)
Convert(d) ==
  /\ owner = "application"
  /\ ConvertNativeToLocal(d, m_avgDeviationSquare)
  /\ steady' = steady \cap {d}
  /\ UNCHANGED <<nativeFreq, owner, nowVars, hpcFreq>>

(* setFrequency begins a new average; the budget stays. *)
SetFrequency(f) ==
  /\ owner = "application"
  /\ nativeFreq' = f
  /\ m_avgDeviationSquare' = InitialSquare
  /\ steady' = IF treated = 0 THEN steady ELSE {}
  /\ UNCHANGED <<m_events, m_outlierBudget, owner, nowVars, hpcFreq,
                 accepted, offered, treated, debt>>

-----------------------------------------------------------------------------
(* FaultNowTrusts is now() without its check of the counter's frequency. *)
FaultNowTrusts(d) ==
  /\ owner = "now" /\ bUseHpc /\ m_events > 0
  /\ ConvertNativeToLocal(d, m_avgDeviationSquare)
  /\ steady' = steady \cap {d}
  /\ UNCHANGED <<nativeFreq, owner, nowVars, hpcFreq>>

(* now(): the first event defines the frequency ... *)
NowInitialise(d) ==
  /\ owner = "now" /\ bUseHpc /\ m_events = 0
  /\ nativeFreq' = hpcFreq
  /\ lastHpcFreq' = hpcFreq
  /\ ConvertNativeToLocal(d, InitialSquare)
  /\ steady' = IF treated = 0 THEN steady \cap {d} ELSE {}
  /\ UNCHANGED <<owner, bUseHpc, hpcFreq>>

(* ... later ones rely on it ... *)
NowConvert(d) ==
  /\ owner = "now" /\ bUseHpc /\ m_events > 0
  /\ hpcFreq = lastHpcFreq
  /\ ConvertNativeToLocal(d, m_avgDeviationSquare)
  /\ steady' = steady \cap {d}
  /\ UNCHANGED <<nativeFreq, owner, nowVars, hpcFreq>>

(* ... or give the counter up for ever. *)
NowGivesUp ==
  /\ owner = "now" /\ bUseHpc /\ m_events > 0
  /\ hpcFreq # lastHpcFreq
  /\ bUseHpc' = FALSE
  /\ UNCHANGED <<syncVars, nativeFreq, owner, lastHpcFreq, hpcFreq, historyVars>>

(* The processor changes its speed. *)
FrequencyChanges ==
  /\ owner = "now"
  /\ hpcFreq' \in Frequencies \ {hpcFreq}
  /\ UNCHANGED <<syncVars, nativeFreq, owner, nowVars, historyVars>>

-----------------------------------------------------------------------------
Measure == \E d \in Deviations : Convert(d) \/ NowInitialise(d) \/ NowConvert(d)

Next ==
  \/ Measure
  \/ \E f \in Frequencies : SetFrequency(f)
  \/ NowGivesUp
  \/ FrequencyChanges

Spec == Init /\ [][Next]_vars

(* The sensor goes on delivering; who calls setFrequency all the time never  *)
(* gets an average.                                                          *)
Fairness == WF_vars(Measure)
FairSpec == Spec /\ Fairness
-----------------------------------------------------------------------------
(* Properties *)

SyncTypeOK ==
  /\ m_events \in 0 .. EventModulus - 1
  /\ m_outlierBudget \in Int
  /\ m_avgDeviationSquare \in Nat \ {0}
  /\ nativeFreq \in Frequencies /\ hpcFreq \in Frequencies
  /\ owner \in {"application", "now"}
  /\ bUseHpc \in BOOLEAN /\ lastHpcFreq \in Frequencies \cup {0}
  /\ accepted \in BOOLEAN /\ offered \in Deviations
  /\ treated \in 0 .. WarmUp /\ debt \in Nat /\ steady \subseteq Deviations

(* No measurement of the warming up is rejected.                             *)
WarmUpAccepts == treated < WarmUp => accepted /\ debt = 0

(* In any stretch of measurements, however long, the rejections counted      *)
(* twice exceed the acceptances by Cap + 2 at most: outliers are paid for,    *)
(* and no more than Cap / 2 + 1 are rejected in a row.                       *)
RejectionsPaidFor == debt <= Cap + 2

(* What both rest on: the budget is WarmUp below zero at first, and later    *)
(* what it falls short of its bound is at least the debt; it is overdrawn    *)
(* by the last rejection only.                                               *)
BudgetInv ==
  /\ SyncTypeOK
  /\ WarmUpAccepts /\ RejectionsPaidFor
  /\ m_outlierBudget <= Cap /\ debt + m_outlierBudget <= Cap
  /\ treated < WarmUp => m_outlierBudget = treated - WarmUp
  /\ treated = WarmUp => m_outlierBudget >= -2

(* Noise that is the same from the beginning is no outlier, however large:   *)
(* the warming up is long enough for the average to learn it.  The beginning *)
(* is the last setFrequency before the first measurement; after a later one, *)
(* steady is {} and this says nothing (Recovers does).                       *)
SteadyAccepted == steady # {} => accepted

(* now() converts the counter's ticks only with the frequency it has.        *)
ConstantFrequency ==
  [][owner = "now" /\ m_events' # m_events => nativeFreq' = hpcFreq]_vars

(* A deviation that stays, after the clock has jumped, is taken for the new  *)
(* state of things in the end, unless setFrequency is called for ever.       *)
Recovers ==
  owner = "application" /\ <>[][\A f \in Frequencies : ~SetFrequency(f)]_vars
    => \A d \in Deviations : <>[](offered = d) => <>[]accepted
=============================================================================
