--------------------------- MODULE AdaptiveSampler ---------------------------
(***************************************************************************)
(* lib/adaptive-sampler.js: which transactions of a window are sampled.    *)
(*                                                                         *)
(* A transaction is sampled when its roll reaches the threshold, which is  *)
(* 1 - min(aim/seen, 1).  The threshold is kept as the pair of aim and     *)
(* seen it was computed from; rolls and aims are hundredths.  Between the  *)
(* target and twice the target the aim falls along an exponential back-off *)
(* whose values the model takes as the constant BackedOff.                 *)
(***************************************************************************)
EXTENDS Integers

CONSTANTS
    Targets,    \* sampling targets: the default one and those servers set
    BackedOff,  \* BackedOff[t][n] = 100 * (t ^ (t / n) - t ^ (1/2))
    Rolls,      \* hundredths below 100 that Math.random may lead to
    MaxSeen     \* bound: transactions of one window

ASSUME SamplerAssumption ==
    /\ Targets \subseteq Nat \ {0}
    /\ MaxSeen \in Nat
    /\ Rolls \subseteq 0 .. 99
    /\ \A t \in Targets, n \in 1 .. MaxSeen :
          /\ BackedOff[t][n] \in Int
          /\ n >= 2 * t => BackedOff[t][n] <= 0

VARIABLES
    target,   \* _samplingTarget
    seen, sampled,
    aim,      \* the threshold's numerator, in hundredths
    outOf,    \* the threshold's denominator, 0 before the first adjustment
    windows,  \* _resetCount, as far as the code tells: 0 or more
    retarget  \* the target has been set in this window

samplerVars == <<target, seen, sampled, aim, outOf, windows, retarget>>

SamplerTypeOK ==
    /\ target \in Targets
    /\ seen \in 0 .. MaxSeen /\ sampled \in 0 .. seen
    /\ aim \in Int /\ outOf \in 0 .. MaxSeen
    /\ windows \in {0, 1}
    /\ retarget \in BOOLEAN

SamplerInit ==
    /\ target \in Targets
    /\ seen = 0 /\ sampled = 0
    /\ aim = 0 /\ outOf = 0
    /\ windows = 0
    /\ retarget = FALSE

\* roll >= threshold
Reaches(roll, a, n) == n = 0 \/ a >= 100 * n \/ (100 - roll) * n <= a

\* Slip: there is no back-off.
AdjustedAimFlat(count) == 100 * target
AdjustedAim(count) == IF windows = 0 THEN 0 ELSE BackedOff[target][count]

ShouldSample(roll) ==
    /\ seen < MaxSeen
    /\ seen' = seen + 1
    /\ IF ~Reaches(roll, aim, outOf) THEN UNCHANGED <<sampled, aim, outOf>>
       ELSE /\ sampled' = sampled + 1
            /\ IF sampled' >= target
               THEN aim' = AdjustedAim(sampled') /\ outOf' = seen'
               ELSE UNCHANGED <<aim, outOf>>
    /\ UNCHANGED <<target, windows, retarget>>

\* _adjustStats, which a window without transactions leaves without effect.
Readjusted(t) ==
    IF seen = 0 THEN UNCHANGED <<aim, outOf>> ELSE aim' = 100 * t /\ outOf' = seen

\* The reset timer or, in serverless mode, a transaction past the window's end.
NextWindow ==
    /\ Readjusted(target)
    /\ seen' = 0 /\ sampled' = 0
    /\ windows' = 1
    /\ retarget' = FALSE
    /\ UNCHANGED target

SetTarget ==
    /\ \E t \in Targets : target' = t /\ Readjusted(t)
    /\ retarget' = TRUE
    /\ UNCHANGED <<seen, sampled, windows>>

SamplerNext ==
    \/ \E roll \in Rolls : ShouldSample(roll)
    \/ NextWindow
    \/ SetTarget

SamplerSpec == SamplerInit /\ [][SamplerNext]_samplerVars

-----------------------------------------------------------------------------
\* "For the first sample window we take the first 10 transactions and only the first
\* 10."
FirstOnesAreSampled ==
    windows = 0 /\ ~retarget => sampled = IF seen < target THEN seen ELSE target

\* No window samples more than twice its target, the back-off's end.
SampledIsBounded == ~retarget => sampled <= 2 * target

\* However many the last window saw, the next one is open: the greatest roll is
\* sampled until the target is reached.
WindowsAreOpen ==
    ~retarget /\ sampled < target => aim > 0 \/ outOf = 0

\* Every window samples what is expected of it.
SamplerCorrect == SamplerTypeOK /\ FirstOnesAreSampled /\ SampledIsBounded /\ WindowsAreOpen
=============================================================================
