---------------------------- MODULE SystemStats ----------------------------
(***************************************************************************)
(* The load shown and sent while the program runs (src/SystemStats.cpp).   *)
(* Windows counts the time all processors were idle, in the kernel (idle   *)
(* included) and in programs, in unsigned counters that are read at once   *)
(* but not kept at once: the idle one can run ahead of the others by a     *)
(* little. Percentages are whole numbers.                                  *)
(***************************************************************************)
EXTENDS Integers

CONSTANTS
    Modulus,    \* 2^64
    MaxStep,    \* bound: what a counter gains between two looks
    MaxSpan,    \* bound: and all of them between two good samples
    MaxTotal,   \* bound: the sum of the load of all graphics engines
    Never       \* no sample yet, or no value

ASSUME ModulusAssumption == Modulus \in Nat \ {0}
ASSUME StepAssumption == MaxStep \in Nat /\ MaxTotal \in Nat /\ MaxSpan \in Nat
ASSUME NoWrapAssumption == 2 * MaxSpan < Modulus
ASSUME NeverAssumption == Never \notin Int

VARIABLES
    counters,   \* what GetSystemTimes would answer
    baseline,   \* prevIdle, prevKernel, prevUser, or Never before
    gpuAvailable,
    snapshot,   \* the last SystemSnapshot
    (* history variables *)
    span,       \* what passed since the last sample that was answered
    measured    \* what had passed at the last sample, Never if not answered

statsVars == <<counters, baseline, gpuAvailable, snapshot, span, measured>>

Counters == [idle : 0..(Modulus - 1), kernel : 0..(Modulus - 1), user : 0..(Modulus - 1)]
NoSpan == [idle |-> 0, total |-> 0]

(* The constructor of Impl: the counter of the graphics exists or not.     *)
StatsInit ==
    /\ counters \in Counters
    /\ baseline = Never
    /\ gpuAvailable \in BOOLEAN
    /\ snapshot = [cpu |-> 0, ram |-> 0, gpu |-> Never]
    /\ span = NoSpan /\ measured = Never

TimePasses(idle, kernel, user) ==
    /\ span.total + kernel + user <= MaxSpan /\ span.idle + idle <= MaxSpan
    /\ counters' = [idle |-> (counters.idle + idle) % Modulus,
                    kernel |-> (counters.kernel + kernel) % Modulus,
                    user |-> (counters.user + user) % Modulus]
    /\ span' = [idle |-> span.idle + idle, total |-> span.total + kernel + user]
    /\ UNCHANGED <<baseline, gpuAvailable, snapshot, measured>>

-----------------------------------------------------------------------------
(* Subtraction of unsigned numbers.                                        *)
Minus(a, b) == (a - b) % Modulus

Clamp(percent) == IF percent > 100 THEN 100 ELSE IF percent < 0 THEN 0 ELSE percent

(* The last lines of SampleCpu, on the three differences.                  *)
Percent(idle, kernel, user) ==
    LET total == (kernel + user) % Modulus
    IN  IF total = 0 THEN 0 ELSE Clamp((Minus(total, idle) * 100) \div total)

(* Mutant: the kernel's time is taken for one without the idle time.       *)
SampleCpuIdleApart(prev, now) ==
    LET idle == Minus(now.idle, prev.idle)
    IN  Percent(idle, (Minus(now.kernel, prev.kernel) + idle) % Modulus,
                Minus(now.user, prev.user))

SampleCpu(prev, now) ==
    Percent(Minus(now.idle, prev.idle), Minus(now.kernel, prev.kernel),
            Minus(now.user, prev.user))

SampleRam(load) == load

(* The sum of all engines; none when no engine was there to answer.        *)
SampleGpu(total) == IF total = Never \/ ~gpuAvailable THEN Never ELSE Clamp(total)

(* Sample: a GetSystemTimes that fails, or the first that does not, is a   *)
(* load of 0; so is a memory that was not read.                            *)
Sample(answered, load, total) ==
    /\ snapshot' = [cpu |-> IF answered /\ baseline # Never
                            THEN SampleCpu(baseline, counters) ELSE 0,
                    ram |-> SampleRam(load), gpu |-> SampleGpu(total)]
    /\ baseline' = IF answered THEN counters ELSE baseline
    /\ span' = IF answered THEN NoSpan ELSE span
    /\ measured' = IF answered /\ baseline # Never THEN span ELSE Never
    /\ UNCHANGED <<counters, gpuAvailable>>

StatsNext ==
    \/ \E idle, kernel, user \in 0..MaxStep : TimePasses(idle, kernel, user)
    \/ \E answered \in BOOLEAN, load \in {0, 100}, total \in {Never, 0, MaxTotal} :
          Sample(answered, load, total)

StatsSpec == StatsInit /\ [][StatsNext]_statsVars

-----------------------------------------------------------------------------
Span == [idle : 0..MaxSpan, total : 0..MaxSpan]
Load == 0..100

(* Every variable has its type: in particular, whatever the counters do,   *)
(* a load is a percentage.                                                 *)
StatsTypeOK ==
    /\ counters \in Counters /\ baseline \in Counters \cup {Never}
    /\ gpuAvailable \in BOOLEAN
    /\ snapshot \in [cpu : Load, ram : Load, gpu : Load \cup {Never}]
    /\ span \in Span /\ measured \in Span \cup {Never}

(* What passed since the baseline is the difference of the counters, also  *)
(* when one of them has wrapped in between.                                *)
BaselineBehind ==
    baseline # Never =>
        /\ Minus(counters.idle, baseline.idle) = span.idle
        /\ (Minus(counters.kernel, baseline.kernel) + Minus(counters.user, baseline.user))
              % Modulus = span.total

(* The processor's load is the share of the time since the sample before   *)
(* that was not idle, over failed samples and wrapped counters. Where the  *)
(* idle counter has run ahead of all the others, the difference of the     *)
(* unsigned numbers is a huge one, and the load of an idle machine 100.     *)
PercentIsHonest ==
    measured # Never =>
        snapshot.cpu =
            IF measured.total = 0 THEN 0
            ELSE IF measured.idle <= measured.total
                 THEN ((measured.total - measured.idle) * 100) \div measured.total
                 ELSE 100
=============================================================================
