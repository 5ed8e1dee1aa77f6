--------------------------- MODULE SamplingProofs ---------------------------
(***************************************************************************)
(* What holds of a sample for every memory, interval and bound: it is of   *)
(* the time since the last good snapshot, the emulated load has it, a      *)
(* watch that was told to end draws one line more at the most, and a       *)
(* closed terminal does end it.                                            *)
(***************************************************************************)
EXTENDS Sampling, TLAPS

-----------------------------------------------------------------------------
(* The arithmetic.                                                         *)

(* A delta is a share of a whole, even if every counter went back.         *)
LEMMA DeltaIsReading ==
  ASSUME NEW a \in CpuTimes, NEW b \in CpuTimes
  PROVE  Delta(a, b) \in Reading /\ Delta(a, b).busy <= Delta(a, b).total
<1> DEFINE d == [f \in Field |-> SaturatingSub(a[f], b[f])]
<1>1. \A f \in Field : d[f] \in Nat
  BY DEF CpuTimes, SaturatingSub
<1>2. Busy(d) \in Nat /\ Total(d) \in Nat /\ Busy(d) <= Total(d)
  <2> HIDE DEF d
  <2> QED BY <1>1 DEF Busy, Total, Field
<1>3. Delta(a, b) = [busy |-> Busy(d), total |-> Total(d)]
  BY DEF Delta
<1> HIDE DEF d
<1> QED BY <1>2, <1>3 DEF Reading

(* Nothing saturates when no counter went back.                            *)
LEMMA DeltaCounts ==
  ASSUME NEW a \in CpuTimes, NEW b \in CpuTimes, \A f \in Field : b[f] <= a[f]
  PROVE  /\ Delta(a, b).busy = Busy(a) - Busy(b)
         /\ Delta(a, b).total = Total(a) - Total(b)
<1> DEFINE d == [f \in Field |-> SaturatingSub(a[f], b[f])]
<1>1. \A f \in Field : d[f] = a[f] - b[f] /\ a[f] \in Nat /\ b[f] \in Nat
  BY DEF CpuTimes, SaturatingSub
<1>2. Busy(d) = Busy(a) - Busy(b) /\ Total(d) = Total(a) - Total(b)
  <2> HIDE DEF d
  <2> QED BY <1>1 DEF Busy, Total, Field
<1>3. Delta(a, b) = [busy |-> Busy(d), total |-> Total(d)]
  BY DEF Delta
<1> HIDE DEF d
<1> QED BY <1>2, <1>3

(* A counter goes on by one, and with it the sums it is in.                *)
LEMMA TickCounts ==
  ASSUME NEW c \in CpuTimes, NEW f \in Field
  PROVE  LET d == [c EXCEPT ![f] = @ + 1]
         IN  /\ d \in CpuTimes
             /\ \A g \in Field : c[g] <= d[g]
             /\ Busy(d) = Busy(c) + (IF f = "idle" THEN 0 ELSE 1)
             /\ Total(d) = Total(c) + 1
             /\ Busy(c) \in Nat /\ Total(c) \in Nat
<1> DEFINE d == [c EXCEPT ![f] = @ + 1]
<1>1. d \in CpuTimes /\ \A g \in Field : d[g] = IF g = f THEN c[g] + 1 ELSE c[g]
  BY DEF CpuTimes
<1>2. \A g \in Field : c[g] \in Nat
  BY DEF CpuTimes
<1> HIDE DEF d
<1>3. \A g \in Field : c[g] <= d[g]
  BY <1>1, <1>2
<1>4. /\ c["user"] \in Nat /\ c["nice"] \in Nat
      /\ c["system"] \in Nat /\ c["idle"] \in Nat
  BY <1>2 DEF Field
<1>5. /\ d["user"] = IF f = "user" THEN c["user"] + 1 ELSE c["user"]
      /\ d["nice"] = IF f = "nice" THEN c["nice"] + 1 ELSE c["nice"]
      /\ d["system"] = IF f = "system" THEN c["system"] + 1 ELSE c["system"]
      /\ d["idle"] = IF f = "idle" THEN c["idle"] + 1 ELSE c["idle"]
  BY <1>1 DEF Field
<1>6. f = "user" \/ f = "nice" \/ f = "system" \/ f = "idle"
  BY DEF Field
<1>7. /\ Busy(d) = Busy(c) + (IF f = "idle" THEN 0 ELSE 1)
      /\ Total(d) = Total(c) + 1
      /\ Busy(c) \in Nat /\ Total(c) \in Nat
  BY <1>4, <1>5, <1>6 DEF Busy, Total
<1>8. QED
  BY <1>1, <1>3, <1>7 DEF d

(* No backend reports more memory in use than there is.                    *)
LEMMA MemoryFits ==
  ASSUME platform \in {"linux", "macos", "windows"}
  PROVE  MemoryStatus \subseteq 0 .. TotalMemory
<1>1. CASE platform = "linux"
  <2>1. ASSUME NEW m \in MemInfo PROVE Used(m) \in 0 .. TotalMemory
    <3>1. /\ m.free \in Nat /\ m.buffers \in Nat /\ m.cached \in Nat
          /\ m.reclaimable \in Nat /\ m.shmem \in Nat
          /\ m.shmem <= m.cached /\ m.cached <= TotalMemory
          /\ TotalMemory \in Nat
      BY SamplingAssumption
    <3>2. QED
      BY <3>1 DEF Used, SaturatingSub
  <2>2. QED
    BY <1>1, <2>1 DEF MemoryStatus
<1>2. CASE platform = "macos"
  BY <1>2 DEF MemoryStatus, ActiveOrWired
<1>3. CASE platform = "windows"
  BY <1>3, SamplingAssumption DEF MemoryStatus, NotAvailable, SaturatingSub
<1>4. QED
  BY <1>1, <1>2, <1>3

-----------------------------------------------------------------------------
(* Types.                                                                  *)

(* A reading that is a share, a sample, and what happened in a window.     *)
Share    == {r \in Reading : r.busy <= r.total}
Sample   == [reading : Reading, used : 0 .. TotalMemory, load : Nat]
Happened == [busy : Nat, total : Nat, back : BOOLEAN]

(* SamplingTypeOK, the observers', and the clock of the emulator.          *)
TypeInv ==
  /\ platform \in {"linux", "macos", "windows"}
  /\ mode \in {"daemon", "watch", "once"}
  /\ terminal \in BOOLEAN
  /\ pc \in Stages \cup Ended
  /\ previous \in CpuTimes \cup {NoSnapshot}
  /\ reading \in Share
  /\ folds \in Nat /\ published \in Nat /\ lastFed \in Nat /\ due \in Nat
  /\ sample \in Sample
  /\ stop \in BOOLEAN /\ stdin \in {"open", "over"}
  /\ now \in 0 .. MaxTime
  /\ counters \in CpuTimes
  /\ resets \in 0 .. MaxResets
  /\ since \in Happened /\ truth \in Happened
  /\ span \in Nat /\ seededAt \in Nat
  /\ lastFed <= now
  /\ late \in Nat

(* The constants, and what a process starts with.                          *)
LEMMA Bounds ==
  /\ Interval \in Nat /\ TotalMemory \in Nat /\ MaxTime \in Nat
  /\ MaxResets \in Nat
  /\ Ticking \subseteq Field
BY SamplingAssumption

(* What a tick starts with is of the right type.                           *)
LEMMA NothingYet ==
  /\ NoReading \in Share
  /\ Nothing \in Happened
  /\ NoSample \in Sample
BY Bounds DEF NoReading, Nothing, NoSample, Share, Reading, Happened, Sample

(* The types hold at first.                                                *)
LEMMA TypesInitially == Init => TypeInv
<1> SUFFICES ASSUME Init PROVE TypeInv
  OBVIOUS
<1>1. counters \in CpuTimes
  BY DEF Init, CpuTimes
<1>2. pc \in Stages \cup Ended /\ terminal \in BOOLEAN
  BY DEF Init, Stages
<1>3. /\ platform \in {"linux", "macos", "windows"}
      /\ mode \in {"daemon", "watch", "once"}
      /\ previous \in CpuTimes \cup {NoSnapshot}
      /\ reading \in Share /\ sample \in Sample
      /\ since \in Happened /\ truth \in Happened
      /\ stop \in BOOLEAN /\ stdin \in {"open", "over"}
  BY NothingYet DEF Init
<1>4. /\ folds \in Nat /\ published \in Nat /\ lastFed \in Nat /\ due \in Nat
      /\ now \in 0 .. MaxTime /\ resets \in 0 .. MaxResets
      /\ span \in Nat /\ seededAt \in Nat /\ lastFed <= now /\ late \in Nat
  BY Bounds DEF Init
<1>5. QED
  BY <1>1, <1>2, <1>3, <1>4 DEF TypeInv

(* No step of the program, the machine or the person leaves them.          *)
LEMMA TypesStep == TypeInv /\ [Next]_vars => TypeInv'
<1> SUFFICES ASSUME TypeInv, [Next]_vars PROVE TypeInv'
  OBVIOUS
<1> USE Bounds, NothingYet
<1>1. CASE Baseline
  BY <1>1
  DEF Baseline, Snapshot, Fails, TypeInv, build, emulator, stdinVars, clockVars,
      Stages, Ended
<1>2. CASE Measure
  <2>1. previous # NoSnapshot => Delta(counters, previous) \in Share
    BY DeltaIsReading DEF TypeInv, Share
  <2>2. /\ previous' \in CpuTimes \cup {NoSnapshot} /\ since' \in Happened
        /\ reading' \in Share /\ truth' \in Happened
        /\ pc' \in Stages \cup Ended /\ due' \in Nat
    BY <1>2, <2>1
    DEF Measure, Snapshot, Fails, TypeInv, sampler, clockVars, Stages, Ended
  <2>3. QED
    BY <1>2, <2>2
    DEF Measure, TypeInv, build, emulator, stdinVars, clockVars
<1>3. CASE Feed
  <2>1. /\ folds' \in Nat /\ published' \in Nat
        /\ span' \in Nat /\ seededAt' \in Nat
    BY <1>3 DEF Feed, Fold, TypeInv, clockVars
  <2>2. lastFed' \in Nat /\ lastFed' <= now
    BY <1>3 DEF Feed, TypeInv
  <2>3. QED
    BY <1>3, <2>1, <2>2
    DEF Feed, TypeInv, build, sampler, stdinVars, clockVars, Stages
<1>4. CASE Collect
  <2>1. published' \in Nat
    BY <1>4 DEF Collect, Seeded, TypeInv
  <2>2. /\ sample' \in Sample
        /\ reading' \in Share
        /\ truth' \in Happened
        /\ pc' \in Stages \cup Ended
    <3>1. CASE Fails /\ Forget
      BY <3>1 DEF Forget, Fails, Stages, Ended
    <3>2. CASE /\ \E used \in MemoryStatus :
                    sample' = [reading |-> reading, used |-> used,
                               load |-> published']
               /\ pc' = "show"
               /\ UNCHANGED <<reading, truth>>
      <4>1. reading \in Reading
        BY DEF TypeInv, Share
      <4>2. sample' \in Sample
        BY <2>1, <3>2, <4>1, MemoryFits DEF TypeInv, Sample
      <4>3. QED
        BY <3>2, <4>2 DEF TypeInv, Stages
    <3>3. QED
      BY <1>4, <3>1, <3>2 DEF Collect
  <2>3. QED
    BY <1>4, <2>1, <2>2
    DEF Collect, TypeInv, build, emulator, stdinVars, clockVars
<1>5. CASE Show
  BY <1>5
  DEF Show, Forget, TypeInv, build, emulator, stdinVars, clockVars, Stages,
      Ended
<1>6. CASE Nap \/ Finish
  BY <1>6
  DEF Nap, Finish, TypeInv, build, sampler, emulator, stdinVars, clockVars,
      Stages, Ended
<1>7. CASE StdinThread \/ StdinOver
  BY <1>7
  DEF StdinThread, StdinOver, TypeInv, build, sampler, emulator, clockVars
<1>8. CASE Interrupt
  BY <1>8
  DEF Interrupt, Forget, TypeInv, build, emulator, stdinVars, clockVars, Ended
<1>9. ASSUME NEW f \in Ticking, Pass(f) PROVE TypeInv'
  <2>1. counters' \in CpuTimes
    BY <1>9, TickCounts DEF Pass, TypeInv
  <2>2. since' \in Happened
    <3>1. since.busy \in Nat /\ since.total \in Nat /\ since \in Happened
      BY DEF TypeInv, Happened
    <3>2. since' = [busy |-> IF f = "idle" THEN since.busy ELSE since.busy + 1,
                    total |-> since.total + 1, back |-> since.back]
      BY <1>9, <3>1 DEF Pass, Happened
    <3>3. QED
      BY <3>1, <3>2 DEF Happened
  <2>3. now' \in 0 .. MaxTime /\ lastFed <= now'
    BY <1>9 DEF Pass, TypeInv
  <2>4. QED
    BY <1>9, <2>1, <2>2, <2>3 DEF Pass, TypeInv, build, emulator, stdinVars
<1>10. ASSUME NEW f \in Ticking, Reset(f) PROVE TypeInv'
  <2>1. counters' \in CpuTimes
    BY <1>10 DEF Reset, TypeInv, CpuTimes
  <2>2. since' \in Happened
    BY <1>10 DEF Reset, TypeInv, Happened
  <2>3. resets' \in 0 .. MaxResets
    BY <1>10 DEF Reset, TypeInv
  <2>4. QED
    BY <1>10, <2>1, <2>2, <2>3 DEF Reset, TypeInv, build, emulator, stdinVars
<1>11. CASE UNCHANGED vars
  BY <1>11
  DEF vars, TypeInv, build, sampler, emulator, stdinVars, clockVars
<1>12. QED
  BY <1>1, <1>2, <1>3, <1>4, <1>5, <1>6, <1>7, <1>8, <1>9, <1>10, <1>11
  DEF Next, Program

(***************************************************************************)
(* In every run the share of a sample stays within the whole and the       *)
(* memory in use within the machine's (sys/mod.rs:63-72,                   *)
(* sys/linux.rs:63-119).                                                   *)
(***************************************************************************)
THEOREM SamplesInRange == Spec => []SamplingTypeOK
<1>1. TypeInv => SamplingTypeOK
  BY DEF TypeInv, SamplingTypeOK, Share, Sample
<1>2. QED
  BY <1>1, TypesInitially, TypesStep, PTL DEF Spec

-----------------------------------------------------------------------------
(* What is shown.                                                          *)

(* The counters have gone on from the last snapshot by what happened.      *)
Window ==
  previous # NoSnapshot /\ ~since.back =>
    /\ \A f \in Field : previous[f] <= counters[f]
    /\ Busy(counters) = Busy(previous) + since.busy
    /\ Total(counters) = Total(previous) + since.total

(* A reading is what happened in its window, and a sample is of it.        *)
Read ==
  /\ ~truth.back => reading.busy = truth.busy /\ reading.total = truth.total
  /\ pc = "show" => sample.reading = reading

(* The published load has every reading that was fed, and no reading is    *)
(* collected before it was.                                                *)
Fed ==
  /\ Emulates => published = folds
  /\ Emulates /\ pc = "collect" => folds > 0
  /\ Emulates /\ pc = "show" => sample.load = folds

(* The last fold was of the time up to the last reading that was fed.      *)
Decayed == folds > 0 => Emulates /\ span = lastFed - seededAt

(* The invariant that carries the two theorems about samples.              *)
SampleInv == TypeInv /\ Window /\ Read /\ Fed /\ Decayed

(* It holds before the first snapshot.                                     *)
LEMMA SampleInitially == Init => Window /\ Read /\ Fed /\ Decayed
<1>1. Init => Read
  BY DEF Init, Read, NoReading, Nothing
<1>2. Init => Fed /\ Decayed /\ Window
  BY DEF Init, Fed, Decayed, Window
<1>3. QED
  BY <1>1, <1>2

(* A snapshot starts a window, and its reading is of the one it ends.      *)
LEMMA WindowEnds ==
  ASSUME TypeInv, Window, previous # NoSnapshot, ~since.back
  PROVE  /\ Delta(counters, previous).busy = since.busy
         /\ Delta(counters, previous).total = since.total
<1>1. previous \in CpuTimes /\ counters \in CpuTimes
  BY DEF TypeInv
<1>2. \A f \in Field : previous[f] <= counters[f]
  BY DEF Window
<1>3. /\ Busy(previous) \in Nat /\ Total(previous) \in Nat
      /\ since.busy \in Nat /\ since.total \in Nat
  BY <1>1, TickCounts DEF TypeInv, Happened, Field
<1>4. QED
  BY <1>1, <1>2, <1>3, DeltaCounts DEF Window

(* A snapshot starts an empty window, time fills it, a reset spoils it.    *)
LEMMA WindowStep == TypeInv /\ Window /\ [Next]_vars => Window'
<1> SUFFICES ASSUME TypeInv, Window, [Next]_vars PROVE Window'
  OBVIOUS
<1>1. ASSUME Snapshot, UNCHANGED counters PROVE Window'
  <2>1. /\ previous' = counters' /\ counters' \in CpuTimes
        /\ since'.busy = 0 /\ since'.total = 0
    BY <1>1 DEF Snapshot, Nothing, TypeInv
  <2>2. /\ \A f \in Field : counters'[f] \in Nat
        /\ Busy(counters') \in Nat /\ Total(counters') \in Nat
    BY <2>1, TickCounts DEF CpuTimes, Field
  <2>3. QED
    BY <2>1, <2>2 DEF Window, Busy, Total
<1>2. ASSUME UNCHANGED <<previous, since, counters>> PROVE Window'
  BY <1>2 DEF Window, Busy, Total
<1>3. CASE Baseline \/ Measure
  BY <1>1, <1>2, <1>3 DEF Baseline, Measure, clockVars, sampler
<1>4. CASE \/ Feed \/ Collect \/ Show \/ Nap \/ Finish \/ StdinThread
           \/ StdinOver \/ Interrupt \/ UNCHANGED vars
  BY <1>2, <1>4
  DEF Feed, Collect, Show, Nap, Finish, StdinThread, StdinOver, Interrupt, vars,
      sampler, clockVars
<1>5. ASSUME NEW f \in Ticking, Pass(f) PROVE Window'
  <2> SUFFICES ASSUME previous # NoSnapshot, ~since.back PROVE Window'
    BY <1>5 DEF Window, Pass, TypeInv, Happened
  <2>1. counters \in CpuTimes /\ previous \in CpuTimes /\ f \in Field
    BY Bounds DEF TypeInv
  <2>2. /\ counters' \in CpuTimes
        /\ \A g \in Field : counters[g] <= counters'[g]
        /\ Busy(counters') = Busy(counters) + (IF f = "idle" THEN 0 ELSE 1)
        /\ Total(counters') = Total(counters) + 1
    BY <1>5, <2>1, TickCounts DEF Pass
  <2>3. /\ previous' = previous
        /\ since'.busy = since.busy + (IF f = "idle" THEN 0 ELSE 1)
        /\ since'.total = since.total + 1
        /\ since.busy \in Nat /\ since.total \in Nat
    BY <1>5 DEF Pass, TypeInv, Happened
  <2>4. \A g \in Field : previous[g] <= counters'[g]
    BY <2>1, <2>2 DEF Window, CpuTimes
  <2>5. Busy(previous) \in Nat /\ Total(previous) \in Nat
    BY <2>1, TickCounts
  <2>6. /\ Busy(counters') = Busy(previous) + since'.busy
        /\ Total(counters') = Total(previous) + since'.total
    BY <2>2, <2>3, <2>5 DEF Window
  <2>7. QED
    BY <2>3, <2>4, <2>6 DEF Window, Busy, Total
<1>6. ASSUME NEW f \in Ticking, Reset(f) PROVE Window'
  BY <1>6 DEF Reset, Window, TypeInv, Happened
<1>7. QED
  BY <1>3, <1>4, <1>5, <1>6 DEF Next, Program

(* A measurement reads the window it ends, and a sample takes that.        *)
LEMMA ReadStep == TypeInv /\ Window /\ Read /\ [Next]_vars => Read'
<1> SUFFICES ASSUME TypeInv, Window, Read, [Next]_vars PROVE Read'
  OBVIOUS
<1>1. ASSUME Forget, pc' # "show" PROVE Read'
  BY <1>1 DEF Forget, Read, NoReading, Nothing
<1>2. ASSUME UNCHANGED <<reading, truth>>, pc' # "show" PROVE Read'
  BY <1>2 DEF Read
<1>3. CASE Measure
  <2>1. CASE previous # NoSnapshot /\ Snapshot /\ pc' = "feed"
             /\ reading' = Delta(counters, previous) /\ truth' = since
    BY <2>1, WindowEnds DEF Read
  <2>2. QED
    BY <1>2, <1>3, <2>1 DEF Measure, Fails, sampler
<1>4. CASE Collect
  <2>1. CASE Fails /\ Forget
    BY <1>1, <2>1 DEF Fails
  <2>2. CASE sample'.reading = reading /\ UNCHANGED <<reading, truth>>
    BY <2>2 DEF Read
  <2>3. QED
    BY <1>4, <2>1, <2>2 DEF Collect
<1>5. CASE Show \/ Interrupt
  BY <1>1, <1>5 DEF Show, Interrupt
<1>6. CASE Baseline \/ Feed \/ Nap \/ Finish
  BY <1>2, <1>6 DEF Baseline, Feed, Nap, Finish, Fails, sampler
<1>7. CASE \/ StdinThread \/ StdinOver \/ UNCHANGED vars
           \/ \E f \in Ticking : Pass(f) \/ Reset(f)
  BY <1>7 DEF StdinThread, StdinOver, Pass, Reset, vars, sampler, Read
<1>8. QED
  BY <1>3, <1>4, <1>5, <1>6, <1>7 DEF Next, Program

(* A feed folds up to now, publishes it, and collect finds it published.   *)
LEMMA FedStep == TypeInv /\ Fed /\ Decayed /\ [Next]_vars => Fed' /\ Decayed'
<1> SUFFICES ASSUME TypeInv, Fed, Decayed, [Next]_vars PROVE Fed' /\ Decayed'
  OBVIOUS
<1>1. CASE Feed
  <2>1. Emulates' = Emulates
    BY <1>1 DEF Feed, Emulates, build
  <2>2. CASE Emulates
    <3>1. /\ folds' = folds + 1 /\ published' = folds' /\ folds \in Nat
          /\ pc' = "collect" /\ lastFed' = now
          /\ seededAt' = IF folds = 0 THEN now ELSE seededAt
          /\ span' = IF folds = 0 THEN 0 ELSE span + (now - lastFed)
      BY <1>1, <2>2 DEF Feed, Fold, Emulates, TypeInv
    <3>2. span' = lastFed' - seededAt'
      BY <3>1 DEF Decayed, TypeInv
    <3>3. QED
      BY <2>1, <2>2, <3>1, <3>2 DEF Fed, Decayed
  <2>3. CASE ~Emulates
    BY <1>1, <2>1, <2>3 DEF Feed, Fed, Decayed, TypeInv
  <2>4. QED
    BY <2>2, <2>3
<1>2. CASE Collect
  <2>1. Emulates => published' = folds
    BY <1>2 DEF Collect, Seeded, Fed, TypeInv
  <2>2. pc' = "show" => sample'.load = published'
    BY <1>2 DEF Collect, Fails
  <2>3. pc' # "collect"
    BY <1>2 DEF Collect, Fails
  <2>4. QED
    BY <1>2, <2>1, <2>2, <2>3
    DEF Collect, Emulates, build, emulator, Fed, Decayed
<1>3. CASE Baseline \/ Measure \/ Show \/ Nap \/ Finish \/ Interrupt
  <2>1. /\ pc' \notin {"collect", "show"}
        /\ UNCHANGED <<build, emulator, published>>
    BY <1>3 DEF Baseline, Measure, Show, Nap, Finish, Interrupt, Fails
  <2>2. QED
    BY <2>1 DEF Fed, Decayed, Emulates, build, emulator
<1>4. CASE \/ StdinThread \/ StdinOver \/ UNCHANGED vars
           \/ \E f \in Ticking : Pass(f) \/ Reset(f)
  BY <1>4
  DEF StdinThread, StdinOver, Pass, Reset, vars, Fed, Decayed, Emulates, build,
      emulator
<1>5. QED
  BY <1>1, <1>2, <1>3, <1>4 DEF Next, Program

(* The invariant holds in every run.                                       *)
LEMMA SampleAlways == Spec => []SampleInv
<1>1. Init => SampleInv
  BY TypesInitially, SampleInitially DEF SampleInv
<1>2. SampleInv /\ [Next]_vars => SampleInv'
  BY TypesStep, WindowStep, ReadStep, FedStep DEF SampleInv
<1>3. QED
  BY <1>1, <1>2, PTL DEF Spec

(***************************************************************************)
(* A sample is of all the time since the last good snapshot, however many  *)
(* ticks failed or came late in between, and the emulated load has it      *)
(* (metrics/cpu.rs:42-50, mod.rs:409, 508-520, metrics/mod.rs:64-70).      *)
(***************************************************************************)
THEOREM SampleIsOfItsWindow == Spec => []ShownIsNow
<1>1. SampleInv => ShownIsNow
  BY DEF SampleInv, Read, Fed, ShownIsNow
<1>2. QED
  BY <1>1, SampleAlways, PTL

(***************************************************************************)
(* Every moment since the first reading decays the emulated load exactly   *)
(* once (load_emulator.rs:20-24, mod.rs:506-520).                          *)
(***************************************************************************)
THEOREM LoadForgetsOnce == Spec => []LoadCountsOnce
<1>1. SampleInv => LoadCountsOnce
  BY DEF SampleInv, Decayed, LoadCountsOnce
<1>2. QED
  BY <1>1, SampleAlways, PTL

-----------------------------------------------------------------------------
(* The end of a watch.                                                     *)

(* The flag is raised by a terminal that is over, and from the line drawn  *)
(* after that the loop goes to its end.                                    *)
Asked ==
  /\ late \in {0, 1}
  /\ stop => mode = "watch" /\ terminal /\ stdin = "over"
  /\ pc \in {"finish", "finished"} => stop
  /\ late = 1 => stop /\ pc \in {"nap", "finish"} \cup Ended

(* Each step keeps it, a nap because it looks at the flag first.           *)
LEMMA AskedStep == Asked /\ [Next]_vars => Asked'
<1> SUFFICES ASSUME Asked, [Next]_vars PROVE Asked'
  OBVIOUS
<1>1. CASE Baseline \/ Measure \/ Feed \/ Collect
  BY <1>1
  DEF Baseline, Measure, Feed, Collect, Fails, Asked, Ended, build, stdinVars
<1>2. CASE Show
  BY <1>2 DEF Show, Asked, Ended, build, stdinVars
<1>3. CASE Nap \/ Finish
  BY <1>3 DEF Nap, Finish, Asked, Ended, build, stdinVars
<1>4. CASE Interrupt
  BY <1>4 DEF Interrupt, Asked, Ended, build, stdinVars
<1>5. CASE StdinThread \/ StdinOver
  BY <1>5 DEF StdinThread, StdinOver, Asked, build
<1>6. CASE UNCHANGED vars \/ \E f \in Ticking : Pass(f) \/ Reset(f)
  <2>1. UNCHANGED <<build, pc, stdinVars, late>>
    BY <1>6 DEF Pass, Reset, vars
  <2>2. QED
    BY <2>1 DEF Asked, build, stdinVars
<1>7. QED
  BY <1>1, <1>2, <1>3, <1>4, <1>5, <1>6 DEF Next, Program

(***************************************************************************)
(* A watch ends by itself only when it was told to, and draws one line     *)
(* after that at the most, whatever the interval and however late the      *)
(* samples (watch.rs:72-75, 93-107, 109-139).                              *)
(***************************************************************************)
THEOREM WatchEndsWhenAsked == Spec => []StopsWhenAsked
<1>1. Init => Asked
  BY DEF Init, Asked
<1>2. Asked => StopsWhenAsked
  BY DEF Asked, StopsWhenAsked
<1>3. QED
  BY <1>1, <1>2, AskedStep, PTL DEF Spec

-----------------------------------------------------------------------------
(* A closed terminal ends the watch.                                       *)

(* What the two threads can do: the guards of their actions.               *)
ProgramDue ==
  /\ pc \notin Ended
  /\ pc = "nap" => (mode = "watch" /\ stop) \/ now >= due
ThreadDue ==
  mode = "watch" /\ terminal /\ pc \notin Ended /\ stdin = "over" /\ ~stop

(***************************************************************************)
(* The two threads run on: WF_vars(Program) and WF_vars(StdinThread), with *)
(* the guards written out for ENABLED.                                     *)
(***************************************************************************)
GoesOn ==
  /\ []<>~ProgramDue \/ []<><<Program>>_vars
  /\ []<>~ThreadDue \/ []<><<StdinThread>>_vars

Closed == mode = "watch" /\ terminal /\ stdin = "over"
Told == Closed /\ stop

(* How many steps a loop that was told to end has left at most: after the  *)
(* nap comes no measure any more.                                          *)
Left ==
  CASE pc = "baseline" -> 7
    [] pc = "measure"  -> 6
    [] pc = "feed"     -> 5
    [] pc = "collect"  -> 4
    [] pc = "show"     -> 3
    [] pc = "nap"      -> 2
    [] pc = "finish"   -> 1
    [] OTHER           -> 0

LEMMA LeftType == /\ Left \in 0 .. 7
                  /\ SampleInv => (Left <= 0 <=> pc \in Ended)
<1>1. Left \in 0 .. 7
  BY DEF Left
<1>2. SampleInv => pc \in Stages \cup Ended
  BY DEF SampleInv, TypeInv, SamplingTypeOK
<1>3. QED
  BY <1>1, <1>2 DEF Left, Stages, Ended

(* Each step of the loop is one less.                                      *)
LEMMA StepIsLess == Told /\ Program => Left' < Left
<1> SUFFICES ASSUME Told, Program PROVE Left' < Left
  OBVIOUS
<1>1. mode = "watch" /\ stop
  BY DEF Told, Closed
<1>2. CASE Baseline
  BY <1>1, <1>2 DEF Baseline, Fails, Left
<1>3. CASE Measure
  BY <1>1, <1>3 DEF Measure, Fails, Left
<1>4. CASE Feed
  BY <1>4 DEF Feed, Left
<1>5. CASE Collect
  BY <1>1, <1>5 DEF Collect, Fails, Left
<1>6. CASE Show
  BY <1>1, <1>6 DEF Show, Left
<1>7. CASE Nap \/ Finish
  BY <1>1, <1>7 DEF Nap, Finish, Left
<1>8. QED
  BY <1>2, <1>3, <1>4, <1>5, <1>6, <1>7 DEF Program

(* Nothing else makes it more, and who closed the terminal has closed it.  *)
LEMMA NoStepIsMore ==
  [Next]_vars => /\ Closed => Closed'
                 /\ Told => Told' /\ Left' <= Left
<1> SUFFICES ASSUME [Next]_vars
             PROVE  /\ Closed => Closed'
                    /\ Told => Told' /\ Left' <= Left
  OBVIOUS
<1>1. Left \in 0 .. 7 /\ Left' \in 0 .. 7
  BY LeftType DEF Left
<1>2. CASE Program
  <2>1. UNCHANGED <<build, stdinVars>>
    BY <1>2 DEF Program, Baseline, Measure, Feed, Collect, Show, Nap, Finish
  <2>2. QED
    BY <1>1, <1>2, <2>1, StepIsLess DEF Told, Closed, build, stdinVars
<1>3. CASE StdinThread \/ StdinOver
  BY <1>1, <1>3 DEF StdinThread, StdinOver, Told, Closed, build, Left
<1>4. CASE Interrupt
  BY <1>1, <1>4 DEF Interrupt, Told, Closed, build, stdinVars, Left
<1>5. CASE UNCHANGED vars \/ \E f \in Ticking : Pass(f) \/ Reset(f)
  <2>1. UNCHANGED <<build, pc, stdinVars>>
    BY <1>5 DEF Pass, Reset, vars
  <2>2. QED
    BY <1>1, <2>1 DEF Told, Closed, build, stdinVars, Left
<1>6. QED
  BY <1>2, <1>3, <1>4, <1>5 DEF Next

(***************************************************************************)
(* A watch whose terminal closed ends, from wherever its loop is and       *)
(* however late its samples are (watch.rs:19-21, 72-75, 109-139).          *)
(***************************************************************************)
THEOREM ClosedWatchEnds == Spec /\ GoesOn => ClosedTerminalEnds
<1>1. Closed /\ ~Told /\ ~(pc \in Ended) => ThreadDue
  BY DEF Told, Closed, ThreadDue
<1>2. Closed /\ [Next]_vars => Closed'
  BY NoStepIsMore
<1>3. Closed /\ <<StdinThread>>_vars => Told'
  BY DEF Told, Closed, StdinThread, build
<1>4. SampleInv /\ Told /\ ~(pc \in Ended) => ProgramDue
  BY DEF Told, Closed, ProgramDue
<1>5. Told /\ [Next]_vars => Told'
  BY NoStepIsMore
<1>6. Left \in 0 .. 7 /\ Left' \in 0 .. 7
  BY LeftType DEF Left
<1>7. \A k \in 0 .. 7 : Told /\ Left <= k /\ [Next]_vars => Left' <= k
  BY <1>6, NoStepIsMore
<1>8. /\ Told /\ Left <= 6 /\ [Next]_vars => (Left <= 6)'
      /\ Told /\ Left <= 5 /\ [Next]_vars => (Left <= 5)'
      /\ Told /\ Left <= 4 /\ [Next]_vars => (Left <= 4)'
      /\ Told /\ Left <= 3 /\ [Next]_vars => (Left <= 3)'
      /\ Told /\ Left <= 2 /\ [Next]_vars => (Left <= 2)'
      /\ Told /\ Left <= 1 /\ [Next]_vars => (Left <= 1)'
      /\ Told /\ Left <= 0 /\ [Next]_vars => (Left <= 0)'
  BY <1>7
<1>9. \A k \in 0 .. 7 : Told /\ Left <= k /\ Program => Left' <= k - 1
  BY <1>6, StepIsLess
<1>10. /\ Told /\ <<Program>>_vars => (Left <= 6)'
       /\ Told /\ Left <= 6 /\ <<Program>>_vars => (Left <= 5)'
       /\ Told /\ Left <= 5 /\ <<Program>>_vars => (Left <= 4)'
       /\ Told /\ Left <= 4 /\ <<Program>>_vars => (Left <= 3)'
       /\ Told /\ Left <= 3 /\ <<Program>>_vars => (Left <= 2)'
       /\ Told /\ Left <= 2 /\ <<Program>>_vars => (Left <= 1)'
       /\ Told /\ Left <= 1 /\ <<Program>>_vars => (Left <= 0)'
  BY <1>6, <1>9
<1>11. SampleInv /\ Left <= 0 => pc \in Ended
  BY LeftType
<1>12. QED
  BY <1>1, <1>2, <1>3, <1>4, <1>5, <1>8, <1>10, <1>11, SampleAlways, PTL
  DEF Spec, GoesOn, ClosedTerminalEnds, Closed
=============================================================================
