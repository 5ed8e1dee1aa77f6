------------------------------ MODULE Sampling ------------------------------
(***************************************************************************)
(* From the counters of the kernel to a sample somebody sees: CpuSampler,  *)
(* the load emulator and `collect` of src/src/metrics, the backends of     *)
(* src/src/sys, and the three loops around them: the daemon's tick, up to  *)
(* its sample, the status line of src/src/watch.rs with the thread that    *)
(* watches stdin, and the one line of `run` in src/src/main.rs.            *)
(*                                                                         *)
(*   baseline -> nap -> measure -> feed -> collect -> show -> nap ...      *)
(*                                                                         *)
(* The daemon has no baseline of its own: a measure without a previous     *)
(* snapshot is one.  Time passes between any two steps, in slices of the   *)
(* nap; the machine has one core, so a slice is a tick of one counter.     *)
(***************************************************************************)
EXTENDS Integers

CONSTANTS
  Ticking,    (* The fields of CpuTimes the machine's time is spent on.    *)
  MemInfo,    (* What /proc/meminfo may say.                               *)
  TotalMemory,(* The machine's memory.                                     *)
  Interval,   (* settings.interval_secs, in slices.                        *)
  MaxTime,    (* Bound on the clock.                                       *)
  MaxResets   (* Bound on the times a counter goes back.                   *)

(* CpuTimes.                                                               *)
Field    == {"user", "nice", "system", "idle"}
CpuTimes == [Field -> Nat]

ASSUME SamplingAssumption ==
  /\ Ticking \subseteq Field
  /\ Interval \in Nat \ {0}
  /\ TotalMemory \in Nat
  /\ MemInfo \subseteq
       {m \in [free : Nat, buffers : Nat, cached : Nat, reclaimable : Nat,
               shmem : Nat] : m.shmem <= m.cached /\ m.cached <= TotalMemory}
  /\ MaxTime \in Nat
  /\ MaxResets \in Nat

NoSnapshot == [f \in {} |-> 0]
NoReading  == [busy |-> 0, total |-> 0]
NoSample   == [reading |-> NoReading, used |-> 0, load |-> 0]
Nothing    == [busy |-> 0, total |-> 0, back |-> FALSE]

VARIABLES
  platform,  (* The backend the program was built with.                    *)
  mode,      (* daemon, watch or once.                                     *)
  terminal,  (* A watch whose stdin is a terminal.                         *)
  pc,        (* Where the loop is.                                         *)
  previous,  (* CpuSampler.previous.                                       *)
  reading,   (* The delta the percentage is the busy share of.             *)
  folds,     (* How many readings the LoadEmulator holds, 0 unseeded.      *)
  lastFed,   (* last_load_update.                                          *)
  published, (* EMULATED_LOAD: the readings in it, 0 for None.             *)
  sample,    (* The last Sample: reading, memory used, readings in load.   *)
  due,       (* When the nap is over.                                      *)
  stop,      (* The flag of the nap.                                       *)
  stdin,     (* "over" after an end of file, an error or a `q`.            *)
  now,       (* The clock.                                                 *)
  counters,  (* The kernel's counters.                                     *)
  resets,    (* How much of MaxResets is spent.                            *)
  since,     (* Observer: what happened since the last snapshot.           *)
  truth,     (* Observer: what happened in the window of `reading`.        *)
  span,      (* Observer: the time folded into the load.                   *)
  seededAt,  (* Observer: when the emulator was seeded.                    *)
  late       (* Observer: the lines drawn since the flag was set.          *)

build     == <<platform, mode, terminal>>
sampler   == <<previous, reading, since, truth>>
emulator  == <<folds, lastFed, span, seededAt>>
stdinVars == <<stop, stdin>>
clockVars == <<now, counters, resets>>
vars == <<build, pc, sampler, emulator, published, sample, due, stdinVars,
          clockVars, late>>

Ended == {"finished", "done", "failed", "killed"}
Stages == {"baseline", "nap", "measure", "feed", "collect", "show", "finish"}
Reading == [busy : Nat, total : Nat]

(***************************************************************************)
(* The share of a reading and the memory in use never exceed the whole     *)
(* (sys/mod.rs:63-72, sys/linux.rs:63-119).                                *)
(***************************************************************************)
SamplingTypeOK ==
  /\ platform \in {"linux", "macos", "windows"}
  /\ mode \in {"daemon", "watch", "once"}
  /\ terminal \in BOOLEAN
  /\ pc \in Stages \cup Ended
  /\ previous = NoSnapshot \/ previous \in CpuTimes
  /\ reading \in Reading /\ reading.busy <= reading.total
  /\ folds \in Nat /\ published \in Nat /\ lastFed \in Nat /\ due \in Nat
  /\ sample.reading \in Reading /\ sample.load \in Nat
  /\ sample.used \in 0 .. TotalMemory
  /\ stop \in BOOLEAN /\ stdin \in {"open", "over"}
  /\ now \in 0 .. MaxTime
  /\ counters \in CpuTimes
  /\ resets \in 0 .. MaxResets
  /\ late \in Nat

Init ==
  /\ platform \in {"linux", "macos", "windows"}
  /\ mode \in {"daemon", "watch", "once"}
  /\ terminal \in IF mode = "watch" THEN BOOLEAN ELSE {FALSE}
  /\ pc = IF mode = "daemon" THEN "measure" ELSE "baseline"
  /\ previous = NoSnapshot
  /\ reading = NoReading
  /\ folds = 0
  /\ lastFed = 0
  /\ published = 0
  /\ sample = NoSample
  /\ due = 0
  /\ stop = FALSE
  /\ stdin = "open"
  /\ now = 0
  /\ counters = [f \in Field |-> 1]
  /\ resets = 0
  /\ since = Nothing
  /\ truth = since
  /\ span = 0
  /\ seededAt = 0
  /\ late = 0

-----------------------------------------------------------------------------
(* The arithmetic.                                                         *)

SaturatingSub(a, b) == IF a < b THEN 0 ELSE a - b

Busy(c)  == c["user"] + c["nice"] + c["system"]
Total(c) == Busy(c) + c["idle"]

(* CpuTimes::delta, and the two numbers percentage_from_delta divides.     *)
Delta(current, earlier) ==
  LET d == [f \in Field |-> SaturatingSub(current[f], earlier[f])]
  IN [busy |-> Busy(d), total |-> Total(d)]

(* Seeded fault: the page cache is not taken off.                          *)
UsedWithCache(m) ==
  SaturatingSub(SaturatingSub(SaturatingSub(TotalMemory, m.free), m.buffers),
                m.reclaimable) + m.shmem

(* parse_meminfo.                                                          *)
Used(m) ==
  SaturatingSub(SaturatingSub(SaturatingSub(SaturatingSub(
      TotalMemory, m.free), m.buffers), m.cached), m.reclaimable) + m.shmem

(* GlobalMemoryStatusEx: what is not available is used.                    *)
NotAvailable ==
  {SaturatingSub(TotalMemory, available) : available \in 0 .. TotalMemory}

(* Mach: the pages that are active or wired, which are pages of the total. *)
ActiveOrWired == 0 .. TotalMemory

(* memory_status of the backend.                                           *)
MemoryStatus ==
  CASE platform = "linux"   -> {Used(m) : m \in MemInfo}
    [] platform = "macos"   -> ActiveOrWired
    [] platform = "windows" -> NotAvailable

-----------------------------------------------------------------------------
(* The loop.                                                               *)

(* What a tick knows is gone with it.                                      *)
Forget == reading' = NoReading /\ truth' = Nothing /\ sample' = NoSample

(* An error ends a tick of the daemon, and the other two modes.            *)
Fails == pc' = IF mode = "daemon" THEN "nap" ELSE "failed"

(* sample, when it succeeds: the snapshot becomes the previous one.        *)
Snapshot ==
  /\ previous' = counters
  /\ since' = Nothing

Baseline ==
  /\ pc = "baseline"
  /\ \/ Snapshot /\ due' = now + Interval /\ pc' = "nap"
     \/ Fails /\ UNCHANGED <<previous, since, due>>
  /\ UNCHANGED <<build, reading, truth, emulator, published, sample, stdinVars,
                 clockVars, late>>

(* Seeded fault: the first snapshot stays the one to compare with.         *)
MeasureFromStart ==
  /\ pc = "measure"
  /\ due' = now + Interval
  /\ \/ /\ previous = NoSnapshot
        /\ Snapshot
        /\ pc' = "nap"
        /\ UNCHANGED <<reading, truth>>
     \/ /\ previous # NoSnapshot
        /\ UNCHANGED previous
        /\ since' = Nothing
        /\ reading' = Delta(counters, previous)
        /\ truth' = since
        /\ pc' = "feed"
     \/ Fails /\ UNCHANGED sampler
  /\ UNCHANGED <<build, emulator, published, sample, stdinVars, clockVars, late>>

(* A measurement, the baseline of a daemon, or counters that cannot be     *)
(* read: then the next window is the longer.                               *)
Measure ==
  /\ pc = "measure"
  /\ due' = now + Interval
  /\ \/ /\ previous = NoSnapshot
        /\ Snapshot
        /\ pc' = "nap"
        /\ UNCHANGED <<reading, truth>>
     \/ /\ previous # NoSnapshot
        /\ Snapshot
        /\ reading' = Delta(counters, previous)
        /\ truth' = since
        /\ pc' = "feed"
     \/ Fails /\ UNCHANGED sampler
  /\ UNCHANGED <<build, emulator, published, sample, stdinVars, clockVars, late>>

(* LoadSource: on Windows, a daemon or a watch feeds an emulator.          *)
Emulates == platform = "windows" /\ mode # "once"

(* LoadEmulator::update: the first reading seeds the averages, the others  *)
(* fold into them what `dt` leaves of the former.                          *)
Fold(dt) ==
  /\ folds' = folds + 1
  /\ seededAt' = IF folds = 0 THEN now ELSE seededAt
  /\ span' = IF folds = 0 THEN 0 ELSE span + dt

(* Seeded fault: the averages decay by one interval whatever the time.     *)
FeedNominal ==
  /\ pc = "feed"
  /\ pc' = "collect"
  /\ lastFed' = IF mode = "once" THEN lastFed ELSE now
  /\ IF Emulates THEN Fold(Interval) /\ published' = folds'
     ELSE UNCHANGED <<folds, published, seededAt, span>>
  /\ UNCHANGED <<build, sampler, sample, due, stdinVars, clockVars, late>>

(* feed_load_source, with the time since the last reading that was fed.    *)
Feed ==
  /\ pc = "feed"
  /\ pc' = "collect"
  /\ lastFed' = IF mode = "once" THEN lastFed ELSE now
  /\ IF Emulates THEN Fold(now - lastFed) /\ published' = folds'
     ELSE UNCHANGED <<folds, published, seededAt, span>>
  /\ UNCHANGED <<build, sampler, sample, due, stdinVars, clockVars, late>>

(* seed_emulated_load: a load of this reading alone, if there is none yet. *)
Seeded == IF platform = "windows" /\ published = 0 THEN 1 ELSE published

(* collect: the memory or the load may not be read.                        *)
Collect ==
  /\ pc = "collect"
  /\ published' = Seeded
  /\ \/ /\ \E used \in MemoryStatus :
             sample' = [reading |-> reading, used |-> used, load |-> published']
        /\ pc' = "show"
        /\ UNCHANGED <<reading, truth>>
     \/ Fails /\ Forget
  /\ UNCHANGED <<build, previous, since, emulator, due, stdinVars, clockVars,
                 late>>

(* The line is redrawn or printed, or its sink refuses it, which is an     *)
(* error of the watch and a panic of println!; the daemon goes on to its   *)
(* tokens and its reports (module Daemon).                                 *)
Show ==
  /\ pc = "show"
  /\ \/ pc' = IF mode = "once" THEN "done" ELSE "nap"
     \/ mode # "daemon" /\ pc' = "failed"
  /\ late' = IF stop THEN late + 1 ELSE late
  /\ Forget
  /\ UNCHANGED <<build, previous, since, emulator, published, due, stdinVars,
                 clockVars>>

(* Seeded faults: the time is up before the flag is looked at; the flag is *)
(* not looked at.                                                          *)
NapTimeFirst ==
  /\ pc = "nap"
  /\ \/ now >= due /\ pc' = "measure"
     \/ mode = "watch" /\ stop /\ now < due /\ pc' = "finish"
  /\ UNCHANGED <<build, sampler, emulator, published, sample, due, stdinVars,
                 clockVars, late>>
NapAsleep ==
  /\ pc = "nap"
  /\ now >= due /\ pc' = "measure"
  /\ UNCHANGED <<build, sampler, emulator, published, sample, due, stdinVars,
                 clockVars, late>>

(* nap, and the sleep of the other modes: the flag, then the time.         *)
Nap ==
  /\ pc = "nap"
  /\ \/ mode = "watch" /\ stop /\ pc' = "finish"
     \/ ~(mode = "watch" /\ stop) /\ now >= due /\ pc' = "measure"
  /\ UNCHANGED <<build, sampler, emulator, published, sample, due, stdinVars,
                 clockVars, late>>

(* The newline below the last status.                                      *)
Finish ==
  /\ pc = "finish"
  /\ pc' \in {"finished", "failed"}
  /\ UNCHANGED <<build, sampler, emulator, published, sample, due, stdinVars,
                 clockVars, late>>

(* The thread of watch_stdin.                                              *)
StdinThread ==
  /\ mode = "watch" /\ terminal
  /\ pc \notin Ended
  /\ stdin = "over" /\ ~stop
  /\ stop' = TRUE
  /\ UNCHANGED <<build, pc, sampler, emulator, published, sample, due, stdin,
                 clockVars, late>>

-----------------------------------------------------------------------------
(* The machine and the person in front of it.                              *)

(* A slice of time is spent on something or on nothing.                    *)
Pass(f) ==
  /\ now < MaxTime
  /\ pc \notin Ended
  /\ now' = now + 1
  /\ counters' = [counters EXCEPT ![f] = @ + 1]
  /\ since' = [since EXCEPT !.busy = IF f = "idle" THEN @ ELSE @ + 1,
                            !.total = @ + 1]
  /\ UNCHANGED <<build, pc, previous, reading, truth, emulator, published,
                 sample, due, stdinVars, resets, late>>

(* A counter is reset, or wraps around its 32 bits on a Mac.               *)
Reset(f) ==
  /\ resets < MaxResets
  /\ resets' = resets + 1
  /\ pc \notin Ended
  /\ counters' = [counters EXCEPT ![f] = 0]
  /\ since' = [since EXCEPT !.back = TRUE]
  /\ UNCHANGED <<build, pc, previous, reading, truth, emulator, published,
                 sample, due, stdinVars, now, late>>

StdinOver ==
  /\ stdin = "open"
  /\ mode = "watch" /\ pc \notin Ended
  /\ stdin' = "over"
  /\ UNCHANGED <<build, pc, sampler, emulator, published, sample, due, stop,
                 clockVars, late>>

Interrupt ==
  /\ pc \notin Ended
  /\ pc' = "killed"
  /\ Forget
  /\ UNCHANGED <<build, previous, since, emulator, published, due, stdinVars,
                 clockVars, late>>

Program ==
  Baseline \/ Measure \/ Feed \/ Collect \/ Show \/ Nap \/ Finish

Next ==
  \/ Program \/ StdinThread \/ StdinOver \/ Interrupt
  \/ \E f \in Ticking : Pass(f) \/ Reset(f)

Spec == Init /\ [][Next]_vars

(* The two threads run on; nothing they call blocks for good.              *)
FairSpec == Spec /\ WF_vars(Program) /\ WF_vars(StdinThread)

-----------------------------------------------------------------------------
(* Properties.                                                             *)

(***************************************************************************)
(* What is shown is the busy share of all the time since the last good     *)
(* snapshot, whatever failed in between, unless a counter went back in     *)
(* that window alone; and an emulated load has just taken it in            *)
(* (metrics/cpu.rs:42-50, mod.rs:409, 508-520, metrics/mod.rs:64-70).      *)
(***************************************************************************)
ShownIsNow ==
  pc = "show" =>
    /\ ~truth.back =>
         /\ sample.reading.busy = truth.busy
         /\ sample.reading.total = truth.total
    /\ Emulates => sample.load = folds

(***************************************************************************)
(* Late ticks and failed ones: every moment since the emulator was seeded  *)
(* decays its averages once (load_emulator.rs:20-24, mod.rs:506-520).      *)
(***************************************************************************)
LoadCountsOnce == folds > 0 => span = lastFed - seededAt

(***************************************************************************)
(* A watch ends by itself only when its terminal closed or said `q`, and   *)
(* after that draws one line more at the most, however far the samples     *)
(* overrun the interval (watch.rs:72-75, 93-107, 109-139).                 *)
(***************************************************************************)
StopsWhenAsked ==
  /\ pc = "finished" => terminal /\ stdin = "over"
  /\ late <= 1

(***************************************************************************)
(* A watch whose terminal closed ends (watch.rs:19-21, 109-112).           *)
(***************************************************************************)
ClosedTerminalEnds ==
  (mode = "watch" /\ terminal /\ stdin = "over") ~> (pc \in Ended)
=============================================================================
