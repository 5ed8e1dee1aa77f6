---------------------------- MODULE SidebarTokens ----------------------------
(***************************************************************************)
(* What a report says: src/src/tokens.rs, the History of                   *)
(* src/src/daemon/mod.rs and the bars of src/src/render/graph.rs, over     *)
(* many ticks of the daemon and with one workspace to report to.           *)
(*                                                                         *)
(* A value is known by the tick that built it and by its length, a sample  *)
(* by its number, a reading by what it measures and the width of its text. *)
(***************************************************************************)
EXTENDS Integers, Sequences

CONSTANTS
  Margin,         (* Margin[m]: PERCENT_MARGIN or LOAD_MARGIN.             *)
  MaxValueChars,  (* MAX_TOKEN_VALUE_CHARS.                                *)
  Sample,         (* The samples: for every metric the value, and the      *)
                  (* width of its text, trimmed and in full.               *)
  Setting,        (* The options the configuration may resolve to.         *)
  MaxSamples      (* Bound on the samples.                                 *)

Metric == {"cpu", "mem", "load"}
Level  == {"ok", "warn", "hot"}
Style  == {"classic", "blocks", "vertical"}

(* BAR_FRAME_CHARS.                                                        *)
Frame == 2
(* What surrounds the texts in the widest token when its bar has no cells: *)
(* a space before, and one glyph in a frame for the vertical bar.          *)
BarePad == 4

ASSUME TokensAssumption ==
  /\ Margin \in [Metric -> Nat]
  /\ MaxValueChars \in Nat
  /\ Sample \subseteq [value : [Metric -> Int], trimmed : [Metric -> Nat],
                       full : [Metric -> Nat]]
  /\ Setting \subseteq
       [warn : [Metric -> Int], hot : [Metric -> Int], lines : [Metric -> Nat],
        style : Style, averages : BOOLEAN, capacity : Nat]
  /\ MaxSamples \in Nat

(* The three texts of a sample, the widest the formats of render/format.rs *)
(* give included, leave room for a bar without cells in one token.         *)
ASSUME ReadingsLeaveRoom ==
  \A s \in Sample :
    /\ s.full["mem"] + s.full["cpu"] + s.full["load"] + BarePad <= MaxValueChars
    /\ \A m \in Metric : s.trimmed[m] <= s.full[m]

VARIABLES
  options,  (* DaemonOptions: thresholds, bars and the history length.     *)
  levels,   (* LevelTracker.                                               *)
  history,  (* History.values, oldest first.                               *)
  samples,  (* How many samples were taken.                                *)
  shown,    (* shown[k]: the tick whose value token k shows, 0 for none.   *)
  newest,   (* Observer: the last sample the history token shows.          *)
  cut,      (* Observer: the tokens the last report cut off.               *)
  turn      (* Observer: where each level last went up or down.            *)

vars == <<options, levels, history, samples, shown, newest, cut, turn>>

(* The keys of a report.                                                   *)
Status(m)      == <<"status", m>>
LevelKey(m, l) == <<"level", m, l>>
SysStatus      == <<"sys_status">>
CpuHistory     == <<"cpu_history">>
Key == {Status(m) : m \in Metric} \cup {LevelKey(m, l) : m \in Metric, l \in Level}
         \cup {SysStatus, CpuHistory}

Nowhere == [dir |-> "none", at |-> 0]

TypeOK ==
  /\ options \in Setting
  /\ levels \in [Metric -> Level]
  /\ history \in Seq(1 .. MaxSamples)
  /\ samples \in 0 .. MaxSamples
  /\ shown \in [Key -> 0 .. MaxSamples]
  /\ newest \in 0 .. MaxSamples
  /\ cut \in SUBSET Key
  /\ turn \in [Metric -> [dir : {"none", "up", "down"}, at : Int]]

-----------------------------------------------------------------------------
(* Seeded fault: down at once as well.                                     *)
NextLevelAtOnce(current, value, warn, hot, margin) ==
  IF value >= hot THEN "hot" ELSE IF value >= warn THEN "warn" ELSE "ok"

(* `next`: up at once, down only when a margin below.                      *)
NextLevel(current, value, warn, hot, margin) ==
  IF value >= hot \/ (current = "hot" /\ value >= hot - margin) THEN "hot"
  ELSE IF value >= warn \/ (current # "ok" /\ value >= warn - margin) THEN "warn"
  ELSE "ok"

(* LevelTracker::advance.                                                  *)
Advance(value) ==
  [m \in Metric |->
     NextLevel(levels[m], value[m], options.warn[m], options.hot[m], Margin[m])]

-----------------------------------------------------------------------------
(* History, and what becomes of it in a token.                             *)

LastN(s, n)  == IF Len(s) <= n THEN s ELSE SubSeq(s, Len(s) - n + 1, Len(s))
FirstN(s, n) == IF Len(s) <= n THEN s ELSE SubSeq(s, 1, n)

(* Seeded faults: samples counted from zero; the oldest kept.              *)
PushFromZero(s, capacity, x) ==
  IF capacity = 0 THEN s ELSE Append(LastN(s, capacity - 1), x - 1)
ResizeKeepsOldest(s, capacity) == FirstN(s, capacity)

Push(s, capacity, x) ==
  IF capacity = 0 THEN s ELSE Append(LastN(s, capacity - 1), x)

Resize(s, capacity) == LastN(s, capacity)

(* sparkline, one character a sample, then truncate_chars.                 *)
Sparkline(s) == FirstN(s, MaxValueChars)

-----------------------------------------------------------------------------
(* How wide the bars and the values get.                                   *)

(* The load text is empty when no averages are asked for.                  *)
Full(s, m)    == IF m = "load" /\ ~options.averages THEN 0 ELSE s.full[m]
Trimmed(s, m) == IF m = "load" /\ ~options.averages THEN 0 ELSE s.trimmed[m]
AllTexts(s)   == Full(s, "mem") + Full(s, "cpu") + Full(s, "load")

Larger(a, b)  == IF a > b THEN a ELSE b
Smaller(a, b) == IF a < b THEN a ELSE b

(* TokenOptions::fitted: `widest`, and the cells it leaves for any bar.    *)
Widest(s) ==
  Larger(Larger(1 + Trimmed(s, "cpu"), 1 + Full(s, "mem")),
         Larger(1 + Trimmed(s, "load"),
                AllTexts(s) + IF options.style = "classic" THEN 1 ELSE 0))
(* Seeded fault: the frame of the bar is forgotten.                        *)
CellsUnframed(s) == Larger(MaxValueChars - Widest(s), 0)
Cells(s) == Larger(MaxValueChars - (Widest(s) + Frame), 0)
Fitted(s, m) ==
  IF options.style = "vertical" THEN options.lines[m]
  ELSE Smaller(options.lines[m], Cells(s))

(* render_bar.                                                             *)
Bar(cells) ==
  CASE options.style = "classic"  -> cells + Frame
    [] options.style = "blocks"   -> IF cells = 0 THEN 0 ELSE cells + Frame
    [] options.style = "vertical" -> 1 + Frame

(* The status tokens, and status_line with cpu_line in it.                 *)
StatusLength(s, m) ==
  Bar(Fitted(s, m)) + 1 + IF m = "mem" THEN Full(s, m) ELSE Trimmed(s, m)
SysLength(s) ==
  AllTexts(s) +
    IF options.style = "classic"
    THEN IF Fitted(s, "cpu") = 0 THEN 0 ELSE 1 + Bar(Fitted(s, "cpu"))
    ELSE Bar(Fitted(s, "cpu"))

(* The tokens TokenSet::assign cuts off.                                   *)
CutOff(s, h) ==
  {Status(m) : m \in {n \in Metric : StatusLength(s, n) > MaxValueChars}}
    \cup (IF SysLength(s) > MaxValueChars THEN {SysStatus} ELSE {})
    \cup (IF Len(h) > MaxValueChars THEN {CpuHistory} ELSE {})

-----------------------------------------------------------------------------
(* build_tokens: what a report sets and what it clears.                    *)

(* A load without averages has no status, and nothing to colour.           *)
HasStatus(m) == m = "load" => options.averages

SetKeys(lv, h) ==
  {Status(m) : m \in {n \in Metric : HasStatus(n)}} \cup {SysStatus}
    \cup (IF h = <<>> THEN {} ELSE {CpuHistory})
    \cup {LevelKey(m, lv[m]) : m \in {n \in Metric : HasStatus(n)}}

(* Seeded fault: the levels a metric left stay.                            *)
ClearKeysOfStatus(lv, h) ==
  {Status(m) : m \in {n \in Metric : ~HasStatus(n)}}
    \cup (IF h = <<>> THEN {CpuHistory} ELSE {})

(* Seeded fault: the token of a history that was turned off stays.         *)
ClearKeysKeepsHistory(lv, h) ==
  {Status(m) : m \in {n \in Metric : ~HasStatus(n)}}
    \cup {LevelKey(o[1], o[2]) :
            o \in {q \in Metric \X Level : ~HasStatus(q[1]) \/ q[2] # lv[q[1]]}}

ClearKeys(lv, h) ==
  {Status(m) : m \in {n \in Metric : ~HasStatus(n)}}
    \cup (IF h = <<>> THEN {CpuHistory} ELSE {})
    \cup {LevelKey(o[1], o[2]) :
            o \in {q \in Metric \X Level : ~HasStatus(q[1]) \/ q[2] # lv[q[1]]}}

(* The report arrives.                                                     *)
Show(set, clear, tick) ==
  shown' = [k \in Key |-> IF k \in set THEN tick
                          ELSE IF k \in clear THEN 0 ELSE shown[k]]

-----------------------------------------------------------------------------
Init ==
  /\ options \in Setting
  /\ levels = [m \in Metric |-> "ok"]
  /\ history = <<>>
  /\ samples = 0
  /\ shown = [k \in Key |-> 0]
  /\ newest = 0
  /\ cut = {}
  /\ turn = [m \in Metric |-> Nowhere]

(* A tick takes a sample and builds its tokens.                            *)
Build(s) ==
  /\ samples < MaxSamples
  /\ samples' = samples + 1
  /\ history' = Push(history, options.capacity, samples + 1)
  /\ levels' = Advance(s.value)
  /\ cut' = CutOff(s, history')
  /\ turn' = [m \in Metric |->
                IF levels'[m] = levels[m] THEN turn[m]
                ELSE [dir |-> IF \/ levels[m] = "ok"
                                 \/ levels'[m] = "hot" THEN "up" ELSE "down",
                      at |-> s.value[m]]]
  /\ UNCHANGED options

(* The report of the tick reaches the workspace.                           *)
Report(s) ==
  /\ Build(s)
  /\ Show(SetKeys(levels', history'), ClearKeys(levels', history'), samples')
  /\ newest' = IF history' = <<>> THEN 0
               ELSE Sparkline(history')[Len(Sparkline(history'))]

(* The workspace is no target now: clear_report names every key the tokens *)
(* of this tick mention.                                                   *)
ClearReport(s) ==
  /\ Build(s)
  /\ Show({}, SetKeys(levels', history') \cup ClearKeys(levels', history'), samples')
  /\ newest' = 0

(* No report: the list fails, the workspace is not reported to, the call   *)
(* is lost.                                                                *)
Unreported(s) ==
  /\ Build(s)
  /\ UNCHANGED <<shown, newest>>

(* Daemon::reconfigure.  The levels stay as they are.                      *)
Reconfigure ==
  /\ options' \in Setting \ {options}
  /\ history' = Resize(history, options'.capacity)
  /\ turn' = [m \in Metric |-> Nowhere]
  /\ UNCHANGED <<levels, samples, shown, newest, cut>>

(* A new process, Daemon::new.                                             *)
Restart ==
  /\ options' \in Setting
  /\ levels' = [m \in Metric |-> "ok"]
  /\ history' = <<>>
  /\ turn' = [m \in Metric |-> Nowhere]
  /\ UNCHANGED <<samples, shown, newest, cut>>

(* The rows time out, all together.                                        *)
Expire ==
  /\ shown' = [k \in Key |-> 0]
  /\ newest' = 0
  /\ UNCHANGED <<options, levels, history, samples, cut, turn>>

Next ==
  \/ \E s \in Sample : Report(s) \/ ClearReport(s) \/ Unreported(s)
  \/ Reconfigure
  \/ Restart
  \/ Expire

Spec == Init /\ [][Next]_vars

-----------------------------------------------------------------------------
(* Properties.                                                             *)

(***************************************************************************)
(* Whatever reports were lost and whatever the configuration became in     *)
(* between, the sidebar shows the tokens of one report, never a token an   *)
(* older one left behind, and one level of a metric at most                *)
(* (tokens.rs:278-287, 469-481, README.md:186-187, 204).                   *)
(***************************************************************************)
ShowsOneReport ==
  /\ \A j, k \in Key : shown[j] # 0 /\ shown[k] # 0 => shown[j] = shown[k]
  /\ \A m \in Metric : \A l, o \in Level :
       shown[LevelKey(m, l)] # 0 /\ shown[LevelKey(m, o)] # 0 => l = o

(***************************************************************************)
(* A level that goes back on its last change does so a whole margin away   *)
(* from where that happened, so a value that hovers on a threshold does    *)
(* not make it flicker (tokens.rs:93-116, README.md:204-207).              *)
(***************************************************************************)
Far(was, is, margin) ==
  /\ was.dir = "up" /\ is.dir = "down" => is.at <= was.at - margin
  /\ was.dir = "down" /\ is.dir = "up" => is.at >= was.at + margin

NoFlicker ==
  [][\A m \in Metric :
       options.warn[m] <= options.hot[m] /\ turn'[m] # turn[m] =>
         Far(turn[m], turn'[m], Margin[m])]_vars

(***************************************************************************)
(* The history is what the last ticks measured, without a gap and up to    *)
(* the last of them, through every change of its length                    *)
(* (mod.rs:193-215, 371-379).                                              *)
(***************************************************************************)
HistoryIsRecent ==
  /\ Len(history) <= options.capacity
  /\ \A i \in 1 .. Len(history) : history[i] = samples - Len(history) + i

(***************************************************************************)
(* A bar is narrowed rather than a reading cut off: only the history is    *)
(* ever longer than herdr allows (tokens.rs:212-256).                      *)
(***************************************************************************)
ReadingsAreWhole == cut \subseteq {CpuHistory}

(***************************************************************************)
(* The history token shows where the CPU has been, up to where it is now   *)
(* (README.md:160-181), whatever was lost, resized or restarted since, as  *)
(* long as no history may be longer than a value: assign cuts a longer one *)
(* at its new end (tokens.rs:289-296, 383-386).                            *)
(***************************************************************************)
HistoryFits == \A o \in Setting : o.capacity <= MaxValueChars

HistoryShowsNow ==
  HistoryFits /\ shown[CpuHistory] # 0 => newest = shown[CpuHistory]
=============================================================================
