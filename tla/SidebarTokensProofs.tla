------------------------- MODULE SidebarTokensProofs -------------------------
(***************************************************************************)
(* What the sidebar shows and when its levels change, for any thresholds,  *)
(* margins, samples, widths and number of ticks.                           *)
(***************************************************************************)
EXTENDS SidebarTokens, SequenceTheorems, TLAPS

-----------------------------------------------------------------------------
(* The parts of the type invariant the proofs below rest on.               *)
LevelTypes ==
  /\ options \in Setting
  /\ levels \in [Metric -> Level]
  /\ turn \in [Metric -> [dir : {"none", "up", "down"}, at : Int]]

(* A setting gives every metric two integer thresholds.                    *)
LEMMA Thresholds ==
  ASSUME NEW o \in Setting, NEW m \in Metric
  PROVE  /\ o.warn[m] \in Int /\ o.hot[m] \in Int /\ o.lines[m] \in Nat
         /\ o.style \in Style /\ Margin[m] \in Nat
  BY TokensAssumption

(* The levels a tick comes to, and where they turn.                        *)
LEMMA BuildTypes ==
  ASSUME LevelTypes, NEW s \in Sample, Build(s)
  PROVE  LevelTypes'
<1>1. options' \in Setting
  BY DEF LevelTypes, Build
<1>2. levels' \in [Metric -> Level]
  BY DEF Build, Advance, NextLevel, Level
<1>3. \A m \in Metric : s.value[m] \in Int
  BY TokensAssumption
<1>4. turn' \in [Metric -> [dir : {"none", "up", "down"}, at : Int]]
  BY <1>3 DEF Build, LevelTypes
<1> QED
  BY <1>1, <1>2, <1>4 DEF LevelTypes

LEMMA NextLevelTypes == LevelTypes /\ [Next]_vars => LevelTypes'
<1> SUFFICES ASSUME LevelTypes, [Next]_vars PROVE LevelTypes'
  OBVIOUS
<1>1. ASSUME NEW s \in Sample, Report(s) \/ ClearReport(s) \/ Unreported(s)
      PROVE  LevelTypes'
  BY <1>1, BuildTypes DEF Report, ClearReport, Unreported
<1>2. CASE Reconfigure
  BY <1>2 DEF Reconfigure, LevelTypes, Nowhere
<1>3. CASE Restart
  BY <1>3 DEF Restart, LevelTypes, Nowhere, Level
<1>4. CASE Expire
  BY <1>4 DEF Expire, LevelTypes
<1>5. CASE UNCHANGED vars
  BY <1>5 DEF vars, LevelTypes
<1> QED
  BY <1>1, <1>2, <1>3, <1>4, <1>5 DEF Next

LEMMA InitLevelTypes == Init => LevelTypes
  BY DEF Init, LevelTypes, Nowhere, Level

-----------------------------------------------------------------------------
(* Levels.  The invariant: the value a level last turned at lies on the    *)
(* side of the threshold it turned for.                                    *)
TurnOf(m) ==
  /\ turn[m].dir = "up" =>
       \/ levels[m] = "hot" /\ turn[m].at >= options.hot[m]
       \/ levels[m] = "warn" /\ turn[m].at >= options.warn[m]
  /\ turn[m].dir = "down" =>
       \/ levels[m] = "warn" /\ turn[m].at < options.hot[m] - Margin[m]
       \/ levels[m] = "ok" /\ turn[m].at < options.warn[m] - Margin[m]

TurnInv == \A m \in Metric : TurnOf(m)

FarTurn(m) ==
  options.warn[m] <= options.hot[m] /\ turn'[m] # turn[m] =>
    Far(turn[m], turn'[m], Margin[m])

(* One tick of one metric.                                                 *)
LEMMA BuildTurns ==
  ASSUME LevelTypes, NEW s \in Sample, Build(s), NEW m \in Metric, TurnOf(m)
  PROVE  TurnOf(m)' /\ FarTurn(m)
<1> DEFINE v == s.value[m]
           warn == options.warn[m]
           hot == options.hot[m]
           up == [dir |-> "up", at |-> v]
           down == [dir |-> "down", at |-> v]
<1>1. v \in Int /\ warn \in Int /\ hot \in Int /\ Margin[m] \in Nat
  BY Thresholds, TokensAssumption DEF LevelTypes
<1>2. levels'[m] = NextLevel(levels[m], v, warn, hot, Margin[m])
  BY DEF Build, Advance
<1>3. options' = options
  BY DEF Build
<1>4. levels[m] \in Level /\ turn[m].at \in Int
  BY DEF LevelTypes
<1>5. CASE levels'[m] = levels[m]
  <2>1. turn'[m] = turn[m]
    BY <1>5 DEF Build
  <2> QED
    BY <2>1, <1>3, <1>5 DEF TurnOf, FarTurn
<1>6. CASE levels'[m] # levels[m] /\ (levels[m] = "ok" \/ levels'[m] = "hot")
  <2>1. turn'[m] = up
    BY <1>6 DEF Build
  <2> HIDE DEF v, warn, hot
  <2>2. \/ levels'[m] = "hot" /\ v >= hot
        \/ levels'[m] = "warn" /\ v >= warn
    BY <1>1, <1>2, <1>4, <1>6 DEF NextLevel, Level
  <2>3. TurnOf(m)'
    BY <2>1, <2>2, <1>3 DEF TurnOf, warn, hot
  <2>4. ASSUME warn <= hot, turn[m].dir = "down" PROVE v >= turn[m].at + Margin[m]
    <3>1. \/ levels[m] = "warn" /\ turn[m].at < hot - Margin[m]
          \/ levels[m] = "ok" /\ turn[m].at < warn - Margin[m]
      BY <2>4 DEF TurnOf, warn, hot
    <3> QED
      BY <3>1, <2>2, <2>4, <1>1, <1>4, <1>6
  <2>5. FarTurn(m)
    BY <2>1, <2>4 DEF FarTurn, Far, warn, hot
  <2> QED
    BY <2>3, <2>5
<1>7. CASE levels'[m] # levels[m] /\ levels[m] # "ok" /\ levels'[m] # "hot"
  <2>1. turn'[m] = down
    BY <1>7 DEF Build
  <2> HIDE DEF v, warn, hot
  <2>2. \/ levels[m] = "hot" /\ levels'[m] = "warn" /\ v < hot - Margin[m]
        \/ levels[m] = "hot" /\ levels'[m] = "ok" /\ v < hot - Margin[m]
             /\ v < warn - Margin[m]
        \/ levels[m] = "warn" /\ levels'[m] = "ok" /\ v < warn - Margin[m]
    BY <1>1, <1>2, <1>4, <1>7 DEF NextLevel, Level
  <2>3. TurnOf(m)'
    BY <2>1, <2>2, <1>3 DEF TurnOf, warn, hot
  <2>4. ASSUME turn[m].dir = "up" PROVE v <= turn[m].at - Margin[m]
    <3>1. \/ levels[m] = "hot" /\ turn[m].at >= hot
          \/ levels[m] = "warn" /\ turn[m].at >= warn
      BY <2>4 DEF TurnOf, warn, hot
    <3> QED
      BY <3>1, <2>2, <1>1, <1>4
  <2>5. FarTurn(m)
    BY <2>1, <2>4 DEF FarTurn, Far
  <2> QED
    BY <2>3, <2>5
<1> QED
  BY <1>5, <1>6, <1>7

LEMMA NextTurns ==
  LevelTypes /\ TurnInv /\ [Next]_vars => TurnInv' /\ \A m \in Metric : FarTurn(m)
<1> SUFFICES ASSUME LevelTypes, TurnInv, [Next]_vars, NEW m \in Metric
             PROVE  TurnOf(m)' /\ FarTurn(m)
  BY DEF TurnInv
<1> USE DEF TurnInv
<1>1. ASSUME NEW s \in Sample, Report(s) \/ ClearReport(s) \/ Unreported(s)
      PROVE  TurnOf(m)' /\ FarTurn(m)
  BY <1>1, BuildTurns DEF Report, ClearReport, Unreported
<1>2. CASE Reconfigure \/ Restart
  <2>1. turn'[m] = Nowhere
    BY <1>2 DEF Reconfigure, Restart
  <2> QED
    BY <2>1 DEF TurnOf, FarTurn, Far, Nowhere
<1>3. CASE Expire
  BY <1>3 DEF Expire, TurnOf, FarTurn
<1>4. CASE UNCHANGED vars
  BY <1>4 DEF vars, TurnOf, FarTurn
<1> QED
  BY <1>1, <1>2, <1>3, <1>4 DEF Next

(* No level flickers (tokens.rs:93-116), whatever the thresholds are and   *)
(* whatever is sampled.                                                    *)
THEOREM LevelsDoNotFlicker == Spec => NoFlicker
<1>1. Init => TurnInv
  BY DEF Init, TurnInv, TurnOf, Nowhere
<1>2. LevelTypes /\ TurnInv /\ [Next]_vars =>
        [\A m \in Metric :
           options.warn[m] <= options.hot[m] /\ turn'[m] # turn[m] =>
             Far(turn[m], turn'[m], Margin[m])]_vars
  BY NextTurns DEF FarTurn
<1>3. LevelTypes /\ TurnInv /\ [Next]_vars => TurnInv'
  BY NextTurns
<1> QED
  BY InitLevelTypes, NextLevelTypes, <1>1, <1>2, <1>3, PTL DEF Spec, NoFlicker

-----------------------------------------------------------------------------
(* Tokens.                                                                 *)

(* A report mentions every key, and never sets two levels of a metric.     *)
LEMMA Vocabulary ==
  ASSUME NEW lv \in [Metric -> Level], NEW h
  PROVE  /\ SetKeys(lv, h) \cup ClearKeys(lv, h) = Key
         /\ \A m \in Metric : \A l, o \in Level :
              LevelKey(m, l) \in SetKeys(lv, h) /\ LevelKey(m, o) \in SetKeys(lv, h)
                => l = o
<1>1. SetKeys(lv, h) \cup ClearKeys(lv, h) \subseteq Key
  BY DEF SetKeys, ClearKeys, Key, Status, LevelKey, SysStatus, CpuHistory
<1>2. ASSUME NEW m \in Metric
      PROVE  Status(m) \in SetKeys(lv, h) \cup ClearKeys(lv, h)
  BY <1>2 DEF SetKeys, ClearKeys
<1>3. ASSUME NEW m \in Metric, NEW l \in Level
      PROVE  LevelKey(m, l) \in SetKeys(lv, h) \cup ClearKeys(lv, h)
  <2>1. CASE HasStatus(m) /\ l = lv[m]
    BY <2>1 DEF SetKeys
  <2>2. CASE ~HasStatus(m) \/ l # lv[m]
    <3>1. <<m, l>> \in {q \in Metric \X Level : ~HasStatus(q[1]) \/ q[2] # lv[q[1]]}
      BY <2>2
    <3> QED
      BY <3>1 DEF ClearKeys
  <2> QED
    BY <2>1, <2>2
<1>4. /\ SysStatus \in SetKeys(lv, h)
      /\ CpuHistory \in SetKeys(lv, h) \cup ClearKeys(lv, h)
  BY DEF SetKeys, ClearKeys
<1>5. Key \subseteq SetKeys(lv, h) \cup ClearKeys(lv, h)
  BY <1>2, <1>3, <1>4 DEF Key
<1>6. ASSUME NEW m \in Metric, NEW l \in Level, LevelKey(m, l) \in SetKeys(lv, h)
      PROVE  l = lv[m]
  BY <1>6 DEF SetKeys, LevelKey, Status, SysStatus, CpuHistory
<1> QED
  BY <1>1, <1>5, <1>6

(***************************************************************************)
(* A report sets or clears each key of the sidebar, none twice: the rows   *)
(* of a report stand, go and time out together, as module Herdr has them   *)
(* (tokens.rs:395-467, 469-481).                                           *)
(***************************************************************************)
THEOREM ReportNamesEachKeyOnce ==
  ASSUME NEW lv \in [Metric -> Level], NEW h
  PROVE  /\ SetKeys(lv, h) \cup ClearKeys(lv, h) = Key
         /\ SetKeys(lv, h) \cap ClearKeys(lv, h) = {}
<1>1. ASSUME NEW m \in Metric, Status(m) \in SetKeys(lv, h)
      PROVE  Status(m) \notin ClearKeys(lv, h)
  BY <1>1 DEF SetKeys, ClearKeys, LevelKey, Status, SysStatus, CpuHistory
<1>2. ASSUME NEW m \in Metric, NEW l \in Level, LevelKey(m, l) \in SetKeys(lv, h)
      PROVE  LevelKey(m, l) \notin ClearKeys(lv, h)
  <2>1. l = lv[m] /\ HasStatus(m)
    BY <1>2 DEF SetKeys, LevelKey, Status, SysStatus, CpuHistory
  <2>2. ASSUME NEW q \in Metric \X Level, LevelKey(q[1], q[2]) = LevelKey(m, l)
        PROVE  q[1] = m /\ q[2] = l
    BY <2>2 DEF LevelKey
  <2>3. QED
    BY <2>1, <2>2 DEF ClearKeys, LevelKey, Status, CpuHistory
<1>3. SysStatus \notin ClearKeys(lv, h)
  BY DEF ClearKeys, LevelKey, Status, SysStatus, CpuHistory
<1>4. CpuHistory \in SetKeys(lv, h) => CpuHistory \notin ClearKeys(lv, h)
  BY DEF SetKeys, ClearKeys, LevelKey, Status, SysStatus, CpuHistory
<1>5. QED
  BY <1>1, <1>2, <1>3, <1>4, Vocabulary DEF Key

(* The sidebar shows one report at a time (tokens.rs:278-287), whatever is *)
(* lost or reconfigured in between.                                        *)
THEOREM OneReportIsShown == Spec => []ShowsOneReport
<1>1. Init => ShowsOneReport
  BY DEF Init, ShowsOneReport, Key
<1>2. LevelTypes /\ ShowsOneReport /\ [Next]_vars => ShowsOneReport'
  <2> SUFFICES ASSUME LevelTypes, ShowsOneReport, [Next]_vars
               PROVE  ShowsOneReport'
    OBVIOUS
  <2>0. \A m \in Metric, l \in Level : LevelKey(m, l) \in Key
    BY DEF Key
  <2>1. ASSUME NEW s \in Sample, Report(s) PROVE ShowsOneReport'
    <3>1. levels' \in [Metric -> Level]
      BY <2>1, BuildTypes DEF Report, LevelTypes
    <3>2. shown' = [k \in Key |-> IF k \in SetKeys(levels', history') THEN samples'
                                  ELSE IF k \in ClearKeys(levels', history') THEN 0
                                  ELSE shown[k]]
      BY <2>1 DEF Report, Show
    <3> DEFINE set == SetKeys(levels', history')
               clear == ClearKeys(levels', history')
    <3>3. \A k \in Key : IF k \in set THEN shown'[k] = samples' ELSE shown'[k] = 0
      <4>1. set \cup clear = Key
        BY <3>1, Vocabulary
      <4> QED
        BY <3>2, <4>1
    <3>4. \A m \in Metric : \A l, o \in Level :
            LevelKey(m, l) \in set /\ LevelKey(m, o) \in set => l = o
      BY <3>1, Vocabulary
    <3> HIDE DEF set, clear
    <3> QED
      BY <3>3, <3>4, <2>0 DEF ShowsOneReport
  <2>2. ASSUME NEW s \in Sample, ClearReport(s) PROVE ShowsOneReport'
    <3>1. levels' \in [Metric -> Level]
      BY <2>2, BuildTypes DEF ClearReport, LevelTypes
    <3>2. \A k \in Key : shown'[k] = 0
      BY <2>2, <3>1, Vocabulary DEF ClearReport, Show
    <3> QED
      BY <3>2, <2>0 DEF ShowsOneReport
  <2>3. ASSUME NEW s \in Sample, Unreported(s) PROVE ShowsOneReport'
    BY <2>3 DEF Unreported, ShowsOneReport
  <2>4. CASE Reconfigure \/ Restart
    BY <2>4 DEF Reconfigure, Restart, ShowsOneReport
  <2>5. CASE Expire
    BY <2>5, <2>0 DEF Expire, ShowsOneReport
  <2>6. CASE UNCHANGED vars
    BY <2>6 DEF vars, ShowsOneReport
  <2> QED
    BY <2>1, <2>2, <2>3, <2>4, <2>5, <2>6 DEF Next
<1> QED
  BY InitLevelTypes, NextLevelTypes, <1>1, <1>2, PTL DEF Spec

-----------------------------------------------------------------------------
(* Widths.                                                                 *)

(* What `fitted` leaves of the bars keeps every token within the limit.    *)
LEMMA FitsInside ==
  ASSUME LevelTypes, NEW s \in Sample
  PROVE  /\ \A m \in Metric : ~(StatusLength(s, m) > MaxValueChars)
         /\ ~(SysLength(s) > MaxValueChars)
<1>1. /\ s.full["mem"] \in Nat /\ s.full["cpu"] \in Nat /\ s.full["load"] \in Nat
      /\ s.trimmed["mem"] \in Nat /\ s.trimmed["cpu"] \in Nat /\ s.trimmed["load"] \in Nat
      /\ MaxValueChars \in Nat
  BY TokensAssumption DEF Metric
<1>2. /\ s.full["mem"] + s.full["cpu"] + s.full["load"] + BarePad <= MaxValueChars
      /\ s.trimmed["mem"] <= s.full["mem"] /\ s.trimmed["cpu"] <= s.full["cpu"]
      /\ s.trimmed["load"] <= s.full["load"]
  BY ReadingsLeaveRoom DEF Metric
<1>3. \A m \in Metric : options.lines[m] \in Nat
  BY Thresholds DEF LevelTypes
<1>4. options.style \in Style
  BY TokensAssumption DEF LevelTypes
<1>5. /\ Full(s, "mem") = s.full["mem"] /\ Full(s, "cpu") = s.full["cpu"]
      /\ Trimmed(s, "cpu") = s.trimmed["cpu"]
      /\ Full(s, "load") \in 0 .. s.full["load"]
      /\ Trimmed(s, "load") \in 0 .. Full(s, "load")
  BY <1>1, <1>2 DEF Full, Trimmed
<1> DEFINE bare == IF options.style = "classic" THEN 1 ELSE 0
<1>6. /\ Widest(s) \in Nat
      /\ 1 + Trimmed(s, "cpu") <= Widest(s) /\ 1 + Full(s, "mem") <= Widest(s)
      /\ 1 + Trimmed(s, "load") <= Widest(s) /\ AllTexts(s) + bare <= Widest(s)
      /\ Widest(s) + Frame <= MaxValueChars
  BY <1>1, <1>2, <1>5 DEF Widest, Larger, AllTexts, Frame, BarePad
<1>7. Cells(s) = MaxValueChars - (Widest(s) + Frame)
  BY <1>1, <1>6 DEF Cells, Larger, Frame
<1>8. ASSUME NEW m \in Metric PROVE ~(StatusLength(s, m) > MaxValueChars)
  <2> DEFINE t == IF m = "mem" THEN Full(s, m) ELSE Trimmed(s, m)
  <2>1. t \in Nat /\ 1 + t <= Widest(s) /\ t + BarePad <= MaxValueChars
    BY <1>1, <1>2, <1>5, <1>6 DEF Metric, BarePad
  <2>2. StatusLength(s, m) = Bar(Fitted(s, m)) + 1 + t
    BY DEF StatusLength
  <2> HIDE DEF t
  <2>3. CASE options.style = "vertical"
    BY <2>1, <2>2, <2>3, <1>1 DEF Bar, Frame, BarePad
  <2>4. CASE options.style # "vertical"
    <3>1. Fitted(s, m) \in Nat /\ Fitted(s, m) <= Cells(s)
      BY <2>4, <1>1, <1>3, <1>6, <1>7 DEF Fitted, Smaller, Frame
    <3>2. Bar(Fitted(s, m)) \in Nat /\ Bar(Fitted(s, m)) <= Cells(s) + Frame
      BY <2>4, <3>1, <1>1, <1>4, <1>6, <1>7 DEF Bar, Frame, Style
    <3> QED
      BY <2>1, <2>2, <3>2, <1>1, <1>6, <1>7 DEF Frame
  <2> QED
    BY <2>3, <2>4
<1>9. ~(SysLength(s) > MaxValueChars)
  <2>1. AllTexts(s) \in Nat /\ AllTexts(s) + BarePad <= MaxValueChars
    BY <1>1, <1>2, <1>5 DEF AllTexts, BarePad
  <2>2. CASE options.style = "vertical"
    BY <2>1, <2>2, <1>1 DEF SysLength, Bar, Frame, BarePad
  <2>3. CASE options.style # "vertical"
    <3>1. "cpu" \in Metric
      BY DEF Metric
    <3>2. Fitted(s, "cpu") \in Nat /\ Fitted(s, "cpu") <= Cells(s)
      BY <2>3, <3>1, <1>1, <1>3, <1>6, <1>7 DEF Fitted, Smaller, Frame
    <3>3. Bar(Fitted(s, "cpu")) \in Nat /\ Bar(Fitted(s, "cpu")) <= Cells(s) + Frame
      BY <2>3, <3>2, <1>1, <1>4, <1>6, <1>7 DEF Bar, Frame, Style
    <3> QED
      BY <2>1, <2>3, <3>2, <3>3, <1>1, <1>6, <1>7 DEF SysLength, Frame
  <2> QED
    BY <2>2, <2>3
<1> QED
  BY <1>8, <1>9

(* No reading is cut off (tokens.rs:212-256), for any width of the bars    *)
(* and of texts that leave room for a bar without cells.                   *)
THEOREM NoReadingIsCut == Spec => []ReadingsAreWhole
<1>1. Init => ReadingsAreWhole
  BY DEF Init, ReadingsAreWhole
<1>2. LevelTypes /\ ReadingsAreWhole /\ [Next]_vars => ReadingsAreWhole'
  <2> SUFFICES ASSUME LevelTypes, ReadingsAreWhole, [Next]_vars
               PROVE  ReadingsAreWhole'
    OBVIOUS
  <2>1. ASSUME NEW s \in Sample, Build(s) PROVE ReadingsAreWhole'
    <3>1. cut' = CutOff(s, history')
      BY <2>1 DEF Build
    <3>2. {n \in Metric : StatusLength(s, n) > MaxValueChars} = {}
          /\ ~(SysLength(s) > MaxValueChars)
      BY FitsInside
    <3> QED
      BY <3>1, <3>2 DEF CutOff, ReadingsAreWhole
  <2>2. ASSUME NEW s \in Sample, Report(s) \/ ClearReport(s) \/ Unreported(s)
        PROVE  ReadingsAreWhole'
    BY <2>1, <2>2 DEF Report, ClearReport, Unreported
  <2>3. CASE Reconfigure \/ Restart \/ Expire
    BY <2>3 DEF Reconfigure, Restart, Expire, ReadingsAreWhole
  <2>4. CASE UNCHANGED vars
    BY <2>4 DEF vars, ReadingsAreWhole
  <2> QED
    BY <2>2, <2>3, <2>4 DEF Next
<1> QED
  BY InitLevelTypes, NextLevelTypes, <1>1, <1>2, PTL DEF Spec
-----------------------------------------------------------------------------
(* The history, and the types that rest on it.                             *)

LEMMA LastNIs ==
  ASSUME NEW S, NEW s \in Seq(S), NEW n \in Nat
  PROVE  /\ LastN(s, n) \in Seq(S)
         /\ Len(LastN(s, n)) <= n /\ Len(LastN(s, n)) <= Len(s)
         /\ \A i \in 1 .. Len(LastN(s, n)) :
              LastN(s, n)[i] = s[Len(s) - Len(LastN(s, n)) + i]
<1>1. CASE Len(s) <= n
  BY <1>1 DEF LastN
<1>2. CASE Len(s) > n
  <2>1. /\ SubSeq(s, Len(s) - n + 1, Len(s)) \in Seq(S)
        /\ Len(SubSeq(s, Len(s) - n + 1, Len(s))) = n
        /\ \A i \in 1 .. n :
             SubSeq(s, Len(s) - n + 1, Len(s))[i] = s[Len(s) - n + i]
    BY <1>2
  <2>2. LastN(s, n) = SubSeq(s, Len(s) - n + 1, Len(s))
    BY <1>2 DEF LastN
  <2> QED
    BY <2>1, <2>2, <1>2
<1> QED
  BY <1>1, <1>2

(* The numbers up to the last sample, none skipped.                        *)
HistoryInv ==
  /\ options \in Setting
  /\ samples \in 0 .. MaxSamples
  /\ history \in Seq(1 .. MaxSamples)
  /\ HistoryIsRecent

LEMMA Capacity ==
  ASSUME NEW o \in Setting
  PROVE  o.capacity \in Nat
  BY TokensAssumption

LEMMA BuildKeepsHistory ==
  ASSUME HistoryInv, NEW s \in Sample, Build(s)
  PROVE  HistoryInv'
<1> DEFINE c == options.capacity
           kept == LastN(history, c - 1)
<1>1. /\ c \in Nat /\ options' = options /\ samples \in Nat /\ MaxSamples \in Nat
      /\ samples' = samples + 1 /\ samples' \in 1 .. MaxSamples
      /\ history \in Seq(1 .. MaxSamples) /\ Len(history) \in Nat
      /\ Len(history) <= c
      /\ \A i \in 1 .. Len(history) : history[i] = samples - Len(history) + i
  BY Capacity, TokensAssumption DEF HistoryInv, HistoryIsRecent, Build
<1>2. CASE c = 0
  <2>1. history' = history
    BY <1>2 DEF Build, Push
  <2> QED
    BY <2>1, <1>1, <1>2 DEF HistoryInv, HistoryIsRecent
<1>3. CASE c # 0
  <2>1. /\ kept \in Seq(1 .. MaxSamples) /\ Len(kept) \in Nat
        /\ Len(kept) <= c - 1 /\ Len(kept) <= Len(history)
        /\ \A i \in 1 .. Len(kept) :
             kept[i] = history[Len(history) - Len(kept) + i]
    <3>1. c - 1 \in Nat
      BY <1>1, <1>3
    <3> HIDE DEF c
    <3>2. kept \in Seq(1 .. MaxSamples)
      BY <3>1, <1>1, LastNIs
    <3>3. Len(kept) \in Nat
      BY <3>2
    <3> QED
      BY <3>1, <3>2, <3>3, <1>1, LastNIs
  <2>2. history' = Append(kept, samples + 1)
    BY <1>3 DEF Build, Push
  <2> HIDE DEF kept
  <2>3. \A i \in 1 .. Len(kept) : kept[i] = samples - Len(kept) + i
    <3> SUFFICES ASSUME NEW i \in 1 .. Len(kept)
                 PROVE  kept[i] = samples - Len(kept) + i
      OBVIOUS
    <3>1. Len(history) - Len(kept) + i \in 1 .. Len(history)
      BY <2>1, <1>1
    <3>2. history[Len(history) - Len(kept) + i]
            = samples - Len(history) + (Len(history) - Len(kept) + i)
      BY <3>1, <1>1
    <3> QED
      BY <3>2, <2>1, <1>1
  <2>4. /\ history' \in Seq(1 .. MaxSamples)
        /\ Len(history') = Len(kept) + 1
        /\ \A i \in 1 .. Len(kept) : history'[i] = kept[i]
        /\ history'[Len(kept) + 1] = samples + 1
    BY <2>1, <2>2, <1>1
  <2>5. \A i \in 1 .. Len(history') : history'[i] = samples' - Len(history') + i
    <3> SUFFICES ASSUME NEW i \in 1 .. Len(history')
                 PROVE  history'[i] = samples' - Len(history') + i
      OBVIOUS
    <3>1. CASE i = Len(kept) + 1
      BY <3>1, <2>4, <2>1, <1>1
    <3>2. CASE i \in 1 .. Len(kept)
      BY <3>2, <2>3, <2>4, <2>1, <1>1
    <3> QED
      BY <3>1, <3>2, <2>4, <2>1
  <2>6. Len(history') <= options'.capacity
    BY <2>4, <2>1, <1>1
  <2>7. options' \in Setting /\ samples' \in 0 .. MaxSamples
    BY <1>1 DEF HistoryInv
  <2> QED
    BY <2>4, <2>5, <2>6, <2>7 DEF HistoryInv, HistoryIsRecent
<1> QED
  BY <1>2, <1>3

LEMMA ReconfigureKeepsHistory ==
  ASSUME HistoryInv, Reconfigure
  PROVE  HistoryInv'
<1>1. /\ options' \in Setting /\ options'.capacity \in Nat
      /\ samples' = samples /\ samples \in 0 .. MaxSamples
      /\ history \in Seq(1 .. MaxSamples) /\ Len(history) \in Nat
      /\ \A i \in 1 .. Len(history) : history[i] = samples - Len(history) + i
      /\ history' = LastN(history, options'.capacity)
  BY Capacity DEF HistoryInv, HistoryIsRecent, Reconfigure, Resize
<1>2. /\ history' \in Seq(1 .. MaxSamples)
      /\ Len(history') <= options'.capacity /\ Len(history') <= Len(history)
      /\ \A i \in 1 .. Len(history') :
           history'[i] = history[Len(history) - Len(history') + i]
  BY <1>1, LastNIs
<1>3. Len(history') \in Nat
  BY <1>2
<1>4. ASSUME NEW i \in 1 .. Len(history')
      PROVE  history'[i] = samples' - Len(history') + i
  <2>1. Len(history) - Len(history') + i \in 1 .. Len(history)
    BY <1>1, <1>2, <1>3
  <2>2. history[Len(history) - Len(history') + i]
          = samples - Len(history) + (Len(history) - Len(history') + i)
    BY <2>1, <1>1
  <2>3. samples \in Int /\ samples' = samples /\ Len(history) \in Nat
    BY <1>1, TokensAssumption
  <2>4. history'[i] = history[Len(history) - Len(history') + i]
    BY <1>2
  <2>5. samples - Len(history) + (Len(history) - Len(history') + i)
          = samples - Len(history') + i
    BY <2>3, <1>3
  <2> QED
    BY <2>2, <2>3, <2>4, <2>5
<1> QED
  BY <1>1, <1>2, <1>4 DEF HistoryInv, HistoryIsRecent

LEMMA HistoryStep == HistoryInv /\ [Next]_vars => HistoryInv'
<1> SUFFICES ASSUME HistoryInv, [Next]_vars PROVE HistoryInv'
  OBVIOUS
<1>1. ASSUME NEW s \in Sample, Report(s) \/ ClearReport(s) \/ Unreported(s)
      PROVE  HistoryInv'
  BY <1>1, BuildKeepsHistory DEF Report, ClearReport, Unreported
<1>2. CASE Reconfigure
  BY <1>2, ReconfigureKeepsHistory
<1>3. CASE Restart
  <2>1. options' \in Setting /\ history' = <<>> /\ samples' = samples
    BY <1>3 DEF Restart
  <2> QED
    BY <2>1, Capacity DEF HistoryInv, HistoryIsRecent
<1>4. CASE Expire \/ UNCHANGED vars
  BY <1>4 DEF Expire, vars, HistoryInv, HistoryIsRecent
<1> QED
  BY <1>1, <1>2, <1>3, <1>4 DEF Next

LEMMA InitHistory == Init => HistoryInv
<1> SUFFICES ASSUME Init PROVE HistoryInv
  OBVIOUS
<1>1. options \in Setting /\ history = <<>> /\ samples = 0
  BY DEF Init
<1> QED
  BY <1>1, Capacity, TokensAssumption DEF HistoryInv, HistoryIsRecent

(***************************************************************************)
(* The history is what the last ticks measured, whatever lengths it is     *)
(* given in between (mod.rs:193-215, 371-379).                             *)
(***************************************************************************)
THEOREM HistoryHasNoGaps == Spec => []HistoryIsRecent
<1>1. HistoryInv => HistoryIsRecent
  BY DEF HistoryInv
<1> QED
  BY <1>1, InitHistory, HistoryStep, PTL DEF Spec

(* A history that fits is shown whole, up to its last sample.              *)
LEMMA FittingHistoryEnds ==
  ASSUME NEW h \in Seq(1 .. MaxSamples), h # <<>>, Len(h) <= MaxValueChars
  PROVE  Sparkline(h)[Len(Sparkline(h))] = h[Len(h)]
  BY DEF Sparkline, FirstN

(***************************************************************************)
(* What the history token shows ends at the sample of the report it came   *)
(* with, whatever reports were lost and whatever lengths the history was   *)
(* given, as long as all of them fit in a value (README.md:160-181,        *)
(* tokens.rs:289-296).                                                     *)
(***************************************************************************)
THEOREM HistoryEndsNow == Spec => []HistoryShowsNow
<1>1. Init => HistoryShowsNow
  BY DEF Init, HistoryShowsNow, CpuHistory, Key
<1>2. HistoryInv /\ HistoryShowsNow /\ [Next]_vars => HistoryShowsNow'
  <2> SUFFICES ASSUME HistoryInv, HistoryShowsNow, [Next]_vars, HistoryFits,
                      shown'[CpuHistory] # 0
               PROVE  newest' = shown'[CpuHistory]
    BY DEF HistoryShowsNow, HistoryFits
  <2>1. CpuHistory \in Key
    BY DEF Key
  <2>2. ASSUME NEW s \in Sample, Report(s)
        PROVE  newest' = shown'[CpuHistory]
    <3>1. CASE history' = <<>>
      <4>1. /\ CpuHistory \notin SetKeys(levels', history')
            /\ CpuHistory \in ClearKeys(levels', history')
        BY <3>1 DEF SetKeys, ClearKeys, CpuHistory, Status, LevelKey, SysStatus,
                    Metric
      <4>2. shown'[CpuHistory] = 0
        BY <2>1, <2>2, <4>1 DEF Report, Show
      <4> QED
        BY <4>2
    <3>2. CASE history' # <<>>
      <4>1. /\ history' \in Seq(1 .. MaxSamples) /\ samples' \in Int
            /\ Len(history') <= MaxValueChars
            /\ \A i \in 1 .. Len(history') :
                 history'[i] = samples' - Len(history') + i
        <5>1. HistoryInv'
          BY HistoryStep
        <5>2. options' \in Setting /\ options'.capacity <= MaxValueChars
          BY <5>1 DEF HistoryInv, HistoryFits
        <5> QED
          BY <5>1, <5>2, Capacity, TokensAssumption
             DEF HistoryInv, HistoryIsRecent
      <4>2. newest' = samples'
        <5>1. newest' = history'[Len(history')]
          BY <2>2, <3>2, <4>1, FittingHistoryEnds DEF Report
        <5>2. Len(history') \in Nat \ {0}
          BY <3>2, <4>1, EmptySeq
        <5> QED
          BY <5>1, <5>2, <4>1
      <4>3. CpuHistory \in SetKeys(levels', history')
        BY <3>2 DEF SetKeys
      <4>4. shown'[CpuHistory] = samples'
        BY <2>1, <2>2, <4>3 DEF Report, Show
      <4> QED
        BY <4>2, <4>4
    <3> QED
      BY <3>1, <3>2
  <2>3. ASSUME NEW s \in Sample, ClearReport(s)
        PROVE  newest' = shown'[CpuHistory]
    <3>1. \/ CpuHistory \in SetKeys(levels', history')
          \/ CpuHistory \in ClearKeys(levels', history')
      BY DEF SetKeys, ClearKeys
    <3>2. shown'[CpuHistory] = 0
      BY <2>1, <2>3, <3>1 DEF ClearReport, Show
    <3> QED
      BY <3>2
  <2>4. ASSUME NEW s \in Sample, Unreported(s)
        PROVE  newest' = shown'[CpuHistory]
    BY <2>4 DEF Unreported, HistoryShowsNow
  <2>5. CASE Reconfigure \/ Restart \/ UNCHANGED vars
    BY <2>5 DEF Reconfigure, Restart, vars, HistoryShowsNow
  <2>6. CASE Expire
    BY <2>1, <2>6 DEF Expire
  <2> QED
    BY <2>2, <2>3, <2>4, <2>5, <2>6 DEF Next
<1> QED
  BY <1>1, <1>2, InitHistory, HistoryStep, PTL DEF Spec

(* What a history token shows last is a sample of the history.             *)
LEMMA SparklineEnds ==
  ASSUME NEW h \in Seq(1 .. MaxSamples), h # <<>>, NEW s \in Sample
  PROVE  Sparkline(h)[Len(Sparkline(h))] \in 1 .. MaxSamples
<1>1. MaxValueChars \in Nat /\ MaxValueChars >= 1
  <2>1. \A m \in Metric : s.full[m] \in Nat
    BY TokensAssumption
  <2>2. s.full["mem"] \in Nat /\ s.full["cpu"] \in Nat /\ s.full["load"] \in Nat
    BY <2>1 DEF Metric
  <2> QED
    BY <2>2, TokensAssumption, ReadingsLeaveRoom DEF BarePad
<1>2. /\ Len(h) \in Nat /\ Len(h) >= 1
      /\ \A i \in 1 .. Len(h) : h[i] \in 1 .. MaxSamples
  <2>1. Len(h) \in Nat \ {0}
    BY EmptySeq
  <2>2. \A i \in 1 .. Len(h) : h[i] \in 1 .. MaxSamples
    BY ElementOfSeq
  <2> QED
    BY <2>1, <2>2
<1>3. CASE Len(h) <= MaxValueChars
  <2>1. Sparkline(h) = h
    BY <1>3 DEF Sparkline, FirstN
  <2> QED
    BY <2>1, <1>2
<1>4. CASE ~(Len(h) <= MaxValueChars)
  <2>1. Sparkline(h) = SubSeq(h, 1, MaxValueChars)
    BY <1>4 DEF Sparkline, FirstN
  <2>2. /\ Len(SubSeq(h, 1, MaxValueChars)) = MaxValueChars
        /\ SubSeq(h, 1, MaxValueChars)[MaxValueChars] = h[MaxValueChars]
    BY <1>1, <1>2, <1>4
  <2>3. MaxValueChars \in 1 .. Len(h)
    BY <1>1, <1>2, <1>4
  <2> QED
    BY <2>1, <2>2, <2>3, <1>2
<1> QED
  BY <1>3, <1>4

LEMMA TypesStep == HistoryInv /\ LevelTypes /\ TypeOK /\ [Next]_vars => TypeOK'
<1> SUFFICES ASSUME HistoryInv, LevelTypes, TypeOK, [Next]_vars PROVE TypeOK'
  OBVIOUS
<1>1. HistoryInv' /\ LevelTypes'
  BY HistoryStep, NextLevelTypes
<1>2. /\ options' \in Setting /\ levels' \in [Metric -> Level]
      /\ history' \in Seq(1 .. MaxSamples) /\ samples' \in 0 .. MaxSamples
      /\ turn' \in [Metric -> [dir : {"none", "up", "down"}, at : Int]]
  BY <1>1 DEF HistoryInv, LevelTypes
<1>3. 0 \in 0 .. MaxSamples
  BY TokensAssumption
<1>4. ASSUME NEW s \in Sample, Report(s) \/ ClearReport(s) \/ Unreported(s)
      PROVE  /\ shown' \in [Key -> 0 .. MaxSamples]
             /\ newest' \in 0 .. MaxSamples
             /\ cut' \in SUBSET Key
  <2>1. cut' \in SUBSET Key
    <3>1. cut' = CutOff(s, history')
      BY <1>4 DEF Report, ClearReport, Unreported, Build
    <3> QED
      BY <3>1 DEF CutOff, Key
  <2>2. shown' \in [Key -> 0 .. MaxSamples]
    BY <1>4, <1>2, <1>3 DEF Report, ClearReport, Unreported, Show, TypeOK
  <2>3. newest' \in 0 .. MaxSamples
    <3>1. CASE Report(s)
      <4>1. CASE history' = <<>>
        BY <3>1, <4>1, <1>3 DEF Report
      <4>2. CASE history' # <<>>
        <5>1. newest' = Sparkline(history')[Len(Sparkline(history'))]
          BY <3>1, <4>2 DEF Report
        <5>2. newest' \in 1 .. MaxSamples
          BY <5>1, <4>2, <1>2, SparklineEnds
        <5> QED
          BY <5>2
      <4> QED
        BY <4>1, <4>2
    <3>2. CASE ClearReport(s) \/ Unreported(s)
      BY <3>2, <1>3 DEF ClearReport, Unreported, TypeOK
    <3> QED
      BY <1>4, <3>1, <3>2
  <2> QED
    BY <2>1, <2>2, <2>3
<1>5. CASE Reconfigure \/ Restart \/ UNCHANGED vars
  BY <1>5, <1>2 DEF Reconfigure, Restart, vars, TypeOK
<1>6. CASE Expire
  BY <1>6, <1>2, <1>3 DEF Expire, TypeOK
<1> QED
  BY <1>2, <1>4, <1>5, <1>6 DEF Next, TypeOK

(***************************************************************************)
(* What is remembered of a report has its types: the levels, the history,  *)
(* the tokens shown and the readings of them (mod.rs:193-215,              *)
(* tokens.rs:63-116, 258-287).                                             *)
(***************************************************************************)
THEOREM TokenTypes == Spec => []TypeOK
<1>1. Init => TypeOK
  <2> SUFFICES ASSUME Init PROVE TypeOK
    OBVIOUS
  <2>1. HistoryInv /\ LevelTypes
    BY InitHistory, InitLevelTypes
  <2> QED
    BY <2>1, TokensAssumption DEF Init, HistoryInv, LevelTypes, TypeOK
<1> QED
  BY <1>1, InitHistory, HistoryStep, InitLevelTypes, NextLevelTypes, TypesStep,
     PTL DEF Spec
=============================================================================
