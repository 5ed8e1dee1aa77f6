---------------------------- MODULE DaemonProofs ----------------------------
(***************************************************************************)
(* What holds of the daemon for every number of workspaces and sources,    *)
(* every ttl and every bound: its types, the numbers of its reports, when  *)
(* it gives up and that it gets there, which workspaces carry rows and for *)
(* how long, that a viewer sees what SidebarView promises, and that its    *)
(* loop is ReportLoop.                                                     *)
(*                                                                         *)
(* The rows rest on the numbers: a clear only takes rows away if herdr     *)
(* does not ignore it.                                                     *)
(***************************************************************************)
EXTENDS Daemon, FiniteSetTheorems, TLAPS

-----------------------------------------------------------------------------
(* Types.                                                                  *)

(* A running daemon has not used up its failures, which is what keeps the  *)
(* count within its range.                                                 *)
TypeInv ==
  /\ TypeOK
  /\ Running => failures < MaxFailures

(* Rows stay within their ttl when they age and when a report is handled.  *)
LEMMA OlderType ==
  ASSUME NEW n \in Nat, NEW life \in 0 .. n, NEW k \in Nat
  PROVE  Older(life, k) \in 0 .. n
BY DEF Older

LEMMA AgeType ==
  ASSUME TypeOK, NEW k \in Nat, AgeRows(k)
  PROVE  rows' \in [Workspace -> [Source -> 0 .. Ttl]]
<1>1. ASSUME NEW w \in Workspace, NEW s \in Source
      PROVE  Older(rows[w][s], k) \in 0 .. Ttl
  <2>1. rows[w][s] \in 0 .. Ttl
    BY DEF TypeOK, HerdrTypeOK
  <2>2. QED
    BY <2>1, HerdrAssumption DEF Older
<1>2. QED
  BY <1>1 DEF AgeRows

LEMMA UpdateType ==
  ASSUME NEW S, NEW T, NEW V, NEW f \in [S -> [T -> V]],
         NEW a \in S, NEW b \in T, NEW v \in V
  PROVE  [f EXCEPT ![a][b] = v] \in [S -> [T -> V]]
<1>1. [f[a] EXCEPT ![b] = v] \in [T -> V]
  OBVIOUS
<1>2. QED
  BY <1>1

LEMMA HandleType ==
  ASSUME TypeOK, NEW r \in Report, Handle(r)
  PROVE  /\ rows' \in [Workspace -> [Source -> 0 .. Ttl]]
         /\ accepted' \in [Workspace -> [Source -> Nat]]
<1>1. CASE Accepts(r)
  <2>1. r.ws \in Workspace /\ r.source \in Source /\ r.seq \in Nat
    BY DEF Report
  <2>2. (IF r.kind = "set" THEN Ttl ELSE 0) \in 0 .. Ttl
    BY HerdrAssumption
  <2>3. rows' \in [Workspace -> [Source -> 0 .. Ttl]]
    <3> DEFINE v == IF r.kind = "set" THEN Ttl ELSE 0
    <3>1. rows \in [Workspace -> [Source -> 0 .. Ttl]]
      BY DEF TypeOK, HerdrTypeOK
    <3>2. v \in 0 .. Ttl
      BY <2>2
    <3>3. rows' = [rows EXCEPT ![r.ws][r.source] = v]
      BY <1>1 DEF Handle
    <3> HIDE DEF v
    <3>4. QED
      BY <2>1, <3>1, <3>2, <3>3, UpdateType
  <2>4. accepted' \in [Workspace -> [Source -> Nat]]
    <3>1. accepted \in [Workspace -> [Source -> Nat]]
      BY DEF TypeOK, HerdrTypeOK
    <3>2. accepted' = [accepted EXCEPT ![r.ws][r.source] = r.seq]
      BY <1>1 DEF Handle
    <3>3. QED
      BY <2>1, <3>1, <3>2, UpdateType
  <2>5. QED
    BY <2>3, <2>4
<1>2. CASE ~Accepts(r)
  BY <1>2 DEF Handle, TypeOK, HerdrTypeOK
<1>3. QED
  BY <1>1, <1>2

LEMMA ReportForType ==
  ASSUME TypeOK, NEW w \in Workspace, NEW kind \in {"set", "clear"}
  PROVE  ReportFor(w, kind) \in Report
BY DEF TypeOK, ReportFor, Report, Options

LEMMA TargetsType ==
  ASSUME TypeOK, NEW aims \in TargetChoices(ListNow)
  PROVE  aims \in SUBSET Workspace
BY DEF TypeOK, HerdrTypeOK, TargetChoices, ListNow

LEMMA NotReadType ==
  NotRead \in [read : BOOLEAN, open : SUBSET Workspace,
               focused : Workspace \cup {NoFocus}]
BY DEF NotRead

LEMMA TypeInitially == Init => TypeInv
<1> SUFFICES ASSUME Init PROVE TypeInv
  OBVIOUS
<1>1. HerdrTypeOK
  BY HerdrAssumption DEF Init, HerdrInit, HerdrTypeOK
<1>2. options \in Options /\ workspaces \in [read : BOOLEAN,
        open : SUBSET Workspace, focused : Workspace \cup {NoFocus}]
  BY NotReadType DEF Init
<1>3. /\ failures \in 0 .. MaxFailures /\ last \in Nat /\ clock \in 0 .. MaxClock
      /\ failures < MaxFailures
  BY DaemonAssumption DEF Init
<1>4. /\ events \in 0 .. MaxEvents /\ restarts \in 0 .. MaxRestarts
      /\ tainted \in 0 .. Ttl /\ renamed \in 0 .. Ttl /\ missed \in Nat
  BY HerdrAssumption, DaemonAssumption DEF Init
<1>5. QED
  BY <1>1, <1>2, <1>3, <1>4 DEF Init, TypeInv, TypeOK

LEMMA TypeStep == TypeInv /\ [Next]_vars => TypeInv'
<1> SUFFICES ASSUME TypeInv, [Next]_vars
             PROVE  TypeInv'
  OBVIOUS
<1> USE HerdrAssumption, DaemonAssumption DEF TypeInv
<1>1. CASE Start
  <2>1. rows' \in [Workspace -> [Source -> 0 .. Ttl]]
    BY <1>1, AgeType DEF Start
  <2>2. HerdrTypeOK'
    BY <1>1, <2>1 DEF Start, TypeOK, HerdrTypeOK
  <2>3. clock' \in 0 .. MaxClock /\ restarts' \in 0 .. MaxRestarts
    BY <1>1 DEF Start, ClockMoves, TypeOK
  <2>4. /\ failures' \in 0 .. MaxFailures /\ failures' < MaxFailures
        /\ last' \in Nat /\ missed' \in Nat
        /\ tainted' \in 0 .. Ttl /\ renamed' \in 0 .. Ttl /\ fresh' \in 0 .. Ttl
    BY <1>1 DEF Start
  <2>5. /\ options' \in Options /\ file' \in Options /\ events' \in 0 .. MaxEvents
        /\ pc' = "awake" /\ primed' \in BOOLEAN
        /\ reported' = {} /\ targets' = {} /\ toClear' = {} /\ toSet' = {}
        /\ lost' = {}
    BY <1>1 DEF Start, TypeOK
  <2>6. workspaces' \in [read : BOOLEAN, open : SUBSET Workspace,
                         focused : Workspace \cup {NoFocus}]
    BY <1>1, NotReadType DEF Start
  <2>7. QED
    BY <2>2, <2>3, <2>4, <2>5, <2>6 DEF TypeOK
<1>2. CASE Wake
  <2>1. /\ rows' \in [Workspace -> [Source -> 0 .. Ttl]]
        /\ tainted' \in 0 .. Ttl /\ renamed' \in 0 .. Ttl
        /\ fresh' \in 0 .. Ttl
    BY <1>2, AgeType, OlderType DEF Wake, Pass, TypeOK
  <2>2. QED
    BY <1>2, <2>1, NotReadType DEF Wake, Pass, ClockMoves, TypeOK, HerdrTypeOK, Running,
                      bounds
<1>3. CASE Reload
  <2>1. options' \in Options /\ renamed' \in 0 .. Ttl
    BY <1>3, HerdrAssumption DEF Reload, TypeOK
  <2>2. QED
    BY <1>3, <2>1 DEF Reload, TypeOK, HerdrTypeOK, Running, herdrVars, tickVars, bounds
<1>4. CASE Tick
  <2>1. CASE SocketGone \/ Sample
    BY <2>1 DEF SocketGone, Sample, TypeOK, HerdrTypeOK, Running, herdrVars,
                tickVars, bounds, observed
  <2>2. CASE Prime
    BY <2>2 DEF Prime, TypeOK, HerdrTypeOK, Running, herdrVars, tickVars,
                bounds, observed
  <2>3. QED
    BY <1>4, <2>1, <2>2 DEF Tick
<1>0. CASE SampleFails
  BY <1>0 DEF SampleFails, Spend, TypeOK, HerdrTypeOK, Running, herdrVars,
              tickVars, observed
<1>5. CASE ListFails
  BY <1>5 DEF ListFails, Spend, TypeOK, HerdrTypeOK, Running, herdrVars,
              tickVars, bounds
<1>6. CASE ListOk
  <2>1. targets' \in SUBSET Workspace
    BY <1>6, TargetsType DEF ListOk
  <2>2. QED
    BY <1>6, <2>1 DEF ListOk, ListNow, NextSeq, StaleTargets, TypeOK,
                      HerdrTypeOK, Running, herdrVars, bounds
<1>7. CASE CallTakesTime
  <2>1. /\ rows' \in [Workspace -> [Source -> 0 .. Ttl]]
        /\ tainted' \in 0 .. Ttl /\ renamed' \in 0 .. Ttl
        /\ fresh' \in 0 .. Ttl
    BY <1>7, AgeType, OlderType DEF CallTakesTime, Pass, TypeOK
  <2>2. QED
    BY <1>7, <2>1 DEF CallTakesTime, Pass, TypeOK, HerdrTypeOK, Running,
                      daemonVars, tickVars, bounds
<1>8. ASSUME NEW w \in Workspace, NEW kind \in {"set", "clear"},
             ReportHandled(w, kind)
      PROVE  TypeInv'
  <2>1. /\ rows' \in [Workspace -> [Source -> 0 .. Ttl]]
        /\ accepted' \in [Workspace -> [Source -> Nat]]
    BY <1>8, HandleType, ReportForType DEF ReportHandled
  <2>2. QED
    BY <1>8, <2>1 DEF ReportHandled, Sent, TypeOK, HerdrTypeOK, Running,
                      bounds, observed
<1>9. ASSUME NEW w \in Workspace, NEW kind \in {"set", "clear"},
             ReportLost(w, kind)
      PROVE  TypeInv'
  BY <1>9 DEF ReportLost, Sent, Spend, Miss, TypeOK, HerdrTypeOK, Running,
              herdrVars
<1>10. ASSUME NEW w \in Workspace, NEW kind \in {"set", "clear"},
              ReportKilled(w, kind)
       PROVE  TypeInv'
  <2>1. late' \in SUBSET Report
    BY <1>10, ReportForType DEF ReportKilled, TypeOK, HerdrTypeOK
  <2>2. QED
    BY <1>10, <2>1 DEF ReportKilled, Sent, Spend, Miss, TypeOK, HerdrTypeOK,
                       Running
<1>11. CASE EndTick
  BY <1>11 DEF EndTick, TypeOK, HerdrTypeOK, Running, herdrVars, tickVars,
               bounds, observed
<1>12. CASE Crash \/ EditConfig
  BY <1>12 DEF Crash, EditConfig, Spend, TypeOK, HerdrTypeOK, Running, bounds,
               herdrVars, daemonVars, tickVars, observed
<1>13. CASE Outside
  <2>1. ASSUME MoveFocus PROVE HerdrTypeOK'
    BY <2>1 DEF MoveFocus, TypeOK, HerdrTypeOK
  <2>6. ASSUME ServerDown PROVE HerdrTypeOK'
    BY <2>6, Zenon DEF ServerDown, TypeOK, HerdrTypeOK
  <2>7. ASSUME ServerUp PROVE HerdrTypeOK'
    BY <2>7, Zenon DEF ServerUp, TypeOK, HerdrTypeOK
  <2>2. ASSUME NEW w \in Workspace, OpenWorkspace(w)
        PROVE  HerdrTypeOK'
    BY <2>2 DEF OpenWorkspace, TypeOK, HerdrTypeOK
  <2>3. ASSUME NEW w \in Workspace, CloseWorkspace(w)
        PROVE  HerdrTypeOK'
    <3>1. rows' \in [Workspace -> [Source -> 0 .. Ttl]]
      BY <2>3, HerdrAssumption DEF CloseWorkspace, TypeOK, HerdrTypeOK
    <3>2. open' \in SUBSET Workspace /\ focused' \in open' \cup {NoFocus}
      BY <2>3 DEF CloseWorkspace, TypeOK, HerdrTypeOK
    <3>3. QED
      BY <2>3, <3>1, <3>2 DEF CloseWorkspace, TypeOK, HerdrTypeOK
  <2>4. HerdrTypeOK'
    BY <1>13, <2>1, <2>2, <2>3, <2>6, <2>7, Zenon DEF Outside
  <2>5. QED
    BY <1>13, <2>4 DEF Outside, Spend, TypeOK, Running, daemonVars, tickVars,
                       observed
<1>14. CASE LateArrives
  <2> PICK r \in late : DeliverLate(r)
    BY <1>14 DEF LateArrives
  <2>1. /\ rows' \in [Workspace -> [Source -> 0 .. Ttl]]
        /\ accepted' \in [Workspace -> [Source -> Nat]]
    BY HandleType DEF DeliverLate, TypeOK, HerdrTypeOK
  <2>2. QED
    BY <1>14, <2>1 DEF LateArrives, DeliverLate, TypeOK, HerdrTypeOK, Running,
                       daemonVars, tickVars, bounds
<1>15. CASE UNCHANGED vars
  BY <1>15 DEF vars, herdrVars, daemonVars, tickVars, bounds, observed, TypeOK,
               HerdrTypeOK, Running
<1>16. QED
  BY <1>0, <1>1, <1>2, <1>3, <1>4, <1>5, <1>6, <1>7, <1>8, <1>9, <1>10, <1>11, <1>12,
     <1>13, <1>14, <1>15 DEF Next, Step, World, List, Call

(***************************************************************************)
(* Every state of the daemon and of the server it talks to is well typed.  *)
(***************************************************************************)
THEOREM TypeCorrect == Spec => []TypeInv
BY TypeInitially, TypeStep, PTL DEF Spec

(***************************************************************************)
(* The part of it the runs check.                                          *)
(***************************************************************************)
THEOREM Types == Spec => []TypeOK
BY TypeCorrect, PTL DEF TypeInv

-----------------------------------------------------------------------------
(* Sequence numbers.                                                       *)

(* Every number herdr knows for workspace w is below n: those it accepted  *)
(* and those of the reports still under way.                               *)
Below(w, n) ==
  /\ \A s \in Source : accepted[w][s] < n
  /\ \A r \in late : r.ws = w => r.seq < n

(* What the numbers are measured against.  A process that is never started *)
(* again remembers its last one.  When there may be a next process, which  *)
(* remembers nothing, the clock has to do.                                 *)
Horizon == IF MaxRestarts = 0 THEN last ELSE clock

(***************************************************************************)
(* The inductive invariant behind NewestWins.  Its second conjunct is      *)
(* NewestWins without naming the source, and says besides that a workspace *)
(* gets one report a tick; the first bounds all numbers; the third says    *)
(* that before a tick draws its number the clock is ahead of them all.     *)
(***************************************************************************)
SeqInv ==
  /\ \A w \in Workspace : Below(w, Horizon + 1)
  /\ pc = "report" =>
       /\ toClear \cap toSet = {}
       /\ \A w \in toClear \cup toSet : Below(w, last)
  /\ MaxRestarts # 0 =>
       /\ last <= clock
       /\ pc \in {"awake", "tick", "list"} =>
            /\ last < clock
            /\ \A w \in Workspace : Below(w, clock)

(* The wall clock moves forward, or no process follows another.            *)
ClockTrusted == SteadyClock \/ MaxRestarts = 0

(* Where a process is before its tick draws a number.                      *)
Early == {"awake", "tick", "list"}

LEMMA BelowGrows ==
  ASSUME TypeOK, NEW w \in Workspace, NEW n \in Int, NEW m \in Int, n <= m,
         Below(w, n)
  PROVE  Below(w, m)
BY DEF Below, TypeOK, HerdrTypeOK, Report

(* A step that draws no number and brings none to the server.              *)
LEMMA QuietStep ==
  ASSUME SeqInv, UNCHANGED <<accepted, last, clock>>, late' \subseteq late,
         pc' = "report" => /\ pc = "report"
                           /\ toClear' \subseteq toClear
                           /\ toSet' \subseteq toSet,
         pc' \in Early => pc \in Early
  PROVE  SeqInv'
<1>1. ASSUME NEW w \in Workspace, NEW n, Below(w, n)
      PROVE  Below(w, n)'
  BY <1>1 DEF Below
<1>2. Horizon' = Horizon
  BY DEF Horizon
<1>3. \A w \in Workspace : Below(w, Horizon + 1)'
  BY <1>1, <1>2 DEF SeqInv, Below
<1>4. QED
  BY <1>1, <1>3 DEF SeqInv, Below, Early

(* The report that is due names a workspace that no other report names.    *)
LEMMA SeqReportHandled ==
  ASSUME TypeInv, SeqInv, NEW w \in Workspace, NEW kind \in {"set", "clear"},
         ReportHandled(w, kind)
  PROVE  SeqInv'
<1> DEFINE r == ReportFor(w, kind)
<1>1. /\ pc = "report" /\ pc' = pc /\ UNCHANGED <<late, last, clock>>
      /\ w \in toClear \cup toSet
      /\ toClear' \cup toSet' = (toClear \cup toSet) \ {w}
      /\ toClear' \cap toSet' = {}
  BY DEF ReportHandled, Due, Sent, SeqInv
<1>2. r \in Report /\ r.ws = w /\ r.seq = last
  BY ReportForType DEF TypeInv, ReportFor
<1>3. ASSUME NEW v \in Workspace
      PROVE  /\ v # w => accepted'[v] = accepted[v]
             /\ \A s \in Source : accepted'[v][s] \in {accepted[v][s], last}
  <2>1. CASE Accepts(r)
    <3>1. accepted' = [accepted EXCEPT ![w][options.source] = last]
      BY <1>2, <2>1 DEF ReportHandled, Handle, ReportFor
    <3>2. accepted \in [Workspace -> [Source -> Nat]]
      BY DEF TypeInv, TypeOK, HerdrTypeOK
    <3>3. QED
      BY <3>1, <3>2
  <2>2. CASE ~Accepts(r)
    BY <2>2 DEF ReportHandled, Handle
  <2>3. QED
    BY <2>1, <2>2
<1>4. last <= Horizon /\ last \in Nat /\ Horizon \in Nat
  BY DEF SeqInv, Horizon, TypeInv, TypeOK
<1>5. \A v \in Workspace : Below(v, Horizon + 1)'
  <2> TAKE v \in Workspace
  <2>1. Below(v, Horizon + 1) /\ Horizon' = Horizon
    BY <1>1 DEF SeqInv, Horizon
  <2>2. QED
    BY <1>1, <1>3, <1>4, <2>1 DEF Below
<1>6. \A v \in toClear' \cup toSet' : Below(v, last)'
  <2> TAKE v \in toClear' \cup toSet'
  <2>1. v \in Workspace /\ v # w /\ Below(v, last)
    BY <1>1 DEF SeqInv, TypeInv, TypeOK
  <2>2. QED
    BY <1>1, <1>3, <2>1 DEF Below
<1>7. MaxRestarts # 0 => last' <= clock' /\ pc' \notin Early
  BY <1>1 DEF SeqInv, Early
<1>8. QED
  BY <1>1, <1>5, <1>6, <1>7 DEF SeqInv, Early

LEMMA SeqReportKilled ==
  ASSUME TypeInv, SeqInv, NEW w \in Workspace, NEW kind \in {"set", "clear"},
         ReportKilled(w, kind)
  PROVE  SeqInv'
<1> DEFINE r == ReportFor(w, kind)
<1>1. /\ pc = "report" /\ pc' = pc /\ UNCHANGED <<accepted, last, clock>>
      /\ w \in toClear \cup toSet
      /\ toClear' \cup toSet' = (toClear \cup toSet) \ {w}
      /\ toClear' \cap toSet' = {}
      /\ late' = late \cup {r}
  BY DEF ReportKilled, Due, Sent, SeqInv
<1>2. r.ws = w /\ r.seq = last
  BY DEF ReportFor
<1>4. last <= Horizon /\ last \in Nat /\ Horizon \in Nat
  BY DEF SeqInv, Horizon, TypeInv, TypeOK
<1>5. \A v \in Workspace : Below(v, Horizon + 1)'
  <2> TAKE v \in Workspace
  <2>1. Below(v, Horizon + 1) /\ Horizon' = Horizon
    BY <1>1 DEF SeqInv, Horizon
  <2> HIDE DEF r
  <2>2. QED
    BY <1>1, <1>2, <1>4, <2>1 DEF Below
<1>6. \A v \in toClear' \cup toSet' : Below(v, last)'
  <2> TAKE v \in toClear' \cup toSet'
  <2>1. v \in Workspace /\ v # w /\ Below(v, last)
    BY <1>1 DEF SeqInv, TypeInv, TypeOK
  <2> HIDE DEF r
  <2>2. QED
    BY <1>1, <1>2, <2>1 DEF Below
<1>7. MaxRestarts # 0 => last' <= clock' /\ pc' \notin Early
  BY <1>1 DEF SeqInv, Early
<1>8. QED
  BY <1>1, <1>5, <1>6, <1>7 DEF SeqInv, Early

(* A late report brings no number herdr would not have got from it anyway. *)
LEMMA SeqLateArrives ==
  ASSUME TypeInv, SeqInv, LateArrives
  PROVE  SeqInv'
<1> PICK r \in late : DeliverLate(r)
  BY DEF LateArrives
<1>1. UNCHANGED <<pc, last, clock, toClear, toSet>> /\ late' \subseteq late
  BY DEF LateArrives, DeliverLate, daemonVars, tickVars
<1>2. r \in Report /\ r.ws \in Workspace /\ r.source \in Source
  BY DEF TypeInv, TypeOK, HerdrTypeOK, Report
<1>3. ASSUME NEW v \in Workspace, NEW n, Below(v, n)
      PROVE  Below(v, n)'
  <2>1. CASE Accepts(r)
    <3>1. accepted' = [accepted EXCEPT ![r.ws][r.source] = r.seq]
      BY <2>1 DEF DeliverLate, Handle
    <3>2. accepted \in [Workspace -> [Source -> Nat]]
      BY DEF TypeInv, TypeOK, HerdrTypeOK
    <3>3. ASSUME NEW s \in Source
          PROVE  accepted'[v][s] < n
      <4>1. CASE r.ws = v /\ r.source = s
        BY <1>2, <1>3, <3>1, <3>2, <4>1 DEF Below
      <4>2. CASE ~(r.ws = v /\ r.source = s)
        BY <1>2, <1>3, <3>1, <3>2, <4>2 DEF Below
      <4>3. QED
        BY <4>1, <4>2
    <3>4. QED
      BY <1>1, <1>3, <3>3 DEF Below
  <2>2. CASE ~Accepts(r)
    BY <1>1, <1>3, <2>2 DEF DeliverLate, Handle, Below
  <2>3. QED
    BY <2>1, <2>2
<1>4. Horizon' = Horizon
  BY <1>1 DEF Horizon
<1>5. \A v \in Workspace : Below(v, Horizon + 1)'
  BY <1>3, <1>4 DEF SeqInv, Below
<1>6. pc = "report" => \A v \in toClear \cup toSet : Below(v, last)'
  BY <1>1, <1>3 DEF SeqInv, TypeInv, TypeOK, Below
<1>7. pc \in Early /\ MaxRestarts # 0 => \A v \in Workspace : Below(v, clock)'
  BY <1>1, <1>3 DEF SeqInv, Early, Below
<1>8. QED
  BY <1>1, <1>5, <1>6, <1>7 DEF SeqInv, Below, Early

(* A moment later the clock is ahead of everything, if it can be trusted.  *)
LEMMA SeqClockMoves ==
  ASSUME TypeInv, SeqInv, ClockTrusted, ClockMoves,
         UNCHANGED <<accepted, late>>, last' \in {0, last},
         MaxRestarts = 0 => last' = last,
         pc' # "report"
  PROVE  SeqInv'
<1>1. CASE MaxRestarts = 0
  <2>1. Horizon = last /\ Horizon' = last
    BY <1>1 DEF Horizon
  <2>2. QED
    BY <1>1, <2>1 DEF SeqInv, Below
<1>2. CASE MaxRestarts # 0
  <2>1. /\ clock' \in Nat /\ clock \in Nat /\ clock < clock'
        /\ last \in Nat /\ last <= clock
    BY <1>2 DEF ClockTrusted, ClockMoves, TypeInv, TypeOK, SeqInv
  <2>2. Horizon = clock /\ Horizon' = clock'
    BY <1>2 DEF Horizon
  <2>3. ASSUME NEW w \in Workspace
        PROVE  Below(w, clock)' /\ Below(w, clock + 1)'
    <3>1. Below(w, clock + 1)
      BY <2>2 DEF SeqInv
    <3>2. accepted \in [Workspace -> [Source -> Nat]] /\ late \subseteq Report
      BY DEF TypeInv, TypeOK, HerdrTypeOK
    <3>3. \A s \in Source : accepted[w][s] < clock'
      BY <2>1, <3>1, <3>2 DEF Below
    <3>4. \A r \in late : r.ws = w => r.seq < clock'
      BY <2>1, <3>1, <3>2 DEF Below, Report
    <3>5. \A s \in Source : accepted[w][s] < clock' + 1
      BY <2>1, <3>2, <3>3
    <3>6. \A r \in late : r.ws = w => r.seq < clock' + 1
      BY <2>1, <3>2, <3>4 DEF Report
    <3>7. QED
      BY <3>3, <3>4, <3>5, <3>6 DEF Below
  <2>4. last' <= clock' /\ last' < clock'
    BY <2>1
  <2>5. QED
    BY <1>2, <2>2, <2>3, <2>4 DEF SeqInv, Below
<1>3. QED
  BY <1>1, <1>2

LEMMA SeqListOk ==
  ASSUME TypeInv, SeqInv, ClockTrusted, ListOk
  PROVE  SeqInv'
<1>1. /\ pc = "list" /\ pc' = "report" /\ UNCHANGED <<accepted, late, clock>>
      /\ last' = NextSeq /\ toClear' \cap toSet' = {}
  BY DEF ListOk, StaleTargets, herdrVars
<1>2. last \in Nat /\ clock \in Nat /\ last' \in Nat /\ last < last'
  BY <1>1 DEF NextSeq, TypeInv, TypeOK
<1>3. toClear' \cup toSet' \subseteq Workspace
  BY TypeStep DEF TypeInv, TypeOK, ListOk, Next, Step, List
<1>4. ASSUME NEW w \in Workspace
      PROVE  Below(w, last') /\ Below(w, Horizon' + 1)
  <2>1. CASE MaxRestarts = 0
    <3>1. Below(w, last + 1) /\ Horizon' = last'
      BY <2>1 DEF SeqInv, Horizon
    <3>2. QED
      BY <1>2, <3>1, BelowGrows DEF TypeInv
  <2>2. CASE MaxRestarts # 0
    <3>1. Below(w, clock) /\ last' = clock /\ Horizon' = clock
      BY <1>1, <2>2 DEF SeqInv, Horizon, NextSeq
    <3>2. QED
      BY <1>2, <3>1, BelowGrows DEF TypeInv
  <2>3. QED
    BY <2>1, <2>2
<1>5. \A w \in Workspace : Below(w, last)' /\ Below(w, Horizon + 1)'
  BY <1>1, <1>4 DEF Below
<1>6. MaxRestarts # 0 => last' <= clock'
  BY <1>1, <1>2 DEF SeqInv, NextSeq
<1>7. QED
  BY <1>1, <1>3, <1>5, <1>6 DEF SeqInv

LEMMA SeqInitially == Init => SeqInv
BY DEF Init, HerdrInit, SeqInv, Below, Horizon

LEMMA SeqStep == ClockTrusted /\ TypeInv /\ SeqInv /\ [Next]_vars => SeqInv'
<1> SUFFICES ASSUME ClockTrusted, TypeInv, SeqInv, [Next]_vars
             PROVE  SeqInv'
  OBVIOUS
<1>1. CASE Start
  BY <1>1, SeqClockMoves DEF Start, TypeInv, TypeOK
<1>2. CASE Wake
  BY <1>2, SeqClockMoves DEF Wake
<1>3. CASE Reload
  BY <1>3, QuietStep DEF Reload, herdrVars, Early
<1>4. CASE Tick \/ SampleFails
  BY <1>4, QuietStep DEF Tick, SocketGone, Prime, SampleFails, Sample,
                         herdrVars, Early
<1>5. CASE ListFails
  BY <1>5, QuietStep DEF ListFails, herdrVars, Early
<1>6. CASE ListOk
  BY <1>6, SeqListOk
<1>7. CASE CallTakesTime
  BY <1>7, QuietStep DEF CallTakesTime, daemonVars, tickVars
<1>8. ASSUME NEW w \in Workspace, NEW kind \in {"set", "clear"},
             ReportHandled(w, kind)
      PROVE  SeqInv'
  BY <1>8, SeqReportHandled
<1>9. ASSUME NEW w \in Workspace, NEW kind \in {"set", "clear"},
             ReportLost(w, kind)
      PROVE  SeqInv'
  BY <1>9, QuietStep DEF ReportLost, Due, Sent, herdrVars
<1>10. ASSUME NEW w \in Workspace, NEW kind \in {"set", "clear"},
              ReportKilled(w, kind)
       PROVE  SeqInv'
  BY <1>10, SeqReportKilled
<1>11. CASE EndTick
  BY <1>11, QuietStep DEF EndTick, herdrVars, Early
<1>12. CASE Crash \/ EditConfig
  BY <1>12, QuietStep DEF Crash, EditConfig, herdrVars, daemonVars, tickVars, Early
<1>13. CASE Outside
  <2>1. UNCHANGED <<accepted, late, last, clock, pc, toClear, toSet>>
    BY <1>13 DEF Outside, MoveFocus, OpenWorkspace, CloseWorkspace, ServerDown,
                 ServerUp, daemonVars, tickVars
  <2>2. QED
    BY <2>1, QuietStep
<1>14. CASE LateArrives
  BY <1>14, SeqLateArrives
<1>15. CASE UNCHANGED vars
  BY <1>15, QuietStep DEF vars, herdrVars, daemonVars, tickVars
<1>16. QED
  BY <1>1, <1>2, <1>3, <1>4, <1>5, <1>6, <1>7, <1>8, <1>9, <1>10, <1>11, <1>12,
     <1>13, <1>14, <1>15 DEF Next, Step, World, List, Call

LEMMA SeqCorrect ==
  ASSUME ClockTrusted
  PROVE  Spec => [](TypeInv /\ SeqInv)
<1>1. Init => TypeInv /\ SeqInv
  BY TypeInitially, SeqInitially
<1>2. TypeInv /\ SeqInv /\ [Next]_vars => (TypeInv /\ SeqInv)'
  BY ClockTrusted, TypeStep, SeqStep
<1>3. QED
  BY <1>1, <1>2, PTL DEF Spec

(***************************************************************************)
(* While the clock can be trusted, no report of the daemon is out of date  *)
(* when it goes out: herdr cannot take an older one for it, nor turn it    *)
(* down (SeqGenerator::next_seq and the two loops of Daemon::tick).        *)
(***************************************************************************)
THEOREM ReportsAreNewest ==
  ASSUME ClockTrusted
  PROVE  Spec => []NewestWins
<1>1. TypeInv /\ SeqInv => NewestWins
  BY DEF TypeInv, TypeOK, SeqInv, Below, NewestWins, Options
<1>2. QED
  BY <1>1, SeqCorrect, PTL
-----------------------------------------------------------------------------
(* Giving up.                                                              *)

(* The daemon counts what the observer counts.                             *)
Counted == failures = missed

LEMMA CountedStep == Counted /\ [Next]_vars => Counted'
<1> SUFFICES ASSUME Counted, [Next]_vars PROVE Counted'
  OBVIOUS
<1> USE DEF Counted, observed, daemonVars
<1>1. CASE Start \/ Wake \/ Reload \/ EndTick
  BY <1>1 DEF Start, Wake, Reload, EndTick, Pass
<1>2. CASE Tick \/ SampleFails
  BY <1>2 DEF Tick, SocketGone, Prime, Sample, SampleFails
<1>3. CASE List
  BY <1>3 DEF List, ListFails, ListOk
<1>4. CASE Call
  BY <1>4 DEF Call, ReportHandled, ReportLost, ReportKilled
<1>5. CASE CallTakesTime \/ Crash \/ EditConfig \/ Outside \/ LateArrives
  BY <1>5 DEF CallTakesTime, Pass, Crash, EditConfig, Outside, LateArrives
<1>6. CASE UNCHANGED vars
  BY <1>6 DEF vars
<1> QED
  BY <1>1, <1>2, <1>3, <1>4, <1>5, <1>6 DEF Next, Step, World

(***************************************************************************)
(* The daemon gives up when the socket is gone or when max_failures lists  *)
(* failed in a row, and for no other reason (Daemon::tick), for any        *)
(* max_failures and whatever the server does.                              *)
(***************************************************************************)
THEOREM GivesUp == Spec => GivesUpForCause
<1> DEFINE Cause ==
      pc # "stopped" /\ pc' = "stopped" =>
        (UnixSocket /\ ~socket) \/ missed' >= MaxFailures
<1>1. Counted /\ [Next]_vars => [Cause]_vars
  <2> SUFFICES ASSUME Counted, Next, pc # "stopped", pc' = "stopped"
               PROVE  (UnixSocket /\ ~socket) \/ missed' >= MaxFailures
    OBVIOUS
  <2>1. SocketGone \/ ListFails
    BY DEF Next, Step, World, Start, Wake, Reload, Tick, Prime, Sample, SampleFails,
           List, ListOk, Call, ReportHandled, ReportLost, ReportKilled, EndTick,
           CallTakesTime, Crash, EditConfig, Outside, LateArrives, daemonVars
  <2>2. CASE SocketGone
    BY <2>2 DEF SocketGone
  <2>3. CASE ListFails
    BY <2>3 DEF ListFails, Counted
  <2> QED
    BY <2>1, <2>2, <2>3
<1>2. Init => Counted
  BY DEF Init, Counted
<1> QED
  BY <1>1, <1>2, CountedStep, PTL DEF Spec, GivesUpForCause

-----------------------------------------------------------------------------
(* What the daemon remembers of the lists it read.                         *)

(* What a tick of the focused scope can have aimed at.                     *)
FocusedAims(aims) ==
  IF workspaces.focused # NoFocus THEN aims = {workspaces.focused}
  ELSE aims = {} \/ \E w \in Workspace : aims = {w}

(***************************************************************************)
(* The targets and the stale workspaces of a tick under way are those its  *)
(* list asks for; between two reporting phases `reported` is the targets.  *)
(***************************************************************************)
ListInv ==
  /\ pc \in Early => workspaces = NotRead
  /\ pc = "report" =>
       /\ targets \in TargetChoices(workspaces)
       /\ toClear \subseteq StaleTargets(targets, workspaces)
       /\ toSet \subseteq targets
  /\ Running /\ pc # "report" => targets = reported
  /\ pc = "asleep" /\ workspaces.read /\ options.scope = "Focused" =>
       FocusedAims(targets)

LEMMA ListInitially == Init => ListInv
BY DEF Init, ListInv, Early

LEMMA AimsOfTargets ==
  ASSUME TypeInv, options.scope = "Focused", pc = "report",
         targets \in TargetChoices(workspaces)
  PROVE  FocusedAims(targets)
<1>1. CASE workspaces.focused # NoFocus
  BY <1>1 DEF TargetChoices, FocusedAims
<1>2. CASE workspaces.focused = NoFocus
  <2>1. CASE reported \cap workspaces.open = {}
    BY <1>2, <2>1 DEF TargetChoices, FocusedAims
  <2>2. CASE reported \cap workspaces.open # {}
    <3>1. targets \in {{w} : w \in reported \cap workspaces.open}
      BY <1>2, <2>2 DEF TargetChoices
    <3>2. PICK w \in reported : targets = {w}
      BY <3>1
    <3>3. w \in Workspace
      BY DEF TypeInv, TypeOK
    <3>4. QED
      BY <1>2, <3>2, <3>3 DEF FocusedAims
  <2>3. QED
    BY <2>1, <2>2
<1>3. QED
  BY <1>1, <1>2

LEMMA ListStep == TypeInv /\ ListInv /\ [Next]_vars => ListInv'
<1> SUFFICES ASSUME TypeInv, ListInv, [Next]_vars
             PROVE  ListInv'
  OBVIOUS
<1> USE DEF ListInv, Early, Running
<1>1. CASE Start
  BY <1>1 DEF Start
<1>2. CASE Wake
  BY <1>2 DEF Wake
<1>3. CASE Reload
  BY <1>3 DEF Reload, tickVars
<1>4. CASE Tick \/ SampleFails
  BY <1>4 DEF Tick, SocketGone, Prime, SampleFails, Sample, tickVars, NotRead,
              FocusedAims
<1>5. CASE ListFails
  BY <1>5 DEF ListFails, tickVars, NotRead
<1>6. CASE ListOk
  BY <1>6 DEF ListOk, TargetChoices, StaleTargets
<1>7. CASE CallTakesTime \/ LateArrives \/ Outside \/ UNCHANGED vars
  <2>1. UNCHANGED <<daemonVars>>
    BY <1>7 DEF CallTakesTime, LateArrives, Outside, vars
  <2>2. QED
    BY <2>1 DEF daemonVars, tickVars, TargetChoices, StaleTargets, FocusedAims
<1>8. ASSUME NEW w \in Workspace, NEW kind \in {"set", "clear"},
             ReportHandled(w, kind) \/ ReportLost(w, kind) \/ ReportKilled(w, kind)
      PROVE  ListInv'
  <2>1. /\ UNCHANGED <<pc, options, reported, workspaces, targets>>
        /\ toClear' \subseteq toClear /\ toSet' \subseteq toSet
    BY <1>8 DEF ReportHandled, ReportLost, ReportKilled, Sent
  <2>2. QED
    BY <1>8, <2>1 DEF TargetChoices, StaleTargets, FocusedAims, ReportHandled,
                      ReportLost, ReportKilled, Due
<1>9. CASE EndTick
  <2>1. options.scope = "Focused" => FocusedAims(targets)
    BY <1>9, AimsOfTargets DEF EndTick
  <2>2. QED
    BY <1>9, <2>1 DEF EndTick, tickVars, FocusedAims
<1>10. CASE Crash
  BY <1>10 DEF Crash
<1>11. CASE EditConfig
  BY <1>11 DEF EditConfig, daemonVars, tickVars, TargetChoices, StaleTargets,
               FocusedAims
<1>12. QED
  BY <1>1, <1>2, <1>3, <1>4, <1>5, <1>6, <1>7, <1>8, <1>9, <1>10, <1>11
  DEF Next, Step, World, List, Call

(***************************************************************************)
(* While no workspace has the focus, the daemon does not clear the one     *)
(* workspace that carried rows (Daemon::targets).                          *)
(***************************************************************************)
THEOREM HeldRowsStay == Spec => []HoldsWithoutFocus
<1>1. TypeInv /\ ListInv => HoldsWithoutFocus
  <2> SUFFICES ASSUME TypeInv, ListInv, pc = "report",
                      workspaces.focused = NoFocus, Cardinality(reported) = 1
               PROVE  toClear = {}
    BY DEF HoldsWithoutFocus
  <2>1. PICK w : reported = {w}
    <3>1. IsFiniteSet(reported)
      BY HerdrAssumption, FS_Subset DEF TypeInv, TypeOK
    <3>2. QED
      BY <3>1, FS_Singleton
  <2>2. targets \in TargetChoices(workspaces)
        /\ toClear \subseteq StaleTargets(targets, workspaces)
    BY DEF ListInv
  <2>3. CASE options.scope = "All"
    BY <2>2, <2>3 DEF TargetChoices, StaleTargets
  <2>4. CASE options.scope # "All" /\ w \notin workspaces.open
    BY <2>1, <2>2, <2>4 DEF StaleTargets
  <2>5. CASE options.scope # "All" /\ w \in workspaces.open
    BY <2>1, <2>2, <2>5 DEF TargetChoices, StaleTargets
  <2>6. QED
    BY <2>3, <2>4, <2>5
<1>2. Init => TypeInv /\ ListInv
  BY TypeInitially, ListInitially
<1>3. TypeInv /\ ListInv /\ [Next]_vars => (TypeInv /\ ListInv)'
  BY TypeStep, ListStep
<1>4. QED
  BY <1>1, <1>2, <1>3, PTL DEF Spec

-----------------------------------------------------------------------------
(* Rows.                                                                   *)

(* The workspaces whose rows the daemon will still renew or take away.     *)
Known == IF pc = "report" THEN targets \cup toClear ELSE reported

(***************************************************************************)
(* Rows on an open workspace either run out with what the observers wait   *)
(* for, or are the daemon's own, on a workspace it knows.  The first       *)
(* conjunct keeps rows from coming back with a workspace that is reopened. *)
(***************************************************************************)
RowInv ==
  /\ \A w \in Workspace \ open, s \in Source : rows[w][s] = 0
  /\ Running =>
       \A w \in open, s \in Source :
         \/ rows[w][s] <= tainted
         \/ rows[w][s] <= renamed
         \/ s = options.source /\ w \in Known

LEMMA RowInitially == Init => RowInv
BY DEF Init, HerdrInit, RowInv

(* A step that touches no row and forgets no workspace.                    *)
LEMMA RowsKept ==
  ASSUME TypeInv, RowInv, UNCHANGED <<open, rows>>,
         Running' => /\ Running
                     /\ options'.source = options.source
                     /\ Known \cap open \subseteq Known'
                     /\ tainted' \in {tainted, Ttl}
                     /\ renamed' = renamed
  PROVE  RowInv'
<1>1. ASSUME NEW w \in Workspace, NEW s \in Source
      PROVE  rows[w][s] \in 0 .. Ttl
  BY DEF TypeInv, TypeOK, HerdrTypeOK
<1>2. open \subseteq Workspace
  BY DEF TypeInv, TypeOK, HerdrTypeOK
<1>3. QED
  BY <1>1, <1>2 DEF RowInv

(* A while passes.                                                         *)
LEMMA RowsAge ==
  ASSUME TypeInv, RowInv, Pass(1), UNCHANGED <<open, options, reported, targets, toClear>>,
         Running, pc' = "report" <=> pc = "report"
  PROVE  RowInv'
<1>1. ASSUME NEW w \in Workspace, NEW s \in Source
      PROVE  rows[w][s] \in 0 .. Ttl /\ rows'[w][s] = Older(rows[w][s], 1)
  BY DEF TypeInv, TypeOK, HerdrTypeOK, Pass, AgeRows
<1>2. tainted \in 0 .. Ttl /\ renamed \in 0 .. Ttl /\ open \subseteq Workspace
  BY DEF TypeInv, TypeOK, HerdrTypeOK
<1>3. Known' = Known
  BY DEF Known
<1>4. QED
  BY <1>1, <1>2, <1>3, HerdrAssumption DEF RowInv, Pass, Older

(* What becomes of the rows when herdr handles a report.                   *)
LEMMA RowsHandled ==
  ASSUME TypeInv, NEW r \in Report, Handle(r), NEW w \in Workspace, NEW s \in Source
  PROVE  rows'[w][s] =
           IF Accepts(r) /\ w = r.ws /\ s = r.source
           THEN (IF r.kind = "set" THEN Ttl ELSE 0) ELSE rows[w][s]
<1>1. rows \in [Workspace -> [Source -> 0 .. Ttl]]
  BY DEF TypeInv, TypeOK, HerdrTypeOK
<1>2. CASE Accepts(r)
  <2>1. rows' = [rows EXCEPT ![r.ws][r.source] = IF r.kind = "set" THEN Ttl ELSE 0]
    BY <1>2 DEF Handle
  <2>2. r.ws \in Workspace /\ r.source \in Source
    BY DEF Report
  <2>3. QED
    BY <1>1, <1>2, <2>1, <2>2
<1>3. CASE ~Accepts(r)
  BY <1>3 DEF Handle
<1>4. QED
  BY <1>2, <1>3

LEMMA RowsReportHandled ==
  ASSUME TypeInv, SeqInv, ListInv, RowInv,
         NEW w \in Workspace, NEW kind \in {"set", "clear"},
         ReportHandled(w, kind)
  PROVE  RowInv'
<1> DEFINE r == ReportFor(w, kind)
<1>1. /\ pc = "report" /\ pc' = pc /\ serving /\ Handle(r)
      /\ UNCHANGED <<open, options, reported, targets, tainted, renamed>>
      /\ kind = "clear" => w \in toClear /\ toClear' = toClear \ {w}
      /\ kind = "set" => w \in toSet /\ toClear' = toClear
  BY DEF ReportHandled, Due, Sent, observed
<1>2. r \in Report /\ r.ws = w /\ r.source = options.source /\ r.kind = kind
      /\ r.seq = last
  BY ReportForType DEF TypeInv, ReportFor
<1>3. w \in open => Accepts(r)
  BY <1>1, <1>2 DEF Accepts, SeqInv, Below, TypeInv, TypeOK, Options
<1>4. ~(w \in open) => ~Accepts(r)
  BY <1>2 DEF Accepts
<1> HIDE DEF r
<1>5. ASSUME NEW v \in Workspace, NEW s \in Source
      PROVE  rows'[v][s] = IF w \in open /\ v = w /\ s = options.source
                           THEN (IF kind = "set" THEN Ttl ELSE 0) ELSE rows[v][s]
  BY <1>1, <1>2, <1>3, <1>4, <1>5, RowsHandled
<1>6. tainted \in 0 .. Ttl /\ open \subseteq Workspace
  BY DEF TypeInv, TypeOK, HerdrTypeOK
<1>7. Known' = targets \cup toClear' /\ Known = targets \cup toClear
      /\ toSet \subseteq targets /\ Running /\ Running'
  BY <1>1 DEF Known, ListInv, Running
<1>8. \A v \in Workspace \ open', s \in Source : rows'[v][s] = 0
  BY <1>1, <1>5 DEF RowInv
<1>9. ASSUME NEW v \in open, NEW s \in Source
      PROVE  \/ rows'[v][s] <= tainted
             \/ rows'[v][s] <= renamed
             \/ s = options.source /\ v \in Known'
  <2>1. CASE v = w /\ s = options.source /\ kind = "clear"
    BY <1>5, <1>6, <2>1
  <2>2. CASE v = w /\ s = options.source /\ kind = "set"
    BY <1>1, <1>7, <2>2
  <2>3. CASE ~(v = w /\ s = options.source)
    BY <1>1, <1>5, <1>6, <1>7, <2>3 DEF RowInv
  <2>4. QED
    BY <2>1, <2>2, <2>3
<1>10. QED
  BY <1>1, <1>8, <1>9 DEF RowInv

LEMMA RowsLateArrives ==
  ASSUME TypeInv, ListInv, RowInv, LateArrives
  PROVE  RowInv'
<1> PICK r \in late :
      /\ DeliverLate(r)
      /\ tainted' = IF r.kind = "set" /\ (r.ws \notin targets \/ r.source # options.source)
                    THEN Ttl ELSE tainted
      /\ UNCHANGED <<daemonVars, renamed>>
  BY DEF LateArrives
<1>1. /\ UNCHANGED <<open, pc, options, reported, targets, toClear, renamed>>
      /\ Handle(r) /\ r \in Report
  BY DEF DeliverLate, daemonVars, tickVars, TypeInv, TypeOK, HerdrTypeOK
<1>2. ASSUME NEW v \in Workspace, NEW s \in Source
      PROVE  /\ rows[v][s] \in 0 .. Ttl
             /\ rows'[v][s] = IF Accepts(r) /\ v = r.ws /\ s = r.source
                              THEN (IF r.kind = "set" THEN Ttl ELSE 0) ELSE rows[v][s]
  BY <1>1, RowsHandled DEF TypeInv, TypeOK, HerdrTypeOK
<1>3. Known' = Known /\ (Running => targets \subseteq Known)
  BY <1>1 DEF Known, ListInv
<1>4. tainted \in 0 .. Ttl /\ open \subseteq Workspace /\ (Accepts(r) => r.ws \in open)
  BY DEF TypeInv, TypeOK, HerdrTypeOK, Accepts
<1>5. \A v \in Workspace \ open', s \in Source : rows'[v][s] = 0
  BY <1>1, <1>2, <1>4 DEF RowInv
<1>6. ASSUME Running, NEW v \in open, NEW s \in Source
      PROVE  \/ rows'[v][s] <= tainted'
             \/ rows'[v][s] <= renamed'
             \/ s = options.source /\ v \in Known'
  <2>1. CASE Accepts(r) /\ v = r.ws /\ s = r.source /\ r.kind = "set"
    BY <1>2, <1>3, <1>4, <1>6, <2>1, HerdrAssumption
  <2>2. CASE Accepts(r) /\ v = r.ws /\ s = r.source /\ r.kind # "set"
    BY <1>2, <1>4, <2>2
  <2>3. CASE ~(Accepts(r) /\ v = r.ws /\ s = r.source)
    <3>1. rows'[v][s] = rows[v][s] /\ rows[v][s] \in 0 .. Ttl
      BY <1>2, <1>4, <2>3
    <3>2. tainted' \in {tainted, Ttl}
      OBVIOUS
    <3>3. QED
      BY <1>1, <1>3, <1>4, <1>6, <3>1, <3>2 DEF RowInv
  <2>4. QED
    BY <2>1, <2>2, <2>3
<1>7. QED
  BY <1>1, <1>5, <1>6 DEF RowInv, Running

LEMMA RowsOutside ==
  ASSUME TypeInv, RowInv, Outside
  PROVE  RowInv'
<1>1. UNCHANGED <<pc, options, reported, targets, toClear, tainted, renamed>>
  BY DEF Outside, daemonVars, tickVars, observed
<1>2. Known' = Known /\ Running' = Running
  BY <1>1 DEF Known, Running
<1>3. CASE UNCHANGED <<open, rows>>
  BY <1>1, <1>2, <1>3 DEF RowInv
<1>4. ASSUME NEW w \in Workspace, OpenWorkspace(w)
      PROVE  RowInv'
  <2>1. tainted \in Nat
    BY HerdrAssumption DEF TypeInv, TypeOK
  <2>2. QED
    BY <1>1, <1>2, <1>4, <2>1 DEF RowInv, OpenWorkspace
<1>5. ASSUME NEW w \in Workspace, CloseWorkspace(w)
      PROVE  RowInv'
  <2>1. ASSUME NEW v \in Workspace, NEW s \in Source
        PROVE  rows'[v][s] = IF v = w THEN 0 ELSE rows[v][s]
    BY <1>5 DEF CloseWorkspace, TypeInv, TypeOK, HerdrTypeOK
  <2>2. open' = open \ {w} /\ open \subseteq Workspace
    BY <1>5 DEF CloseWorkspace, TypeInv, TypeOK, HerdrTypeOK
  <2>3. QED
    BY <1>1, <1>2, <2>1, <2>2 DEF RowInv
<1>6. QED
  BY <1>3, <1>4, <1>5 DEF Outside, MoveFocus, ServerDown, ServerUp

LEMMA RowsStart ==
  ASSUME TypeInv, RowInv, Start
  PROVE  RowInv'
<1>1. PICK k \in 0 .. Ttl : AgeRows(k)
  BY DEF Start
<1>2. ASSUME NEW w \in Workspace, NEW s \in Source
      PROVE  /\ rows[w][s] \in 0 .. Ttl
             /\ rows'[w][s] = Older(rows[w][s], k)
  BY <1>1 DEF AgeRows, TypeInv, TypeOK, HerdrTypeOK
<1>3. tainted' = Ttl /\ open' = open /\ open \subseteq Workspace
  BY DEF Start, TypeInv, TypeOK, HerdrTypeOK
<1>4. QED
  BY <1>2, <1>3, HerdrAssumption DEF RowInv, Older

LEMMA RowStep ==
  TypeInv /\ SeqInv /\ ListInv /\ RowInv /\ [Next]_vars => RowInv'
<1> SUFFICES ASSUME TypeInv, SeqInv, ListInv, RowInv, [Next]_vars
             PROVE  RowInv'
  OBVIOUS
<1>1. CASE Start
  BY <1>1, RowsStart
<1>2. CASE Wake
  BY <1>2, RowsAge DEF Wake, Running
<1>3. CASE Reload
  <2>1. CASE options'.source = options.source
    BY <1>3, <2>1, RowsKept DEF Reload, herdrVars, tickVars, Running, Known
  <2>2. CASE options'.source # options.source
    <3>1. ASSUME NEW w \in Workspace, NEW s \in Source
          PROVE  rows[w][s] <= Ttl
      BY DEF TypeInv, TypeOK, HerdrTypeOK
    <3>2. UNCHANGED <<open, rows>> /\ renamed' = Ttl /\ open \subseteq Workspace
      BY <1>3, <2>2 DEF Reload, herdrVars, TypeInv, TypeOK, HerdrTypeOK
    <3>3. QED
      BY <3>1, <3>2 DEF RowInv
  <2>3. QED
    BY <2>1, <2>2
<1>4. CASE Tick \/ SampleFails
  BY <1>4, RowsKept DEF Tick, SocketGone, Prime, SampleFails, Sample, herdrVars,
                        tickVars, observed, Running, Known
<1>5. CASE ListFails
  BY <1>5, RowsKept DEF ListFails, herdrVars, tickVars, Running, Known
<1>6. CASE ListOk
  <2>1. Known \cap open \subseteq Known'
    BY <1>6 DEF ListOk, ListNow, StaleTargets, Known
  <2>2. QED
    BY <1>6, <2>1, RowsKept DEF ListOk, herdrVars, Running
<1>7. CASE CallTakesTime
  BY <1>7, RowsAge DEF CallTakesTime, daemonVars, tickVars, Running
<1>8. ASSUME NEW w \in Workspace, NEW kind \in {"set", "clear"},
             ReportHandled(w, kind)
      PROVE  RowInv'
  BY <1>8, RowsReportHandled
<1>9. ASSUME NEW w \in Workspace, NEW kind \in {"set", "clear"},
             ReportLost(w, kind) \/ ReportKilled(w, kind)
      PROVE  RowInv'
  <2>1. /\ pc = "report" /\ pc' = pc
        /\ UNCHANGED <<open, rows, options, targets, renamed>>
        /\ kind = "set" => toClear' = toClear /\ tainted' = tainted
        /\ kind = "clear" => tainted' = Ttl
    BY <1>9 DEF ReportLost, ReportKilled, Due, Sent, Miss, herdrVars
  <2>2. CASE kind = "set"
    BY <2>1, <2>2, RowsKept DEF Running, Known
  <2>3. CASE kind = "clear"
    <3>1. ASSUME NEW v \in Workspace, NEW s \in Source
          PROVE  rows[v][s] <= Ttl
      BY DEF TypeInv, TypeOK, HerdrTypeOK
    <3>2. open \subseteq Workspace
      BY DEF TypeInv, TypeOK, HerdrTypeOK
    <3>3. QED
      BY <2>1, <2>3, <3>1, <3>2 DEF RowInv
  <2>4. QED
    BY <2>2, <2>3
<1>10. CASE EndTick
  BY <1>10, RowsKept DEF EndTick, herdrVars, tickVars, observed, Running, Known
<1>11. CASE Crash
  BY <1>11, RowsKept DEF Crash, herdrVars, Running
<1>12. CASE EditConfig
  BY <1>12, RowsKept DEF EditConfig, herdrVars, daemonVars, tickVars, observed,
                         Running, Known
<1>13. CASE Outside
  BY <1>13, RowsOutside
<1>14. CASE LateArrives
  BY <1>14, RowsLateArrives
<1>15. CASE UNCHANGED vars
  BY <1>15, RowsKept DEF vars, herdrVars, daemonVars, tickVars, observed,
                         Running, Known
<1>16. QED
  BY <1>1, <1>2, <1>3, <1>4, <1>5, <1>6, <1>7, <1>8, <1>9, <1>10, <1>11, <1>12,
     <1>13, <1>14, <1>15 DEF Next, Step, World, List, Call

RowsIInv == TypeInv /\ SeqInv /\ ListInv /\ RowInv

LEMMA RowsCorrect ==
  ASSUME ClockTrusted
  PROVE  Spec => []RowsIInv
<1>1. Init => RowsIInv
  BY TypeInitially, SeqInitially, ListInitially, RowInitially DEF RowsIInv
<1>2. RowsIInv /\ [Next]_vars => RowsIInv'
  BY ClockTrusted, TypeStep, SeqStep, ListStep, RowStep DEF RowsIInv
<1>3. QED
  BY <1>1, <1>2, PTL DEF Spec

(***************************************************************************)
(* While the clock can be trusted, a daemon none of whose calls failed and *)
(* whose source was not renamed leaves rows only where it will renew them  *)
(* or take them away (mod.rs:456-475).                                     *)
(***************************************************************************)
THEOREM NoRowsStray ==
  ASSUME ClockTrusted
  PROVE  Spec => []NoStrayRows
<1>1. RowsIInv => NoStrayRows
  <2> SUFFICES ASSUME RowsIInv, Running, tainted = 0, renamed = 0, NEW w \in Visible
               PROVE  w \in reported \cup targets
    BY DEF NoStrayRows
  <2>1. PICK s \in Source : rows[w][s] > 0
    BY DEF Visible
  <2>2. w \in open /\ w \in Workspace /\ rows[w][s] \in Nat
    BY DEF Visible, RowsIInv, TypeInv, TypeOK, HerdrTypeOK
  <2>3. w \in Known
    BY <2>1, <2>2 DEF RowsIInv, RowInv
  <2>4. QED
    BY <2>3 DEF Known, RowsIInv, ListInv, StaleTargets
<1>2. QED
  BY <1>1, RowsCorrect, PTL

(***************************************************************************)
(* Under the same conditions, in the focused scope a tick that saw the     *)
(* world as it still is leaves rows on the focused workspace alone         *)
(* (Daemon::targets and stale_targets).                                    *)
(***************************************************************************)
THEOREM FocusIsFollowed ==
  ASSUME ClockTrusted
  PROVE  Spec => []RowsFollowFocus
<1>1. RowsIInv /\ NoStrayRows => RowsFollowFocus
  <2> SUFFICES ASSUME RowsIInv, NoStrayRows, pc = "asleep", tainted = 0,
                      renamed = 0, options.scope = "Focused", workspaces = ListNow
               PROVE  IF focused # NoFocus THEN Visible \subseteq {focused}
                      ELSE Cardinality(Visible) <= 1
    BY DEF RowsFollowFocus
  <2>1. workspaces.read /\ workspaces.focused = focused
    BY DEF ListNow
  <2>2. Visible \subseteq targets /\ FocusedAims(targets)
    BY <2>1 DEF RowsIInv, ListInv, NoStrayRows, Running
  <2>3. CASE focused # NoFocus
    BY <2>1, <2>2, <2>3 DEF FocusedAims
  <2>4. CASE focused = NoFocus
    <3>1. Visible = {} \/ \E w \in Workspace : Visible = {w}
      BY <2>1, <2>2, <2>4 DEF FocusedAims
    <3>2. QED
      BY <2>4, <3>1, FS_EmptySet, FS_Singleton
  <2>5. QED
    BY <2>3, <2>4
<1>2. QED
  BY <1>1, RowsCorrect, NoRowsStray, PTL

-----------------------------------------------------------------------------
(* Rows last.                                                              *)

(***************************************************************************)
(* The rows of a target that was reported to last for what is left of the  *)
(* ttl, and until then nothing under way can take them: herdr remembers    *)
(* the number of the last list for that target, and all that is late is of *)
(* that number or an older one.                                            *)
(***************************************************************************)
Carried(w) ==
  /\ rows[w][options.source] >= fresh
  /\ fresh > 0 => /\ accepted[w][options.source] = last
                  /\ \A r \in late : r.ws = w => r.seq <= last

CarryInv == Running => \A w \in (targets \ toSet) \ lost : Carried(w)

LEMMA CarryInitially == Init => CarryInv
BY DEF Init, CarryInv

(* A step that takes no row away, nor a workspace from the waiting ones.   *)
LEMMA CarryKept ==
  ASSUME CarryInv, UNCHANGED <<rows, accepted, last, options, fresh>>,
         Running' => Running /\ (targets' \ toSet') \ lost'
                                   \subseteq (targets \ toSet) \ lost,
         \A w \in (targets' \ toSet') \ lost', r \in late' \ late :
            r.ws = w => r.seq <= last
  PROVE  CarryInv'
BY DEF CarryInv, Carried

(* Time passes for the rows as it does for what is left of the ttl.        *)
LEMMA CarryAges ==
  ASSUME TypeInv, CarryInv, Pass(1), UNCHANGED <<accepted, last, options, late>>,
         Running, UNCHANGED <<targets, toSet>>
  PROVE  CarryInv'
<1> SUFFICES ASSUME NEW w \in (targets \ toSet) \ lost
             PROVE  Carried(w)'
  BY DEF CarryInv, Pass
<1>1. w \in Workspace /\ options.source \in Source /\ Carried(w)
  BY DEF CarryInv, TypeInv, TypeOK, Options
<1>2. rows'[w][options.source] = Older(rows[w][options.source], 1)
  BY <1>1 DEF Pass, AgeRows
<1>3. fresh' = Older(fresh, 1) /\ fresh \in Nat /\ rows[w][options.source] \in Nat
  BY <1>1, HerdrAssumption DEF Pass, TypeInv, TypeOK, HerdrTypeOK
<1>4. rows'[w][options.source] >= fresh' /\ (fresh' > 0 => fresh > 0)
  BY <1>1, <1>2, <1>3 DEF Carried, Older
<1>5. QED
  BY <1>1, <1>4 DEF Carried

(* A set puts the rows up for a whole ttl, under the number of the tick; a *)
(* clear goes to no target.                                                *)
LEMMA CarryReportHandled ==
  ASSUME TypeInv, SeqInv, ListInv, CarryInv,
         NEW w \in Workspace, NEW kind \in {"set", "clear"},
         ReportHandled(w, kind)
  PROVE  CarryInv'
<1> DEFINE r == ReportFor(w, kind)
<1>1. /\ pc = "report" /\ serving /\ Handle(r)
      /\ UNCHANGED <<pc, late, last, options, targets, fresh>>
      /\ kind = "clear" => w \in toClear /\ toSet' = toSet /\ lost' = lost
      /\ kind = "set" => /\ w \in toSet /\ toSet' = toSet \ {w}
                         /\ lost' = lost \cup ({w} \ open)
  BY DEF ReportHandled, Due, Sent
<1>2. /\ r.ws = w /\ r.source = options.source /\ r.kind = kind /\ r.seq = last
      /\ options.source \in Source /\ targets \subseteq Workspace
  BY DEF ReportFor, TypeInv, TypeOK, Options
<1> HIDE DEF r
<1>3. /\ rows \in [Workspace -> [Source -> 0 .. Ttl]]
      /\ accepted \in [Workspace -> [Source -> Nat]]
      /\ fresh \in 0 .. Ttl /\ Ttl \in Nat
  BY HerdrAssumption DEF TypeInv, TypeOK, HerdrTypeOK
<1>4. ASSUME NEW v \in (targets \ toSet) \ lost, v # w
      PROVE  Carried(v)'
  <2>1. rows'[v] = rows[v] /\ accepted'[v] = accepted[v]
    BY <1>1, <1>2, <1>3, <1>4 DEF Handle
  <2>2. Carried(v)
    BY <1>1 DEF CarryInv, Running
  <2>3. QED
    BY <1>1, <2>1, <2>2 DEF Carried
<1>5. CASE kind = "clear"
  <2>1. w \notin targets
    BY <1>1, <1>5 DEF ListInv, StaleTargets
  <2>2. QED
    BY <1>1, <1>4, <1>5, <2>1 DEF CarryInv
<1>6. CASE kind = "set" /\ w \in open
  <2>1. Below(w, last)
    BY <1>1, <1>6 DEF SeqInv
  <2>2. Accepts(r)
    BY <1>1, <1>2, <1>6, <2>1 DEF Accepts, Below
  <2>3. /\ rows' = [rows EXCEPT ![w][options.source] = Ttl]
        /\ accepted' = [accepted EXCEPT ![w][options.source] = last]
    BY <1>1, <1>2, <1>6, <2>2 DEF Handle
  <2>4. rows'[w][options.source] = Ttl /\ accepted'[w][options.source] = last
    BY <1>2, <1>3, <2>3
  <2>5. \A q \in late : q.ws = w => q.seq <= last
    BY <2>1 DEF Below, TypeInv, TypeOK, HerdrTypeOK, Report
  <2>6. Carried(w)'
    BY <1>1, <1>3, <2>4, <2>5 DEF Carried
  <2>7. QED
    BY <1>1, <1>4, <1>6, <2>6 DEF CarryInv
<1>7. CASE kind = "set" /\ w \notin open
  BY <1>1, <1>4, <1>7 DEF CarryInv
<1>8. QED
  BY <1>5, <1>6, <1>7

(* What is late comes too late for the rows of the last list.              *)
LEMMA CarryLateArrives ==
  ASSUME TypeInv, CarryInv, LateArrives
  PROVE  CarryInv'
<1> PICK r \in late : DeliverLate(r)
  BY DEF LateArrives
<1>1. /\ UNCHANGED <<pc, last, options, targets, toSet, lost, fresh>>
      /\ late' \subseteq late /\ Handle(r)
  BY DEF LateArrives, DeliverLate, daemonVars, tickVars
<1>2. r \in Report /\ r.ws \in Workspace /\ r.source \in Source
  BY DEF TypeInv, TypeOK, HerdrTypeOK, Report
<1>3. /\ rows \in [Workspace -> [Source -> 0 .. Ttl]]
      /\ accepted \in [Workspace -> [Source -> Nat]]
      /\ fresh \in 0 .. Ttl /\ Ttl \in Nat
      /\ options.source \in Source /\ targets \subseteq Workspace
      /\ last \in Nat /\ r.seq \in Nat
  BY <1>2, HerdrAssumption DEF TypeInv, TypeOK, HerdrTypeOK, Options, Report
<1>4. ASSUME Running, NEW w \in (targets \ toSet) \ lost
      PROVE  Carried(w)'
  <2>1. Carried(w) /\ w \in Workspace
    BY <1>3, <1>4 DEF CarryInv
  <2>2. CASE fresh = 0
    <3>1. rows'[w][options.source] \in 0 .. Ttl
      BY <1>1, <1>2, <1>3, <2>1, HandleType DEF TypeInv
    <3>2. QED
      BY <1>1, <2>2, <3>1 DEF Carried
  <2>3. CASE fresh > 0
    <3>1. /\ accepted[w][options.source] = last
          /\ \A q \in late : q.ws = w => q.seq <= last
      BY <2>1, <2>3 DEF Carried
    <3>2. ~(Accepts(r) /\ r.ws = w /\ r.source = options.source)
      BY <1>3, <3>1 DEF Accepts
    <3>3. /\ rows'[w][options.source] = rows[w][options.source]
          /\ accepted'[w][options.source] = accepted[w][options.source]
      BY <1>1, <1>2, <1>3, <2>1, <3>2 DEF Handle
    <3>4. QED
      BY <1>1, <2>1, <3>3 DEF Carried
  <2>4. QED
    BY <1>3, <2>2, <2>3
<1>5. QED
  BY <1>1, <1>4 DEF CarryInv, Running

LEMMA CarryOutside ==
  ASSUME TypeInv, CarryInv, Outside
  PROVE  CarryInv'
<1>1. /\ UNCHANGED <<accepted, late, last, options, targets, toSet, pc, fresh>>
      /\ lost' = lost \cup (targets \ (toSet \cup open'))
  BY DEF Outside, MoveFocus, OpenWorkspace, CloseWorkspace, ServerDown,
         ServerUp, daemonVars, tickVars
<1>2. ASSUME NEW w \in (targets \ toSet) \ lost'
      PROVE  rows'[w] = rows[w]
  <2>1. w \in open' /\ w \in Workspace
    BY <1>1 DEF TypeInv, TypeOK
  <2>2. CASE MoveFocus \/ ServerDown \/ ServerUp
    BY <2>2 DEF MoveFocus, ServerDown, ServerUp
  <2>3. ASSUME NEW v \in Workspace, OpenWorkspace(v) \/ CloseWorkspace(v)
        PROVE  rows'[w] = rows[w]
    BY <2>1, <2>3 DEF OpenWorkspace, CloseWorkspace, TypeInv, TypeOK, HerdrTypeOK
  <2>4. QED
    BY <2>2, <2>3 DEF Outside
<1>3. QED
  BY <1>1, <1>2 DEF CarryInv, Carried, Running

LEMMA CarryStep ==
  TypeInv /\ SeqInv /\ ListInv /\ CarryInv /\ [Next]_vars => CarryInv'
<1> SUFFICES ASSUME TypeInv, SeqInv, ListInv, CarryInv, [Next]_vars
             PROVE  CarryInv'
  OBVIOUS
<1>1. CASE Start
  BY <1>1 DEF Start, CarryInv
<1>2. CASE Wake
  BY <1>2, CarryAges DEF Wake, Running
<1>3. CASE Reload
  <2>1. CASE options'.source = options.source
    BY <1>3, <2>1 DEF Reload, CarryInv, Carried, Running, herdrVars, tickVars
  <2>2. CASE options'.source # options.source
    <3>1. /\ fresh' = 0 /\ options' \in Options
          /\ UNCHANGED <<rows, targets, toSet, lost>>
      BY <1>3, <2>2 DEF Reload, herdrVars, tickVars, TypeInv, TypeOK
    <3>2. ASSUME NEW w \in targets PROVE rows[w][options'.source] \in Nat
      BY <3>1, HerdrAssumption DEF TypeInv, TypeOK, HerdrTypeOK, Options
    <3>3. QED
      BY <3>1, <3>2 DEF CarryInv, Carried
  <2>3. QED
    BY <2>1, <2>2
<1>4. CASE Tick \/ SampleFails \/ ListFails \/ EndTick \/ Crash \/ EditConfig
           \/ UNCHANGED vars
  BY <1>4, CarryKept
  DEF Tick, SocketGone, Prime, Sample, SampleFails, ListFails, EndTick, Crash,
      EditConfig, vars, herdrVars, daemonVars, tickVars, observed, Running
<1>5. CASE ListOk
  BY <1>5 DEF ListOk, CarryInv
<1>6. CASE CallTakesTime
  BY <1>6, CarryAges DEF CallTakesTime, daemonVars, tickVars, Running
<1>7. ASSUME NEW w \in Workspace, NEW kind \in {"set", "clear"},
             ReportHandled(w, kind)
      PROVE  CarryInv'
  BY <1>7, CarryReportHandled
<1>8. ASSUME NEW w \in Workspace, NEW kind \in {"set", "clear"},
             ReportLost(w, kind) \/ ReportKilled(w, kind)
      PROVE  CarryInv'
  <2>1. /\ pc = "report" /\ pc' = pc
        /\ UNCHANGED <<rows, accepted, last, options, fresh, targets>>
        /\ kind = "set" => toSet' = toSet \ {w} /\ lost' = lost \cup {w}
        /\ kind = "clear" => w \in toClear /\ UNCHANGED <<toSet, lost>>
        /\ \A r \in late' \ late : r.ws = w
    BY <1>8 DEF ReportLost, ReportKilled, Due, Sent, Miss, herdrVars, ReportFor
  <2>2. w \notin (targets' \ toSet') \ lost'
    BY <2>1 DEF ListInv, StaleTargets
  <2>3. (targets' \ toSet') \ lost' \subseteq (targets \ toSet) \ lost
    BY <2>1, <2>2
  <2>4. QED
    BY <2>1, <2>2, <2>3, CarryKept DEF Running
<1>9. CASE LateArrives
  BY <1>9, CarryLateArrives
<1>10. CASE Outside
  BY <1>10, CarryOutside
<1>11. QED
  BY <1>1, <1>2, <1>3, <1>4, <1>5, <1>6, <1>7, <1>8, <1>9, <1>10
  DEF Next, Step, World, List, Call

(***************************************************************************)
(* While the clock can be trusted, rows do not blink: a target the report  *)
(* reached keeps them for a whole ttl after the list, however many reports *)
(* arrive late and however long the calls of the tick block                *)
(* (mod.rs:446-475, cli.rs:16-20).                                         *)
(***************************************************************************)
THEOREM RowsDoNotBlink ==
  ASSUME ClockTrusted
  PROVE  Spec => []RowsLast
<1>1. CarryInv => RowsLast
  BY DEF CarryInv, Carried, RowsLast
<1>2. Init => CarryInv
  BY CarryInitially
<1>3. RowsIInv /\ CarryInv /\ [Next]_vars => CarryInv'
  BY CarryStep DEF RowsIInv
<1>4. QED
  BY <1>1, <1>2, <1>3, RowsCorrect, PTL DEF Spec

-----------------------------------------------------------------------------
(* The daemon implements SidebarView.                                      *)

LEMMA ViewInitially == Init => View!Init
BY DEF Init, HerdrInit, View!Init, View!NoRows, View!Options, Options, Scope,
       Larger

(* Where the observers stand, and how rows age, mean the same in both.     *)
LEMMA GraceType == TypeInv => /\ Larger(tainted, renamed) \in 0 .. Ttl
                              /\ Larger(tainted, renamed) \in {tainted, renamed}
BY DEF TypeInv, TypeOK, Larger

LEMMA AgeView ==
  ASSUME TypeInv, NEW k \in 0 .. Ttl, AgeRows(k)
  PROVE  rows' = View!Aged(k)
BY DEF AgeRows, View!Aged, Older, View!Older

LEMMA PassView ==
  ASSUME TypeInv, Pass(1), UNCHANGED <<open, focused, options, targets, late>>
  PROVE  View!TimePasses
<1>1. rows' = View!Aged(1)
  BY HerdrAssumption, AgeView DEF Pass
<1>2. Larger(tainted', renamed') = View!Older(Larger(tainted, renamed), 1)
  BY HerdrAssumption DEF Pass, Larger, Older, View!Older, TypeInv, TypeOK
<1>3. QED
  BY <1>1, <1>2 DEF View!TimePasses

(* While a tick shows rows, those elsewhere are excused.                   *)
LEMMA ShowsTidily ==
  ASSUME TypeInv, ListInv, RowInv, pc = "report", toClear = {}
  PROVE  View!Tidy
<1> SUFFICES ASSUME NEW w \in open \ targets, NEW s \in Source
             PROVE  rows[w][s] <= Larger(tainted, renamed)
  BY DEF View!Tidy
<1>1. w \notin Known /\ w \in open /\ Running
  BY DEF Known, Running
<1>2. rows[w][s] <= tainted \/ rows[w][s] <= renamed
  BY <1>1 DEF RowInv
<1>3. rows[w][s] \in Nat /\ tainted \in Nat /\ renamed \in Nat
  BY HerdrAssumption DEF TypeInv, TypeOK, HerdrTypeOK
<1>4. QED
  BY <1>2, <1>3 DEF Larger

LEMMA HandledView ==
  ASSUME TypeInv, SeqInv, ListInv, RowInv,
         NEW w \in Workspace, NEW kind \in {"set", "clear"},
         ReportHandled(w, kind)
  PROVE  [View!Next]_(View!view)
<1> DEFINE r == ReportFor(w, kind)
<1>1. /\ pc = "report" /\ Handle(r)
      /\ UNCHANGED <<open, focused, options, targets, late, tainted, renamed>>
      /\ kind = "clear" => w \in toClear
      /\ kind = "set" => w \in toSet /\ toClear = {}
  BY DEF ReportHandled, Due, observed
<1>2. r.ws = w /\ r.source = options.source /\ r.kind = kind
  BY DEF ReportFor
<1> HIDE DEF r
<1>3. CASE ~Accepts(r)
  BY <1>1, <1>3 DEF Handle, View!view
<1>4. CASE Accepts(r) /\ kind = "set"
  <2>1. w \in targets /\ View!Tidy
    BY <1>1, <1>4, ShowsTidily DEF ListInv
  <2>2. rows' = [rows EXCEPT ![w][options.source] = Ttl]
    BY <1>1, <1>2, <1>4 DEF Handle
  <2>3. View!Show(w)
    BY <1>1, <2>1, <2>2 DEF View!Show
  <2>4. QED
    BY <2>3 DEF View!Next
<1>5. CASE Accepts(r) /\ kind = "clear"
  <2>1. w \notin targets
    BY <1>1, <1>5 DEF ListInv, StaleTargets
  <2>2. rows' = [rows EXCEPT ![w][options.source] = 0]
    BY <1>1, <1>2, <1>5 DEF Handle
  <2>3. View!Clear(w)
    BY <1>1, <2>1, <2>2 DEF View!Clear
  <2>4. QED
    BY <2>3 DEF View!Next
<1>6. QED
  BY <1>3, <1>4, <1>5

LEMMA LateView ==
  ASSUME TypeInv, LateArrives
  PROVE  View!Straggle
<1> PICK r \in late :
      /\ DeliverLate(r)
      /\ tainted' = IF r.kind = "set" /\ (r.ws \notin targets \/ r.source # options.source)
                    THEN Ttl ELSE tainted
      /\ UNCHANGED <<daemonVars, renamed>>
  BY DEF LateArrives
<1>1. /\ UNCHANGED <<open, focused, options, targets, renamed>>
      /\ late # {} /\ Handle(r) /\ r \in Report
  BY DEF DeliverLate, daemonVars, tickVars, TypeInv, TypeOK, HerdrTypeOK
<1>2. tainted \in 0 .. Ttl /\ renamed \in 0 .. Ttl /\ Ttl \in Nat
  BY HerdrAssumption DEF TypeInv, TypeOK
<1>3. /\ Larger(tainted', renamed') \in {Larger(tainted, renamed), Ttl}
      /\ tainted' = Ttl => Larger(tainted', renamed') = Ttl
  BY <1>1, <1>2 DEF Larger
<1>4. \/ UNCHANGED rows
      \/ \E w \in open, s \in Source, life \in {0, Ttl} :
           /\ rows' = [rows EXCEPT ![w][s] = life]
           /\ life = Ttl => (w \in targets /\ s = options.source)
                            \/ Larger(tainted', renamed') = Ttl
  <2>1. CASE ~Accepts(r)
    BY <1>1, <2>1 DEF Handle
  <2>2. CASE Accepts(r)
    <3> DEFINE life == IF r.kind = "set" THEN Ttl ELSE 0
    <3>1. r.ws \in open /\ r.source \in Source /\ life \in {0, Ttl}
      BY <1>1, <2>2 DEF Accepts, Report
    <3>2. rows' = [rows EXCEPT ![r.ws][r.source] = life]
      BY <1>1, <2>2 DEF Handle
    <3>3. life = Ttl => (r.ws \in targets /\ r.source = options.source)
                         \/ Larger(tainted', renamed') = Ttl
      BY <1>2, <1>3, HerdrAssumption
    <3> HIDE DEF life
    <3>4. QED
      BY <3>1, <3>2, <3>3
  <2>3. QED
    BY <2>1, <2>2
<1>5. (late' # {}) \in BOOLEAN
  OBVIOUS
<1>6. QED
  BY <1>1, <1>3, <1>4, <1>5 DEF View!Straggle

LEMMA OutsideView ==
  ASSUME TypeInv, Outside
  PROVE  [View!Next]_(View!view)
<1>1. UNCHANGED <<options, targets, tainted, renamed>>
  BY DEF Outside, daemonVars, tickVars, observed
<1>2. rows = [w \in Workspace |-> rows[w]]
  BY DEF TypeInv, TypeOK, HerdrTypeOK
<1>3. CASE MoveFocus \/ ServerDown \/ ServerUp
  <2>1. UNCHANGED <<open, rows, late>>
    BY <1>3 DEF MoveFocus, ServerDown, ServerUp
  <2>2. View!UsersAct
    BY <1>1, <1>2, <2>1 DEF View!UsersAct
  <2>3. QED
    BY <2>2 DEF View!Next
<1>4. ASSUME NEW w \in Workspace, OpenWorkspace(w)
      PROVE  View!UsersAct
  <2>1. open \ open' = {} /\ UNCHANGED <<rows, late>>
    BY <1>4 DEF OpenWorkspace
  <2>2. QED
    BY <1>1, <1>2, <2>1 DEF View!UsersAct
<1>5. ASSUME NEW w \in Workspace, CloseWorkspace(w)
      PROVE  View!UsersAct
  <2>1. open \ open' = {w} /\ UNCHANGED late
    BY <1>5 DEF CloseWorkspace
  <2>2. rows' = [v \in Workspace |->
                   IF v \in open \ open' THEN [s \in Source |-> 0] ELSE rows[v]]
    BY <1>2, <1>5, <2>1 DEF CloseWorkspace
  <2>3. QED
    BY <1>1, <2>1, <2>2 DEF View!UsersAct
<1>6. QED
  BY <1>3, <1>4, <1>5 DEF Outside, View!Next

(* A report that is lost or that is late: a mishap, or nothing at all.     *)
LEMMA MishapView ==
  ASSUME TypeInv, NEW w \in Workspace, NEW kind \in {"set", "clear"},
         ReportLost(w, kind) \/ ReportKilled(w, kind)
  PROVE  View!Mishap
<1>1. /\ UNCHANGED <<open, focused, rows, options, targets, renamed>>
      /\ tainted' \in {tainted, Ttl}
      /\ late' = late \/ late' # {}
  BY DEF ReportLost, ReportKilled, Miss, herdrVars
<1>2. tainted \in 0 .. Ttl /\ renamed \in 0 .. Ttl /\ Ttl \in Nat
  BY HerdrAssumption DEF TypeInv, TypeOK
<1>3. Larger(tainted', renamed') \in {Larger(tainted, renamed), Ttl}
  BY <1>1, <1>2 DEF Larger
<1>4. (late' # {}) \in {late # {}, TRUE}
  BY <1>1
<1>5. QED
  BY <1>1, <1>3, <1>4 DEF View!Mishap

LEMMA ListView ==
  ASSUME TypeInv, ListInv, ListOk
  PROVE  View!Look
<1>1. /\ UNCHANGED <<open, focused, rows, options, late, tainted, renamed>>
      /\ targets' \in TargetChoices(ListNow)
      /\ reported = targets
      /\ options.scope \in {"All", "Focused"}
  BY DEF ListOk, ListInv, herdrVars, Running, TypeInv, TypeOK, Options, Scope
<1>2. focused \in open \cup {NoFocus}
  BY DEF TypeInv, TypeOK, HerdrTypeOK
<1>3. CASE options.scope = "All"
  BY <1>1, <1>3 DEF TargetChoices, ListNow, View!Look, View!Belongs
<1>4. CASE options.scope = "Focused" /\ focused # NoFocus
  BY <1>1, <1>2, <1>4 DEF TargetChoices, ListNow, View!Look, View!Belongs
<1>5. CASE options.scope = "Focused" /\ focused = NoFocus
  <2>1. targets' \subseteq reported \cap open
    BY <1>1, <1>5 DEF TargetChoices, ListNow
  <2>2. QED
    BY <1>1, <1>5, <2>1 DEF View!Look, View!Belongs
<1>6. QED
  BY <1>1, <1>3, <1>4, <1>5

LEMMA StartView ==
  ASSUME TypeInv, Start
  PROVE  View!Restart
<1>1. PICK k \in 0 .. Ttl : AgeRows(k)
  BY DEF Start
<1>2. rows' = View!Aged(k)
  BY <1>1, AgeView
<1>3. Larger(tainted', renamed') = Ttl
  BY HerdrAssumption DEF Start, Larger
<1>4. options' \in View!Options
  BY DEF Start, TypeInv, TypeOK, View!Options, Options, Scope
<1>5. UNCHANGED <<open, focused, late>> /\ targets' = {}
  BY DEF Start
<1>6. QED
  BY <1>2, <1>3, <1>4, <1>5 DEF View!Restart

LEMMA ReloadView ==
  ASSUME TypeInv, Reload
  PROVE  View!Reload
<1>1. /\ UNCHANGED <<open, focused, rows, targets, late, tainted>>
      /\ options' \in Options
      /\ renamed' = IF options'.source # options.source THEN Ttl ELSE renamed
  BY DEF Reload, herdrVars, tickVars, TypeInv, TypeOK
<1>2. Larger(tainted', renamed') =
        IF options'.source # options.source THEN Ttl ELSE Larger(tainted, renamed)
  BY <1>1, HerdrAssumption DEF Larger, TypeInv, TypeOK
<1>3. QED
  BY <1>1, <1>2 DEF View!Reload, View!Options, Options, Scope

LEMMA ViewStep ==
  RowsIInv /\ [Next]_vars => [View!Next]_(View!view)
<1> SUFFICES ASSUME TypeInv, SeqInv, ListInv, RowInv, [Next]_vars
             PROVE  [View!Next]_(View!view)
  BY DEF RowsIInv
<1>1. CASE Start
  BY <1>1, StartView DEF View!Next
<1>2. CASE Wake
  BY <1>2, PassView DEF Wake, View!Next
<1>3. CASE Reload
  BY <1>3, ReloadView DEF View!Next
<1>4. CASE Tick \/ SampleFails \/ ListFails \/ EndTick \/ Crash \/ EditConfig
           \/ UNCHANGED vars
  BY <1>4 DEF Tick, SocketGone, Prime, SampleFails, Sample, ListFails, EndTick,
              Crash, EditConfig, vars, herdrVars, daemonVars, tickVars, observed,
              View!view
<1>5. CASE ListOk
  BY <1>5, ListView DEF View!Next
<1>6. CASE CallTakesTime
  BY <1>6, PassView DEF CallTakesTime, daemonVars, tickVars, View!Next
<1>7. ASSUME NEW w \in Workspace, NEW kind \in {"set", "clear"},
             ReportHandled(w, kind)
      PROVE  [View!Next]_(View!view)
  BY <1>7, HandledView
<1>8. ASSUME NEW w \in Workspace, NEW kind \in {"set", "clear"},
             ReportLost(w, kind) \/ ReportKilled(w, kind)
      PROVE  [View!Next]_(View!view)
  BY <1>8, MishapView DEF View!Next
<1>9. CASE Outside
  BY <1>9, OutsideView
<1>10. CASE LateArrives
  BY <1>10, LateView DEF View!Next
<1>11. QED
  BY <1>1, <1>2, <1>3, <1>4, <1>5, <1>6, <1>7, <1>8, <1>9, <1>10
  DEF Next, Step, World, List, Call

(***************************************************************************)
(* The daemon over its server implements the abstract view: whatever it    *)
(* does through a series of calls looks like one look at the workspaces    *)
(* and rows that follow it (Daemon::tick).                                 *)
(***************************************************************************)
THEOREM DaemonImplementsView ==
  ASSUME ClockTrusted
  PROVE  Spec => ViewSpec
<1>1. Init => View!Init
  BY ViewInitially
<1>2. RowsIInv /\ [Next]_vars => [View!Next]_(View!view)
  BY ViewStep
<1>3. Spec => []RowsIInv
  BY RowsCorrect
<1>4. QED
  BY <1>1, <1>2, <1>3, PTL DEF Spec, ViewSpec, View!Spec

-----------------------------------------------------------------------------
(* On the way to the stop.                                                 *)

(* How many calls a tick still has to make.                                *)
Owing == Cardinality(toClear) + Cardinality(toSet)

(* How far a tick is from its list: asleep it is four steps, and a tick    *)
(* that reports has the sleep before it as well.                           *)
Place ==
  IF pc = "list" THEN 1
  ELSE IF pc = "tick" THEN 2
  ELSE IF pc = "awake" THEN 3
  ELSE IF pc = "asleep" THEN 4
  ELSE 5 + Owing

(* How many rounds of sleep, wake, tick and list are left at most to a     *)
(* daemon whose server is gone: one for each failure it still bears, for   *)
(* each tick that may yet fail to sample, and for the baseline.            *)
Baseline == IF primed THEN 0 ELSE 1
Rounds == (MaxFailures - failures) + (MaxEvents - events) + Baseline

(* How many steps at most it takes until it stops.                         *)
Left == IF Running THEN 4 * Rounds + Place ELSE 0

(* There is a step to take as long as the daemon runs.                     *)
StepDue ==
  /\ Running /\ ~serving
  /\ pc = "asleep" /\ SteadyClock => clock < MaxClock

(* WF_vars(Step) as far as it is needed here, with StepDue written out for *)
(* ENABLED <<Step>>_vars, which it implies.                                *)
GoesOn == []<>~StepDue \/ []<><<Step>>_vars

LEMMA OwingType ==
  TypeInv => /\ IsFiniteSet(toClear) /\ IsFiniteSet(toSet)
             /\ Owing \in Nat
BY FS_Subset, FS_CardinalityType, HerdrAssumption DEF TypeInv, TypeOK, Owing

LEMMA RoundsType == TypeInv => Rounds \in Nat
<1> SUFFICES ASSUME TypeInv PROVE Rounds \in Nat
  OBVIOUS
<1>1. MaxFailures - failures \in Nat /\ MaxEvents - events \in Nat
  BY DaemonAssumption DEF TypeInv, TypeOK
<1>2. Baseline \in {0, 1}
  BY DEF Baseline
<1>3. QED
  BY <1>1, <1>2 DEF Rounds

LEMMA PlaceType == TypeInv => Place \in Nat \ {0}
BY OwingType DEF Place

LEMMA LeftType ==
  TypeInv => /\ Left \in Nat
             /\ Running => Left > 0
BY RoundsType, PlaceType DEF Left

(* The same of the next state.                                             *)
LEMMA NextTypes ==
  TypeInv /\ [Next]_vars => /\ (Owing \in Nat)' /\ (Rounds \in Nat)'
                            /\ (Place \in Nat \ {0})' /\ (Left \in Nat)'
<1>1. TypeInv => Owing \in Nat /\ Left \in Nat
  BY OwingType, LeftType
<1>2. QED
  BY TypeStep, <1>1, RoundsType, PlaceType, PTL

(* A call that is made is one call less.                                   *)
LEMMA CallIsOneLess ==
  ASSUME TypeInv, NEW w, NEW kind, Due(w, kind), Sent(w, kind)
  PROVE  Owing' = Owing - 1
<1>1. /\ IsFiniteSet(toClear) /\ Cardinality(toClear) \in Nat
      /\ IsFiniteSet(toSet) /\ Cardinality(toSet) \in Nat
  BY OwingType, FS_CardinalityType
<1>2. CASE kind = "clear"
  <2>1. w \in toClear /\ toClear' = toClear \ {w} /\ toSet' = toSet
    BY <1>2 DEF Due, Sent
  <2>2. Cardinality(toClear') = Cardinality(toClear) - 1
    BY <1>1, <2>1, FS_RemoveElement
  <2>3. QED
    BY <1>1, <2>1, <2>2 DEF Owing
<1>3. CASE kind # "clear"
  <2>1. w \in toSet /\ toSet' = toSet \ {w} /\ toClear' = toClear
    BY <1>3 DEF Due, Sent
  <2>2. Cardinality(toSet') = Cardinality(toSet) - 1
    BY <1>1, <2>1, FS_RemoveElement
  <2>3. QED
    BY <1>1, <2>1, <2>2 DEF Owing
<1>4. QED
  BY <1>2, <1>3

(* The parts of Rounds, as numbers.                                        *)
LEMMA RoundsParts ==
  ASSUME TypeInv
  PROVE  /\ MaxFailures \in Int /\ failures \in Int
         /\ MaxEvents \in Int /\ events \in Int
         /\ Baseline \in {0, 1}
BY DaemonAssumption DEF TypeInv, TypeOK, Baseline

(* Fewer rounds, or as many and a better place, are nearer.                *)
LEMMA Weighed ==
  ASSUME NEW r \in Nat, NEW s \in Nat, NEW a \in Nat, NEW b \in Nat
  PROVE  /\ s <= r /\ b <= a => 4 * s + b <= 4 * r + a
         /\ s <= r /\ b < a => 4 * s + b < 4 * r + a
         /\ s = r - 1 /\ b < a + 4 => 4 * s + b < 4 * r + a
         /\ b < a => 5 + b < 5 + a
OBVIOUS

(* Nobody gets back what the run has spent of its failures.                *)
LEMMA EventsGrow == [Next]_vars => events' = events \/ events' = events + 1
<1>1. CASE Wake \/ Reload \/ Tick \/ EndTick \/ CallTakesTime
  BY <1>1 DEF Wake, Reload, Tick, SocketGone, Prime, Sample, EndTick,
              CallTakesTime, bounds
<1>2. CASE List \/ SampleFails \/ Crash \/ EditConfig
  BY <1>2 DEF List, ListFails, ListOk, SampleFails, Crash, EditConfig, Spend,
              bounds
<1>3. CASE Call
  BY <1>3 DEF Call, ReportHandled, ReportLost, ReportKilled, Spend, bounds
<1>4. CASE Outside \/ LateArrives \/ Start \/ UNCHANGED vars
  BY <1>4 DEF Outside, LateArrives, Start, Spend, bounds, vars
<1>5. QED
  BY <1>1, <1>2, <1>3, <1>4 DEF Next, Step, World

(* What it takes for a step to come nearer.                                *)
LEMMA Nearing ==
  ASSUME TypeInv, [Next]_vars, Running
  PROVE  /\ ~Running' => Left' < Left
         /\ Rounds' <= Rounds /\ Place' <= Place => Left' <= Left
         /\ Rounds' <= Rounds /\ Place' < Place => Left' < Left
         /\ Rounds' = Rounds - 1 /\ Place' < Place + 4 => Left' < Left
<1>1. /\ Rounds \in Nat /\ Rounds' \in Nat
      /\ Place \in Nat /\ Place' \in Nat
      /\ Left \in Nat /\ Left > 0
  BY RoundsType, PlaceType, LeftType, NextTypes
<1>2. /\ Left = 4 * Rounds + Place
      /\ Running' => Left' = 4 * Rounds' + Place'
      /\ ~Running' => Left' = 0
  BY DEF Left
<1>3. CASE ~Running'
  <2>1. Left' = 0
    BY <1>2, <1>3
  <2>2. Left' <= Left /\ Left' < Left
    BY <1>1, <2>1
  <2>3. QED
    BY <2>2
<1>4. CASE Running'
  <2>1. Left' = 4 * Rounds' + Place' /\ Left = 4 * Rounds + Place
    BY <1>2, <1>4
  <2>2. QED
    BY <1>1, <1>4, <2>1, Weighed
<1>5. QED
  BY <1>3, <1>4

(* A step of the daemon brings it nearer to the stop while nobody serves.  *)
LEMMA StepIsNearer ==
  ASSUME TypeInv, [Next]_vars, Running, ~serving, Step
  PROVE  Left' < Left
<1>1. /\ Rounds \in Nat /\ Rounds' \in Nat
      /\ Owing \in Nat /\ Owing' \in Nat
  BY RoundsType, OwingType, NextTypes
<1>2. CASE Wake \/ Reload
  <2>1. Rounds' = Rounds
    BY <1>2 DEF Wake, Reload, Rounds, Baseline, bounds
  <2>2. \/ pc = "asleep" /\ pc' = "awake"
        \/ pc = "awake" /\ pc' = "tick"
    BY <1>2 DEF Wake, Reload
  <2>3. Place' < Place
    BY <2>2 DEF Place
  <2>4. QED
    BY <1>1, <2>1, <2>3, Nearing
<1>3. CASE SocketGone
  BY <1>3, Nearing DEF SocketGone, Running
<1>4. CASE Prime
  <2>1. /\ Baseline = 1 /\ Baseline' = 0
        /\ UNCHANGED <<failures, events>>
    BY <1>4 DEF Prime, Baseline, bounds
  <2>2. Rounds' = Rounds - 1
    BY <2>1, RoundsParts DEF Rounds
  <2>3. Place' < Place + 4
    BY <1>4 DEF Prime, Place
  <2>4. QED
    BY <2>2, <2>3, Nearing
<1>5. CASE Sample
  <2>1. Rounds' = Rounds
    BY <1>5 DEF Sample, Rounds, Baseline, bounds
  <2>2. Place' < Place
    BY <1>5 DEF Sample, Place
  <2>3. QED
    BY <1>1, <2>1, <2>2, Nearing
<1>6. CASE List
  <2>1. /\ failures' = failures + 1 /\ UNCHANGED <<primed, events>>
        /\ pc = "list" /\ pc' \in {"stopped", "asleep"}
    BY <1>6 DEF List, ListOk, ListFails
  <2>2. Baseline' = Baseline
    BY <2>1 DEF Baseline
  <2>3. Rounds' = Rounds - 1
    BY <2>1, <2>2, RoundsParts DEF Rounds
  <2>4. Running' => Place' < Place + 4
    BY <2>1 DEF Place, Running
  <2>5. QED
    BY <2>3, <2>4, Nearing
<1>7. CASE Call
  <2> PICK w \in Workspace, kind \in {"set", "clear"} :
        ReportHandled(w, kind) \/ ReportLost(w, kind) \/ ReportKilled(w, kind)
    BY <1>7 DEF Call
  <2>1. /\ Due(w, kind) /\ Sent(w, kind) /\ pc = "report"
        /\ UNCHANGED <<pc, primed, failures>>
    BY DEF ReportHandled, ReportLost, ReportKilled, Due
  <2>2. Baseline' = Baseline
    BY <2>1 DEF Baseline
  <2>3. Rounds' <= Rounds
    BY <2>1, <2>2, RoundsParts, EventsGrow DEF Rounds
  <2>4. Owing' < Owing
    BY <1>1, <2>1, CallIsOneLess
  <2>5. Place' < Place
    <3>1. Place = 5 + Owing /\ Place' = 5 + Owing'
      BY <2>1 DEF Place
    <3>2. QED
      BY <1>1, <2>4, <3>1, Weighed
  <2>6. QED
    BY <2>3, <2>5, Nearing
<1>8. CASE EndTick
  <2>1. Rounds' = Rounds
    BY <1>8 DEF EndTick, Rounds, Baseline, bounds
  <2>2. Place' < Place
    BY <1>1, <1>8 DEF EndTick, Place
  <2>3. QED
    BY <1>1, <2>1, <2>2, Nearing
<1>9. QED
  BY <1>2, <1>3, <1>4, <1>5, <1>6, <1>7, <1>8 DEF Step, Tick

(* And whatever else happens does not take it back: a tick that fails to   *)
(* sample costs one of the failures a run may have.                        *)
LEMMA NothingTakesBack ==
  ASSUME TypeInv, [Next]_vars, Running, ~serving
  PROVE  Left' <= Left
<1>1. Left \in Nat /\ Left' \in Nat /\ Place \in Nat
  BY LeftType, PlaceType, NextTypes
<1>2. CASE Step
  BY <1>1, <1>2, StepIsNearer
<1>3. CASE SampleFails
  <2>1. /\ events' = events + 1 /\ UNCHANGED <<primed, failures>>
        /\ pc = "tick" /\ pc' = "asleep"
    BY <1>3 DEF SampleFails, Spend
  <2>2. Baseline' = Baseline
    BY <2>1 DEF Baseline
  <2>3. Rounds' = Rounds - 1
    BY <2>1, <2>2, RoundsParts DEF Rounds
  <2>4. Place' < Place + 4
    BY <2>1 DEF Place
  <2>5. QED
    BY <1>1, <2>3, <2>4, Nearing
<1>4. CASE CallTakesTime \/ EditConfig \/ Outside \/ LateArrives \/ UNCHANGED vars
  <2>1. UNCHANGED <<pc, primed, failures, toClear, toSet>>
    BY <1>4 DEF CallTakesTime, EditConfig, Outside, LateArrives, vars,
                daemonVars, tickVars
  <2>2. Place' = Place /\ Baseline' = Baseline
    BY <2>1 DEF Place, Owing, Baseline
  <2>3. Rounds' <= Rounds
    BY <2>1, <2>2, RoundsParts, EventsGrow DEF Rounds
  <2>4. Place' <= Place
    BY <1>1, <2>2
  <2>5. QED
    BY <2>3, <2>4, Nearing
<1>5. CASE Start \/ Crash
  BY <1>1, <1>5, Nearing DEF Start, Crash, Running
<1>6. QED
  BY <1>2, <1>3, <1>4, <1>5 DEF Next, World

(***************************************************************************)
(* A daemon whose server is gone for good stops: from wherever it is, it   *)
(* has Left steps at the most, and for every n it comes from n + 1 of them *)
(* to n, however many calls of the tick still have to time out and however *)
(* the clock goes, until it stops (mod.rs:391-396, 405-441, 455-475,       *)
(* 582-611).  By induction over n this is StopsWhenServerIsGone.           *)
(***************************************************************************)
THEOREM StopComesNearer ==
  ASSUME ~SteadyClock, NEW n \in Nat
  PROVE  Spec /\ GoesOn =>
           []([]~serving /\ Running /\ Left <= n + 1
                => <>(~Running \/ Left <= n))
<1> DEFINE Near == Left <= n + 1
           Nearer == ~Running \/ Left <= n
<1>1. TypeInv /\ ~serving /\ Running => StepDue
  BY DEF StepDue
<1>2. TypeInv /\ ~serving /\ Running /\ Near /\ [Next]_vars
        => Near' \/ ~Running'
  <2> SUFFICES ASSUME TypeInv, ~serving, Running, Left <= n + 1, [Next]_vars
               PROVE  Left' <= n + 1
    OBVIOUS
  <2>1. QED
    BY NothingTakesBack, LeftType, NextTypes
<1>3. TypeInv /\ ~serving /\ Running /\ Near /\ <<Step>>_vars => Nearer'
  <2> SUFFICES ASSUME TypeInv, ~serving, Running, Left <= n + 1, Step
               PROVE  Left' <= n
    OBVIOUS
  <2>1. [Next]_vars
    BY DEF Next
  <2>2. QED
    BY <2>1, StepIsNearer, LeftType, NextTypes
<1>4. ~Running => Nearer
  OBVIOUS
<1> HIDE DEF Near, Nearer
<1>5. Spec /\ GoesOn =>
        []([]~serving /\ Running /\ Near => <>Nearer)
  BY <1>1, <1>2, <1>3, <1>4, TypeCorrect, PTL DEF Spec, GoesOn
<1>6. QED
  BY <1>5 DEF Near, Nearer

-----------------------------------------------------------------------------
(* The daemon implements ReportLoop.                                       *)

(* A tick that got past its socket check is on the way to the list; what   *)
(* comes after the list belongs to the way to the next check.              *)
Phase ==
  IF pc = "crashed" THEN "off"
  ELSE IF pc = "stopped" THEN "stopped"
  ELSE IF pc = "list" THEN "call"
  ELSE "check"

Loop == INSTANCE ReportLoop WITH phase  <- Phase,
                                 misses <- IF Running THEN failures ELSE 0

LEMMA LoopStep == TypeInv /\ [Next]_vars => [Loop!Next]_<<Loop!loop, Loop!server>>
<1> SUFFICES ASSUME TypeInv, [Next]_vars
             PROVE  [Loop!Next]_<<Loop!loop, Loop!server>>
  OBVIOUS
<1> USE DEF Phase, Running, Loop!loop, Loop!server
<1>1. CASE Wake \/ Reload \/ Prime \/ EndTick \/ SampleFails \/ CallTakesTime
           \/ EditConfig \/ LateArrives \/ UNCHANGED vars
  BY <1>1
  DEF Wake, Reload, Prime, EndTick, SampleFails, CallTakesTime, EditConfig,
      LateArrives, DeliverLate, herdrVars, daemonVars, vars
<1>2. CASE SocketGone \/ Sample
  BY <1>2 DEF SocketGone, Sample, herdrVars, Loop!Check, Loop!Next
<1>3. CASE ListFails
  <2>1. /\ pc = "list" /\ failures' = failures + 1 /\ UNCHANGED <<serving, socket>>
        /\ pc' = IF failures + 1 >= MaxFailures THEN "stopped" ELSE "asleep"
        /\ failures \in Nat /\ MaxFailures \in Nat
    BY <1>3, DaemonAssumption DEF ListFails, herdrVars, TypeInv, TypeOK
  <2>2. QED
    BY <2>1 DEF Loop!Missed, Loop!Next
<1>4. CASE ListOk
  BY <1>4 DEF ListOk, herdrVars, Loop!Listed, Loop!Next
<1>5. CASE Call
  BY <1>5 DEF Call, ReportHandled, ReportLost, ReportKilled, herdrVars
<1>6. CASE Outside
  BY <1>6 DEF Outside, daemonVars, Loop!Server, Loop!Next
<1>7. CASE Crash
  BY <1>7 DEF Crash, herdrVars, Loop!Leave, Loop!Next
<1>8. CASE Start
  BY <1>8 DEF Start, herdrVars, Loop!Begin, Loop!Next
<1>9. QED
  BY <1>1, <1>2, <1>3, <1>4, <1>5, <1>6, <1>7, <1>8
  DEF Next, Step, World, Tick, List

(***************************************************************************)
(* Whatever a tick does besides, the daemon comes to its end as ReportLoop *)
(* says: no other call, no report and no edit is a reason to stop          *)
(* (mod.rs:391-441, 582-611).                                              *)
(***************************************************************************)
THEOREM DaemonIsReportLoop == Spec => Loop!Spec
<1>1. Init => Loop!Init
  BY DEF Init, Loop!Init, Phase, Running
<1>2. QED
  BY <1>1, LoopStep, TypeCorrect, PTL DEF Spec, Loop!Spec
=============================================================================
