---------------------------- MODULE HandoffProofs ----------------------------
(***************************************************************************)
(* Over any number of daemons, servers and handoffs.                       *)
(*                                                                         *)
(* The composition does to the lock only what SingletonLock allows, so the *)
(* lock's own theorems hold in it.  That somebody stays to report rests on *)
(* them: whoever turns a daemon away holds the lock, hence lives, and as   *)
(* long as nothing is excused nobody who lives is about to stop.  Whoever  *)
(* stays like that reports, and each has the loop Daemon has.              *)
(***************************************************************************)
EXTENDS Handoff, SingletonLockProofs

-----------------------------------------------------------------------------
(* The lock within the composition.                                        *)

LEMMA LockStep == [HandoffNext]_handoffVars => [Next]_vars
<1> SUFFICES ASSUME HandoffNext PROVE [Next]_vars
  BY DEF handoffVars
<1>1. ASSUME NEW p \in Process, Hook(p) \/ ByHand(p) PROVE [Next]_vars
  BY <1>1 DEF Hook, ByHand, NewDaemon, Next
<1>2. ASSUME NEW p \in Process, Acquire(p) PROVE [Next]_vars
  BY <1>2 DEF Acquire, Next
<1>3. ASSUME NEW p \in Process,
             Check(p) \/ NoSample(p) \/ ListFails(p) \/ Report(p)
      PROVE  [Next]_vars
  BY <1>3 DEF Check, NoSample, ListFails, Report
<1>4. ASSUME NEW p \in Process, Exit(p) \/ Kill(p) PROVE [Next]_vars
  BY <1>4 DEF Exit, Kill, Next
<1>5. CASE ServerDown \/ ServerUp \/ LiveHandoff
  BY <1>5 DEF ServerDown, ServerUp, LiveHandoff
<1>6. ASSUME NEW f \in Path, Cleanup(f) PROVE [Next]_vars
  BY <1>6 DEF Cleanup, Next
<1>7. QED
  BY <1>1, <1>2, <1>3, <1>4, <1>5, <1>6 DEF HandoffNext, Daemon

(***************************************************************************)
(* The daemons of a handoff use the lock as SingletonLock says, and so it  *)
(* keeps them apart (lock.rs:1-13).                                        *)
(***************************************************************************)
THEOREM HandoffUsesTheLock == HandoffSpec => Spec
<1>1. HandoffInit => Init
  BY DEF HandoffInit
<1>2. QED
  BY <1>1, LockStep, PTL DEF HandoffSpec, Spec

-----------------------------------------------------------------------------
(* Types.                                                                  *)

(* A sampling daemon that has not decided to stop has failures to spare.   *)
HandoffTypes ==
  /\ LockInv
  /\ HandoffTypeOK
  /\ \A p \in Process :
       /\ stage[p] # "stopping" => failures[p] < MaxFailures
       /\ failures[p] = missed[p]
       /\ pc[p] # "sampling" => stage[p] = "check" /\ failures[p] = 0

LEMMA TypesInitially == HandoffInit => HandoffTypes
BY HandoffAssumption, InitLock
DEF HandoffInit, HandoffTypes, HandoffTypeOK, LockInv

LEMMA TypesStep == HandoffTypes /\ [HandoffNext]_handoffVars => HandoffTypes'
<1> SUFFICES ASSUME HandoffTypes, [HandoffNext]_handoffVars PROVE HandoffTypes'
  OBVIOUS
<1> USE HandoffAssumption DEF HandoffTypes, HandoffTypeOK
<1>1. LockInv'
  BY LockStep, NextTypes, NextHandles, NextOwners, NextFiles DEF LockInv
<1>2. TypeOK' /\ TypeOK
  BY <1>1 DEF LockInv
<1>3. ASSUME NEW p \in Process, Hook(p) \/ ByHand(p) PROVE HandoffTypes'
  <2>1. pc[p] = "gone" /\ pc' = [pc EXCEPT ![p] = "opening"] /\ UNCHANGED loopVars
    BY <1>3 DEF Hook, ByHand, NewDaemon, Launch, Goto
  <2>2. /\ UNCHANGED <<serving, socket, slips>> /\ pending' \in BOOLEAN
        /\ hooked' \in SUBSET Process
    BY <1>3 DEF Hook, ByHand, NewDaemon
  <2>3. starts' \in 0 .. MaxStarts
    <3>1. starts < MaxStarts /\ starts' = starts + 1
      BY <1>3 DEF Hook, ByHand, NewDaemon
    <3>2. QED
      BY <3>1
  <2>4. excused' \in BOOLEAN
    BY <1>3, Zenon DEF Hook, ByHand
  <2>5. QED
    BY <1>1, <1>2, <2>1, <2>2, <2>3, <2>4 DEF loopVars, TypeOK
<1>4. ASSUME NEW p \in Process, Acquire(p) PROVE HandoffTypes'
  <2>1. \A q \in Process : pc[q] = "sampling" => pc'[q] = "sampling"
    BY <1>2, <1>4 DEF Acquire, Open, TryLock, TurnedAway, AcquireFails, Truncate,
                      WritePid, Goto, TypeOK
  <2>2. UNCHANGED <<loopVars, serverVars, bounds, hooked, excused>>
    BY <1>4 DEF Acquire
  <2>3. QED
    BY <1>1, <1>2, <2>1, <2>2 DEF loopVars, serverVars, bounds
<1>5. ASSUME NEW p \in Process, Check(p) PROVE HandoffTypes'
  BY <1>1, <1>2, <1>5 DEF Check, At, vars, serverVars, bounds
<1>6. ASSUME NEW p \in Process, NoSample(p) PROVE HandoffTypes'
  BY <1>1, <1>2, <1>6 DEF NoSample, Slip, At, vars, serverVars
<1>7. ASSUME NEW p \in Process, ListFails(p) PROVE HandoffTypes'
  BY <1>1, <1>2, <1>7 DEF ListFails, Slip, At, vars, serverVars
<1>8. ASSUME NEW p \in Process, Report(p) PROVE HandoffTypes'
  BY <1>1, <1>2, <1>8 DEF Report, At, vars, serverVars, bounds
<1>9. ASSUME NEW p \in Process, Exit(p) \/ Kill(p) PROVE HandoffTypes'
  <2>1. pc' = [pc EXCEPT ![p] = "gone"] /\ Forget(p)
    BY <1>9 DEF Exit, Kill, End
  <2>2. UNCHANGED <<serverVars, bounds, hooked>> /\ excused' \in BOOLEAN
    BY <1>9 DEF Exit, Kill
  <2>3. QED
    BY <1>1, <1>2, <2>1, <2>2 DEF Forget, serverVars, bounds, TypeOK
<1>10. CASE ServerDown \/ ServerUp \/ LiveHandoff
  BY <1>1, <1>2, <1>10 DEF ServerDown, ServerUp, LiveHandoff, vars, loopVars, bounds
<1>11. ASSUME NEW f \in Path, Cleanup(f) PROVE HandoffTypes'
  BY <1>1, <1>2, <1>11 DEF Cleanup, RemoveFile, loopVars, serverVars, bounds
<1>12. CASE UNCHANGED handoffVars
  BY <1>1, <1>2, <1>12 DEF handoffVars, vars, loopVars, serverVars, bounds
<1>13. QED
  BY <1>3, <1>4, <1>5, <1>6, <1>7, <1>8, <1>9, <1>10, <1>11, <1>12
  DEF HandoffNext, Daemon

(* Every state of a handoff has its types.                                 *)
THEOREM HandoffHasTypes == HandoffSpec => []HandoffTypeOK
<1>1. HandoffTypes => HandoffTypeOK
  BY DEF HandoffTypes
<1>2. QED
  BY <1>1, TypesInitially, TypesStep, PTL DEF HandoffSpec

-----------------------------------------------------------------------------
(* Somebody stays.                                                         *)

(* While nothing is excused a daemon lives and none is about to stop.      *)
Manned ==
  ~excused =>
    /\ \A p \in Process : ~Stopping(p)
    /\ \E p \in Process : Live(p)
    /\ UnixSocket => socket

(* A step that turns nobody away and ends nobody.                          *)
LEMMA StillManned ==
  ASSUME HandoffTypes, Manned, UNCHANGED excused,
         \A p \in Process : Live(p) => Live(p)',
         \A p \in Process : ~Stopping(p) => ~Stopping(p)',
         UNCHANGED socket
  PROVE  Manned'
BY DEF Manned

(* Whoever turned a daemon away stays: it holds the lock and lives.        *)
LEMMA RefusalIsManned ==
  ASSUME HandoffTypes, Manned, NEW p \in Process, TurnedAway(p),
         UNCHANGED <<loopVars, socket, excused>>
  PROVE  Manned'
<1> SUFFICES ASSUME ~excused PROVE Manned'
  BY DEF Manned
<1>1. /\ pc[p] = "locking" /\ pc' = [pc EXCEPT ![p] = "refused"]
      /\ AdvisoryLocks /\ owner[handle[p]] # NoProcess
      /\ TypeOK /\ Handles /\ Kept
  BY DEF TurnedAway, Goto, HandoffTypes, LockInv
<1>2. handle[p] \in File
  BY <1>1, OpenFile DEF Handles
<1>3. PICK q \in Process : q = owner[handle[p]]
  BY <1>1, <1>2 DEF TypeOK
<1>4. Holds(q) /\ q # p /\ ~Stopping(q)
  BY <1>1, <1>2, <1>3 DEF Kept, Holds, Manned
<1>5. Live(q)' /\ \A r \in Process : ~Stopping(r)'
  BY <1>1, <1>4 DEF Manned, Holds, Live, Stopping, loopVars, TypeOK
<1>6. QED
  BY <1>5 DEF Manned

LEMMA MannedStep ==
  HandoffTypes /\ Manned /\ [HandoffNext]_handoffVars => Manned'
<1> SUFFICES ASSUME HandoffTypes, Manned, [HandoffNext]_handoffVars PROVE Manned'
  OBVIOUS
<1>1. TypeOK /\ HandoffTypeOK
  BY DEF HandoffTypes, HandoffTypeOK
<1>2. ASSUME NEW p \in Process, Hook(p) PROVE Manned'
  <2>1. /\ pc' = [pc EXCEPT ![p] = "opening"] /\ UNCHANGED <<stage, socket>>
        /\ ~excused' => (UnixSocket => socket) /\ \A q \in Process : ~Stopping(q)
    BY <1>2 DEF Hook, NewDaemon, Launch, Goto, loopVars
  <2>2. Live(p)' /\ (~excused' => \A q \in Process : ~Stopping(q)')
    BY <1>1, <2>1 DEF Live, Stopping, TypeOK
  <2>3. QED
    BY <2>1, <2>2 DEF Manned
<1>3. ASSUME NEW p \in Process, ByHand(p) PROVE Manned'
  <2>1. /\ pc' = [pc EXCEPT ![p] = "opening"] /\ pc[p] = "gone"
        /\ UNCHANGED <<stage, socket, excused>>
    BY <1>3 DEF ByHand, NewDaemon, Launch, Goto, loopVars
  <2>2. /\ \A q \in Process : Live(q) => Live(q)'
        /\ \A q \in Process : ~Stopping(q) => ~Stopping(q)'
    BY <1>1, <2>1 DEF Live, Stopping, TypeOK
  <2>3. QED
    BY <2>1, <2>2, StillManned
<1>4. ASSUME NEW p \in Process, Acquire(p) PROVE Manned'
  <2>1. UNCHANGED <<loopVars, socket, excused>>
    BY <1>4 DEF Acquire, serverVars
  <2>2. CASE TurnedAway(p)
    BY <2>1, <2>2, RefusalIsManned
  <2>3. CASE ~TurnedAway(p)
    <3>1. /\ pc[p] \in {"opening", "locking", "truncating", "writing"}
          /\ \E s \in {"locking", "truncating", "writing", "sampling"} :
               pc' = [pc EXCEPT ![p] = s]
      BY <1>4, <2>3 DEF Acquire, Open, TryLock, AcquireFails, Truncate, WritePid, Goto
    <3>2. stage[p] = "check"
      BY <3>1 DEF HandoffTypes
    <3>3. /\ \A q \in Process : Live(q) => Live(q)'
          /\ \A q \in Process : ~Stopping(q) => ~Stopping(q)'
      BY <1>1, <2>1, <3>1, <3>2 DEF Live, Stopping, TypeOK, loopVars
    <3>4. QED
      BY <2>1, <3>3, StillManned
  <2>4. QED
    BY <2>2, <2>3
<1>5. ASSUME NEW p \in Process, Check(p) PROVE Manned'
  <2>1. /\ UNCHANGED <<pc, socket, excused>>
        /\ stage' = [stage EXCEPT ![p] =
                       IF UnixSocket /\ ~socket THEN "stopping" ELSE "call"]
    BY <1>5 DEF Check, vars, serverVars
  <2>2. QED
    BY <1>1, <2>1 DEF Manned, Live, Stopping, HandoffTypeOK
<1>6. ASSUME NEW p \in Process, NoSample(p) \/ Report(p) PROVE Manned'
  <2>1. /\ UNCHANGED <<pc, socket, excused>>
        /\ stage[p] = "call" /\ stage' = [stage EXCEPT ![p] = "check"]
    BY <1>6 DEF NoSample, Report, At, vars, serverVars
  <2>2. QED
    BY <1>1, <2>1 DEF Manned, Live, Stopping, HandoffTypeOK
<1>7. ASSUME NEW p \in Process, ListFails(p) PROVE Manned'
  <2>1. /\ UNCHANGED <<pc, socket>>
        /\ failures' = [failures EXCEPT ![p] = failures[p] + 1]
        /\ missed' = [missed EXCEPT ![p] = missed[p] + 1]
        /\ excused' = (excused \/ missed'[p] >= MaxFailures)
        /\ stage' = [stage EXCEPT ![p] =
                       IF failures'[p] >= MaxFailures THEN "stopping" ELSE "check"]
    BY <1>7 DEF ListFails, vars, serverVars
  <2>2. failures'[p] = missed'[p]
    BY <1>1, <2>1 DEF HandoffTypes, HandoffTypeOK
  <2>3. ~excused' => ~excused /\ stage' = [stage EXCEPT ![p] = "check"]
    BY <2>1, <2>2
  <2>4. QED
    BY <1>1, <2>1, <2>3 DEF Manned, Live, Stopping, HandoffTypeOK
<1>8. ASSUME NEW p \in Process, Exit(p) PROVE Manned'
  <2>1. /\ pc' = [pc EXCEPT ![p] = "gone"] /\ stage' = [stage EXCEPT ![p] = "check"]
        /\ UNCHANGED <<socket, excused>>
        /\ pc[p] = "refused" \/ Stopping(p)
    BY <1>8 DEF Exit, End, Forget, serverVars
  <2>2. QED
    BY <1>1, <2>1 DEF Manned, Live, Stopping, TypeOK, HandoffTypeOK
<1>9. ASSUME NEW p \in Process, Kill(p) PROVE Manned'
  BY <1>9 DEF Kill, Manned
<1>10. CASE ServerDown
  BY <1>10 DEF ServerDown, Manned, Live, Stopping, vars, loopVars
<1>11. CASE ServerUp \/ LiveHandoff
  BY <1>11 DEF ServerUp, LiveHandoff, Manned, Live, Stopping, vars, loopVars
<1>12. ASSUME NEW f \in Path, Cleanup(f) PROVE Manned'
  BY <1>12, StillManned
  DEF Cleanup, RemoveFile, Live, Stopping, loopVars, serverVars
<1>13. CASE UNCHANGED handoffVars
  BY <1>13, StillManned DEF handoffVars, vars, loopVars, serverVars, Live, Stopping
<1>14. QED
  BY <1>2, <1>3, <1>4, <1>5, <1>6, <1>7, <1>8, <1>9, <1>10, <1>11, <1>12, <1>13
  DEF HandoffNext, Daemon

(***************************************************************************)
(* After every startup hook some daemon lives and will report, for any     *)
(* number of processes and handoffs, until one is killed, the socket goes  *)
(* or max_failures lists fail in a row (mod.rs:582-611).                   *)
(***************************************************************************)
THEOREM HookLeavesSomebody == HandoffSpec => []SomebodyStays
<1>1. HandoffInit => Manned
  BY DEF HandoffInit, Manned
<1>2. Manned => SomebodyStays
  BY DEF Manned, SomebodyStays
<1>3. QED
  BY <1>1, <1>2, TypesInitially, TypesStep, MannedStep, PTL DEF HandoffSpec

-----------------------------------------------------------------------------
(* Nobody doubles up.                                                      *)

(* The hook always starts a daemon at the same lock path.                  *)
Hooked == \A p \in hooked : path[p] = HookPath

LEMMA HookedStep ==
  HandoffTypes /\ Hooked /\ [HandoffNext]_handoffVars => Hooked'
<1> SUFFICES ASSUME HandoffTypes, Hooked, [HandoffNext]_handoffVars PROVE Hooked'
  OBVIOUS
<1>1. TypeOK /\ hooked \subseteq Process
  BY DEF HandoffTypes, HandoffTypeOK
<1>2. ASSUME NEW p \in Process, Hook(p) \/ ByHand(p) PROVE Hooked'
  <2>1. PICK f \in Path : path' = [path EXCEPT ![p] = f]
    BY <1>2 DEF Hook, ByHand, NewDaemon, Launch
  <2>2. QED
    BY <1>1, <1>2, <2>1 DEF Hooked, Hook, ByHand, TypeOK
<1>3. CASE UNCHANGED <<path, hooked>>
  BY <1>3 DEF Hooked
<1>4. QED
  BY <1>2, <1>3
  DEF HandoffNext, Daemon, Acquire, Open, TryLock, TurnedAway, AcquireFails,
      Truncate, WritePid, Check, NoSample, ListFails, Report, Exit, Kill, End,
      ServerDown, ServerUp, LiveHandoff, Cleanup, RemoveFile, handoffVars, vars

(***************************************************************************)
(* The daemons that hooks start never report side by side, for any number  *)
(* of handoffs, if they can take the lock (README.md:552).                 *)
(***************************************************************************)
THEOREM HooksDoNotDouble == HandoffSpec => []HooksNeverDouble
<1>1. HandoffTypes /\ Hooked => HooksNeverDouble
  <2>1. LockInv => OneDaemonPerPath
    BY DEF LockInv, OneDaemonPerPath, Owned, InPlace, Holds
  <2>2. QED
    BY <2>1 DEF HandoffTypes, HandoffTypeOK, Hooked, HooksNeverDouble, At,
                OneDaemonPerPath, Holds
<1>2. HandoffInit => Hooked
  BY DEF HandoffInit, Hooked
<1>3. QED
  BY <1>1, <1>2, TypesInitially, TypesStep, HookedStep, PTL DEF HandoffSpec

-----------------------------------------------------------------------------
(* Whoever stays reports.                                                  *)

(* What process p can do: the guards of its steps, as far as they matter   *)
(* to one that is to report.                                               *)
Due(p) ==
  /\ Live(p) /\ serving
  /\ pc[p] = "opening" => file[path[p]] # 0 \/ files < MaxFiles

(* The fairness of FairHandoffSpec, with Due written out for ENABLED.      *)
GoesOn(p) == []<>~Due(p) \/ []<><<Daemon(p)>>_handoffVars

(* Process p is there, and nothing stands in its way.                      *)
Free(p) == Live(p) /\ serving /\ ~excused /\ files < MaxFiles

(* Process p is where it was.                                             *)
Same(p) ==
  /\ pc'[p] = pc[p] /\ stage'[p] = stage[p]
  /\ p \in primed' <=> p \in primed

(* Nobody else moves a process, but whoever kills it.                      *)
LEMMA Alone ==
  ASSUME HandoffTypes, NEW p \in Process, Live(p), [HandoffNext]_handoffVars,
         ~excused', ~Daemon(p)
  PROVE  Same(p)
<1> USE DEF Same
<1>1. TypeOK /\ HandoffTypeOK
  BY DEF HandoffTypes, HandoffTypeOK
<1>2. ASSUME NEW q \in Process, Hook(q) \/ ByHand(q)
      PROVE  Same(p)
  <2>1. pc[q] = "gone" /\ pc' = [pc EXCEPT ![q] = "opening"]
        /\ UNCHANGED <<stage, primed>>
    BY <1>2 DEF Hook, ByHand, NewDaemon, Launch, Goto, loopVars
  <2>2. QED
    BY <1>1, <2>1 DEF Live, TypeOK
<1>3. ASSUME NEW q \in Process, Daemon(q)
      PROVE  Same(p)
  <2>1. q # p
    BY <1>3
  <2>2. CASE Acquire(q)
    BY <1>1, <2>1, <2>2
    DEF Acquire, Open, TryLock, TurnedAway, AcquireFails, Truncate, WritePid,
        Goto, TypeOK, loopVars
  <2>3. CASE Check(q) \/ NoSample(q) \/ ListFails(q) \/ Report(q)
    BY <1>1, <2>1, <2>3
    DEF Check, NoSample, ListFails, Report, HandoffTypeOK, vars
  <2>4. CASE Exit(q)
    BY <1>1, <2>1, <2>4 DEF Exit, End, Forget, TypeOK, HandoffTypeOK
  <2>5. QED
    BY <1>3, <2>2, <2>3, <2>4 DEF Daemon
<1>4. ASSUME NEW q \in Process, Kill(q)
      PROVE  Same(p)
  BY <1>4 DEF Kill
<1>5. CASE \/ ServerDown \/ ServerUp \/ LiveHandoff \/ UNCHANGED handoffVars
           \/ \E f \in Path : Cleanup(f)
  BY <1>5 DEF ServerDown, ServerUp, LiveHandoff, Cleanup, RemoveFile,
              handoffVars, vars, loopVars
<1>6. QED
  BY <1>2, <1>3, <1>4, <1>5 DEF HandoffNext

(* What its own steps do, while it is free and none of them slips.         *)
LEMMA OwnStep ==
  ASSUME HandoffTypes, Manned, NEW p \in Process, Free(p), Daemon(p), Free(p)',
         UNCHANGED slips
  PROVE  /\ pc[p] = "opening" => pc'[p] \in {"locking", "sampling"}
         /\ pc[p] = "locking" => pc'[p] \in {"truncating", "sampling"}
         /\ pc[p] = "truncating" => pc'[p] = "writing"
         /\ pc[p] = "writing" => pc'[p] = "sampling"
         /\ pc[p] = "sampling" => pc'[p] = "sampling"
         /\ At(p, "check") =>
              stage'[p] = "call" /\ (p \in primed' <=> p \in primed)
         /\ At(p, "call") =>
              stage'[p] = "check" /\ p \in primed' /\ (p \in primed => Report(p))
<1>1. TypeOK /\ HandoffTypeOK /\ slips \in Nat
  BY HandoffAssumption DEF HandoffTypes, HandoffTypeOK
<1>2. Live(p) /\ serving /\ pc'[p] # "refused" /\ ~Stopping(p)
      /\ (UnixSocket => socket)
  BY DEF Free, Live, Manned
<1>3. CASE Acquire(p)
  BY <1>1, <1>2, <1>3
  DEF Acquire, Open, TryLock, TurnedAway, AcquireFails, Truncate, WritePid,
      Goto, TypeOK, At
<1>4. CASE Check(p)
  BY <1>1, <1>2, <1>4 DEF Check, At, HandoffTypeOK, vars
<1>5. ~ListFails(p)
  BY <1>1, <1>2 DEF ListFails, Slip
<1>6. CASE NoSample(p)
  <2>1. p \notin primed /\ primed' = primed \cup {p}
    BY <1>1, <1>6 DEF NoSample, Slip
  <2>2. QED
    BY <1>1, <1>6, <2>1 DEF NoSample, At, HandoffTypeOK, vars
<1>7. CASE Report(p)
  BY <1>1, <1>7 DEF Report, At, HandoffTypeOK, vars
<1>8. ~Exit(p)
  BY <1>2 DEF Exit, Live
<1>9. QED
  BY <1>3, <1>4, <1>5, <1>6, <1>7, <1>8 DEF Daemon

(***************************************************************************)
(* A daemon that stays while a server serves comes through `acquire` and   *)
(* reports to that server again and again, if its ticks go through from    *)
(* some point on (lock.rs:56-82, mod.rs:391-475, 582-611).  By             *)
(* HookLeavesSomebody there always is one, and as only so many start, one  *)
(* that stays: this is ReportsKeepComing.                                  *)
(***************************************************************************)
THEOREM WhoStaysReports ==
  ASSUME NEW p \in Process
  PROVE  HandoffSpec /\ GoesOn(p) =>
           (<>([]Free(p) /\ [][UNCHANGED slips]_handoffVars)
              => []<><<Report(p)>>_handoffVars)
<1> DEFINE I == HandoffTypes /\ Manned
           F == Free(p)
           O == pc[p] = "opening"
           K == pc[p] = "locking"
           T == pc[p] = "truncating"
           W == pc[p] = "writing"
           B == At(p, "check") /\ p \notin primed
           N == At(p, "call") /\ p \notin primed
           C == At(p, "check") /\ p \in primed
           L == At(p, "call") /\ p \in primed
           Quiet == [UNCHANGED slips]_handoffVars
           Still == I /\ F /\ [HandoffNext]_handoffVars /\ Quiet /\ F' /\ I'
<1>1. I /\ F => Due(p)
  BY DEF Free, Due
<1>2. I /\ F => O \/ K \/ T \/ W \/ B \/ N \/ C \/ L
  BY DEF Free, Live, Stopping, At, HandoffTypes, HandoffTypeOK
<1>3. Still => Daemon(p) \/ Same(p)
  BY Alone DEF Free
<1>4. Still /\ Daemon(p) =>
        /\ O => K' \/ B' \/ N' \/ C' \/ L'
        /\ K => T' \/ B' \/ N' \/ C' \/ L'
        /\ T => W'
        /\ W => B' \/ N' \/ C' \/ L'
        /\ B => N'
        /\ N => C'
        /\ C => L'
        /\ L => Report(p) /\ C'
  <2> SUFFICES ASSUME Still, Daemon(p)
               PROVE  /\ O => K' \/ B' \/ N' \/ C' \/ L'
                      /\ K => T' \/ B' \/ N' \/ C' \/ L'
                      /\ T => W'
                      /\ W => B' \/ N' \/ C' \/ L'
                      /\ B => N'
                      /\ N => C'
                      /\ C => L'
                      /\ L => Report(p) /\ C'
    OBVIOUS
  <2>1. UNCHANGED slips
    BY DEF handoffVars, bounds
  <2>2. pc'[p] = "sampling" => B' \/ N' \/ C' \/ L'
    BY DEF Free, Live, Stopping, At, HandoffTypes, HandoffTypeOK
  <2>3. pc[p] = "sampling" => pc'[p] = "sampling"
    BY <2>1, OwnStep
  <2>4. QED
    BY <2>1, <2>2, <2>3, OwnStep DEF At
<1>5. Still => /\ O => O' \/ K' \/ B' \/ N' \/ C' \/ L'
               /\ K => K' \/ T' \/ B' \/ N' \/ C' \/ L'
               /\ T => T' \/ W'
               /\ W => W' \/ B' \/ N' \/ C' \/ L'
               /\ B => B' \/ N'
               /\ N => N' \/ C'
               /\ C => C' \/ L'
               /\ L => L' \/ (C' /\ <<Report(p)>>_handoffVars)
  <2>1. L /\ C' => ~UNCHANGED handoffVars
    BY DEF At, handoffVars, loopVars
  <2>2. QED
    BY <1>3, <1>4, <2>1 DEF At, Same
<1>6. HandoffSpec => []I
  <2>1. HandoffInit => Manned
    BY DEF HandoffInit, Manned
  <2>2. QED
    BY <2>1, TypesInitially, TypesStep, MannedStep, PTL DEF HandoffSpec
<1> HIDE DEF I, F, O, K, T, W, B, N, C, L
<1>7. HandoffSpec /\ GoesOn(p) =>
        (<>([]F /\ [][UNCHANGED slips]_handoffVars)
           => []<><<Report(p)>>_handoffVars)
  BY <1>1, <1>2, <1>4, <1>5, <1>6, PTL DEF HandoffSpec, GoesOn
<1>8. QED
  BY <1>7 DEF F

-----------------------------------------------------------------------------
(* Every daemon of a handoff implements ReportLoop.                        *)

Phase(p) ==
  IF pc[p] # "sampling" THEN "off"
  ELSE IF stage[p] = "stopping" THEN "stopped"
  ELSE stage[p]

Misses(p) ==
  IF pc[p] = "sampling" /\ stage[p] # "stopping" THEN failures[p] ELSE 0

Loop(p) == INSTANCE ReportLoop WITH phase <- Phase(p), misses <- Misses(p)

(* A step that leaves the process where it is.                             *)
LEMMA LoopRests ==
  ASSUME NEW p \in Process, pc'[p] = pc[p], stage'[p] = stage[p],
         failures'[p] = failures[p]
  PROVE  [Loop(p)!Next]_<<Loop(p)!loop, Loop(p)!server>>
BY DEF Phase, Misses, Loop!Next, Loop!Server, Loop!loop

(* The process's own way through the loop.                                 *)
LEMMA LoopTurns ==
  ASSUME NEW p \in Process, HandoffTypes,
         Check(p) \/ NoSample(p) \/ ListFails(p) \/ Report(p)
  PROVE  Loop(p)!Next
<1>1. /\ stage \in [Process -> {"check", "call", "stopping"}]
      /\ failures \in [Process -> Nat] /\ failures[p] \in Nat
      /\ MaxFailures \in Nat
  BY HandoffAssumption DEF HandoffTypes, HandoffTypeOK
<1>2. UNCHANGED pc
  BY DEF Check, NoSample, ListFails, Report, vars
<1> USE DEF Phase, Misses, Loop!Next, Loop!server
<1>3. CASE Check(p)
  BY <1>1, <1>2, <1>3 DEF Check, At, serverVars, Loop!Check
<1>4. CASE NoSample(p)
  BY <1>1, <1>2, <1>4 DEF NoSample, At, serverVars, Loop!NoSample
<1>5. CASE ListFails(p)
  <2>1. /\ pc[p] = "sampling" /\ stage[p] = "call" /\ UNCHANGED <<serving, socket>>
        /\ failures'[p] = failures[p] + 1
        /\ stage'[p] = IF failures[p] + 1 >= MaxFailures
                       THEN "stopping" ELSE "check"
    BY <1>1, <1>5 DEF ListFails, At, serverVars
  <2>2. QED
    BY <1>1, <1>2, <2>1 DEF Loop!Missed
<1>6. CASE Report(p)
  BY <1>1, <1>2, <1>6 DEF Report, At, serverVars, Loop!Listed
<1>7. QED
  BY <1>3, <1>4, <1>5, <1>6

LEMMA LoopStep ==
  ASSUME NEW p \in Process, HandoffTypes, [HandoffNext]_handoffVars
  PROVE  [Loop(p)!Next]_<<Loop(p)!loop, Loop(p)!server>>
<1>1. /\ TypeOK
      /\ stage \in [Process -> {"check", "call", "stopping"}]
      /\ failures \in [Process -> 0 .. MaxFailures]
      /\ pc[p] # "sampling" => stage[p] = "check" /\ failures[p] = 0
  BY DEF HandoffTypes, HandoffTypeOK
<1>2. ASSUME NEW q \in Process, Hook(q) \/ ByHand(q)
      PROVE  [Loop(p)!Next]_<<Loop(p)!loop, Loop(p)!server>>
  <2>1. /\ pc[q] = "gone" /\ pc' = [pc EXCEPT ![q] = "opening"]
        /\ UNCHANGED <<stage, failures, serving, socket>>
    BY <1>2 DEF Hook, ByHand, NewDaemon, Launch, Goto, loopVars
  <2>2. QED
    BY <1>1, <2>1 DEF Phase, Misses, TypeOK, Loop!loop, Loop!server
<1>3. ASSUME NEW q \in Process, Acquire(q)
      PROVE  [Loop(p)!Next]_<<Loop(p)!loop, Loop(p)!server>>
  <2>1. /\ pc[q] # "sampling" /\ UNCHANGED <<stage, failures, serving, socket>>
        /\ \E s \in {"locking", "refused", "truncating", "writing", "sampling"} :
             pc' = [pc EXCEPT ![q] = s]
    BY <1>3 DEF Acquire, Open, TryLock, TurnedAway, AcquireFails, Truncate,
                WritePid, Goto, loopVars, serverVars
  <2>2. QED
    BY <1>1, <2>1
    DEF Phase, Misses, TypeOK, Loop!Begin, Loop!Next, Loop!loop, Loop!server
<1>4. ASSUME NEW q \in Process,
             Check(q) \/ NoSample(q) \/ ListFails(q) \/ Report(q)
      PROVE  [Loop(p)!Next]_<<Loop(p)!loop, Loop(p)!server>>
  <2>1. CASE q = p
    BY <1>4, <2>1, LoopTurns
  <2>2. CASE q # p
    <3>1. pc'[p] = pc[p] /\ stage'[p] = stage[p] /\ failures'[p] = failures[p]
      BY <1>1, <1>4, <2>2 DEF Check, NoSample, ListFails, Report, vars
    <3>2. QED
      BY <3>1, LoopRests
  <2>3. QED
    BY <2>1, <2>2
<1>5. ASSUME NEW q \in Process, Exit(q) \/ Kill(q)
      PROVE  [Loop(p)!Next]_<<Loop(p)!loop, Loop(p)!server>>
  <2>1. /\ pc' = [pc EXCEPT ![q] = "gone"] /\ UNCHANGED <<serving, socket>>
        /\ stage' = [stage EXCEPT ![q] = "check"]
        /\ failures' = [failures EXCEPT ![q] = 0]
    BY <1>5 DEF Exit, Kill, End, Forget, serverVars
  <2>2. CASE q = p /\ pc[p] = "sampling"
    BY <1>1, <2>1, <2>2
    DEF Phase, Misses, TypeOK, Loop!Leave, Loop!Next, Loop!server
  <2>3. CASE ~(q = p /\ pc[p] = "sampling")
    BY <1>1, <2>1, <2>3 DEF Phase, Misses, TypeOK, Loop!loop, Loop!server
  <2>4. QED
    BY <2>2, <2>3
<1>6. CASE \/ ServerDown \/ ServerUp \/ LiveHandoff \/ UNCHANGED handoffVars
           \/ \E f \in Path : Cleanup(f)
  <2>1. UNCHANGED <<pc, stage, failures>>
    BY <1>6 DEF ServerDown, ServerUp, LiveHandoff, Cleanup, RemoveFile,
                handoffVars, vars, loopVars
  <2>2. QED
    BY <2>1, LoopRests
<1>7. QED
  BY <1>2, <1>3, <1>4, <1>5, <1>6 DEF HandoffNext, Daemon

(***************************************************************************)
(* Each process of a handoff has the loop that Daemon has: both implement  *)
(* ReportLoop, so what Handoff leaves out of a tick takes nothing from its *)
(* way to the end (mod.rs:391-441, 582-611).                               *)
(***************************************************************************)
THEOREM EveryProcessIsReportLoop ==
  ASSUME NEW p \in Process
  PROVE  HandoffSpec => Loop(p)!Spec
<1>1. HandoffInit => Loop(p)!Init
  BY DEF HandoffInit, Init, Loop!Init, Phase, Misses
<1>2. HandoffTypes /\ [HandoffNext]_handoffVars
        => [Loop(p)!Next]_<<Loop(p)!loop, Loop(p)!server>>
  BY LoopStep
<1>3. QED
  BY <1>1, <1>2, TypesInitially, TypesStep, PTL DEF HandoffSpec, Loop!Spec
=============================================================================
