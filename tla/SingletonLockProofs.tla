------------------------- MODULE SingletonLockProofs -------------------------
(***************************************************************************)
(* The singleton lock keeps its promises for any number of processes,      *)
(* paths, files and faults.                                                *)
(*                                                                         *)
(* The invariant ties the three things a lock is made of together: a       *)
(* process that came through `acquire` owns the very file it has open      *)
(* (Owned), a file is owned by nobody else (Kept), and while nobody        *)
(* removes it the path still names that file (InPlace).                    *)
(***************************************************************************)
EXTENDS SingletonLock, TLAPS

(* A process has a file open exactly while it needs one.                   *)
Handles ==
  \A p \in Process :
    /\ pc[p] \in {"locking", "truncating", "writing"} => handle[p] # 0
    /\ pc[p] \in {"gone", "opening", "refused"} => handle[p] = 0
    /\ written[p] => pc[p] = "sampling" /\ handle[p] # 0

Owned ==
  AdvisoryLocks => \A p \in Process : Holds(p) => owner[handle[p]] = p

Kept ==
  AdvisoryLocks =>
    \A i \in File :
      owner[i] # NoProcess => Holds(owner[i]) /\ handle[owner[i]] = i

InPlace ==
  \A p \in Process :
    handle[p] # 0 /\ path[p] \notin removed => file[path[p]] = handle[p]

Pids == 
  AdvisoryLocks => \A p \in Process : written[p] => pid[handle[p]] = p

LockInv == TypeOK /\ Handles /\ Owned /\ Kept /\ InPlace /\ Pids

(* An open file is one of the files.                                       *)
LEMMA OpenFile ==
  ASSUME TypeOK, NEW p \in Process, handle[p] # 0
  PROVE  handle[p] \in File
  BY LockAssumption DEF TypeOK, File

(* The lock starts free.                                                   *)
LEMMA InitLock == Init => LockInv
  BY LockAssumption
     DEF Init, LockInv, TypeOK, Handles, Owned, Kept, InPlace, Pids, Holds, File

(* Every step keeps the types.                                             *)
LEMMA NextTypes == TypeOK /\ Handles /\ [Next]_vars => TypeOK'
<1> SUFFICES ASSUME TypeOK, Handles, [Next]_vars PROVE TypeOK'
  OBVIOUS
<1> USE LockAssumption DEF TypeOK, File, Goto, Spend
<1>1. ASSUME NEW p \in Process, Launch(p) PROVE TypeOK'
  BY <1>1 DEF Launch
<1>2. ASSUME NEW p \in Process, Open(p) PROVE TypeOK'
  <2>1. file[path[p]] \in 0 .. MaxFiles /\ files + 1 \in Nat
    OBVIOUS
  <2>2. CASE file[path[p]] # 0
    BY <1>2, <2>1, <2>2 DEF Open
  <2>3. CASE file[path[p]] = 0
    <3>1. files + 1 \in 0 .. MaxFiles
      BY <1>2, <2>3 DEF Open
    <3> QED
      BY <1>2, <2>3, <3>1 DEF Open
  <2> QED
    BY <2>2, <2>3
<1>3. ASSUME NEW p \in Process, TryLock(p) PROVE TypeOK'
  BY <1>3 DEF TryLock
<1>4. ASSUME NEW p \in Process, TurnedAway(p) PROVE TypeOK'
  BY <1>4 DEF TurnedAway
<1>5. ASSUME NEW p \in Process, AcquireFails(p) PROVE TypeOK'
  BY <1>5 DEF AcquireFails
<1>6. ASSUME NEW p \in Process, Truncate(p) PROVE TypeOK'
  <2>1. handle[p] \in File
    BY <1>6 DEF Truncate, Handles
  <2>2. pid' \in [File -> Process \cup {NoProcess}]
    BY <1>6, <2>1 DEF Truncate
  <2>3. faults' \in 0 .. MaxFaults
    BY <1>6 DEF Truncate
  <2> QED
    BY <1>6, <2>2, <2>3 DEF Truncate
<1>7. ASSUME NEW p \in Process, WritePid(p) PROVE TypeOK'
  <2>1. handle[p] \in File
    BY <1>7 DEF WritePid, Handles
  <2>2. pid' \in [File -> Process \cup {NoProcess}]
    BY <1>7, <2>1 DEF WritePid
  <2>3. faults' \in 0 .. MaxFaults
    BY <1>7 DEF WritePid
  <2>4. written' \in [Process -> BOOLEAN]
    BY <1>7 DEF WritePid
  <2> QED
    BY <1>7, <2>2, <2>3, <2>4 DEF WritePid
<1>8. ASSUME NEW p \in Process, End(p) PROVE TypeOK'
  BY <1>8 DEF End
<1>9. ASSUME NEW f \in Path, RemoveFile(f) PROVE TypeOK'
  BY <1>9 DEF RemoveFile
<1>10. CASE UNCHANGED vars
  BY <1>10 DEF vars
<1> QED
  BY <1>1, <1>2, <1>3, <1>4, <1>5, <1>6, <1>7, <1>8, <1>9, <1>10 DEF Next

(* Every step keeps the file handles as they should be.                    *)
LEMMA NextHandles == TypeOK /\ Handles /\ [Next]_vars => Handles'
<1> SUFFICES ASSUME TypeOK, Handles, [Next]_vars PROVE Handles'
  OBVIOUS
<1> USE LockAssumption DEF TypeOK, Handles, Goto
<1>1. ASSUME NEW p \in Process, Launch(p) PROVE Handles'
  BY <1>1 DEF Launch
<1>2. ASSUME NEW p \in Process, Open(p) PROVE Handles'
  BY <1>2 DEF Open
<1>3. ASSUME NEW p \in Process, TryLock(p) PROVE Handles'
  BY <1>3 DEF TryLock
<1>4. ASSUME NEW p \in Process, TurnedAway(p) PROVE Handles'
  BY <1>4 DEF TurnedAway
<1>5. ASSUME NEW p \in Process, AcquireFails(p) PROVE Handles'
  BY <1>5 DEF AcquireFails
<1>6. ASSUME NEW p \in Process, Truncate(p) PROVE Handles'
  BY <1>6 DEF Truncate
<1>7. ASSUME NEW p \in Process, WritePid(p) PROVE Handles'
  BY <1>7 DEF WritePid
<1>8. ASSUME NEW p \in Process, End(p) PROVE Handles'
  BY <1>8 DEF End
<1>9. ASSUME NEW f \in Path, RemoveFile(f) PROVE Handles'
  BY <1>9 DEF RemoveFile
<1>10. CASE UNCHANGED vars
  BY <1>10 DEF vars
<1> QED
  BY <1>1, <1>2, <1>3, <1>4, <1>5, <1>6, <1>7, <1>8, <1>9, <1>10 DEF Next

(* Every step keeps a locked file with the process that has it open.       *)
LEMMA NextOwners == LockInv /\ [Next]_vars => Owned' /\ Kept'
<1> SUFFICES ASSUME LockInv, [Next]_vars PROVE Owned' /\ Kept'
  OBVIOUS
<1> USE LockAssumption DEF LockInv, TypeOK, Handles, Owned, Kept, Holds, File, Goto
<1>1. ASSUME NEW p \in Process, Launch(p) PROVE Owned' /\ Kept'
  BY <1>1 DEF Launch
<1>2. ASSUME NEW p \in Process, Open(p) PROVE Owned' /\ Kept'
  BY <1>2 DEF Open
<1>3. ASSUME NEW p \in Process, TryLock(p) PROVE Owned' /\ Kept'
  BY <1>3 DEF TryLock
<1>4. ASSUME NEW p \in Process, TurnedAway(p) PROVE Owned' /\ Kept'
  BY <1>4 DEF TurnedAway
<1>5. ASSUME NEW p \in Process, AcquireFails(p) PROVE Owned' /\ Kept'
  BY <1>5 DEF AcquireFails
<1>6. ASSUME NEW p \in Process, Truncate(p) PROVE Owned' /\ Kept'
  BY <1>6 DEF Truncate
<1>7. ASSUME NEW p \in Process, WritePid(p) PROVE Owned' /\ Kept'
  BY <1>7 DEF WritePid
<1>8. ASSUME NEW p \in Process, End(p) PROVE Owned' /\ Kept'
  BY <1>8 DEF End
<1>9. ASSUME NEW f \in Path, RemoveFile(f) PROVE Owned' /\ Kept'
  BY <1>9 DEF RemoveFile
<1>10. CASE UNCHANGED vars
  BY <1>10 DEF vars
<1> QED
  BY <1>1, <1>2, <1>3, <1>4, <1>5, <1>6, <1>7, <1>8, <1>9, <1>10 DEF Next

(* Every step keeps the paths and the pids of the files in use.            *)
LEMMA NextFiles == LockInv /\ [Next]_vars => InPlace' /\ Pids'
<1> SUFFICES ASSUME LockInv, [Next]_vars PROVE InPlace' /\ Pids'
  OBVIOUS
<1> USE LockAssumption
    DEF LockInv, TypeOK, Handles, Owned, Holds, InPlace, Pids, File, Goto
<1>1. ASSUME NEW p \in Process, Launch(p) PROVE InPlace' /\ Pids'
  BY <1>1 DEF Launch
<1>2. ASSUME NEW p \in Process, Open(p) PROVE InPlace' /\ Pids'
  <2>1. Pids'
    BY <1>2 DEF Open
  <2>2. ASSUME NEW q \in Process, handle'[q] # 0, path'[q] \notin removed'
        PROVE  file'[path'[q]] = handle'[q]
    <3>1. path' = path /\ removed' = removed /\ path[q] \in Path /\ path[p] \in Path
      BY <1>2 DEF Open
    <3>2. CASE file[path[p]] # 0
      BY <1>2, <2>2, <3>1, <3>2 DEF Open
    <3>3. CASE file[path[p]] = 0
      <4>1. /\ file' = [file EXCEPT ![path[p]] = files + 1]
            /\ handle' = [handle EXCEPT ![p] = files + 1]
        BY <1>2, <3>3 DEF Open
      <4>2. CASE q = p
        BY <3>1, <4>1, <4>2
      <4>3. CASE q # p
        <5>1. handle[q] # 0 /\ file[path[q]] = handle[q]
          BY <2>2, <3>1, <4>1, <4>3
        <5>2. path[q] # path[p]
          BY <3>3, <5>1
        <5> QED
          BY <3>1, <4>1, <4>3, <5>1, <5>2
      <4> QED
        BY <4>2, <4>3
    <3> QED
      BY <3>2, <3>3
  <2> QED
    BY <2>1, <2>2
<1>3. ASSUME NEW p \in Process, TryLock(p) PROVE InPlace' /\ Pids'
  BY <1>3 DEF TryLock
<1>4. ASSUME NEW p \in Process, TurnedAway(p) PROVE InPlace' /\ Pids'
  BY <1>4 DEF TurnedAway
<1>5. ASSUME NEW p \in Process, AcquireFails(p) PROVE InPlace' /\ Pids'
  BY <1>5 DEF AcquireFails
<1>6. ASSUME NEW p \in Process, Truncate(p) PROVE InPlace' /\ Pids'
  BY <1>6 DEF Truncate
<1>7. ASSUME NEW p \in Process, WritePid(p) PROVE InPlace' /\ Pids'
  <2>1. InPlace'
    BY <1>7 DEF WritePid
  <2>2. CASE UNCHANGED <<pid, written>>
    BY <1>7, <2>1, <2>2 DEF WritePid
  <2>3. CASE /\ pid' = [pid EXCEPT ![handle[p]] = p]
             /\ written' = [written EXCEPT ![p] = TRUE]
    <3>1. handle[p] \in File /\ Holds(p) /\ handle' = handle
      BY <1>7 DEF WritePid
    <3>2. ASSUME AdvisoryLocks, NEW q \in Process, written'[q]
          PROVE  pid'[handle'[q]] = q
      <4>1. CASE q = p
        BY <2>3, <3>1, <4>1
      <4>2. CASE q # p
        <5>1. written[q] /\ Holds(q) /\ handle[q] \in File
          BY <2>3, <3>2, <4>2
        <5>2. handle[q] # handle[p]
          BY <3>1, <3>2, <4>2, <5>1
        <5> QED
          BY <2>3, <3>1, <3>2, <5>1, <5>2
      <4> QED
        BY <4>1, <4>2
    <3> QED
      BY <2>1, <3>2
  <2> QED
    BY <1>7, <2>2, <2>3 DEF WritePid
<1>8. ASSUME NEW p \in Process, End(p) PROVE InPlace' /\ Pids'
  BY <1>8 DEF End
<1>9. ASSUME NEW f \in Path, RemoveFile(f) PROVE InPlace' /\ Pids'
  BY <1>9 DEF RemoveFile
<1>10. CASE UNCHANGED vars
  BY <1>10 DEF vars
<1> QED
  BY <1>1, <1>2, <1>3, <1>4, <1>5, <1>6, <1>7, <1>8, <1>9, <1>10 DEF Next

(* The lock's invariant holds throughout.                                  *)
LEMMA LockInvariant == Spec => []LockInv
<1>1. LockInv /\ [Next]_vars => LockInv'
  BY NextTypes, NextHandles, NextOwners, NextFiles DEF LockInv
<1> QED
  BY InitLock, <1>1, PTL DEF Spec

(* The types, with any processes, paths and faults.                        *)
THEOREM LockTypes == Spec => []TypeOK
<1>1. LockInv => TypeOK
  BY DEF LockInv
<1> QED
  BY LockInvariant, <1>1, PTL

(* Two daemons with a lock taken at one path are one daemon (lock.rs:1-13).*)
THEOREM LockExcludes == Spec => []OneDaemonPerPath
<1>1. LockInv => OneDaemonPerPath
  BY DEF LockInv, OneDaemonPerPath, Owned, InPlace, Holds
<1> QED
  BY LockInvariant, <1>1, PTL

(***************************************************************************)
(* A daemon that took the lock has it until it ends, whoever else comes    *)
(* and goes, for any processes, paths and faults (mod.rs:594-597).         *)
(***************************************************************************)
THEOREM LockIsKept == Spec => []LockLasts
<1>1. LockInv => LockLasts
  BY DEF LockInv, Handles, Owned, Holds, LockLasts
<1> QED
  BY LockInvariant, <1>1, PTL

(* The pid in a lock file is the pid of the daemon that holds it           *)
(* (lock.rs:73-76, README.md:549-550).                                     *)
THEOREM PidsAreRight == Spec => []PidNamesTheHolder
<1>1. LockInv => PidNamesTheHolder
  BY DEF LockInv, PidNamesTheHolder, Pids
<1> QED
  BY LockInvariant, <1>1, PTL

(* A daemon is only turned away by a living one (lock.rs:9-13).            *)
THEOREM OnlyTheLivingRefuse == Spec => RefusedByTheLiving
<1> DEFINE Turned ==
      \A p \in Process :
        pc[p] # "refused" /\ pc'[p] = "refused" =>
          \E q \in Process \ {p} : Holds(q) /\ handle[q] = handle[p]
<1>1. ASSUME LockInv, [Next]_vars PROVE [Turned]_vars
  <2> SUFFICES ASSUME Next, NEW p \in Process,
                      pc[p] # "refused", pc'[p] = "refused"
               PROVE  \E q \in Process \ {p} : Holds(q) /\ handle[q] = handle[p]
    BY <1>1
  <2> USE <1>1 DEF LockInv
  <2>1. TurnedAway(p)
    BY LockAssumption
       DEF Next, Launch, Open, TryLock, TurnedAway, AcquireFails, Truncate,
           WritePid, End, RemoveFile, Goto, TypeOK
  <2>2. handle[p] \in File /\ owner[handle[p]] # NoProcess /\ AdvisoryLocks
    BY <2>1, OpenFile DEF TurnedAway, Goto, Handles
  <2>3. owner[handle[p]] \in Process
    BY <2>2 DEF TypeOK
  <2>4. Holds(owner[handle[p]]) /\ handle[owner[handle[p]]] = handle[p]
    BY <2>2 DEF Kept
  <2>5. owner[handle[p]] # p
    BY <2>1, <2>4 DEF Holds, TurnedAway, Goto
  <2> QED
    BY <2>3, <2>4, <2>5
<1> QED
  BY LockInvariant, <1>1, PTL DEF Spec, RefusedByTheLiving
=============================================================================
