---------------------------- MODULE SingletonLock ----------------------------
(***************************************************************************)
(* The single-instance lock: src/src/daemon/lock.rs and the beginning of   *)
(* `run` in src/src/daemon/mod.rs.  herdr re-runs the startup hook on a    *)
(* handoff and anyone may start a daemon by hand, so several processes may *)
(* go through `acquire` at the same time.                                  *)
(*                                                                         *)
(* The kernel ties a lock to an open file, not to a path: a path can come  *)
(* to name another file while the first one is still locked.               *)
(***************************************************************************)
EXTENDS Integers, FiniteSets

CONSTANTS
  Process,        (* The daemon processes; one that ended may be reused.   *)
  Path,           (* The lock paths `lock_path` may return: the plugin's   *)
                  (* state directory, the temporary directory.             *)
  NoProcess,
  AdvisoryLocks,  (* FALSE where try_lock is a stub (lock.rs:161-164).     *)
  MaxFiles,       (* Bound on the files ever created.                      *)
  MaxFaults       (* Bound on failing system calls and removed files.      *)

ASSUME LockAssumption ==
  /\ NoProcess \notin Process
  /\ AdvisoryLocks \in BOOLEAN
  /\ MaxFiles \in Nat
  /\ MaxFaults \in Nat

VARIABLES
  pc,       (* Where a process is.                                         *)
  path,     (* The lock path its environment gives it.                     *)
  handle,   (* The file it has open, 0 for none.                           *)
  file,     (* The file a path names, 0 for none.                          *)
  owner,    (* The process that holds the kernel lock of a file.           *)
  pid,      (* The process whose pid the file holds.                       *)
  files,    (* How many files were created.                                *)
  faults,   (* How much of MaxFaults is spent.                             *)
  written,  (* Observer: the process got its pid into the file.            *)
  removed   (* Observer: the paths whose file somebody removed.            *)

vars == <<pc, path, handle, file, owner, pid, files, faults, written, removed>>

File == 1 .. MaxFiles

TypeOK ==
  /\ pc \in [Process -> {"gone", "opening", "locking", "truncating", "writing",
                         "sampling", "refused"}]
  /\ path \in [Process -> Path]
  /\ handle \in [Process -> 0 .. MaxFiles]
  /\ file \in [Path -> 0 .. MaxFiles]
  /\ owner \in [File -> Process \cup {NoProcess}]
  /\ pid \in [File -> Process \cup {NoProcess}]
  /\ files \in 0 .. MaxFiles
  /\ faults \in 0 .. MaxFaults
  /\ written \in [Process -> BOOLEAN]
  /\ removed \in SUBSET Path

Init ==
  /\ pc = [p \in Process |-> "gone"]
  /\ path \in [Process -> Path]
  /\ handle = [p \in Process |-> 0]
  /\ file = [f \in Path |-> 0]
  /\ owner = [i \in File |-> NoProcess]
  /\ pid = [i \in File |-> NoProcess]
  /\ files = 0
  /\ faults = 0
  /\ written = [p \in Process |-> FALSE]
  /\ removed = {}

Goto(p, from, to) ==
  /\ pc[p] = from
  /\ pc' = [pc EXCEPT ![p] = to]

Spend == faults < MaxFaults /\ faults' = faults + 1

(* The daemon process starts with the environment of whoever starts it.    *)
Launch(p) ==
  /\ Goto(p, "gone", "opening")
  /\ path' \in {[path EXCEPT ![p] = f] : f \in Path}
  /\ UNCHANGED <<handle, file, owner, pid, files, faults, written, removed>>

(* Seeded fault: opening the file truncates it.                            *)
OpenTruncates(p) ==
  /\ Goto(p, "opening", "locking")
  /\ IF file[path[p]] # 0
     THEN /\ handle' = [handle EXCEPT ![p] = file[path[p]]]
          /\ pid' = [pid EXCEPT ![file[path[p]]] = NoProcess]
          /\ UNCHANGED <<file, files>>
     ELSE /\ files < MaxFiles
          /\ files' = files + 1
          /\ file' = [file EXCEPT ![path[p]] = files + 1]
          /\ handle' = [handle EXCEPT ![p] = files + 1]
          /\ UNCHANGED pid
  /\ UNCHANGED <<path, owner, faults, written, removed>>

(* create_dir_all and open: the file is created when it is not there, and  *)
(* never truncated.                                                        *)
Open(p) ==
  /\ Goto(p, "opening", "locking")
  /\ IF file[path[p]] # 0
     THEN handle' = [handle EXCEPT ![p] = file[path[p]]] /\ UNCHANGED <<file, files>>
     ELSE /\ files < MaxFiles
          /\ files' = files + 1
          /\ file' = [file EXCEPT ![path[p]] = files + 1]
          /\ handle' = [handle EXCEPT ![p] = files + 1]
  /\ UNCHANGED <<path, owner, pid, faults, written, removed>>

(* Seeded fault: whoever asks gets the lock.                               *)
TryLockTakes(p) ==
  /\ Goto(p, "locking", "truncating")
  /\ owner' = [owner EXCEPT ![handle[p]] = p]
  /\ UNCHANGED <<path, handle, file, pid, files, faults, written, removed>>

(* try_lock gets the lock, or there is no such thing as a lock.            *)
TryLock(p) ==
  /\ Goto(p, "locking", "truncating")
  /\ AdvisoryLocks => owner[handle[p]] = NoProcess
  /\ owner' = [owner EXCEPT ![handle[p]] = p]
  /\ UNCHANGED <<path, handle, file, pid, files, faults, written, removed>>

(* try_lock finds the lock taken and the daemon gives up; closing the file *)
(* it opened changes nothing for the holder.                               *)
TurnedAway(p) ==
  /\ Goto(p, "locking", "refused")
  /\ AdvisoryLocks /\ owner[handle[p]] # NoProcess
  /\ handle' = [handle EXCEPT ![p] = 0]
  /\ UNCHANGED <<path, file, owner, pid, files, faults, written, removed>>

(* Any other failure of `acquire`: "starting anyway", without a lock.      *)
AcquireFails(p) ==
  /\ Goto(p, "opening", "sampling") \/ Goto(p, "locking", "sampling")
  /\ Spend
  /\ handle' = [handle EXCEPT ![p] = 0]
  /\ UNCHANGED <<path, file, owner, pid, files, written, removed>>

(* set_len(0); its failure is ignored.                                     *)
Truncate(p) ==
  /\ Goto(p, "truncating", "writing")
  /\ \/ pid' = [pid EXCEPT ![handle[p]] = NoProcess] /\ UNCHANGED faults
     \/ Spend /\ UNCHANGED pid
  /\ UNCHANGED <<path, handle, file, owner, files, written, removed>>

(* Seeded fault: `let _ =` for `let _lock =` in `run` (mod.rs:594), which  *)
(* closes the file as soon as `acquire` is through.                        *)
WritePidDropsLock(p) ==
  /\ Goto(p, "writing", "sampling")
  /\ \/ /\ pid' = [pid EXCEPT ![handle[p]] = p]
        /\ written' = [written EXCEPT ![p] = TRUE]
        /\ UNCHANGED faults
     \/ Spend /\ UNCHANGED <<pid, written>>
  /\ owner' = [owner EXCEPT ![handle[p]] = NoProcess]
  /\ handle' = [handle EXCEPT ![p] = 0]
  /\ UNCHANGED <<path, file, files, removed>>

(* Writing the pid; its failure is ignored too.                            *)
WritePid(p) ==
  /\ Goto(p, "writing", "sampling")
  /\ \/ /\ pid' = [pid EXCEPT ![handle[p]] = p]
        /\ written' = [written EXCEPT ![p] = TRUE]
        /\ UNCHANGED faults
     \/ Spend /\ UNCHANGED <<pid, written>>
  /\ UNCHANGED <<path, handle, file, owner, files, removed>>

(* Seeded fault: the lock outlives its process.                            *)
EndKeepsLock(p) ==
  /\ pc[p] # "gone"
  /\ pc' = [pc EXCEPT ![p] = "gone"]
  /\ handle' = [handle EXCEPT ![p] = 0]
  /\ written' = [written EXCEPT ![p] = FALSE]
  /\ UNCHANGED <<path, file, owner, pid, files, faults, removed>>

(* The process returns from `run` or is killed, wherever it is.  The       *)
(* kernel closes its file and with it releases the lock; the pid stays.    *)
End(p) ==
  /\ pc[p] # "gone"
  /\ pc' = [pc EXCEPT ![p] = "gone"]
  /\ owner' = [i \in File |-> IF owner[i] = p THEN NoProcess ELSE owner[i]]
  /\ handle' = [handle EXCEPT ![p] = 0]
  /\ written' = [written EXCEPT ![p] = FALSE]
  /\ UNCHANGED <<path, file, pid, files, faults, removed>>

(* Somebody cleans the directory the lock file is in.                      *)
RemoveFile(f) ==
  /\ file[f] # 0
  /\ Spend
  /\ file' = [file EXCEPT ![f] = 0]
  /\ removed' = removed \cup {f}
  /\ UNCHANGED <<pc, path, handle, owner, pid, files, written>>

Next ==
  \/ \E p \in Process : \/ Launch(p) \/ Open(p) \/ TryLock(p) \/ TurnedAway(p)
                        \/ AcquireFails(p) \/ Truncate(p) \/ WritePid(p) \/ End(p)
  \/ \E f \in Path : RemoveFile(f)

Spec == Init /\ [][Next]_vars

-----------------------------------------------------------------------------
(* Properties.                                                             *)

(* The process came through `acquire` with a lock.                         *)
Holds(p) == pc[p] \in {"truncating", "writing", "sampling"} /\ handle[p] # 0

(***************************************************************************)
(* Two daemons that both hold a lock taken at the same path are one, as    *)
(* long as nobody removed the file from under it (lock.rs:1-13, 56-82).    *)
(***************************************************************************)
OneDaemonPerPath ==
  AdvisoryLocks =>
    \A p, q \in Process :
      Holds(p) /\ Holds(q) /\ path[p] = path[q] /\ path[p] \notin removed => p = q

(***************************************************************************)
(* Who got the lock has it for as long as the process lives: it is of the  *)
(* file this process has open, and neither those who are turned away, nor  *)
(* those who end, nor whoever removes the file takes it (mod.rs:594-595,   *)
(* lock.rs:40-42).  Without it OneDaemonPerPath would be about nobody.     *)
(***************************************************************************)
LockLasts ==
  AdvisoryLocks =>
    \A p \in Process :
      pc[p] \in {"truncating", "writing"} \/ written[p] =>
        handle[p] # 0 /\ owner[handle[p]] = p

(***************************************************************************)
(* The lock file of a sampling daemon holds that daemon's pid, if it could *)
(* be written: neither a daemon that is turned away nor the one that ran   *)
(* before spoils it (lock.rs:63-75, README.md:549-550).                    *)
(***************************************************************************)
PidNamesTheHolder ==
  AdvisoryLocks =>
    \A p \in Process :
      pc[p] = "sampling" /\ written[p] => pid[handle[p]] = p

(***************************************************************************)
(* A daemon is only turned away by one that is alive: a crash leaves       *)
(* nothing to clean up (lock.rs:9-13).                                     *)
(***************************************************************************)
RefusedByTheLiving ==
  [][\A p \in Process :
       pc[p] # "refused" /\ pc'[p] = "refused" =>
         \E q \in Process \ {p} : Holds(q) /\ handle[q] = handle[p]]_vars
=============================================================================
