------------------------------- MODULE Handoff -------------------------------
(***************************************************************************)
(* The daemons of a machine, from one herdr server to the next: the lock   *)
(* of module SingletonLock, the loop of `run` in src/src/daemon/mod.rs     *)
(* reduced to what ends it, and a server that stops, starts again and      *)
(* hands over to another at the same socket path.                          *)
(*                                                                         *)
(* Every server that starts runs the startup hook (herdr-plugin.toml).  On *)
(* a handoff the daemon of the old server still runs and holds the lock:   *)
(* the new one gives up, and from then on the sidebar depends on the old   *)
(* one not giving up as well.                                              *)
(***************************************************************************)
EXTENDS SingletonLock

CONSTANTS
  HookPath,     (* The lock path of the plugin's state directory.          *)
  MaxFailures,  (* options.max_failures.                                   *)
  UnixSocket,   (* TRUE where herdr_socket_is_gone can tell (Unix).        *)
  MaxStarts,    (* Bound on the processes started.                         *)
  MaxSlips      (* Bound on the ticks that fail under a server that serves.*)

ASSUME HandoffAssumption ==
  /\ HookPath \in Path
  /\ MaxFailures \in Nat \ {0}
  /\ UnixSocket \in BOOLEAN
  /\ MaxStarts \in Nat
  /\ MaxSlips \in Nat

VARIABLES
  stage,     (* Where in a tick a sampling process is.                     *)
  primed,    (* The processes whose sampler has a snapshot to go by.       *)
  failures,  (* Daemon.failures of a process.                              *)
  serving,   (* A server answers.                                          *)
  socket,    (* Its socket file exists.                                    *)
  pending,   (* A server has started and not run its hook yet.             *)
  starts,    (* How much of MaxStarts is spent.                            *)
  slips,     (* How much of MaxSlips is spent.                             *)
  hooked,    (* Observer: the processes the hook started.                  *)
  missed,    (* Observer: list calls of a process failed in a row.         *)
  excused    (* Observer: nobody has to report, until the next hook.       *)

loopVars   == <<stage, primed, failures, missed>>
serverVars == <<serving, socket, pending>>
bounds     == <<starts, slips>>
handoffVars == <<vars, loopVars, serverVars, bounds, hooked, excused>>

HandoffTypeOK ==
  /\ TypeOK
  /\ stage \in [Process -> {"check", "call", "stopping"}]
  /\ primed \in SUBSET Process
  /\ failures \in [Process -> 0 .. MaxFailures]
  /\ serving \in BOOLEAN
  /\ socket \in BOOLEAN
  /\ pending \in BOOLEAN
  /\ starts \in 0 .. MaxStarts
  /\ slips \in 0 .. MaxSlips
  /\ hooked \in SUBSET Process
  /\ missed \in [Process -> Nat]
  /\ excused \in BOOLEAN

HandoffInit ==
  /\ Init
  /\ stage = [p \in Process |-> "check"]
  /\ primed = {}
  /\ failures = [p \in Process |-> 0]
  /\ serving = TRUE
  /\ socket = TRUE
  /\ pending = TRUE
  /\ starts = 0
  /\ slips = 0
  /\ hooked = {}
  /\ missed = [p \in Process |-> 0]
  /\ excused = TRUE

-----------------------------------------------------------------------------
(* Starting.                                                               *)

(* The process has seen a reason to stop and still holds its lock.         *)
Stopping(p) == pc[p] = "sampling" /\ stage[p] = "stopping"

NewDaemon(p) ==
  /\ starts < MaxStarts
  /\ starts' = starts + 1
  /\ Launch(p)
  /\ UNCHANGED <<loopVars, serving, socket, slips>>

(* The startup hook.  From here on somebody has to report, unless the one  *)
(* who holds the lock is about to go, or has reason to.                    *)
Hook(p) ==
  /\ pending
  /\ pending' = FALSE
  /\ NewDaemon(p)
  /\ path'[p] = HookPath
  /\ hooked' = hooked \cup {p}
  /\ excused' = (\/ UnixSocket /\ ~socket
                 \/ \E q \in Process : Stopping(q))

(* Somebody starts one by hand, with the environment of a plugin or not.   *)
ByHand(p) ==
  /\ NewDaemon(p)
  /\ hooked' = hooked \ {p}
  /\ UNCHANGED <<pending, excused>>

(* The steps of `acquire`.                                                 *)
Acquire(p) ==
  /\ \/ Open(p) \/ TryLock(p) \/ TurnedAway(p)
     \/ AcquireFails(p) \/ Truncate(p) \/ WritePid(p)
  /\ UNCHANGED <<loopVars, serverVars, bounds, hooked, excused>>

-----------------------------------------------------------------------------
(* The loop of `run`.                                                      *)

Slip == slips < MaxSlips /\ slips' = slips + 1

At(p, s) == pc[p] = "sampling" /\ stage[p] = s

(* The socket check of a tick.                                             *)
Check(p) ==
  /\ At(p, "check")
  /\ stage' = [stage EXCEPT ![p] =
                 IF UnixSocket /\ ~socket THEN "stopping" ELSE "call"]
  /\ UNCHANGED <<vars, primed, failures, missed, serverVars, bounds, hooked,
                 excused>>

(* A tick that is over before it lists: the first snapshot of a process is *)
(* no sample yet, and any sampling may fail.                               *)
NoSample(p) ==
  /\ At(p, "call")
  /\ \/ p \notin primed /\ primed' = primed \cup {p} /\ UNCHANGED slips
     \/ Slip /\ UNCHANGED primed
  /\ stage' = [stage EXCEPT ![p] = "check"]
  /\ UNCHANGED <<vars, failures, missed, serverVars, starts, hooked, excused>>

(* Seeded faults: one failure too many is let pass; one is enough.         *)
ListFailsOnceMore(p) ==
  /\ At(p, "call") /\ p \in primed
  /\ IF serving THEN Slip ELSE UNCHANGED slips
  /\ failures' = [failures EXCEPT ![p] = @ + 1]
  /\ missed' = [missed EXCEPT ![p] = @ + 1]
  /\ excused' = (excused \/ missed'[p] >= MaxFailures)
  /\ stage' = [stage EXCEPT ![p] =
                 IF failures'[p] > MaxFailures THEN "stopping" ELSE "check"]
  /\ UNCHANGED <<vars, primed, serverVars, starts, hooked>>
ListFailsOnce(p) ==
  /\ At(p, "call") /\ p \in primed
  /\ IF serving THEN Slip ELSE UNCHANGED slips
  /\ failures' = [failures EXCEPT ![p] = @ + 1]
  /\ missed' = [missed EXCEPT ![p] = @ + 1]
  /\ excused' = (excused \/ missed'[p] >= MaxFailures)
  /\ stage' = [stage EXCEPT ![p] = "stopping"]
  /\ UNCHANGED <<vars, primed, serverVars, starts, hooked>>

(* `workspace list` fails: the server does not answer, or this call fails. *)
ListFails(p) ==
  /\ At(p, "call") /\ p \in primed
  /\ IF serving THEN Slip ELSE UNCHANGED slips
  /\ failures' = [failures EXCEPT ![p] = @ + 1]
  /\ missed' = [missed EXCEPT ![p] = @ + 1]
  /\ excused' = (excused \/ missed'[p] >= MaxFailures)
  /\ stage' = [stage EXCEPT ![p] =
                 IF failures'[p] >= MaxFailures THEN "stopping" ELSE "check"]
  /\ UNCHANGED <<vars, primed, serverVars, starts, hooked>>

(* The list comes, the reports go out.                                     *)
Report(p) ==
  /\ At(p, "call") /\ p \in primed
  /\ serving
  /\ failures' = [failures EXCEPT ![p] = 0]
  /\ missed' = [missed EXCEPT ![p] = 0]
  /\ stage' = [stage EXCEPT ![p] = "check"]
  /\ UNCHANGED <<vars, primed, serverVars, bounds, hooked, excused>>

(* What the process knew goes with it: the next starts with Daemon::new.   *)
Forget(p) ==
  /\ stage' = [stage EXCEPT ![p] = "check"]
  /\ primed' = primed \ {p}
  /\ failures' = [failures EXCEPT ![p] = 0]
  /\ missed' = [missed EXCEPT ![p] = 0]

(* `run` returns, and the process with it.                                 *)
Exit(p) ==
  /\ pc[p] = "refused" \/ Stopping(p)
  /\ End(p)
  /\ Forget(p)
  /\ UNCHANGED <<serverVars, bounds, hooked, excused>>

(* It is killed before.  Nobody starts another until a server does.        *)
Kill(p) ==
  /\ ~(pc[p] = "refused" \/ Stopping(p))
  /\ End(p)
  /\ Forget(p)
  /\ excused' = TRUE
  /\ UNCHANGED <<serverVars, bounds, hooked>>

-----------------------------------------------------------------------------
(* The servers and the lock files.                                         *)

(* The server stops or hangs, or hands over with a pause.                  *)
ServerDown ==
  /\ serving
  /\ serving' = FALSE
  /\ socket' \in BOOLEAN
  /\ excused' = (excused \/ (UnixSocket /\ ~socket'))
  /\ UNCHANGED <<vars, loopVars, pending, bounds, hooked>>

ServerUp ==
  /\ ~serving
  /\ serving' = TRUE
  /\ socket' = TRUE
  /\ pending' \in {pending, TRUE}
  /\ UNCHANGED <<vars, loopVars, bounds, hooked, excused>>

(* A server hands over to another while it serves.                         *)
LiveHandoff ==
  /\ serving
  /\ ~pending
  /\ pending' = TRUE
  /\ UNCHANGED <<vars, loopVars, serving, socket, bounds, hooked, excused>>

Cleanup(f) ==
  /\ RemoveFile(f)
  /\ UNCHANGED <<loopVars, serverVars, bounds, hooked, excused>>

Daemon(p) ==
  \/ Acquire(p)
  \/ Check(p) \/ NoSample(p) \/ ListFails(p) \/ Report(p)
  \/ Exit(p)

HandoffNext ==
  \/ \E p \in Process : Hook(p) \/ ByHand(p) \/ Daemon(p) \/ Kill(p)
  \/ ServerDown \/ ServerUp \/ LiveHandoff
  \/ \E f \in Path : Cleanup(f)

HandoffSpec == HandoffInit /\ [][HandoffNext]_handoffVars

(* A process that runs goes on running: nothing in `run` blocks for good.  *)
FairHandoffSpec ==
  HandoffSpec /\ \A p \in Process : WF_handoffVars(Daemon(p))

-----------------------------------------------------------------------------
(* Properties.                                                             *)

(* A process that samples, or is on its way to.                            *)
Live(p) ==
  pc[p] \in {"opening", "locking", "truncating", "writing", "sampling"} /\ ~Stopping(p)

(***************************************************************************)
(* From every run of the startup hook on there is a daemon that will       *)
(* report, the new one or the one that turned it away, until one of them   *)
(* is killed, the socket goes away or a daemon misses max_failures lists   *)
(* in a row (mod.rs:582-611, lock.rs:9-13).                                *)
(***************************************************************************)
SomebodyStays == ~excused => \E p \in Process : Live(p)

(***************************************************************************)
(* However often servers hand over, the daemons their hooks start never    *)
(* report side by side, as long as they could take the lock and nobody     *)
(* removed its file (README.md:552, lock.rs:3-6).                          *)
(***************************************************************************)
HooksNeverDouble ==
  AdvisoryLocks /\ HookPath \notin removed =>
    \A p, q \in hooked :
      At(p, "call") /\ At(q, "call") /\ handle[p] # 0 /\ handle[q] # 0 => p = q

(***************************************************************************)
(* In the end a server that serves is reported to again and again, by      *)
(* whichever daemon is left (README.md:533-536, mod.rs:617-641).           *)
(***************************************************************************)
ReportsKeepComing ==
  <>[](serving /\ ~excused)
    => []<><<\E p \in Process : Report(p)>>_handoffVars
=============================================================================
