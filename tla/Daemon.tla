------------------------------- MODULE Daemon -------------------------------
(***************************************************************************)
(* The reporting daemon, src/src/daemon/mod.rs: `run`, `Daemon::tick` and  *)
(* the functions a tick calls, over the server of module Herdr.            *)
(*                                                                         *)
(* A tick makes one blocking `herdr` call after another, and the world     *)
(* moves between two calls: the list it read may be out of date when the   *)
(* reports go out.  Every call is therefore a step of its own; the code    *)
(* between two calls is part of the step before it.                        *)
(*                                                                         *)
(*   asleep -> awake -> tick -> list -> report -> asleep                   *)
(*                                                                         *)
(* What a sample holds and which tokens are built from it is left to other *)
(* modules; here a report is a "set" or a "clear" of the whole row group.  *)
(***************************************************************************)
EXTENDS Herdr

CONSTANTS
  MaxFailures,  (* options.max_failures.                                   *)
  UnixSocket,   (* TRUE where herdr_socket_is_gone can tell (Unix).        *)
  SteadyClock,  (* TRUE when the wall clock always moves forward.          *)
  MaxClock,     (* Bound on the wall clock.                                *)
  MaxSeq,       (* Bound on the sequence numbers of a run.                 *)
  MaxEvents,    (* Bound on what users do and on the calls that fail.      *)
  MaxRestarts   (* Bound on the times the daemon is started again.         *)

ASSUME DaemonAssumption ==
  /\ MaxFailures \in Nat \ {0}
  /\ UnixSocket \in BOOLEAN
  /\ SteadyClock \in BOOLEAN
  /\ MaxClock \in Nat \ {0}
  /\ MaxSeq \in Nat
  /\ MaxEvents \in Nat
  /\ MaxRestarts \in Nat

VARIABLES
  pc,         (* Where the process is; "stopped" after `run` returned.     *)
  options,    (* Daemon.options: the scope and the source.                 *)
  file,       (* What the configuration file and the flags now resolve to. *)
  primed,     (* The sampler has its baseline.                             *)
  reported,   (* Daemon.reported.                                          *)
  failures,   (* Daemon.failures.                                          *)
  last,       (* SeqGenerator.last; the number of the tick once drawn.     *)
  clock,      (* unix_millis().                                            *)
  workspaces, (* The list this tick read, or NotRead.                      *)
  targets,    (* The targets of the last list that was read.               *)
  toClear,    (* Stale workspaces this tick still has to clear.            *)
  toSet,      (* Targets this tick still has to report to.                 *)
  events,     (* How much of MaxEvents is spent.                           *)
  restarts,   (* How much of MaxRestarts is spent.                         *)
  tainted,    (* Observer: how long rows a fault left behind may last.     *)
  renamed,    (* Observer: how long rows of a former source may last.      *)
  missed,     (* Observer: list calls failed since one succeeded.          *)
  lost,       (* Observer: targets the last list's reports did not reach.  *)
  fresh       (* Observer: how long the rows of those reports last.        *)

tickVars == <<workspaces, targets, toClear, toSet>>
bounds   == <<events, restarts>>
observed == <<tainted, renamed, missed, lost, fresh>>
daemonVars == <<pc, options, primed, reported, failures, last, clock, tickVars>>
vars == <<herdrVars, daemonVars, file, bounds, observed>>

Scope == {"All", "Focused"}
Options == [scope : Scope, source : Source]

(* "No list in this tick yet": not a value a list can have.                *)
NotRead == [read |-> FALSE, open |-> {}, focused |-> NoFocus]
ListNow == [read |-> TRUE, open |-> open, focused |-> focused]

Running == pc \in {"asleep", "awake", "tick", "list", "report"}

TypeOK ==
  /\ HerdrTypeOK
  /\ pc \in {"asleep", "awake", "tick", "list", "report", "crashed", "stopped"}
  /\ options \in Options
  /\ file \in Options
  /\ primed \in BOOLEAN
  /\ reported \in SUBSET Workspace
  /\ failures \in 0 .. MaxFailures
  /\ last \in Nat
  /\ clock \in 0 .. MaxClock
  /\ workspaces \in [read : BOOLEAN, open : SUBSET Workspace,
                     focused : Workspace \cup {NoFocus}]
  /\ targets \in SUBSET Workspace
  /\ toClear \in SUBSET Workspace
  /\ toSet \in SUBSET Workspace
  /\ events \in 0 .. MaxEvents
  /\ restarts \in 0 .. MaxRestarts
  /\ tainted \in 0 .. Ttl
  /\ renamed \in 0 .. Ttl
  /\ missed \in Nat
  /\ lost \in SUBSET Workspace
  /\ fresh \in 0 .. Ttl

-----------------------------------------------------------------------------
(* The functions a tick computes with.                                     *)

(* Seeded faults: each stands in for the definition after it, to see a     *)
(* property of a run fail.                                                 *)
NextSeqCounts == last + 1
NextSeqTrustsClock == clock

(* SeqGenerator::next_seq.                                                 *)
NextSeq == IF clock > last THEN clock ELSE last + 1

(* Seeded faults: the workspace held before the focused one; none without  *)
(* a focus.                                                                *)
TargetChoicesHeldFirst(list) ==
  LET held == reported \cap list.open
  IN  IF options.scope = "All" THEN {list.open}
      ELSE IF held # {} THEN {{w} : w \in held}
      ELSE {{list.focused} \ {NoFocus}}
TargetChoicesBlink(list) ==
  IF options.scope = "All" THEN {list.open} ELSE {{list.focused} \ {NoFocus}}

(* Daemon::targets, as the set of choices it has.  The order in which      *)
(* `reported` is searched is the order herdr listed, hence any order.      *)
TargetChoices(list) ==
  IF options.scope = "All" THEN {list.open}
  ELSE IF list.focused # NoFocus THEN {{list.focused}}
  ELSE LET held == reported \cap list.open
       IN  IF held = {} THEN {{}} ELSE {{w} : w \in held}

(* stale_targets.                                                          *)
StaleTargets(aims, list) == (reported \ aims) \cap list.open

(* The report of this tick for workspace w: report_for or clear_report.    *)
ReportFor(w, kind) ==
  [ws |-> w, source |-> options.source, kind |-> kind, seq |-> last]

(* A while passes: what the observers wait for runs down with the rows.    *)
Pass(k) ==
  /\ AgeRows(k)
  /\ tainted' = Older(tainted, k)
  /\ renamed' = Older(renamed, k)
  /\ fresh' = Older(fresh, k)
  /\ UNCHANGED <<missed, lost>>

(* A step that draws on the bound of faults and user actions.              *)
Spend == events < MaxEvents /\ events' = events + 1

-----------------------------------------------------------------------------
(* `run` and Daemon::new.                                                  *)

Init ==
  /\ HerdrInit
  /\ pc = "awake"
  /\ file \in Options
  /\ options = file
  /\ primed = FALSE
  /\ reported = {}
  /\ failures = 0
  /\ last = 0
  /\ clock = 1
  /\ workspaces = NotRead
  /\ targets = {}
  /\ toClear = {}
  /\ toSet = {}
  /\ events = 0
  /\ restarts = 0
  /\ tainted = 0
  /\ renamed = 0
  /\ missed = 0
  /\ lost = {}
  /\ fresh = 0

(* The wall clock between two ticks, or between two runs.                  *)
ClockMoves ==
  IF SteadyClock THEN clock' \in (clock + 1) .. MaxClock
  ELSE clock' \in 0 .. MaxClock

(* A new process: Daemon::new, with nothing left of the one before it.     *)
Start ==
  /\ pc \in {"crashed", "stopped"}
  /\ restarts < MaxRestarts
  /\ restarts' = restarts + 1
  /\ pc' = "awake"
  /\ options' = file
  /\ primed' = FALSE
  /\ reported' = {}
  /\ failures' = 0
  /\ last' = 0
  /\ ClockMoves
  /\ workspaces' = NotRead
  /\ targets' = {}
  /\ toClear' = {}
  /\ toSet' = {}
  /\ \E k \in 0 .. Ttl : AgeRows(k)
  /\ tainted' = Ttl
  /\ renamed' = 0
  /\ missed' = 0
  /\ lost' = {}
  /\ fresh' = 0
  /\ UNCHANGED <<open, focused, accepted, late, serving, socket, file, events>>

(* The sleep of the loop in `run` ends.                                    *)
Wake ==
  /\ pc = "asleep"
  /\ pc' = "awake"
  /\ ClockMoves
  /\ Pass(1)
  /\ workspaces' = NotRead
  /\ UNCHANGED <<open, focused, accepted, late, serving, socket, options, file,
                 primed, reported, failures, last, targets, toClear, toSet,
                 bounds>>

(* The reload hook, then Daemon::reconfigure.  The hook may have nothing   *)
(* to say: whether it notices an edit is the subject of ConfigWatcher.     *)
Reload ==
  /\ pc = "awake"
  /\ pc' = "tick"
  /\ options' \in {options, file}
  /\ renamed' = IF options'.source # options.source THEN Ttl ELSE renamed
  /\ fresh' = IF options'.source # options.source THEN 0 ELSE fresh
  /\ UNCHANGED <<herdrVars, file, primed, reported, failures, last, clock,
                 tickVars, bounds, tainted, missed, lost>>

-----------------------------------------------------------------------------
(* Daemon::tick, up to the list call.                                      *)

(* The socket is gone: Flow::Stop.                                         *)
SocketGone ==
  /\ pc = "tick"
  /\ UnixSocket
  /\ ~socket
  /\ pc' = "stopped"
  /\ UNCHANGED <<herdrVars, options, file, primed, reported, failures, last,
                 clock, tickVars, bounds, observed>>

(* The first sample only sets the baseline.                                *)
Prime ==
  /\ pc = "tick"
  /\ UnixSocket => socket
  /\ ~primed
  /\ primed' = TRUE
  /\ pc' = "asleep"
  /\ UNCHANGED <<herdrVars, options, file, reported, failures, last, clock,
                 tickVars, bounds, observed>>

(* The sampler or metrics::collect fails: the tick ends where it is.       *)
SampleFails ==
  /\ pc = "tick"
  /\ UnixSocket => socket
  /\ Spend
  /\ pc' = "asleep"
  /\ UNCHANGED <<herdrVars, options, file, primed, reported, failures, last,
                 clock, tickVars, restarts, observed>>

Sample ==
  /\ pc = "tick"
  /\ UnixSocket => socket
  /\ primed
  /\ pc' = "list"
  /\ UNCHANGED <<herdrVars, options, file, primed, reported, failures, last,
                 clock, tickVars, bounds, observed>>

-----------------------------------------------------------------------------
(* `herdr workspace list` and what the tick computes from it.              *)

(* Seeded faults: one failure too many is let pass; failures are not       *)
(* counted.                                                                *)
ListFailsOnceMore ==
  /\ pc = "list"
  /\ IF serving THEN Spend ELSE UNCHANGED events
  /\ failures' = failures + 1
  /\ pc' = IF failures' > MaxFailures THEN "stopped" ELSE "asleep"
  /\ missed' = missed + 1
  /\ UNCHANGED <<herdrVars, options, file, primed, reported, last, clock,
                 tickVars, restarts, tainted, renamed, lost, fresh>>
ListFailsUncounted ==
  /\ pc = "list"
  /\ IF serving THEN Spend ELSE UNCHANGED events
  /\ pc' = "asleep"
  /\ UNCHANGED <<herdrVars, options, file, primed, reported, failures, last,
                 clock, tickVars, restarts, observed>>

ListFails ==
  /\ pc = "list"
  /\ IF serving THEN Spend ELSE UNCHANGED events
  /\ failures' = failures + 1
  /\ pc' = IF failures' >= MaxFailures THEN "stopped" ELSE "asleep"
  /\ missed' = missed + 1
  /\ UNCHANGED <<herdrVars, options, file, primed, reported, last, clock,
                 tickVars, restarts, tainted, renamed, lost, fresh>>

(* Seeded fault: a list that succeeds does not make up for failures.       *)
ListOkKeepsFailures ==
  /\ pc = "list"
  /\ serving
  /\ NextSeq <= MaxSeq
  /\ missed' = 0
  /\ lost' = {}
  /\ fresh' = Ttl
  /\ workspaces' = ListNow
  /\ targets' \in TargetChoices(ListNow)
  /\ last' = NextSeq
  /\ toClear' = StaleTargets(targets', ListNow)
  /\ toSet' = targets'
  /\ pc' = "report"
  /\ UNCHANGED <<herdrVars, options, file, primed, reported, failures, clock,
                 bounds, tainted, renamed>>

(* Seeded fault: only workspaces that are new among the targets get a      *)
(* report.                                                                 *)
ListOkNewcomersOnly ==
  /\ pc = "list"
  /\ serving
  /\ NextSeq <= MaxSeq
  /\ failures' = 0
  /\ missed' = 0
  /\ lost' = {}
  /\ fresh' = Ttl
  /\ workspaces' = ListNow
  /\ targets' \in TargetChoices(ListNow)
  /\ last' = NextSeq
  /\ toClear' = StaleTargets(targets', ListNow)
  /\ toSet' = targets' \ reported
  /\ pc' = "report"
  /\ UNCHANGED <<herdrVars, options, file, primed, reported, clock, bounds,
                 tainted, renamed>>

ListOk ==
  /\ pc = "list"
  /\ serving
  /\ NextSeq <= MaxSeq
  /\ failures' = 0
  /\ missed' = 0
  /\ lost' = {}
  /\ fresh' = Ttl
  /\ workspaces' = ListNow
  /\ targets' \in TargetChoices(ListNow)
  /\ last' = NextSeq
  /\ toClear' = StaleTargets(targets', ListNow)
  /\ toSet' = targets'
  /\ pc' = "report"
  /\ UNCHANGED <<herdrVars, options, file, primed, reported, clock, bounds,
                 tainted, renamed>>

(* Time passes while a call blocks: COMMAND_TIMEOUT is ten seconds, many   *)
(* intervals and more than a default ttl.                                  *)
CallTakesTime ==
  /\ pc \in {"list", "report"}
  /\ Pass(1)
  /\ UNCHANGED <<open, focused, accepted, late, serving, socket, daemonVars,
                 file, bounds>>

-----------------------------------------------------------------------------
(* The two loops of `herdr workspace report-metadata` calls: first the     *)
(* stale workspaces, then the targets.  A failed call is only logged.      *)

(* Seeded fault: the targets come first.                                   *)
DueTargetsFirst(w, kind) ==
  /\ pc = "report"
  /\ IF toSet # {}
     THEN kind = "set" /\ w \in toSet
     ELSE kind = "clear" /\ w \in toClear

(* The report that is up: of kind "clear" while toClear lasts.             *)
Due(w, kind) ==
  /\ pc = "report"
  /\ IF toClear # {}
     THEN kind = "clear" /\ w \in toClear
     ELSE kind = "set" /\ w \in toSet

Sent(w, kind) ==
  IF kind = "clear"
  THEN toClear' = toClear \ {w} /\ UNCHANGED toSet
  ELSE toSet' = toSet \ {w} /\ UNCHANGED toClear

(* A report that does not reach the server is not tried again.             *)
Miss(w, kind) ==
  /\ tainted' = IF kind = "clear" THEN Ttl ELSE tainted
  /\ lost' = IF kind = "set" THEN lost \cup {w} ELSE lost

(* The server handles the report before the call returns; whether the call *)
(* then reports success or a timeout makes no difference to the daemon.    *)
ReportHandled(w, kind) ==
  /\ Due(w, kind)
  /\ serving
  /\ Handle(ReportFor(w, kind))
  /\ Sent(w, kind)
  /\ lost' = IF kind = "set" THEN lost \cup ({w} \ open) ELSE lost
  /\ UNCHANGED <<open, focused, late, serving, socket, pc, options, file,
                 primed, reported, failures, last, clock, workspaces, targets,
                 bounds, tainted, renamed, missed, fresh>>

(* The call fails and the report never reaches the server.                 *)
ReportLost(w, kind) ==
  /\ Due(w, kind)
  /\ IF serving THEN Spend ELSE UNCHANGED events
  /\ Sent(w, kind)
  /\ Miss(w, kind)
  /\ UNCHANGED <<herdrVars, pc, options, file, primed, reported, failures,
                 last, clock, workspaces, targets, restarts, renamed, missed,
                 fresh>>

(* The child is killed on its timeout with the report still on its way.    *)
ReportKilled(w, kind) ==
  /\ Due(w, kind)
  /\ Spend
  /\ late' = late \cup {ReportFor(w, kind)}
  /\ Sent(w, kind)
  /\ Miss(w, kind)
  /\ UNCHANGED <<open, focused, rows, accepted, serving, socket, pc, options,
                 file, primed, reported, failures, last, clock, workspaces,
                 targets, restarts, renamed, missed, fresh>>

(* Seeded fault: the daemon forgets where it reported.                     *)
EndTickForgets ==
  /\ pc = "report"
  /\ toClear = {}
  /\ toSet = {}
  /\ reported' = {}
  /\ pc' = "asleep"
  /\ UNCHANGED <<herdrVars, options, file, primed, failures, last, clock,
                 tickVars, bounds, observed>>

(* Both loops are through: `reported` becomes the targets, whatever became *)
(* of the calls.                                                           *)
EndTick ==
  /\ pc = "report"
  /\ toClear = {}
  /\ toSet = {}
  /\ reported' = targets
  /\ pc' = "asleep"
  /\ UNCHANGED <<herdrVars, options, file, primed, failures, last, clock,
                 tickVars, bounds, observed>>

-----------------------------------------------------------------------------
(* The world around the daemon.                                            *)

Crash ==
  /\ Running
  /\ Spend
  /\ pc' = "crashed"
  /\ UNCHANGED <<herdrVars, options, file, primed, reported, failures, last,
                 clock, tickVars, restarts, observed>>

EditConfig ==
  /\ Spend
  /\ file' \in Options \ {file}
  /\ UNCHANGED <<herdrVars, daemonVars, restarts, observed>>

Outside ==
  /\ Spend
  /\ \/ MoveFocus
     \/ \E w \in Workspace : OpenWorkspace(w)
     \/ \E w \in Workspace : CloseWorkspace(w)
     \/ ServerDown
     \/ ServerUp
  /\ lost' = lost \cup (targets \ (toSet \cup open'))
  /\ UNCHANGED <<daemonVars, file, restarts, tainted, renamed, missed, fresh>>

(* A late set leaves rows nobody will clear when it names a workspace the  *)
(* daemon no longer aims at, or a source it no longer uses.                *)
LateArrives ==
  \E r \in late :
    /\ DeliverLate(r)
    /\ tainted' = IF /\ r.kind = "set"
                     /\ \/ r.ws \notin targets
                        \/ r.source # options.source
                  THEN Ttl ELSE tainted
    /\ UNCHANGED <<daemonVars, file, bounds, renamed, missed, lost, fresh>>

-----------------------------------------------------------------------------
Tick == SocketGone \/ Prime \/ Sample
List == ListFails \/ ListOk
Call ==
  \E w \in Workspace, kind \in {"set", "clear"} :
    ReportHandled(w, kind) \/ ReportLost(w, kind) \/ ReportKilled(w, kind)

Step == Wake \/ Reload \/ Tick \/ List \/ Call \/ EndTick

World == Start \/ SampleFails \/ CallTakesTime \/ Crash \/ EditConfig
           \/ Outside \/ LateArrives

Next == Step \/ World

Spec == Init /\ [][Next]_vars

(* The process keeps running: the loop of `run` never waits for anything   *)
(* but a bounded sleep and calls with a timeout.                           *)
FairSpec == Spec /\ WF_vars(Step)

-----------------------------------------------------------------------------
(* Properties.                                                             *)

(***************************************************************************)
(* No report goes out only to be ignored: the number of the tick is newer  *)
(* than all herdr accepted for a workspace that is still to be reported    *)
(* to, and newer than all that is still under way to it.  It rests on      *)
(* next_seq and on no workspace being both cleared and reported to in one  *)
(* tick (mod.rs:143-166, 455-474, 559-569).                                *)
(***************************************************************************)
NewestWins ==
  pc = "report" =>
    \A w \in toClear \cup toSet :
      /\ accepted[w][options.source] < last
      /\ \A r \in late :
           r.ws = w /\ r.source = options.source => r.seq < last

(***************************************************************************)
(* Rows never stay behind silently: when no fault left any, the rows of an *)
(* open workspace are those of a workspace the daemon remembers, hence     *)
(* will clear or renew (mod.rs:456-475).                                   *)
(***************************************************************************)
NoStrayRows ==
  Running /\ tainted = 0 /\ renamed = 0 => Visible \subseteq reported \cup targets

(***************************************************************************)
(* Once a tick is through and the world is still as the tick saw it, the   *)
(* focused scope shows rows on the focused workspace and nowhere else, and *)
(* on one workspace at most when none has the focus (mod.rs:479-505).      *)
(***************************************************************************)
RowsFollowFocus ==
  /\ pc = "asleep"
  /\ tainted = 0 /\ renamed = 0
  /\ options.scope = "Focused"
  /\ workspaces = ListNow
  => IF focused # NoFocus THEN Visible \subseteq {focused}
     ELSE Cardinality(Visible) <= 1

(***************************************************************************)
(* Rows do not blink: a target that the report of the last list reached,   *)
(* and that stayed open since, keeps the rows for a whole ttl after that   *)
(* list, whatever arrives late and however long the other calls block      *)
(* (mod.rs:467-475, cli.rs:16-20).  The calls of a tick may take longer    *)
(* than a ttl; then nothing is promised of the targets reported to first.  *)
(***************************************************************************)
RowsLast ==
  Running =>
    \A w \in (targets \ toSet) \ lost : rows[w][options.source] >= fresh

(***************************************************************************)
(* What the comment at mod.rs:456-458 says: rows of a workspace that is no *)
(* longer a target are taken away rather than left to time out.  Here only *)
(* calls that failed excuse rows left behind.                              *)
(***************************************************************************)
RowsTakenAway ==
  Running /\ tainted = 0 => Visible \subseteq reported \cup targets

(***************************************************************************)
(* The daemon only gives up when the socket is gone or max_failures lists  *)
(* failed with no successful one between them (mod.rs:391-396, 426-441).   *)
(***************************************************************************)
GivesUpForCause ==
  [][pc # "stopped" /\ pc' = "stopped" =>
       (UnixSocket /\ ~socket) \/ missed' >= MaxFailures]_vars

(***************************************************************************)
(* While no workspace has the focus, the daemon clears no workspace that   *)
(* was carrying rows alone (mod.rs:481-485: "the rows hold still instead   *)
(* of blinking out").                                                      *)
(***************************************************************************)
HoldsWithoutFocus ==
  /\ pc = "report"
  /\ workspaces.focused = NoFocus
  /\ Cardinality(reported) = 1
  => toClear = {}

(***************************************************************************)
(* The daemon does what SidebarView promises: it decides by one consistent *)
(* look at the workspaces, takes rows away before it puts any up, touches  *)
(* no target with a clear, and every exception is a fault that lasts one   *)
(* ttl at most (mod.rs:446-475, 479-505).                                  *)
(***************************************************************************)
Larger(a, b) == IF a > b THEN a ELSE b

View == INSTANCE SidebarView WITH aims  <- targets,
                                  grace <- Larger(tainted, renamed),
                                  owed  <- late # {}

ViewSpec == View!Spec

(***************************************************************************)
(* A server that is gone for good stops the daemon (mod.rs:582-587).       *)
(***************************************************************************)
StopsWhenServerIsGone == <>[]~serving => <>(~Running)

=============================================================================
