------------------------------- MODULE Herdr -------------------------------
(***************************************************************************)
(* The herdr server as the daemon of this repository sees it.  The server  *)
(* is not part of src/: everything here is modelled from the calls that    *)
(* src/src/herdr/cli.rs makes and from what src/src/daemon/mod.rs relies   *)
(* on.                                                                     *)
(*                                                                         *)
(*   - A workspace carries, for every reporting source, the sidebar rows   *)
(*     of the last report accepted from it.  All fourteen tokens of a      *)
(*     report are set or cleared together, so a row group is just the      *)
(*     time it still has to live: 0 is "no rows".                          *)
(*   - A report is ignored when its sequence number is at or below the     *)
(*     last one accepted from the same source (mod.rs:140-142).  The       *)
(*     daemon uses one number for all the workspaces of a tick, so the     *)
(*     memory is kept per workspace and source.                            *)
(*   - Closing a workspace takes its rows with it (mod.rs:556-557).        *)
(*   - A report whose CLI child was killed on a timeout (cli.rs:219-223)   *)
(*     may already be on its way to the server: it is "late".              *)
(*                                                                         *)
(* The unit of time is one reporting interval of the daemon.               *)
(***************************************************************************)
EXTENDS Integers, FiniteSets

CONSTANTS
  Workspace,  (* The workspaces that may ever be open.                     *)
  Source,     (* The source names the configuration may give the daemon.   *)
  Ttl,        (* How many intervals a row group outlives its last report.  *)
  NoFocus     (* What the list says when it marks no workspace focused.    *)

ASSUME HerdrAssumption ==
  /\ IsFiniteSet(Workspace)
  /\ Ttl \in Nat \ {0}
  /\ NoFocus \notin Workspace

VARIABLES
  open,       (* The open workspaces.                                      *)
  focused,    (* The focused one of them, or NoFocus.                      *)
  rows,       (* rows[w][s]: time to live of the rows of s on w.           *)
  accepted,   (* accepted[w][s]: last sequence number accepted.            *)
  late,       (* Reports of killed CLI children, still to arrive.          *)
  serving,    (* The server answers.                                       *)
  socket      (* The server's socket file exists.                          *)

herdrVars == <<open, focused, rows, accepted, late, serving, socket>>

Report ==
  [ws : Workspace, source : Source, kind : {"set", "clear"}, seq : Nat]

HerdrTypeOK ==
  /\ open \in SUBSET Workspace
  /\ focused \in open \cup {NoFocus}
  /\ rows \in [Workspace -> [Source -> 0 .. Ttl]]
  /\ accepted \in [Workspace -> [Source -> Nat]]
  /\ late \in SUBSET Report
  /\ serving \in BOOLEAN
  /\ socket \in BOOLEAN

HerdrInit ==
  /\ open \in SUBSET Workspace
  /\ focused \in open \cup {NoFocus}
  /\ rows = [w \in Workspace |-> [s \in Source |-> 0]]
  /\ accepted = [w \in Workspace |-> [s \in Source |-> 0]]
  /\ late = {}
  /\ serving = TRUE
  /\ socket = TRUE

(* The open workspaces whose sidebar shows rows of this plugin.            *)
Visible == {w \in open : \E s \in Source : rows[w][s] > 0}

Accepts(r) ==
  /\ serving
  /\ r.ws \in open
  /\ r.seq > accepted[r.ws][r.source]

(* The server handles report r, or turns it down.                          *)
Handle(r) ==
  IF Accepts(r)
  THEN /\ rows' = [rows EXCEPT ![r.ws][r.source] =
                     IF r.kind = "set" THEN Ttl ELSE 0]
       /\ accepted' = [accepted EXCEPT ![r.ws][r.source] = r.seq]
  ELSE UNCHANGED <<rows, accepted>>

Older(life, k) == IF life > k THEN life - k ELSE 0

(* k units of time pass: rows that ran out are gone.                       *)
AgeRows(k) ==
  rows' = [w \in Workspace |-> [s \in Source |-> Older(rows[w][s], k)]]

-----------------------------------------------------------------------------
(* What users and the server do on their own.                              *)

MoveFocus ==
  /\ focused' \in (open \cup {NoFocus}) \ {focused}
  /\ UNCHANGED <<open, rows, accepted, late, serving, socket>>

OpenWorkspace(w) ==
  /\ w \notin open
  /\ open' = open \cup {w}
  /\ focused' \in {focused, w}
  /\ UNCHANGED <<rows, accepted, late, serving, socket>>

CloseWorkspace(w) ==
  /\ w \in open
  /\ open' = open \ {w}
  /\ IF focused = w
     THEN focused' \in (open \ {w}) \cup {NoFocus}
     ELSE UNCHANGED focused
  /\ rows' = [rows EXCEPT ![w] = [s \in Source |-> 0]]
  /\ UNCHANGED <<accepted, late, serving, socket>>

(* The server shuts down or hangs; a clean shutdown removes the socket.    *)
ServerDown ==
  /\ serving
  /\ serving' = FALSE
  /\ socket' \in BOOLEAN
  /\ UNCHANGED <<open, focused, rows, accepted, late>>

ServerUp ==
  /\ ~serving
  /\ serving' = TRUE
  /\ socket' = TRUE
  /\ UNCHANGED <<open, focused, rows, accepted, late>>

(* A late report arrives after all, or is lost for good.                   *)
DeliverLate(r) ==
  /\ r \in late
  /\ Handle(r)
  /\ late' = late \ {r}
  /\ UNCHANGED <<open, focused, serving, socket>>

=============================================================================
