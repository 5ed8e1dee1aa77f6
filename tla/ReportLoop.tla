----------------------------- MODULE ReportLoop -----------------------------
(***************************************************************************)
(* What the loop of `run` (src/src/daemon/mod.rs:582-611, 391-441) is to   *)
(* whoever waits for its end: a tick looks for the socket, then asks for   *)
(* the list; as many lists missed in a row as it may miss, or no socket,   *)
(* and it is over.                                                         *)
(*                                                                         *)
(* Daemon has this loop with all its calls; Handoff has one for each of    *)
(* its processes, with nothing else.  Both implement this one.             *)
(***************************************************************************)
EXTENDS Naturals

CONSTANTS
  MaxFailures,  (* options.max_failures.                                   *)
  UnixSocket    (* TRUE where herdr_socket_is_gone can tell (Unix).        *)

VARIABLES
  phase,     (* "check" up to the socket check, "call" up to the list.     *)
  misses,    (* Lists missed in a row, by a loop that goes on.             *)
  serving,   (* The server answers.                                        *)
  socket     (* Its socket file exists.                                    *)

loop   == <<phase, misses>>
server == <<serving, socket>>

Init == phase \in {"off", "check"} /\ misses = 0

(* A process of its own, with nothing left of the one before it.           *)
Begin ==
  /\ phase \in {"off", "stopped"}
  /\ phase' = "check"
  /\ misses' = 0
  /\ UNCHANGED server

Check ==
  /\ phase = "check"
  /\ phase' = IF UnixSocket /\ ~socket THEN "stopped" ELSE "call"
  /\ misses' = IF UnixSocket /\ ~socket THEN 0 ELSE misses
  /\ UNCHANGED server

(* No sample, no call: a tick that neither counts nor makes up for one.    *)
NoSample ==
  /\ phase = "call"
  /\ phase' = "check"
  /\ UNCHANGED <<misses, server>>

(* One list more is missed, or one too many.                               *)
Missed ==
  /\ phase = "call"
  /\ IF misses + 1 < MaxFailures
     THEN phase' = "check" /\ misses' = misses + 1
     ELSE phase' = "stopped" /\ misses' = 0
  /\ UNCHANGED server

Listed ==
  /\ phase = "call"
  /\ serving
  /\ phase' = "check"
  /\ misses' = 0
  /\ UNCHANGED server

(* The process ends, killed or by itself.                                  *)
Leave ==
  /\ phase # "off"
  /\ phase' = "off"
  /\ misses' = 0
  /\ UNCHANGED server

(* The server comes and goes, and its socket with it.                      *)
Server == UNCHANGED loop

Next == Begin \/ Check \/ NoSample \/ Missed \/ Listed \/ Leave \/ Server

Spec == Init /\ [][Next]_<<loop, server>>
=============================================================================
