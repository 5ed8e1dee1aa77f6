---------------------------- MODULE SidebarWriter ----------------------------
(***************************************************************************)
(* `--write-sidebar-rows`: write_rows and replace_contents of              *)
(* src/src/sidebar.rs, against people who save herdr's configuration file  *)
(* while the rows are being added, other installs, kills and power cuts.   *)
(*                                                                         *)
(*   read -> recheck -> create -> write -> sync -> rename -> written       *)
(*                                                                         *)
(* A text is known by the edit that made it and by what the parser finds   *)
(* in it; the file that is not there reads like the empty one, edit 0.     *)
(***************************************************************************)
EXTENDS Integers

CONSTANTS
  Install,   (* The processes that add the rows.                           *)
  Kind,      (* The kinds of text people save, of AllKinds.                *)
  MaxEdits,  (* Bound on what people save.                                 *)
  MaxFaults  (* Bound on calls that fail, kills and power cuts.            *)

(* plain: no rows yet; set: rows are set; stuck: does not parse, or `ui`   *)
(* is not a table; unreadable: the read fails.                             *)
AllKinds == {"plain", "set", "stuck", "unreadable"}

ASSUME WriterAssumption ==
  /\ Kind \subseteq AllKinds
  /\ MaxEdits \in Nat
  /\ MaxFaults \in Nat

VARIABLES
  pc,        (* Where an install is.                                       *)
  text,      (* The text it read.                                          *)
  temporary, (* The file it writes beside the old one.                     *)
  disk,      (* The configuration file.                                    *)
  edits,     (* How many times people saved it.                            *)
  faults,    (* How much of MaxFaults is spent.                            *)
  rechecked  (* Observer: the value of `edits` at an install's recheck.    *)

vars == <<pc, text, temporary, disk, edits, faults, rechecked>>

(* whole: all of the text is there; synced: a power cut leaves it there.   *)
File == [edit : 0 .. MaxEdits, kind : AllKinds, rows : BOOLEAN,
         whole : BOOLEAN, synced : BOOLEAN]

Saved(n, k) ==
  [edit |-> n, kind |-> k, rows |-> FALSE, whole |-> TRUE, synced |-> TRUE]
EmptyFile == Saved(0, "plain")

(* What is left of a file that a power cut takes the contents of.          *)
Emptied(f) == [f EXCEPT !.whole = FALSE, !.synced = TRUE]

TypeOK ==
  /\ pc \in [Install -> {"read", "recheck", "create", "write", "sync", "rename",
                         "written", "already set", "failed", "killed"}]
  /\ text \in [Install -> File]
  /\ temporary \in [Install -> File]
  /\ disk \in File
  /\ edits \in 0 .. MaxEdits
  /\ faults \in 0 .. MaxFaults
  /\ rechecked \in [Install -> 0 .. MaxEdits]

Init ==
  /\ pc = [i \in Install |-> "read"]
  /\ text = [i \in Install |-> EmptyFile]
  /\ temporary = [i \in Install |-> EmptyFile]
  /\ disk \in {EmptyFile} \cup {Saved(0, k) : k \in Kind}
  /\ edits = 0
  /\ faults = 0
  /\ rechecked = [i \in Install |-> 0]

Goto(i, from, to) ==
  /\ pc[i] = from
  /\ pc' = [pc EXCEPT ![i] = to]

Spend == faults < MaxFaults /\ faults' = faults + 1

-----------------------------------------------------------------------------
(* The text with the rows in it: insert_rows.                              *)
WithRows(f) ==
  [f EXCEPT !.kind = "set", !.rows = TRUE, !.whole = FALSE, !.synced = FALSE]

(* Seeded fault: nobody asks whether the rows are set.                     *)
ReadAnyLayout(i) ==
  /\ Goto(i, "read", IF disk.kind \in {"plain", "set"} THEN "recheck" ELSE "failed")
  /\ text' = [text EXCEPT ![i] = disk]
  /\ UNCHANGED <<temporary, disk, edits, faults, rechecked>>

(* The read, the parser and insert_rows, none of which another process     *)
(* can see.                                                                *)
Read(i) ==
  /\ Goto(i, "read", CASE disk.kind = "plain" -> "recheck"
                       [] disk.kind = "set"   -> "already set"
                       [] OTHER               -> "failed")
  /\ text' = [text EXCEPT ![i] = disk]
  /\ UNCHANGED <<temporary, disk, edits, faults, rechecked>>

(* read_to_string(path).unwrap_or_default().                               *)
ReadAgain == IF disk.kind = "unreadable" THEN EmptyFile ELSE disk

(* Seeded fault: no recheck.                                               *)
RecheckNothing(i) ==
  /\ Goto(i, "recheck", "create")
  /\ rechecked' = [rechecked EXCEPT ![i] = edits]
  /\ UNCHANGED <<text, temporary, disk, edits, faults>>

(* A file that moved underneath is left alone.                             *)
Recheck(i) ==
  /\ Goto(i, "recheck", IF ReadAgain = text[i] THEN "create" ELSE "failed")
  /\ rechecked' = [rechecked EXCEPT ![i] = edits]
  /\ UNCHANGED <<text, temporary, disk, edits, faults>>

Create(i) ==
  /\ Goto(i, "create", "write")
  /\ temporary' = [temporary EXCEPT ![i] = WithRows(text[i])]
  /\ UNCHANGED <<text, disk, edits, faults, rechecked>>

WriteAll(i) ==
  /\ Goto(i, "write", "sync")
  /\ temporary' = [temporary EXCEPT ![i].whole = TRUE]
  /\ UNCHANGED <<text, disk, edits, faults, rechecked>>

(* Seeded fault: the file is not synced before it is renamed.              *)
SyncLater(i) ==
  /\ Goto(i, "sync", "rename")
  /\ UNCHANGED <<text, temporary, disk, edits, faults, rechecked>>

Sync(i) ==
  /\ Goto(i, "sync", "rename")
  /\ temporary' = [temporary EXCEPT ![i].synced = TRUE]
  /\ UNCHANGED <<text, disk, edits, faults, rechecked>>

Rename(i) ==
  /\ Goto(i, "rename", "written")
  /\ disk' = temporary[i]
  /\ UNCHANGED <<text, temporary, edits, faults, rechecked>>

(* Any call of replace_contents fails: the temporary file is removed.      *)
Fails(i) ==
  /\ pc[i] \in {"create", "write", "sync", "rename"}
  /\ pc' = [pc EXCEPT ![i] = "failed"]
  /\ Spend
  /\ UNCHANGED <<text, temporary, disk, edits, rechecked>>

-----------------------------------------------------------------------------
(* The world.                                                              *)

Kill(i) ==
  /\ pc[i] \in {"read", "recheck", "create", "write", "sync", "rename"}
  /\ pc' = [pc EXCEPT ![i] = "killed"]
  /\ Spend
  /\ UNCHANGED <<text, temporary, disk, edits, rechecked>>

(* Whatever was not synced may be gone.                                    *)
PowerCut ==
  /\ Spend
  /\ pc' = [i \in Install |-> "killed"]
  /\ disk' \in IF disk.synced THEN {disk} ELSE {disk, Emptied(disk)}
  /\ UNCHANGED <<text, temporary, edits, rechecked>>

(* Somebody saves the file, whole and in one step.                         *)
Edit ==
  /\ edits < MaxEdits
  /\ edits' = edits + 1
  /\ \E k \in Kind : disk' = Saved(edits + 1, k)
  /\ UNCHANGED <<pc, text, temporary, faults, rechecked>>

Next ==
  \/ \E i \in Install : \/ Read(i) \/ Recheck(i) \/ Create(i) \/ WriteAll(i)
                        \/ Sync(i) \/ Rename(i) \/ Fails(i) \/ Kill(i)
  \/ PowerCut
  \/ Edit

Spec == Init /\ [][Next]_vars

-----------------------------------------------------------------------------
(* Properties.                                                             *)

(***************************************************************************)
(* What somebody saved before the recheck is kept: the rename never        *)
(* replaces a text newer than the one the rows were added to, unless it    *)
(* was saved only after the recheck (sidebar.rs:130-137).                  *)
(***************************************************************************)
RecheckKeepsEdits ==
  [][\A i \in Install :
       pc[i] # "written" /\ pc'[i] = "written" =>
         disk.edit <= text[i].edit \/ disk.edit > rechecked[i]]_vars

(***************************************************************************)
(* A layout somebody made, or a text that does not parse, is left as it    *)
(* is, however many installs are at work, unless it was saved only after   *)
(* an install's recheck (sidebar.rs:101-111, 218-241; main.rs:138-141).    *)
(***************************************************************************)
LayoutsStand ==
  [][\A i \in Install :
       pc[i] # "written" /\ pc'[i] = "written" =>
         disk.kind = "plain" \/ disk.rows \/ disk.edit > rechecked[i]]_vars

(***************************************************************************)
(* No kill, failed call or power cut leaves half of a file behind          *)
(* (sidebar.rs:142-147).                                                   *)
(***************************************************************************)
NothingHalfWritten == disk.whole
=============================================================================
