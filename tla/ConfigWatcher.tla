---------------------------- MODULE ConfigWatcher ----------------------------
(***************************************************************************)
(* How a running daemon follows its configuration file: `main` and         *)
(* ConfigWatcher of src/src/config.rs, against an editor that saves,       *)
(* rewrites and deletes the file at any moment between two system calls.   *)
(*                                                                         *)
(*   load -> watch -> idle -> parse -> idle                                *)
(*                                                                         *)
(* The settings a file resolves to are told apart by the text alone: the   *)
(* flags the merge also reads do not change while the process runs.        *)
(***************************************************************************)
EXTENDS Integers

CONSTANTS
  Version,          (* The complete texts somebody may save.               *)
  Empty,            (* A file of no bytes: valid TOML that sets nothing.   *)
  Broken,           (* A text that does not parse or cannot be read.       *)
  NoText,           (* No save is halfway through.                         *)
  Defaults,         (* What the flags over the defaults resolve to.        *)
  Size,             (* Size[t]: the length of text t.                      *)
  FineTime,         (* Every write to the file gets an mtime of its own.   *)
  EditsDuringStart, (* The file may change before the watcher is set up.   *)
  MaxEdits          (* Bound on the writes and removals.                   *)

Text == Version \cup {Empty, Broken}

ASSUME WatcherAssumption ==
  /\ Empty \notin Version \cup {Broken}
  /\ Broken \notin Version
  /\ Defaults \notin Text
  /\ NoText \notin Version
  /\ Size \in [Text -> Nat]
  /\ FineTime \in BOOLEAN
  /\ EditsDuringStart \in BOOLEAN
  /\ MaxEdits \in Nat

VARIABLES
  pc,        (* Where the daemon is.                                       *)
  settings,  (* The settings it runs with: a version or Defaults.          *)
  seen,      (* ConfigWatcher.seen.                                        *)
  disk,      (* The file: its text and mtime.                              *)
  saving,    (* The text an editor is halfway through writing in place.    *)
  now,       (* The clock mtimes are taken from.                           *)
  edits      (* How much of MaxEdits is spent.                             *)

daemonVars == <<pc, settings, seen>>
editorVars == <<disk, saving, now, edits>>
vars == <<daemonVars, editorVars>>

Time == 0 .. MaxEdits + 1

(* No file: mtimes start at 1.                                             *)
NoFile == [text |-> Empty, mtime |-> 0]

TypeOK ==
  /\ pc \in {"load", "watch", "idle", "parse"}
  /\ settings \in Version \cup {Defaults}
  /\ seen \in [mtime : Time, size : Nat]
  /\ disk \in [text : Text, mtime : Time]
  /\ saving \in Version \cup {NoText}
  /\ now \in Time
  /\ edits \in 0 .. MaxEdits

-----------------------------------------------------------------------------
(* Seeded fault: the length alone.                                         *)
FingerprintBySize(d) ==
  [mtime |-> 0, size |-> IF d = NoFile THEN 0 ELSE Size[d.text]]

(* fingerprint: `None` is the pair of zeros.                               *)
Fingerprint(d) ==
  [mtime |-> d.mtime, size |-> IF d = NoFile THEN 0 ELSE Size[d.text]]

(* load: an error, or what its result resolves to.                         *)
Parses(d) == d.text # Broken
Resolve(d) == IF d.text = Empty THEN Defaults ELSE d.text

Init ==
  /\ pc = "load"
  /\ settings = Defaults
  /\ seen = Fingerprint(NoFile)
  /\ disk \in {NoFile} \cup [text : Text, mtime : {1}]
  /\ saving = NoText
  /\ now = 1
  /\ edits = 0

(* load_or_warn: at startup a file in error counts as no file.             *)
Load ==
  /\ pc = "load"
  /\ settings' = IF Parses(disk) THEN Resolve(disk) ELSE Defaults
  /\ pc' = "watch"
  /\ UNCHANGED <<seen, editorVars>>

(* ConfigWatcher::new.                                                     *)
Watch ==
  /\ pc = "watch"
  /\ seen' = Fingerprint(disk)
  /\ pc' = "idle"
  /\ UNCHANGED <<settings, editorVars>>

(* Seeded fault: a file of the same length passes for the same file.       *)
PollStatBySize ==
  /\ pc = "idle"
  /\ Fingerprint(disk).size # seen.size
  /\ seen' = Fingerprint(disk)
  /\ pc' = "parse"
  /\ UNCHANGED <<settings, editorVars>>

(* poll, up to the comparison.  With nothing changed it has nothing to do.  *)
PollStat ==
  /\ pc = "idle"
  /\ Fingerprint(disk) # seen
  /\ seen' = Fingerprint(disk)
  /\ pc' = "parse"
  /\ UNCHANGED <<settings, editorVars>>

(* Seeded fault: a file in error is taken up.                              *)
PollLoadAnything ==
  /\ pc = "parse"
  /\ settings' = Resolve(disk)
  /\ pc' = "idle"
  /\ UNCHANGED <<seen, editorVars>>

(* poll, the load: a file in error leaves the settings alone.              *)
PollLoad ==
  /\ pc = "parse"
  /\ settings' = IF Parses(disk) THEN Resolve(disk) ELSE settings
  /\ pc' = "idle"
  /\ UNCHANGED <<seen, editorVars>>

-----------------------------------------------------------------------------
(* The editor.                                                             *)

(* An edit happens, and the clock has moved since the last one, or not.    *)
Edit ==
  /\ edits < MaxEdits
  /\ EditsDuringStart \/ pc \in {"idle", "parse"}
  /\ edits' = edits + 1
  /\ now' \in IF FineTime THEN {now + 1} ELSE {now, now + 1}
  /\ UNCHANGED daemonVars

(* The text is written elsewhere and renamed over the file.                *)
Save ==
  /\ Edit
  /\ saving = NoText
  /\ \E t \in Text : disk' = [text |-> t, mtime |-> now']
  /\ UNCHANGED saving

(* The file is truncated, then written through the same handle.            *)
Truncate ==
  /\ Edit
  /\ saving = NoText
  /\ saving' \in Version
  /\ disk' = [text |-> Empty, mtime |-> now']

(* The start of a text may fail to parse, or parse and mean another thing. *)
WriteSome ==
  /\ Edit
  /\ saving # NoText
  /\ \E t \in Text \ {saving} : disk' = [text |-> t, mtime |-> now']
  /\ UNCHANGED saving

WriteRest ==
  /\ Edit
  /\ saving # NoText
  /\ disk' = [text |-> saving, mtime |-> now']
  /\ saving' = NoText

Delete ==
  /\ Edit
  /\ saving = NoText
  /\ disk # NoFile
  /\ disk' = NoFile
  /\ UNCHANGED saving

-----------------------------------------------------------------------------
Daemon == Load \/ Watch \/ PollStat \/ PollLoad
Editor == Save \/ Truncate \/ WriteSome \/ WriteRest \/ Delete
Next == Daemon \/ Editor

Spec == Init /\ [][Next]_vars

(* `run` polls once per interval for as long as it runs.                   *)
FairSpec == Spec /\ WF_vars(Daemon)

-----------------------------------------------------------------------------
(* Properties.                                                             *)

(***************************************************************************)
(* No edit is missed: between two polls, if the file is there as the       *)
(* watcher last saw it and is in order, the daemon runs with it.  It rests *)
(* on poll taking the fingerprint before it reads the file                 *)
(* (config.rs:315-329), so that an edit between the two is seen again.     *)
(***************************************************************************)
NoMissedEdit ==
  /\ pc = "idle"
  /\ disk # NoFile
  /\ seen = Fingerprint(disk)
  /\ Parses(disk)
  => settings = Resolve(disk)

(***************************************************************************)
(* A file that stays as it is and is in order is what the daemon runs with *)
(* in the end (README.md:250-252).                                         *)
(***************************************************************************)
EditsTakeEffect ==
  \A v \in Version :
    <>[](disk.text = v) => <>[](settings = v)

(***************************************************************************)
(* What config.rs:310-314 and README.md:254-255 say: a half-written file   *)
(* caught mid-save leaves the daemon on the settings it has.               *)
(***************************************************************************)
MidSaveKeepsSettings ==
  [][pc = "parse" /\ saving # NoText => settings' = settings]_vars
=============================================================================
