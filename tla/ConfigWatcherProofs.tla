------------------------- MODULE ConfigWatcherProofs -------------------------
(***************************************************************************)
(* ConfigWatcher keeps its types, misses no edit and takes up every one    *)
(* that stays, for any set of texts and any number of edits.               *)
(*                                                                         *)
(* The invariant: the watcher has seen no mtime the clock has not reached, *)
(* so that an edit always brings one it has not seen.                      *)
(***************************************************************************)
EXTENDS ConfigWatcher, TLAPS

(* What the clock has handed out.                                          *)
MtimesInThePast ==
  /\ now >= 1
  /\ now <= edits + 1
  /\ disk.mtime <= now
  /\ seen.mtime <= now

WatchInv == TypeOK /\ MtimesInThePast

(* Every mtime belongs to one edit, and the file does not move before the  *)
(* watcher is set up.                                                      *)
CalmAndFine == FineTime /\ ~EditsDuringStart

(* The daemon starts with the file as the watcher will first see it.       *)
StartsInStep ==
  pc = "watch" /\ Parses(disk) => settings = Resolve(disk)

FollowInv == NoMissedEdit /\ StartsInStep

(* What a file resolves to is something the daemon may run with.           *)
LEMMA ResolveType ==
  ASSUME NEW d \in [text : Text, mtime : Time], Parses(d)
  PROVE  Resolve(d) \in Version \cup {Defaults}
  BY WatcherAssumption DEF Resolve, Parses, Text

(* A fingerprint is one, whatever the file.                                *)
LEMMA FingerprintType ==
  ASSUME NEW d \in [text : Text, mtime : Time]
  PROVE  /\ Fingerprint(d) \in [mtime : Time, size : Nat]
         /\ Fingerprint(d).mtime = d.mtime
  BY WatcherAssumption DEF Fingerprint

(* No file is one of the states the file may be in.                        *)
LEMMA NoFileType == NoFile \in [text : Text, mtime : Time] /\ NoFile.mtime = 0
  BY WatcherAssumption DEF NoFile, Text, Time

(* The watcher starts well.                                                *)
LEMMA InitWatch == Init => WatchInv /\ FollowInv
<1> SUFFICES ASSUME Init PROVE WatchInv /\ FollowInv
  OBVIOUS
<1>1. disk \in [text : Text, mtime : Time] /\ disk.mtime <= 1
  BY NoFileType, WatcherAssumption DEF Init, Time
<1>2. seen \in [mtime : Time, size : Nat] /\ seen.mtime = 0
  BY NoFileType, FingerprintType DEF Init
<1>3. TypeOK
  BY <1>1, <1>2, WatcherAssumption DEF Init, TypeOK, Time
<1>4. MtimesInThePast
  BY <1>1, <1>2, WatcherAssumption DEF Init, MtimesInThePast
<1>5. FollowInv
  BY DEF Init, FollowInv, NoMissedEdit, StartsInStep
<1> QED
  BY <1>3, <1>4, <1>5 DEF WatchInv

(* Every step keeps the types, and the mtimes in the past.                 *)
LEMMA NextWatch == WatchInv /\ [Next]_vars => WatchInv'
<1> SUFFICES ASSUME WatchInv, [Next]_vars PROVE WatchInv'
  OBVIOUS
<1> USE WatcherAssumption DEF WatchInv, MtimesInThePast
<1>1. CASE Load
  BY <1>1, ResolveType DEF Load, TypeOK, editorVars
<1>2. CASE Watch
  BY <1>2, FingerprintType DEF Watch, TypeOK, editorVars
<1>3. CASE PollStat
  BY <1>3, FingerprintType DEF PollStat, TypeOK, editorVars
<1>4. CASE PollLoad
  BY <1>4, ResolveType DEF PollLoad, TypeOK, editorVars
<1>5. ASSUME Edit
      PROVE  /\ now' \in Time /\ now' >= now /\ now' <= edits' + 1
             /\ edits' \in 0 .. MaxEdits
             /\ UNCHANGED <<pc, settings, seen>>
  BY <1>5 DEF Edit, TypeOK, Time, daemonVars
<1>6. CASE Save
  BY <1>5, <1>6 DEF Save, TypeOK, Time
<1>7. CASE Truncate
  BY <1>5, <1>7 DEF Truncate, TypeOK, Time, Text
<1>8. CASE WriteSome
  BY <1>5, <1>8 DEF WriteSome, TypeOK, Time, Text
<1>9. CASE WriteRest
  BY <1>5, <1>9 DEF WriteRest, TypeOK, Time, Text
<1>10. CASE Delete
  BY <1>5, <1>10, NoFileType DEF Delete, TypeOK, Time
<1>11. CASE UNCHANGED vars
  BY <1>11 DEF vars, daemonVars, editorVars, TypeOK
<1> QED
  BY <1>1, <1>2, <1>3, <1>4, <1>6, <1>7, <1>8, <1>9, <1>10, <1>11
     DEF Next, Daemon, Editor

(* Every step keeps the daemon in step with the file it has seen.          *)
LEMMA NextFollow ==
  ASSUME CalmAndFine
  PROVE  WatchInv /\ FollowInv /\ [Next]_vars => FollowInv'
<1> SUFFICES ASSUME WatchInv, FollowInv, [Next]_vars PROVE FollowInv'
  OBVIOUS
<1> USE DEF FollowInv, NoMissedEdit, StartsInStep
<1>1. CASE Load
  BY <1>1 DEF Load, editorVars
<1>2. CASE Watch
  BY <1>2 DEF Watch, editorVars
<1>3. CASE PollStat
  BY <1>3 DEF PollStat, editorVars
<1>4. CASE PollLoad
  BY <1>4 DEF PollLoad, editorVars
<1>5. ASSUME Edit, NEW t \in Text, disk' = [text |-> t, mtime |-> now']
      PROVE  FollowInv'
  <2>1. now' = now + 1 /\ now \in Nat /\ now' \in Time
    BY <1>5, CalmAndFine, WatcherAssumption
       DEF Edit, CalmAndFine, WatchInv, TypeOK, MtimesInThePast, Time
  <2>2. pc' \in {"idle", "parse"} /\ seen' = seen /\ seen.mtime <= now
    BY <1>5, CalmAndFine DEF Edit, CalmAndFine, daemonVars, WatchInv, MtimesInThePast
  <2>3. Fingerprint(disk').mtime = now + 1
    BY <2>1, <1>5, FingerprintType
  <2>4. seen.mtime \in Nat
    BY DEF WatchInv, TypeOK, Time
  <2> QED
    BY <2>1, <2>2, <2>3, <2>4 DEF Fingerprint
<1>6. CASE Save
  BY <1>5, <1>6 DEF Save
<1>7. CASE Truncate
  BY <1>5, <1>7 DEF Truncate, Text
<1>8. CASE WriteSome
  BY <1>5, <1>8 DEF WriteSome
<1>9. CASE WriteRest
  BY <1>5, <1>9 DEF WriteRest, WatchInv, TypeOK, Text
<1>10. CASE Delete
  BY <1>10, CalmAndFine DEF Delete, Edit, CalmAndFine, daemonVars
<1>11. CASE UNCHANGED vars
  BY <1>11 DEF vars, daemonVars, editorVars
<1> QED
  BY <1>1, <1>2, <1>3, <1>4, <1>6, <1>7, <1>8, <1>9, <1>10, <1>11
     DEF Next, Daemon, Editor

(* The types, whatever the clock and the editor do.                        *)
THEOREM WatcherTypes == Spec => []TypeOK
<1>1. WatchInv => TypeOK
  BY DEF WatchInv
<1> QED
  BY InitWatch, NextWatch, <1>1, PTL DEF Spec

(* The watcher misses no edit (config.rs:315-329), provided every edit has *)
(* an mtime of its own and none falls between the first load and the       *)
(* watcher's first look at the file.                                       *)
THEOREM EditsAreNotMissed ==
  ASSUME CalmAndFine
  PROVE  Spec => []NoMissedEdit
<1>1. WatchInv /\ FollowInv /\ [Next]_vars => WatchInv' /\ FollowInv'
  BY NextWatch, NextFollow
<1>2. FollowInv => NoMissedEdit
  BY DEF FollowInv
<1> QED
  BY InitWatch, <1>1, <1>2, PTL DEF Spec

-----------------------------------------------------------------------------
(* Edits take effect.                                                      *)

(* The daemon has something to do: the guards of its four actions.         *)
Due == pc # "idle" \/ Fingerprint(disk) # seen

(***************************************************************************)
(* `run` polls once per interval for as long as it runs: WF_vars(Daemon),  *)
(* with Due written out for ENABLED <<Daemon>>_vars.                       *)
(***************************************************************************)
GoesOn == []<>~Due \/ []<><<Daemon>>_vars

(* The way of one text from the file into the settings, while it stays     *)
(* what the file says: each step of the daemon brings it nearer, and       *)
(* nothing the editor still does takes it back.                            *)
LEMMA TextArrives ==
  ASSUME CalmAndFine, NEW v \in Version
  PROVE  Spec /\ GoesOn => (<>[](disk.text = v) => <>[](settings = v))
<1> DEFINE I == WatchInv /\ FollowInv
           D == disk.text = v
           S == settings = v
<1>1. D => Parses(disk) /\ Resolve(disk) = v /\ disk # NoFile
  BY WatcherAssumption DEF Parses, Resolve, NoFile
<1>2. D /\ S /\ [Next]_vars => S'
  BY <1>1
  DEF Next, Daemon, Load, Watch, PollStat, PollLoad, Editor, Save, Truncate,
      WriteSome, WriteRest, Delete, Edit, vars, daemonVars
<1>3. I /\ D /\ ~S => Due
  BY <1>1 DEF FollowInv, NoMissedEdit, Due
<1>4. I /\ D /\ pc = "watch" => S
  BY <1>1 DEF FollowInv, StartsInStep
<1>5. D /\ pc = "load" /\ [Next]_vars => (pc = "load")' \/ S'
  BY <1>1
  DEF Next, Daemon, Load, Watch, PollStat, PollLoad, Editor, Save, Truncate,
      WriteSome, WriteRest, Delete, Edit, vars, daemonVars
<1>6. D /\ pc = "load" /\ <<Daemon>>_vars => S'
  BY <1>1 DEF Daemon, Load, Watch, PollStat, PollLoad
<1>7. pc = "idle" /\ [Next]_vars => (pc = "idle")' \/ (pc = "parse")'
  BY DEF Next, Daemon, Load, Watch, PollStat, PollLoad, Editor, Save, Truncate,
         WriteSome, WriteRest, Delete, Edit, vars, daemonVars
<1>8. pc = "idle" /\ <<Daemon>>_vars => (pc = "parse")'
  BY DEF Daemon, Load, Watch, PollStat, PollLoad
<1>9. D /\ pc = "parse" /\ [Next]_vars => (pc = "parse")' \/ S'
  BY <1>1
  DEF Next, Daemon, Load, Watch, PollStat, PollLoad, Editor, Save, Truncate,
      WriteSome, WriteRest, Delete, Edit, vars, daemonVars
<1>10. D /\ pc = "parse" /\ <<Daemon>>_vars => S'
  BY <1>1 DEF Daemon, Load, Watch, PollStat, PollLoad
<1>11. I => pc = "load" \/ pc = "watch" \/ pc = "idle" \/ pc = "parse"
  BY DEF WatchInv, TypeOK
<1>12. Spec => []I
  <2>1. I /\ [Next]_vars => I'
    BY CalmAndFine, NextWatch, NextFollow
  <2> QED
    BY InitWatch, <2>1, PTL DEF Spec
<1> HIDE DEF I, D, S
<1>13. Spec /\ GoesOn => (<>[]D => <>[]S)
  BY <1>2, <1>3, <1>4, <1>5, <1>6, <1>7, <1>8, <1>9, <1>10, <1>11, <1>12, PTL
  DEF Spec, GoesOn
<1> QED
  BY <1>13 DEF D, S

(***************************************************************************)
(* A file that stays as it is and is in order is what the daemon runs with *)
(* in the end, whatever was edited before and however often the file is    *)
(* written again with the same text (config.rs:315-329).                   *)
(***************************************************************************)
THEOREM EditsGetThrough ==
  ASSUME CalmAndFine
  PROVE  Spec /\ GoesOn => EditsTakeEffect
BY TextArrives DEF EditsTakeEffect
=============================================================================
