------------------------- MODULE SidebarWriterProofs -------------------------
(***************************************************************************)
(* Adding the rows loses no edit and replaces no layout that was there at  *)
(* the recheck, and leaves no half file, for any number of installs, edits *)
(* and faults.                                                             *)
(*                                                                         *)
(* The invariant for the edits: a text without our rows is what people     *)
(* saved last, so an install that sees its own text again at the recheck   *)
(* has read the last edit (Fresh).  The one for the contents follows the   *)
(* temporary file through write, sync and rename (Contents).  The one for  *)
(* layouts: a text nobody saved over since the recheck is the one that was *)
(* read, which has none (Untouched).                                       *)
(***************************************************************************)
EXTENDS SidebarWriter, TLAPS

(* From here on the install does not look at the file again.               *)
Replacing(i) == pc[i] \in {"create", "write", "sync", "rename"}

Fresh ==
  /\ disk.kind = "plain" => ~disk.rows
  /\ ~disk.rows => disk.edit = edits
  /\ \A i \in Install : Replacing(i) => text[i].edit = rechecked[i]

(* What is renamed has rows.                                               *)
RowsInside ==
  /\ \A i \in Install : pc[i] = "recheck" => text[i].kind = "plain"
  /\ \A i \in Install :
       pc[i] \in {"write", "sync", "rename"} =>
         temporary[i].rows /\ temporary[i].kind = "set"

Contents ==
  /\ disk.whole /\ disk.synced
  /\ \A i \in Install :
       /\ pc[i] \in {"sync", "rename"} => temporary[i].whole
       /\ pc[i] = "rename" => temporary[i].synced

WriterInv == TypeOK /\ RowsInside /\ Contents

LEMMA FileType ==
  ASSUME NEW n \in 0 .. MaxEdits, NEW k \in AllKinds
  PROVE  Saved(n, k) \in File
  BY DEF Saved, File

LEMMA SavedFields ==
  ASSUME NEW n, NEW k
  PROVE  /\ Saved(n, k).edit = n /\ Saved(n, k).kind = k /\ ~Saved(n, k).rows
         /\ Saved(n, k).whole /\ Saved(n, k).synced
  BY DEF Saved

LEMMA EmptyFileType == EmptyFile \in File
  BY FileType, WriterAssumption DEF EmptyFile, AllKinds

LEMMA RowsType ==
  ASSUME NEW f \in File
  PROVE  /\ WithRows(f) \in File
         /\ WithRows(f).rows /\ WithRows(f).kind = "set"
  BY DEF WithRows, File, AllKinds

LEMMA SpendStays ==
  ASSUME faults \in 0 .. MaxFaults, Spend
  PROVE  faults' \in 0 .. MaxFaults
  BY WriterAssumption DEF Spend

LEMMA RoomForEdit ==
  ASSUME edits \in 0 .. MaxEdits, edits < MaxEdits
  PROVE  edits + 1 \in 0 .. MaxEdits
  BY WriterAssumption

(* An install starts with nothing written.                                 *)
LEMMA InitWriter == Init => WriterInv /\ Fresh
<1> SUFFICES ASSUME Init PROVE WriterInv /\ Fresh
  OBVIOUS
<1>1. disk \in File /\ disk.whole /\ disk.synced /\ disk.edit = 0 /\ ~disk.rows
  <2>1. CASE disk = EmptyFile
    BY <2>1, EmptyFileType DEF EmptyFile, Saved
  <2>2. ASSUME NEW k \in Kind, disk = Saved(0, k)
        PROVE  disk \in File /\ disk.whole /\ disk.synced /\ disk.edit = 0 /\ ~disk.rows
    BY <2>2, FileType, WriterAssumption DEF Saved
  <2> QED
    BY <2>1, <2>2 DEF Init
<1>2. TypeOK
  BY <1>1, EmptyFileType, WriterAssumption DEF Init, TypeOK
<1>3. RowsInside /\ Contents /\ Fresh
  BY <1>1 DEF Init, RowsInside, Contents, Fresh, Replacing
<1> QED
  BY <1>2, <1>3 DEF WriterInv

(* Every step keeps the types.                                             *)
LEMMA NextWriterTypes == TypeOK /\ Contents /\ [Next]_vars => TypeOK'
<1> SUFFICES ASSUME TypeOK, Contents, [Next]_vars PROVE TypeOK'
  OBVIOUS
<1> USE WriterAssumption DEF TypeOK, Goto
<1>1. ASSUME NEW i \in Install, Read(i) PROVE TypeOK'
  <2>1. pc' \in [Install -> {"read", "recheck", "create", "write", "sync", "rename",
                             "written", "already set", "failed", "killed"}]
    BY <1>1 DEF Read
  <2>2. text' \in [Install -> File]
    BY <1>1 DEF Read
  <2> QED
    BY <1>1, <2>1, <2>2 DEF Read
<1>2. ASSUME NEW i \in Install, Recheck(i) PROVE TypeOK'
  <2>1. pc' \in [Install -> {"read", "recheck", "create", "write", "sync", "rename",
                             "written", "already set", "failed", "killed"}]
    BY <1>2 DEF Recheck
  <2> QED
    BY <1>2, <2>1 DEF Recheck
<1>3. ASSUME NEW i \in Install, Create(i) PROVE TypeOK'
  BY <1>3, RowsType DEF Create
<1>4. ASSUME NEW i \in Install, WriteAll(i) PROVE TypeOK'
  <2>1. temporary' \in [Install -> File]
    BY <1>4 DEF WriteAll, File
  <2> QED
    BY <1>4, <2>1 DEF WriteAll
<1>5. ASSUME NEW i \in Install, Sync(i) PROVE TypeOK'
  <2>1. temporary' \in [Install -> File]
    BY <1>5 DEF Sync, File
  <2> QED
    BY <1>5, <2>1 DEF Sync
<1>6. ASSUME NEW i \in Install, Rename(i) PROVE TypeOK'
  BY <1>6 DEF Rename
<1>7. ASSUME NEW i \in Install, Fails(i) \/ Kill(i) PROVE TypeOK'
  <2>1. faults' \in 0 .. MaxFaults
    BY <1>7, SpendStays DEF Fails, Kill
  <2>2. PICK to \in {"failed", "killed"} : pc' = [pc EXCEPT ![i] = to]
    BY <1>7 DEF Fails, Kill
  <2>3. pc' \in [Install -> {"read", "recheck", "create", "write", "sync", "rename",
                             "written", "already set", "failed", "killed"}]
    BY <2>2
  <2>4. text' = text /\ temporary' = temporary /\ disk' = disk /\ edits' = edits
        /\ rechecked' = rechecked
    BY <1>7 DEF Fails, Kill
  <2> QED
    BY <2>1, <2>3, <2>4
<1>8. CASE PowerCut
  <2>1. faults' \in 0 .. MaxFaults
    BY <1>8, SpendStays DEF PowerCut
  <2>2. disk' = disk /\ text' = text /\ temporary' = temporary /\ edits' = edits
        /\ rechecked' = rechecked
    BY <1>8 DEF PowerCut, Contents
  <2>3. pc' \in [Install -> {"read", "recheck", "create", "write", "sync", "rename",
                             "written", "already set", "failed", "killed"}]
    <3>1. pc' = [i \in Install |-> "killed"]
      BY <1>8 DEF PowerCut
    <3> QED
      BY <3>1
  <2> QED
    BY <2>1, <2>2, <2>3
<1>9. CASE Edit
  <2>1. edits + 1 \in 0 .. MaxEdits
    BY <1>9, RoomForEdit DEF Edit
  <2>2. PICK k \in Kind : disk' = Saved(edits + 1, k)
    BY <1>9 DEF Edit
  <2>3. disk' \in File
    BY <2>1, <2>2, FileType
  <2>4. edits' = edits + 1 /\ pc' = pc /\ text' = text /\ temporary' = temporary
        /\ faults' = faults /\ rechecked' = rechecked
    BY <1>9 DEF Edit
  <2> QED
    BY <2>1, <2>3, <2>4
<1>10. CASE UNCHANGED vars
  BY <1>10 DEF vars
<1> QED
  BY <1>1, <1>2, <1>3, <1>4, <1>5, <1>6, <1>7, <1>8, <1>9, <1>10 DEF Next

(* Every step keeps the temporary files in order.                          *)
LEMMA NextContents ==
  TypeOK /\ RowsInside /\ Contents /\ [Next]_vars => RowsInside' /\ Contents'
<1> SUFFICES ASSUME TypeOK, RowsInside, Contents, [Next]_vars
             PROVE  RowsInside' /\ Contents'
  OBVIOUS
<1> USE DEF TypeOK, RowsInside, Contents, Goto
<1>1. ASSUME NEW i \in Install, Read(i) PROVE RowsInside' /\ Contents'
  <2>1. pc' = [pc EXCEPT ![i] = pc'[i]] /\ text' = [text EXCEPT ![i] = disk]
        /\ pc'[i] \notin {"write", "sync", "rename"}
        /\ (pc'[i] = "recheck" => disk.kind = "plain")
    BY <1>1 DEF Read
  <2>2. disk' = disk /\ temporary' = temporary
    BY <1>1 DEF Read
  <2>3. \A j \in Install : j # i => pc'[j] = pc[j] /\ text'[j] = text[j]
    BY <2>1
  <2>4. text'[i] = disk
    BY <2>1
  <2>5. RowsInside'
    BY <2>1, <2>2, <2>3, <2>4
  <2>6. Contents'
    BY <2>1, <2>2, <2>3
  <2> QED
    BY <2>5, <2>6
<1>2. ASSUME NEW i \in Install, Recheck(i) PROVE RowsInside' /\ Contents'
  <2>1. pc' = [pc EXCEPT ![i] = pc'[i]] /\ pc'[i] \in {"create", "failed"}
    BY <1>2 DEF Recheck
  <2> QED
    BY <1>2, <2>1 DEF Recheck
<1>3. ASSUME NEW i \in Install, Create(i) PROVE RowsInside' /\ Contents'
  BY <1>3, RowsType DEF Create
<1>4. ASSUME NEW i \in Install, WriteAll(i) PROVE RowsInside' /\ Contents'
  BY <1>4 DEF WriteAll, File
<1>5. ASSUME NEW i \in Install, Sync(i) PROVE RowsInside' /\ Contents'
  BY <1>5 DEF Sync, File
<1>6. ASSUME NEW i \in Install, Rename(i) PROVE RowsInside' /\ Contents'
  BY <1>6 DEF Rename
<1>7. ASSUME NEW i \in Install, Fails(i) \/ Kill(i) PROVE RowsInside' /\ Contents'
  BY <1>7 DEF Fails, Kill
<1>8. CASE PowerCut
  BY <1>8 DEF PowerCut
<1>9. CASE Edit
  <2>1. PICK k \in Kind : disk' = Saved(edits + 1, k)
    BY <1>9 DEF Edit
  <2>2. disk'.whole /\ disk'.synced
    BY <2>1, SavedFields
  <2>3. pc' = pc /\ text' = text /\ temporary' = temporary
    BY <1>9 DEF Edit
  <2>4. RowsInside'
    BY <2>3
  <2>5. Contents'
    BY <2>2, <2>3
  <2> QED
    BY <2>4, <2>5
<1>10. CASE UNCHANGED vars
  BY <1>10 DEF vars
<1> QED
  BY <1>1, <1>2, <1>3, <1>4, <1>5, <1>6, <1>7, <1>8, <1>9, <1>10 DEF Next

(* Every step keeps what an install works from fresh.                      *)
LEMMA NextFresh ==
  ASSUME "unreadable" \notin Kind
  PROVE  WriterInv /\ disk.kind # "unreadable" /\ Fresh /\ [Next]_vars => Fresh'
<1> SUFFICES ASSUME WriterInv, disk.kind # "unreadable", Fresh, [Next]_vars
             PROVE  Fresh'
  OBVIOUS
<1> USE DEF WriterInv, TypeOK, RowsInside, Contents, Fresh, Replacing, Goto
<1>1. ASSUME NEW i \in Install, Read(i) PROVE Fresh'
  <2>1. pc' = [pc EXCEPT ![i] = pc'[i]] /\ text' = [text EXCEPT ![i] = disk]
        /\ pc'[i] \notin {"create", "write", "sync", "rename"}
    BY <1>1 DEF Read
  <2>2. disk' = disk /\ edits' = edits /\ rechecked' = rechecked
    BY <1>1 DEF Read
  <2>3. \A j \in Install : j # i => pc'[j] = pc[j] /\ text'[j] = text[j]
    BY <2>1
  <2> QED
    BY <2>1, <2>2, <2>3
<1>2. ASSUME NEW i \in Install, Recheck(i) PROVE Fresh'
  <2>1. pc' = [pc EXCEPT ![i] = pc'[i]] /\ pc'[i] \in {"create", "failed"}
        /\ (pc'[i] = "create" => disk = text[i])
    BY <1>2 DEF Recheck, ReadAgain
  <2>2. pc'[i] = "create" => text[i].edit = edits
    <3>1. pc[i] = "recheck" /\ text[i].kind = "plain"
      BY <1>2 DEF Recheck
    <3> QED
      BY <2>1, <3>1
  <2>3. /\ disk' = disk /\ edits' = edits /\ text' = text
        /\ rechecked' = [rechecked EXCEPT ![i] = edits]
    BY <1>2 DEF Recheck
  <2>4. \A j \in Install : j # i => pc'[j] = pc[j] /\ rechecked'[j] = rechecked[j]
    BY <2>1, <2>3
  <2>5. rechecked'[i] = edits
    BY <2>3
  <2> QED
    BY <2>1, <2>2, <2>3, <2>4, <2>5
<1>3. ASSUME NEW i \in Install, Create(i) PROVE Fresh'
  BY <1>3 DEF Create
<1>4. ASSUME NEW i \in Install, WriteAll(i) PROVE Fresh'
  BY <1>4 DEF WriteAll
<1>5. ASSUME NEW i \in Install, Sync(i) PROVE Fresh'
  BY <1>5 DEF Sync
<1>6. ASSUME NEW i \in Install, Rename(i) PROVE Fresh'
  BY <1>6 DEF Rename
<1>7. ASSUME NEW i \in Install, Fails(i) \/ Kill(i) PROVE Fresh'
  BY <1>7 DEF Fails, Kill
<1>8. CASE PowerCut
  BY <1>8 DEF PowerCut
<1>9. CASE Edit
  <2>1. PICK k \in Kind : disk' = Saved(edits + 1, k)
    BY <1>9 DEF Edit
  <2>2. disk'.edit = edits + 1
    BY <2>1 DEF Saved
  <2>4. ~disk'.rows
    BY <2>1 DEF Saved
  <2>3. edits' = edits + 1 /\ pc' = pc /\ text' = text /\ rechecked' = rechecked
    BY <1>9 DEF Edit
  <2> QED
    BY <2>2, <2>3, <2>4
<1>10. CASE UNCHANGED vars
  BY <1>10 DEF vars
<1> QED
  BY <1>1, <1>2, <1>3, <1>4, <1>5, <1>6, <1>7, <1>8, <1>9, <1>10 DEF Next

(* Files people can read stay files the install can read.                  *)
LEMMA Readable ==
  ASSUME "unreadable" \notin Kind
  PROVE  /\ Init => disk.kind # "unreadable"
         /\ WriterInv /\ disk.kind # "unreadable" /\ [Next]_vars =>
              disk'.kind # "unreadable"
<1>1. Init => disk.kind # "unreadable"
  BY DEF Init, EmptyFile, Saved
<1>2. ASSUME WriterInv, disk.kind # "unreadable", [Next]_vars
      PROVE  disk'.kind # "unreadable"
  <2>1. ASSUME NEW i \in Install, Rename(i) PROVE disk'.kind # "unreadable"
    BY <1>2, <2>1 DEF Rename, Goto, WriterInv, RowsInside
  <2>2. CASE Edit
    BY <2>2 DEF Edit, Saved
  <2>3. CASE PowerCut
    BY <1>2, <2>3 DEF PowerCut, WriterInv, Contents
  <2>4. CASE disk' = disk
    BY <1>2, <2>4
  <2> QED
    BY <1>2, <2>1, <2>2, <2>3, <2>4
       DEF Next, vars, Read, Recheck, Create, WriteAll, Sync, Fails, Kill
<1> QED
  BY <1>1, <1>2

(* The types and the contents, throughout.                                 *)
LEMMA WriterInvariant == Spec => []WriterInv
<1>1. WriterInv /\ [Next]_vars => WriterInv'
  BY NextWriterTypes, NextContents DEF WriterInv
<1>2. Init => WriterInv
  BY InitWriter
<1> QED
  BY <1>1, <1>2, PTL DEF Spec

(* The types, for any installs, edits and faults.                          *)
THEOREM WriterTypes == Spec => []TypeOK
<1>1. WriterInv => TypeOK
  BY DEF WriterInv
<1> QED
  BY WriterInvariant, <1>1, PTL

(* No half file is ever in place (sidebar.rs:142-147).                     *)
THEOREM NoHalfFile == Spec => []NothingHalfWritten
<1>1. WriterInv => NothingHalfWritten
  BY DEF WriterInv, Contents, NothingHalfWritten
<1> QED
  BY WriterInvariant, <1>1, PTL

(* What was saved before the recheck is kept (sidebar.rs:130-137), as long *)
(* as the file can be read.                                                *)
THEOREM EditsAreKept ==
  ASSUME "unreadable" \notin Kind
  PROVE  Spec => RecheckKeepsEdits
<1> DEFINE Kept ==
      \A i \in Install :
        pc[i] # "written" /\ pc'[i] = "written" =>
          disk.edit <= text[i].edit \/ disk.edit > rechecked[i]
           Can == disk.kind # "unreadable"
<1>1. WriterInv /\ Fresh /\ [Next]_vars => [Kept]_vars
  <2> SUFFICES ASSUME WriterInv, Fresh, Next, NEW i \in Install,
                      pc[i] # "written", pc'[i] = "written"
               PROVE  disk.edit <= text[i].edit \/ disk.edit > rechecked[i]
    OBVIOUS
  <2>1. Replacing(i)
    BY DEF Next, Read, Recheck, Create, WriteAll, Sync, Rename, Fails, Kill, PowerCut,
           Edit, Goto, WriterInv, TypeOK, Replacing
  <2>2. text[i].edit = rechecked[i]
    BY <2>1 DEF Fresh
  <2>3. disk.edit \in Int /\ rechecked[i] \in Int
    <3>1. disk \in File /\ rechecked[i] \in 0 .. MaxEdits
      BY DEF WriterInv, TypeOK
    <3>2. disk.edit \in 0 .. MaxEdits
      BY <3>1 DEF File
    <3> QED
      BY <3>1, <3>2
  <2> QED
    BY <2>2, <2>3
<1>2. WriterInv /\ Can /\ Fresh /\ [Next]_vars => Fresh' /\ Can'
  BY NextFresh, Readable
<1>3. Init => Fresh /\ Can
  BY InitWriter, Readable
<1> QED
  BY WriterInvariant, <1>1, <1>2, <1>3, PTL DEF Spec, RecheckKeepsEdits
-----------------------------------------------------------------------------
(* Layouts stand.                                                          *)

(* A text that was not touched since an install rechecked it is the one    *)
(* the install read, which has no layout.                                  *)
Untouched ==
  \A i \in Install :
    /\ rechecked[i] <= edits
    /\ Replacing(i) /\ ~disk.rows /\ disk.edit = rechecked[i] =>
         disk.kind = "plain"

LEMMA Numbers ==
  ASSUME WriterInv
  PROVE  edits \in Int /\ \A i \in Install : rechecked[i] \in Int
<1>1. edits \in 0 .. MaxEdits /\ rechecked \in [Install -> 0 .. MaxEdits]
  BY DEF WriterInv, TypeOK
<1>2. ASSUME NEW i \in Install PROVE rechecked[i] \in Int
  <2>1. rechecked[i] \in 0 .. MaxEdits
    BY <1>1
  <2> QED
    BY <2>1
<1> QED
  BY <1>1, <1>2

LEMMA NextUntouched ==
  ASSUME WriterInv, disk.kind # "unreadable", Untouched, [Next]_vars
  PROVE  Untouched'
<1>1. /\ pc \in [Install -> {"read", "recheck", "create", "write", "sync",
                           "rename", "written", "already set", "failed",
                           "killed"}]
      /\ rechecked \in [Install -> 0 .. MaxEdits]
  BY DEF WriterInv, TypeOK
<1>2. ASSUME NEW i \in Install, Recheck(i) PROVE Untouched'
  <2>1. /\ pc' = [pc EXCEPT ![i] = pc'[i]] /\ pc[i] = "recheck"
        /\ pc'[i] = "create" => disk = text[i]
        /\ pc'[i] \in {"create", "failed"}
        /\ rechecked' = [rechecked EXCEPT ![i] = edits]
        /\ UNCHANGED <<disk, edits>>
    BY <1>1, <1>2 DEF Recheck, ReadAgain, Goto
  <2>2. pc'[i] = "create" => disk.kind = "plain"
    BY <2>1 DEF WriterInv, RowsInside
  <2>3. ASSUME NEW j \in Install
        PROVE  /\ rechecked'[j] <= edits'
               /\ Replacing(j)' /\ ~disk'.rows /\ disk'.edit = rechecked'[j] =>
                    disk'.kind = "plain"
    <3>1. CASE j = i
      <4>1. rechecked'[j] = edits /\ edits' = edits /\ disk' = disk /\ edits \in Int
        BY <1>1, <2>1, <3>1, Numbers
      <4>2. Replacing(j)' => disk.kind = "plain"
        BY <2>1, <2>2, <3>1 DEF Replacing
      <4> QED
        BY <4>1, <4>2
    <3>2. CASE j # i
      <4>1. pc'[j] = pc[j] /\ rechecked'[j] = rechecked[j]
        BY <1>1, <2>1, <3>2
      <4>2. QED
        BY <2>1, <4>1 DEF Untouched, Replacing
    <3>3. QED
      BY <3>1, <3>2
  <2>4. QED
    BY <2>3 DEF Untouched
<1>3. ASSUME NEW i \in Install, Rename(i) PROVE Untouched'
  <2>1. disk'.rows /\ UNCHANGED <<edits, rechecked>>
    BY <1>3 DEF Rename, Goto, WriterInv, RowsInside
  <2>2. QED
    BY <2>1 DEF Untouched
<1>4. CASE Edit
  <2>1. disk'.edit = edits + 1 /\ edits' = edits + 1 /\ UNCHANGED rechecked
    BY <1>4 DEF Edit, Saved
  <2>2. ASSUME NEW i \in Install
        PROVE  rechecked'[i] <= edits' /\ disk'.edit # rechecked'[i]
    <3>1. rechecked[i] \in Int /\ edits \in Int /\ rechecked[i] <= edits
      BY Numbers DEF Untouched
    <3>2. QED
      BY <2>1, <3>1
  <2>3. QED
    BY <2>2 DEF Untouched
<1>5. CASE PowerCut
  BY <1>5 DEF PowerCut, Untouched, Replacing
<1>6. ASSUME NEW i \in Install,
             \/ Read(i) \/ Create(i) \/ WriteAll(i) \/ Sync(i)
             \/ Fails(i) \/ Kill(i)
      PROVE  Untouched'
  <2>1. UNCHANGED <<disk, edits, rechecked>>
    BY <1>6 DEF Read, Create, WriteAll, Sync, Fails, Kill
  <2>2. \A j \in Install : Replacing(j)' => Replacing(j)
    BY <1>1, <1>6
    DEF Read, Create, WriteAll, Sync, Fails, Kill, Goto, Replacing
  <2>3. QED
    BY <2>1, <2>2 DEF Untouched
<1>7. CASE UNCHANGED vars
  BY <1>7 DEF vars, Untouched, Replacing
<1>8. QED
  BY <1>2, <1>3, <1>4, <1>5, <1>6, <1>7 DEF Next

(***************************************************************************)
(* No install replaces a layout, or a text that does not parse, that was   *)
(* there at its recheck (sidebar.rs:101-111, 218-241), for any number of   *)
(* installs, as long as the file can be read.                              *)
(***************************************************************************)
THEOREM LayoutsAreLeft ==
  ASSUME "unreadable" \notin Kind
  PROVE  Spec => LayoutsStand
<1> DEFINE Left ==
      \A i \in Install :
        pc[i] # "written" /\ pc'[i] = "written" =>
          disk.kind = "plain" \/ disk.rows \/ disk.edit > rechecked[i]
           Can == disk.kind # "unreadable"
<1>1. WriterInv /\ Fresh /\ Untouched /\ [Next]_vars => [Left]_vars
  <2> SUFFICES ASSUME WriterInv, Fresh, Untouched, Next, NEW i \in Install,
                      pc[i] # "written", pc'[i] = "written",
                      ~disk.rows, ~(disk.edit > rechecked[i])
               PROVE  disk.kind = "plain"
    OBVIOUS
  <2>1. Replacing(i)
    BY DEF Next, Read, Recheck, Create, WriteAll, Sync, Rename, Fails, Kill, PowerCut,
           Edit, Goto, WriterInv, TypeOK, Replacing
  <2>2. disk.edit = edits /\ rechecked[i] <= edits
    BY DEF Fresh, Untouched
  <2>3. edits \in Int /\ rechecked[i] \in Int
    BY Numbers
  <2>4. disk.edit = rechecked[i]
    BY <2>2, <2>3
  <2>5. QED
    BY <2>1, <2>4 DEF Untouched
<1>2. /\ WriterInv /\ Can /\ Fresh /\ [Next]_vars => Fresh' /\ Can'
      /\ WriterInv /\ Can /\ Untouched /\ [Next]_vars => Untouched'
  BY NextFresh, NextUntouched, Readable
<1>3. Init => Fresh /\ Can /\ Untouched
  BY InitWriter, Readable DEF Init, Untouched, Replacing
<1> QED
  BY WriterInvariant, <1>1, <1>2, <1>3, PTL DEF Spec, LayoutsStand
=============================================================================
