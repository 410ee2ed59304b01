------------------------------ MODULE LXMFFiles ------------------------------
(***************************************************************************)
(* How the package keeps a file: WriteToDirectory and ReadFromFile of a    *)
(* message container (container.go), SaveConfig, WriteDefaultConfigFile    *)
(* and LoadConfig of the configuration (config.go).  All three writers     *)
(* call os.WriteFile on the fixed name full + ".tmp" and rename it.        *)
(*                                                                         *)
(* The file system is external and modelled by what the code's calls do:   *)
(* names refer to inodes, opening with O_TRUNC empties the inode that the  *)
(* name refers to, a write goes to the inode that was opened, at the       *)
(* writer's offset, and a rename moves the name.  The bytes of a content   *)
(* are Size pieces; a piece is represented by the content it belongs to.   *)
(***************************************************************************)
EXTENDS Naturals, Sequences

CONSTANTS
  Saves,    \* calls of one writer, all for the same path
  Loads,    \* calls of its reader
  Data,     \* contents
  DataOf,   \* DataOf[s]: the bytes PackContainer or WriteConfig gave the save
  Size,     \* Size[d]: the number of pieces in which d is written and read
  NoFile,   \* no content, no inode
  Old,      \* the inode of a file that an earlier run of the process left
  Hole      \* bytes that were never written

ASSUME FilesAssumption ==
  /\ DataOf \in [Saves -> Data]
  /\ Size \in [Data -> Nat \ {0}]
  /\ NoFile \notin Data \union Saves \union {Old}
  /\ Old \notin Saves
  /\ Hole \notin Data

VARIABLES
  kind,     \* the files are written by "container" or by "config" functions
  full,     \* the inode under the final name, NoFile if there is none
  tmp,      \* the inode under the temporary name
  bytes,    \* bytes[i]: the content of inode i
  save,     \* save[s]: where the save is
  fd,       \* fd[s]: the inode os.WriteFile has opened
  off,      \* off[s]: the pieces it has written
  load,     \* load[l]: where the load is
  rfd,      \* rfd[l]: the inode the load has opened
  got,      \* got[l]: the pieces it has read
  rivals    \* history: two saves were in progress at the same time

vars == <<kind, full, tmp, bytes, save, fd, off, load, rfd, got, rivals>>
writer == <<save, fd, off, rivals>>
reader == <<load, rfd, got>>

\* A save that creates the temporary file gets an inode of its own.
Inodes == Saves \union {Old}

Whole(d) == [i \in 1..Size[d] |-> d]
IsWhole(b) == \E d \in Data : b = Whole(d)

\* Piece d at position n + 1 of b, with a hole where b ends before it.
WriteAt(b, n, d) ==
  [i \in 1..(IF Len(b) > n THEN Len(b) ELSE n + 1) |->
     IF i = n + 1 THEN d ELSE IF i <= Len(b) THEN b[i] ELSE Hole]

Init ==
  /\ kind \in {"container", "config"}
  /\ \/ full = NoFile /\ bytes = [i \in Inodes |-> <<>>]
     \/ full = Old /\ \E d \in Data : bytes = [i \in Inodes |-> IF i = Old THEN Whole(d) ELSE <<>>]
  /\ tmp = NoFile
  /\ save = [s \in Saves |-> "idle"]
  /\ fd = [s \in Saves |-> NoFile]
  /\ off = [s \in Saves |-> 0]
  /\ load = [l \in Loads |-> "idle"]
  /\ rfd = [l \in Loads |-> NoFile]
  /\ got = [l \in Loads |-> <<>>]
  /\ rivals = FALSE

-----------------------------------------------------------------------------
(* WriteToDirectory, SaveConfig, WriteDefaultConfigFile                      *)

Busy == {s \in Saves : save[s] = "writing"}

\* The message is nil, unpacked or has no hash, or the temporary file cannot
\* be opened: the call returns an error before it has changed anything.
Refused(s) ==
  /\ save[s] = "idle"
  /\ save' = [save EXCEPT ![s] = "failed"]
  /\ UNCHANGED <<kind, full, tmp, bytes, fd, off, reader, rivals>>

\* Mutant: opened without O_TRUNC, what a dead save left stays behind.
OpenTmpKeeps(s) ==
  /\ save[s] = "idle"
  /\ LET i == IF tmp = NoFile THEN s ELSE tmp IN tmp' = i /\ fd' = [fd EXCEPT ![s] = i]
  /\ save' = [save EXCEPT ![s] = "writing"]
  /\ rivals' = (rivals \/ Busy # {})
  /\ UNCHANGED <<kind, full, bytes, off, reader>>

\* os.WriteFile opens the temporary name with O_CREATE and O_TRUNC.
OpenTmp(s) ==
  /\ save[s] = "idle"
  /\ LET i == IF tmp = NoFile THEN s ELSE tmp IN
       /\ tmp' = i
       /\ bytes' = [bytes EXCEPT ![i] = <<>>]
       /\ fd' = [fd EXCEPT ![s] = i]
  /\ save' = [save EXCEPT ![s] = "writing"]
  /\ rivals' = (rivals \/ Busy # {})
  /\ UNCHANGED <<kind, full, off, reader>>

\* The bytes reach the opened inode, in one write or in several.
WritePiece(s) ==
  /\ save[s] = "writing"
  /\ off[s] < Size[DataOf[s]]
  /\ bytes' = [bytes EXCEPT ![fd[s]] = WriteAt(@, off[s], DataOf[s])]
  /\ off' = [off EXCEPT ![s] = @ + 1]
  /\ UNCHANGED <<kind, full, tmp, save, fd, reader, rivals>>

\* A write or the close fails: the temporary file stays behind.
WriteFails(s) ==
  /\ save[s] = "writing"
  /\ save' = [save EXCEPT ![s] = "failed"]
  /\ UNCHANGED <<kind, full, tmp, bytes, fd, off, reader, rivals>>

Rename(s) ==
  /\ save[s] = "writing"
  /\ off[s] = Size[DataOf[s]]
  /\ tmp # NoFile
  /\ full' = tmp
  /\ tmp' = NoFile
  /\ save' = [save EXCEPT ![s] = "ok"]
  /\ UNCHANGED <<kind, bytes, fd, off, reader, rivals>>

\* Mutant: the clean-up removes the final name.
RenameFailsFull(s) ==
  /\ save[s] = "writing"
  /\ off[s] = Size[DataOf[s]]
  /\ save' = [save EXCEPT ![s] = "failed"]
  /\ full' \in (IF kind = "container" THEN {full, NoFile} ELSE {full})
  /\ UNCHANGED <<kind, tmp, bytes, fd, off, reader, rivals>>

\* The rename fails, for one because another save has moved the temporary
\* name.  WriteToDirectory then removes it and ignores a failure to do so; the
\* configuration's writers leave it.
RenameFails(s) ==
  /\ save[s] = "writing"
  /\ off[s] = Size[DataOf[s]]
  /\ save' = [save EXCEPT ![s] = "failed"]
  /\ tmp' \in (IF kind = "container" THEN {tmp, NoFile} ELSE {tmp})
  /\ UNCHANGED <<kind, full, bytes, fd, off, reader, rivals>>

-----------------------------------------------------------------------------
(* ReadFromFile, LoadConfig                                                  *)

\* A load that finds no file returns the error at once.
OpenFull(l) ==
  /\ load[l] = "idle"
  /\ load' = [load EXCEPT ![l] = IF full = NoFile THEN "absent" ELSE "reading"]
  /\ rfd' = [rfd EXCEPT ![l] = full]
  /\ UNCHANGED <<kind, full, tmp, bytes, got, writer>>

ReadPiece(l) ==
  /\ load[l] = "reading"
  /\ Len(got[l]) < Len(bytes[rfd[l]])
  /\ got' = [got EXCEPT ![l] = Append(@, bytes[rfd[l]][Len(@) + 1])]
  /\ UNCHANGED <<kind, full, tmp, bytes, load, rfd, writer>>

\* At the end of the file the bytes are decoded: of a container that is not
\* whole UnpackContainer makes an error, of a configuration that is not whole
\* ParseConfig makes an error or another configuration.
ReadEnds(l) ==
  /\ load[l] = "reading"
  /\ Len(got[l]) >= Len(bytes[rfd[l]])
  /\ load' = [load EXCEPT ![l] = IF IsWhole(got[l]) THEN "loaded" ELSE "torn"]
  /\ UNCHANGED <<kind, full, tmp, bytes, rfd, got, writer>>

-----------------------------------------------------------------------------
\* The process dies; what was written stays, and the saves and loads that have
\* not begun are those of the process that is started next.
Crash ==
  /\ save' = [s \in Saves |-> IF save[s] = "writing" THEN "dead" ELSE save[s]]
  /\ load' = [l \in Loads |-> IF load[l] = "reading" THEN "dead" ELSE load[l]]
  /\ UNCHANGED <<kind, full, tmp, bytes, fd, off, rfd, got, rivals>>

SaveStep(s) ==
  \/ Refused(s)
  \/ OpenTmp(s)
  \/ WritePiece(s)
  \/ WriteFails(s)
  \/ Rename(s)
  \/ RenameFails(s)

LoadStep(l) ==
  \/ OpenFull(l)
  \/ ReadPiece(l)
  \/ ReadEnds(l)

Next ==
  \/ \E s \in Saves : SaveStep(s)
  \/ \E l \in Loads : LoadStep(l)
  \/ Crash

Spec == Init /\ [][Next]_vars

-----------------------------------------------------------------------------
(* Properties                                                                *)

Pieces == Data \union {Hole}

\* The variables have their types, and no writer is past the end of its data.
TypeOK ==
  /\ kind \in {"container", "config"}
  /\ full \in Inodes \union {NoFile}
  /\ tmp \in Inodes \union {NoFile}
  /\ bytes \in [Inodes -> Seq(Pieces)]
  /\ save \in [Saves -> {"idle", "writing", "ok", "failed", "dead"}]
  /\ fd \in [Saves -> Inodes \union {NoFile}]
  /\ off \in [Saves -> Nat]
  /\ \A s \in Saves : off[s] <= Size[DataOf[s]]
  /\ load \in [Loads -> {"idle", "absent", "reading", "loaded", "torn", "dead"}]
  /\ rfd \in [Loads -> Inodes \union {NoFile}]
  /\ got \in [Loads -> Seq(Pieces)]
  /\ rivals \in BOOLEAN

\* The content that a load makes of bytes: their first piece stands for them.
ContentOf(b) == IF IsWhole(b) THEN b[1] ELSE Hole

FileSeen == IF full = NoFile THEN NoFile ELSE ContentOf(bytes[full])
SaveSeen == [s \in Saves |-> IF save[s] = "writing" THEN "busy" ELSE save[s]]
LoadSeen == [l \in Loads |->
  CASE load[l] = "idle"    -> <<"idle", NoFile>>
    [] load[l] = "absent"  -> <<"done", NoFile>>
    [] load[l] = "reading" -> <<"busy", ContentOf(bytes[rfd[l]])>>
    [] load[l] = "dead"    -> <<"dead", NoFile>>
    [] OTHER               -> <<"done", ContentOf(got[l])>>]

Abstract == INSTANCE AtomicFile WITH file <- FileSeen, save <- SaveSeen, load <- LoadSeen

\* The promise of the comments "atomically": until two saves of the file
\* overlap, every failure and every death of the process between the steps of
\* os.WriteFile and os.Rename leaves the old content or the new one, a save
\* that fails has changed nothing, and a load sees one whole content although
\* it reads while the file is replaced.
Atomic == Abstract!Spec

\* A file that exists is never missing, not even when saves overlap: os.Rename
\* replaces it in one step and the clean-up after a failed rename removes the
\* temporary name only.
NeverMissing == [][full # NoFile => full' # NoFile]_vars
=============================================================================
