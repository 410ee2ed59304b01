--------------------------- MODULE LXMFFilesProofs ---------------------------
(***************************************************************************)
(* LXMFFiles implements AtomicFile, for every number of saves and loads    *)
(* and every size of contents.                                             *)
(*                                                                         *)
(* Atomicity is not inductive: it rests on what is under the temporary     *)
(* name.  The invariant says that as long as no two saves have overlapped  *)
(* there is one writer, that it has filled the temporary file up to its    *)
(* offset, that nobody reads this inode and the final name is not a name   *)
(* of it, and that every inode that is read is whole.                      *)
(*                                                                         *)
(* Then the sizes and the formats of what is sent and stored: which method *)
(* and representation a size leads to, that a payload comes back from its  *)
(* paper URI, and a message from its container.                            *)
(***************************************************************************)
EXTENDS LXMFStored, TLAPS

-----------------------------------------------------------------------------
(* The inductive invariant                                                   *)

Filled(d, n) == [i \in 1..n |-> d]

\* What is open has an inode.
Opened ==
  /\ \A s \in Saves : save[s] = "writing" => fd[s] \in Inodes
  /\ \A l \in Loads : load[l] = "reading" => rfd[l] \in Inodes

\* The inode that a save would create is not there before.
Unused ==
  \A s \in Saves : save[s] = "idle" =>
    /\ off[s] = 0
    /\ full # s /\ tmp # s
    /\ \A l \in Loads : load[l] = "reading" => rfd[l] # s

\* The one writer has filled the temporary file up to its offset.
OneWriter ==
  /\ \A s, t \in Saves : save[s] = "writing" /\ save[t] = "writing" => s = t
  /\ \A s \in Saves : save[s] = "writing" =>
       tmp = fd[s] /\ bytes[tmp] = Filled(DataOf[s], off[s])

\* Nobody reads the temporary file, and the final name is not a name of it.
TmpApart ==
  tmp # NoFile => /\ tmp # full
                  /\ \A l \in Loads : load[l] = "reading" => rfd[l] # tmp

\* A load has the beginning of a whole file, or all of it.
LoadWhole(l) ==
  /\ load[l] = "reading" =>
       /\ IsWhole(bytes[rfd[l]])
       /\ Len(got[l]) <= Len(bytes[rfd[l]])
       /\ \A i \in 1..Len(got[l]) : got[l][i] = bytes[rfd[l]][i]
  /\ load[l] = "idle" => got[l] = <<>>
  /\ load[l] # "torn"
  /\ load[l] = "loaded" => IsWhole(got[l])

\* The file is whole, and so is every file that is being read.
ReadersWhole ==
  /\ full # NoFile => IsWhole(bytes[full])
  /\ \A l \in Loads : LoadWhole(l)

Inv == TypeOK /\ Opened /\ Unused /\ (~rivals => OneWriter /\ TmpApart /\ ReadersWhole)

-----------------------------------------------------------------------------
(* Contents                                                                  *)

LEMMA FilledSeq ==
  ASSUME NEW d \in Data, NEW n \in Nat
  PROVE  /\ Filled(d, n) \in Seq(Pieces)
         /\ Len(Filled(d, n)) = n
         /\ \A i \in 1..n : Filled(d, n)[i] = d
BY DEF Filled, Pieces

\* Writing at the end of a filled file fills it further.
LEMMA WriteAtEnd ==
  ASSUME NEW d \in Data, NEW n \in Nat
  PROVE  WriteAt(Filled(d, n), n, d) = Filled(d, n + 1)
BY FilledSeq DEF WriteAt, Filled

LEMMA WriteAtSeq ==
  ASSUME NEW b \in Seq(Pieces), NEW n \in Nat, NEW d \in Data
  PROVE  WriteAt(b, n, d) \in Seq(Pieces)
<1>1. DEFINE m == IF Len(b) > n THEN Len(b) ELSE n + 1
<1>2. m \in Nat
  OBVIOUS
<1>3. \A i \in 1..m : (IF i = n + 1 THEN d ELSE IF i <= Len(b) THEN b[i] ELSE Hole) \in Pieces
  BY DEF Pieces
<1> QED BY <1>2, <1>3 DEF WriteAt

LEMMA WholeFilled ==
  ASSUME NEW d \in Data
  PROVE  /\ Whole(d) = Filled(d, Size[d])
         /\ Size[d] \in Nat \ {0}
         /\ IsWhole(Whole(d))
         /\ ContentOf(Whole(d)) = d
<1>1. Whole(d) = Filled(d, Size[d]) /\ Size[d] \in Nat \ {0}
  BY FilesAssumption DEF Whole, Filled
<1>2. IsWhole(Whole(d))
  BY DEF IsWhole
<1>3. Whole(d)[1] = d
  BY <1>1, FilledSeq
<1> QED BY <1>1, <1>2, <1>3 DEF ContentOf

\* A content is read as a content.
LEMMA WholeIsData ==
  ASSUME NEW b, IsWhole(b)
  PROVE  b \in Seq(Pieces) /\ ContentOf(b) \in Data
<1>1. PICK d \in Data : b = Whole(d)
  BY DEF IsWhole
<1> QED BY <1>1, WholeFilled, FilledSeq

-----------------------------------------------------------------------------
(* The invariant                                                             *)

LEMMA InitInv == Init => Inv
<1> SUFFICES ASSUME Init PROVE Inv
  OBVIOUS
<1>1. \A d \in Data : Whole(d) \in Seq(Pieces)
  BY WholeFilled, FilledSeq
<1>2. <<>> \in Seq(Pieces)
  OBVIOUS
<1>3. TypeOK
  <2>1. bytes \in [Inodes -> Seq(Pieces)] /\ full \in Inodes \union {NoFile}
    BY ZenonT(30), <1>1, <1>2 DEF Init, Inodes
  <2>2. \A s \in Saves : 0 <= Size[DataOf[s]]
    BY FilesAssumption
  <2>3. off \in [Saves -> Nat] /\ \A s \in Saves : off[s] <= Size[DataOf[s]]
    BY <2>2 DEF Init
  <2>4. got \in [Loads -> Seq(Pieces)]
    BY <1>2 DEF Init
  <2> QED BY ZenonT(30), <2>1, <2>3, <2>4 DEF Init, TypeOK
<1>4. Opened /\ Unused
  BY FilesAssumption DEF Init, Opened, Unused, Inodes
<1>5. OneWriter /\ TmpApart
  BY DEF Init, OneWriter, TmpApart
<1>6. full # NoFile => IsWhole(bytes[full])
  BY WholeFilled DEF Init, Inodes
<1>7. ReadersWhole
  BY <1>6 DEF Init, ReadersWhole, LoadWhole
<1> QED BY <1>3, <1>4, <1>5, <1>7 DEF Inv

\* A step of a save keeps the types and what holds with rivals too.
LEMMA SaveTypes ==
  ASSUME TypeOK, Opened, Unused, NEW s \in Saves, SaveStep(s)
  PROVE  TypeOK' /\ Opened' /\ Unused'
<1> USE FilesAssumption
<1>1. CASE Refused(s)
  BY <1>1 DEF Refused, TypeOK, Opened, Unused, reader
<1>2. CASE OpenTmp(s)
  <2>1. PICK i \in Inodes : /\ i = IF tmp = NoFile THEN s ELSE tmp
                            /\ tmp' = i
                            /\ bytes' = [bytes EXCEPT ![i] = <<>>]
                            /\ fd' = [fd EXCEPT ![s] = i]
    BY ZenonT(30), <1>2 DEF OpenTmp, TypeOK, Inodes
  <2>2. bytes' \in [Inodes -> Seq(Pieces)]
    BY <2>1 DEF TypeOK
  <2>3. TypeOK'
    BY <1>2, <2>1, <2>2 DEF OpenTmp, TypeOK, reader
  <2>4. Opened'
    BY <1>2, <2>1 DEF OpenTmp, TypeOK, Opened, reader
  <2>5. Unused'
    BY <1>2, <2>1 DEF OpenTmp, TypeOK, Unused, reader
  <2> QED BY <2>3, <2>4, <2>5
<1>3. CASE WritePiece(s)
  <2>1. fd[s] \in Inodes /\ DataOf[s] \in Data /\ off[s] \in Nat /\ Size[DataOf[s]] \in Nat
    BY <1>3 DEF WritePiece, Opened, TypeOK
  <2>2. WriteAt(bytes[fd[s]], off[s], DataOf[s]) \in Seq(Pieces)
    BY <2>1, WriteAtSeq DEF TypeOK
  <2>3. bytes' \in [Inodes -> Seq(Pieces)]
    BY <1>3, <2>1, <2>2 DEF WritePiece, TypeOK
  <2>4. TypeOK'
    BY <1>3, <2>1, <2>3 DEF WritePiece, TypeOK, reader
  <2>5. Opened' /\ Unused'
    BY <1>3, <2>1 DEF WritePiece, TypeOK, Opened, Unused, reader
  <2> QED BY <2>4, <2>5
<1>4. CASE WriteFails(s)
  BY <1>4 DEF WriteFails, TypeOK, Opened, Unused, reader
<1>5. CASE Rename(s)
  BY <1>5 DEF Rename, TypeOK, Opened, Unused, reader
<1>6. CASE RenameFails(s)
  BY <1>6 DEF RenameFails, TypeOK, Opened, Unused, reader
<1> QED BY <1>1, <1>2, <1>3, <1>4, <1>5, <1>6 DEF SaveStep

LEMMA RivalsStay ==
  ASSUME Inv, [Next]_vars, rivals
  PROVE  rivals'
<1>1. ASSUME NEW s \in Saves, SaveStep(s) PROVE rivals'
  BY ZenonT(30), <1>1 DEF SaveStep, Refused, OpenTmp, WritePiece, WriteFails, Rename, RenameFails
<1>2. ASSUME NEW l \in Loads, LoadStep(l) PROVE rivals'
  BY ZenonT(30), <1>2 DEF LoadStep, OpenFull, ReadPiece, ReadEnds, writer
<1>3. CASE Crash
  BY <1>3 DEF Crash
<1> QED BY ZenonT(30), <1>1, <1>2, <1>3 DEF Next, vars

\* While there are no rivals, a save writes to nothing that is read.
LEMMA SaveApart ==
  ASSUME Inv, NEW s \in Saves, SaveStep(s), ~rivals
  PROVE  /\ full # NoFile => bytes'[full] = bytes[full]
         /\ \A l \in Loads : load[l] = "reading" => bytes'[rfd[l]] = bytes[rfd[l]]
<1> USE FilesAssumption
<1>0. ~rivals
  OBVIOUS
<1>1. CASE UNCHANGED bytes
  BY <1>1
<1>2. CASE OpenTmp(s)
  BY <1>0, <1>2 DEF OpenTmp, Inv, TypeOK, Opened, Unused, TmpApart, Inodes
<1>3. CASE WritePiece(s)
  <2>1. fd[s] \in Inodes /\ fd[s] = tmp /\ tmp # NoFile
    BY <1>0, <1>3 DEF WritePiece, Inv, Opened, OneWriter, Inodes
  <2>2. \A i \in Inodes : i # tmp => bytes'[i] = bytes[i]
    BY <1>3, <2>1 DEF WritePiece, Inv, TypeOK
  <2>3. full # NoFile => full \in Inodes /\ full # tmp
    BY <1>0, <2>1 DEF Inv, TypeOK, TmpApart
  <2>4. \A l \in Loads : load[l] = "reading" => rfd[l] \in Inodes /\ rfd[l] # tmp
    BY <1>0, <2>1 DEF Inv, Opened, TmpApart
  <2> QED BY <1>0, <2>2, <2>3, <2>4
<1> QED
  BY <1>1, <1>2, <1>3 DEF SaveStep, Refused, WriteFails, Rename, RenameFails

LEMMA SaveOneWriter ==
  ASSUME Inv, NEW s \in Saves, SaveStep(s), ~rivals'
  PROVE  OneWriter' /\ TmpApart'
<1> USE FilesAssumption
<1>0. OneWriter /\ TmpApart /\ TypeOK /\ Opened /\ Unused
  BY RivalsStay DEF Inv, Next
<1>1. CASE Refused(s)
  BY <1>0, <1>1 DEF Refused, OneWriter, TmpApart, TypeOK, reader
<1>2. CASE OpenTmp(s)
  <2>1. \A t \in Saves : save[t] # "writing"
    BY ZenonT(30), <1>2 DEF OpenTmp, Busy
  <2>2. tmp' \in Inodes /\ tmp' = fd'[s] /\ bytes'[tmp'] = <<>> /\ off'[s] = 0
    BY <1>0, <1>2 DEF OpenTmp, TypeOK, Unused, Inodes
  <2>3. bytes'[tmp'] = Filled(DataOf[s], 0)
    BY <2>2 DEF Filled
  <2>4. OneWriter'
    BY <1>0, <1>2, <2>1, <2>2, <2>3 DEF OpenTmp, OneWriter, TypeOK
  <2>5. TmpApart'
    BY <1>0, <1>2 DEF OpenTmp, TmpApart, Unused, TypeOK, Opened, reader
  <2> QED BY <2>4, <2>5
<1>3. CASE WritePiece(s)
  <2>1. tmp = fd[s] /\ bytes[tmp] = Filled(DataOf[s], off[s]) /\ fd[s] \in Inodes
    BY <1>0, <1>3 DEF WritePiece, OneWriter, Opened
  <2>2. DataOf[s] \in Data /\ off[s] \in Nat
    BY <1>0 DEF TypeOK
  <2>3. bytes'[tmp] = Filled(DataOf[s], off[s] + 1)
    BY <1>0, <1>3, <2>1, <2>2, WriteAtEnd DEF WritePiece, TypeOK
  <2>4. OneWriter'
    BY <1>0, <1>3, <2>1, <2>3 DEF WritePiece, OneWriter, TypeOK
  <2>5. TmpApart'
    BY <1>0, <1>3 DEF WritePiece, TmpApart, reader
  <2> QED BY <2>4, <2>5
<1>4. CASE WriteFails(s)
  BY <1>0, <1>4 DEF WriteFails, OneWriter, TmpApart, TypeOK, reader
<1>5. CASE Rename(s)
  BY <1>0, <1>5 DEF Rename, OneWriter, TmpApart, TypeOK, reader
<1>6. CASE RenameFails(s)
  BY <1>0, <1>6 DEF RenameFails, OneWriter, TmpApart, TypeOK, reader
<1> QED BY <1>1, <1>2, <1>3, <1>4, <1>5, <1>6 DEF SaveStep

\* What Rename puts under the final name.
LEMMA RenamedWhole ==
  ASSUME Inv, ~rivals, NEW s \in Saves, Rename(s)
  PROVE  full' = tmp /\ tmp \in Inodes /\ bytes'[full'] = Whole(DataOf[s])
<1>1. tmp = fd[s] /\ bytes[tmp] = Filled(DataOf[s], off[s]) /\ off[s] = Size[DataOf[s]]
  BY DEF Rename, Inv, OneWriter
<1>2. DataOf[s] \in Data
  BY FilesAssumption
<1> QED BY <1>1, <1>2, WholeFilled DEF Rename, Inv, Opened

LEMMA SaveReaders ==
  ASSUME Inv, NEW s \in Saves, SaveStep(s), ~rivals'
  PROVE  ReadersWhole'
<1>0. ~rivals /\ ReadersWhole /\ TypeOK /\ Opened
  BY RivalsStay DEF Inv, Next
<1>1. UNCHANGED reader
  BY DEF SaveStep, Refused, OpenTmp, WritePiece, WriteFails, Rename, RenameFails
<1>2. full' # NoFile => IsWhole(bytes'[full'])
  <2>1. CASE Rename(s)
    <3>1. DataOf[s] \in Data
      BY FilesAssumption
    <3> QED BY <1>0, <2>1, <3>1, RenamedWhole, WholeFilled
  <2>2. CASE full' = full
    BY <1>0, <2>2, SaveApart DEF ReadersWhole, LoadWhole
  <2> QED
    BY <2>1, <2>2 DEF SaveStep, Refused, OpenTmp, WritePiece, WriteFails, RenameFails
<1>3. ASSUME NEW l \in Loads
      PROVE  load'[l] = load[l] /\ rfd'[l] = rfd[l] /\ got'[l] = got[l]
             /\ (load[l] = "reading" => bytes'[rfd'[l]] = bytes[rfd[l]])
  BY <1>0, <1>1, SaveApart DEF reader
<1> QED BY <1>0, <1>2, <1>3 DEF ReadersWhole, LoadWhole

\* A load that has come to the end of its file has read all of it.
LEMMA ReadsWhole ==
  ASSUME Inv, ~rivals, NEW l \in Loads, ReadEnds(l)
  PROVE  got[l] = bytes[rfd[l]] /\ IsWhole(got[l])
<1>1. /\ rfd[l] \in Inodes /\ bytes[rfd[l]] \in Seq(Pieces) /\ got[l] \in Seq(Pieces)
      /\ IsWhole(bytes[rfd[l]])
      /\ Len(got[l]) = Len(bytes[rfd[l]])
      /\ \A i \in 1..Len(got[l]) : got[l][i] = bytes[rfd[l]][i]
  BY DEF ReadEnds, Inv, TypeOK, Opened, ReadersWhole, LoadWhole
<1>2. got[l] = bytes[rfd[l]]
  BY <1>1
<1> QED BY <1>1, <1>2

LEMMA LoadInv ==
  ASSUME Inv, NEW l \in Loads, LoadStep(l)
  PROVE  Inv'
<1>1. UNCHANGED <<kind, full, tmp, bytes, writer>>
  BY DEF LoadStep, OpenFull, ReadPiece, ReadEnds
<1>2. CASE OpenFull(l)
  <2>1. TypeOK' /\ Opened' /\ Unused'
    BY <1>1, <1>2 DEF OpenFull, Inv, TypeOK, Opened, Unused, writer
  <2>2. ~rivals' => OneWriter' /\ TmpApart'
    BY SMTT(60), <1>1, <1>2 DEF OpenFull, Inv, OneWriter, TmpApart, TypeOK, writer
  <2>3. ~rivals' => ReadersWhole'
    <3> SUFFICES ASSUME ~rivals' PROVE ReadersWhole'
      OBVIOUS
    <3>1. ~rivals /\ ReadersWhole
      BY SMTT(60), <1>1 DEF Inv, writer
    <3>2. full # NoFile => full \in Inodes /\ Len(bytes[full]) \in Nat
      BY DEF Inv, TypeOK
    <3>3. got[l] = <<>> /\ Len(got[l]) = 0 /\ got' = got /\ bytes' = bytes /\ full' = full
      BY <1>1, <1>2, <3>1 DEF OpenFull, ReadersWhole, LoadWhole
    <3>4. /\ load'[l] = IF full = NoFile THEN "absent" ELSE "reading"
          /\ rfd'[l] = full
          /\ \A k \in Loads \ {l} : load'[k] = load[k] /\ rfd'[k] = rfd[k]
      BY <1>2 DEF OpenFull, Inv, TypeOK
    <3>5. full # NoFile => IsWhole(bytes[full]) /\ 0 <= Len(bytes[full])
      BY <3>1, <3>2 DEF ReadersWhole, LoadWhole
    <3>6. \A k \in Loads \ {l} : LoadWhole(k)'
      BY <3>1, <3>3, <3>4 DEF ReadersWhole, LoadWhole
    <3>7. LoadWhole(l)'
      BY <3>3, <3>4, <3>5 DEF LoadWhole
    <3> QED BY <3>1, <3>3, <3>6, <3>7 DEF ReadersWhole
  <2> QED BY <2>1, <2>2, <2>3 DEF Inv
<1>3. CASE ReadPiece(l)
  <2> DEFINE b == bytes[rfd[l]]
             g == got[l]
  <2>1. /\ b \in Seq(Pieces) /\ g \in Seq(Pieces) /\ Len(g) < Len(b)
        /\ got' = [got EXCEPT ![l] = Append(g, b[Len(g) + 1])]
        /\ load' = load /\ rfd' = rfd
    BY <1>3 DEF ReadPiece, Inv, TypeOK, Opened
  <2>2. Append(g, b[Len(g) + 1]) \in Seq(Pieces)
    BY <2>1
  <2>3. TypeOK'
    BY SMTT(60), <1>1, <2>1, <2>2 DEF Inv, TypeOK, writer
  <2>4. Opened' /\ Unused'
    BY SMTT(60), <1>1, <2>1 DEF Inv, Opened, Unused, writer
  <2>5. ~rivals' => OneWriter' /\ TmpApart'
    BY SMTT(60), <1>1, <2>1 DEF Inv, OneWriter, TmpApart, writer
  <2>6. ~rivals' => ReadersWhole'
    <3> SUFFICES ASSUME ~rivals' PROVE ReadersWhole'
      OBVIOUS
    <3>1. ReadersWhole /\ load[l] = "reading"
      BY <1>1, <1>3 DEF Inv, writer, ReadPiece
    <3>2. got'[l] = Append(g, b[Len(g) + 1]) /\ \A k \in Loads \ {l} : got'[k] = got[k]
      BY <2>1 DEF Inv, TypeOK
    <3>3. Len(got'[l]) <= Len(b) /\ \A i \in 1..Len(got'[l]) : got'[l][i] = b[i]
      BY SMTT(60), <2>1, <3>1, <3>2 DEF ReadersWhole, LoadWhole
    <3> QED BY SMTT(60), <1>1, <2>1, <3>1, <3>2, <3>3 DEF ReadersWhole, LoadWhole
  <2> QED BY <2>3, <2>4, <2>5, <2>6 DEF Inv
<1>4. CASE ReadEnds(l)
  <2>1. TypeOK' /\ Opened' /\ Unused'
    BY SMTT(60), <1>1, <1>4 DEF ReadEnds, Inv, TypeOK, Opened, Unused, writer
  <2>2. ~rivals' => OneWriter' /\ TmpApart'
    BY SMTT(60), <1>1, <1>4 DEF ReadEnds, Inv, OneWriter, TmpApart, TypeOK, writer
  <2>3. ~rivals' => ReadersWhole'
    <3> SUFFICES ASSUME ~rivals' PROVE ReadersWhole'
      OBVIOUS
    <3>1. ~rivals /\ ReadersWhole
      BY SMTT(60), <1>1 DEF Inv, writer
    <3>2. got[l] = bytes[rfd[l]] /\ IsWhole(got[l])
      BY <1>4, <3>1, ReadsWhole
    <3> QED BY <1>1, <1>4, <3>1, <3>2 DEF ReadEnds, ReadersWhole, LoadWhole, Inv, TypeOK
  <2> QED BY <2>1, <2>2, <2>3 DEF Inv
<1> QED BY <1>2, <1>3, <1>4 DEF LoadStep

LEMMA CrashInv ==
  ASSUME Inv, Crash
  PROVE  Inv'
<1>1. UNCHANGED <<kind, full, tmp, bytes, fd, off, rfd, got, rivals>>
  BY DEF Crash
<1>2. \A s \in Saves : save'[s] = IF save[s] = "writing" THEN "dead" ELSE save[s]
  BY DEF Crash
<1>3. \A l \in Loads : load'[l] = IF load[l] = "reading" THEN "dead" ELSE load[l]
  BY DEF Crash
<1>4. TypeOK'
  BY SMTT(60), <1>1 DEF Crash, Inv, TypeOK
<1>5. Opened' /\ Unused'
  BY <1>1, <1>2, <1>3 DEF Inv, Opened, Unused
<1>6. ~rivals' => OneWriter' /\ TmpApart'
  BY <1>1, <1>2, <1>3 DEF Inv, OneWriter, TmpApart
<1>7. ~rivals' => ReadersWhole'
  BY <1>1, <1>3 DEF Inv, ReadersWhole, LoadWhole
<1> QED BY <1>4, <1>5, <1>6, <1>7 DEF Inv

LEMMA NextInv == Inv /\ [Next]_vars => Inv'
<1> SUFFICES ASSUME Inv, [Next]_vars PROVE Inv'
  OBVIOUS
<1>1. ASSUME NEW s \in Saves, SaveStep(s) PROVE Inv'
  BY SMTT(60), <1>1, SaveTypes, SaveOneWriter, SaveReaders DEF Inv
<1>2. CASE UNCHANGED vars
  BY <1>2 DEF vars, Inv, TypeOK, Opened, Unused, OneWriter, TmpApart, ReadersWhole, LoadWhole
<1> QED BY <1>1, <1>2, LoadInv, CrashInv DEF Next

\* The invariant holds in every reachable state.
THEOREM InvHolds == Spec => []Inv
BY InitInv, NextInv, PTL DEF Spec

\* The variables have their types, and no writer is past the end of its data.
THEOREM TypeCorrect == Spec => []TypeOK
<1>1. Inv => TypeOK
  BY DEF Inv
<1> QED BY <1>1, InvHolds, PTL

\* A file that exists is never missing, whatever fails, whichever saves
\* overlap and wherever the process dies.
THEOREM NeverMissingHolds == Spec => NeverMissing
<1>1. [Next]_vars => [full # NoFile => full' # NoFile]_vars
  <2> SUFFICES ASSUME Next, full # NoFile PROVE full' # NoFile
    BY SMTT(60) DEF vars
  <2>1. ASSUME NEW s \in Saves, SaveStep(s) PROVE full' # NoFile
    BY <2>1 DEF SaveStep, Refused, OpenTmp, WritePiece, WriteFails, Rename, RenameFails
  <2>2. ASSUME NEW l \in Loads, LoadStep(l) PROVE full' # NoFile
    BY <2>2 DEF LoadStep, OpenFull, ReadPiece, ReadEnds
  <2>3. CASE Crash
    BY <2>3 DEF Crash
  <2> QED BY <2>1, <2>2, <2>3 DEF Next
<1> QED BY <1>1, PTL DEF Spec, NeverMissing

-----------------------------------------------------------------------------
(* The refinement                                                            *)

LEMMA InitRefines == Init => Abstract!Init
<1> SUFFICES ASSUME Init PROVE Abstract!Init
  OBVIOUS
<1>1. FileSeen \in Data \union {NoFile}
  <2>1. CASE full = NoFile
    BY <2>1 DEF FileSeen
  <2>2. CASE full # NoFile
    <3>1. PICK d \in Data : bytes[full] = Whole(d)
      BY <2>2 DEF Init, Inodes
    <3> QED BY <2>2, <3>1, WholeFilled DEF FileSeen
  <2> QED BY <2>1, <2>2
<1>2. SaveSeen = [s \in Saves |-> "idle"]
  BY DEF Init, SaveSeen
<1>3. LoadSeen = [l \in Loads |-> <<"idle", NoFile>>]
  BY DEF Init, LoadSeen
<1> QED BY <1>1, <1>2, <1>3 DEF Init, Abstract!Init

\* A save shows AtomicFile nothing of the temporary file.
LEMMA SaveUnseen ==
  ASSUME Inv, ~rivals, NEW s \in Saves, SaveStep(s)
  PROVE  LoadSeen' = LoadSeen /\ (full' = full => FileSeen' = FileSeen)
<1>1. load' = load /\ rfd' = rfd /\ got' = got
  BY DEF SaveStep, Refused, OpenTmp, WritePiece, WriteFails, Rename, RenameFails, reader
<1>2. \A l \in Loads : load[l] = "reading" => bytes'[rfd[l]] = bytes[rfd[l]]
  BY SaveApart
<1>3. LoadSeen' = LoadSeen
  BY <1>1, <1>2 DEF LoadSeen
<1>4. full' = full => FileSeen' = FileSeen
  BY SaveApart DEF FileSeen
<1> QED BY <1>3, <1>4

LEMMA SaveRefines ==
  ASSUME Inv, ~rivals, NEW s \in Saves, SaveStep(s)
  PROVE  Abstract!Next \/ UNCHANGED <<FileSeen, SaveSeen, LoadSeen, rivals>>
<1> USE SaveUnseen
<1>0. TypeOK
  BY DEF Inv
<1>1. CASE Refused(s) \/ WriteFails(s) \/ RenameFails(s)
  <2>1. /\ save[s] \in {"idle", "writing"}
        /\ save' = [save EXCEPT ![s] = "failed"]
        /\ full' = full /\ rivals' = rivals
    BY <1>1 DEF Refused, WriteFails, RenameFails
  <2>2. SaveSeen[s] \in {"idle", "busy"} /\ SaveSeen' = [SaveSeen EXCEPT ![s] = "failed"]
    BY ZenonT(30), <1>0, <2>1 DEF SaveSeen, TypeOK
  <2>3. Abstract!Fail(s)
    BY <2>1, <2>2 DEF Abstract!Fail
  <2> QED BY <2>3 DEF Abstract!Next
<1>2. CASE OpenTmp(s)
  <2>1. /\ save[s] = "idle"
        /\ save' = [save EXCEPT ![s] = "writing"]
        /\ full' = full
        /\ rivals' = (\E t \in Saves : save[t] = "writing")
    BY ZenonT(30), <1>0, <1>2 DEF OpenTmp, Busy, TypeOK
  <2>2. SaveSeen[s] = "idle" /\ SaveSeen' = [SaveSeen EXCEPT ![s] = "busy"]
    BY ZenonT(30), <1>0, <2>1 DEF SaveSeen, TypeOK
  <2>3. \A t \in Saves : SaveSeen[t] = "busy" <=> save[t] = "writing"
    BY ZenonT(30), <1>0 DEF SaveSeen, TypeOK
  <2>4. Abstract!Begin(s)
    BY <2>1, <2>2, <2>3 DEF Abstract!Begin
  <2> QED BY <2>4 DEF Abstract!Next
<1>3. CASE WritePiece(s)
  <2>1. full' = full /\ save' = save /\ rivals' = rivals
    BY <1>3 DEF WritePiece
  <2> QED BY <2>1 DEF SaveSeen
<1>4. CASE Rename(s)
  <2>1. /\ save[s] = "writing"
        /\ save' = [save EXCEPT ![s] = "ok"]
        /\ rivals' = rivals
    BY <1>4 DEF Rename
  <2>2. SaveSeen[s] = "busy" /\ SaveSeen' = [SaveSeen EXCEPT ![s] = "ok"]
    BY ZenonT(30), <1>0, <2>1 DEF SaveSeen, TypeOK
  <2>3. full' \in Inodes /\ bytes'[full'] = Whole(DataOf[s]) /\ DataOf[s] \in Data
    BY <1>4, RenamedWhole, FilesAssumption
  <2>4. FileSeen' = DataOf[s]
    BY <2>3, WholeFilled, FilesAssumption DEF FileSeen, Inodes
  <2>5. Abstract!Install(s)
    BY <2>1, <2>2, <2>4 DEF Abstract!Install
  <2> QED BY <2>5 DEF Abstract!Next
<1> QED BY <1>1, <1>2, <1>3, <1>4 DEF SaveStep

LEMMA LoadRefines ==
  ASSUME Inv, ~rivals, NEW l \in Loads, LoadStep(l)
  PROVE  Abstract!Next \/ UNCHANGED <<FileSeen, SaveSeen, LoadSeen, rivals>>
<1>0. TypeOK /\ ReadersWhole
  BY DEF Inv
<1>1. full' = full /\ bytes' = bytes /\ save' = save /\ rivals' = rivals
  BY DEF LoadStep, OpenFull, ReadPiece, ReadEnds, writer
<1>2. FileSeen' = FileSeen /\ SaveSeen' = SaveSeen
  BY <1>1 DEF FileSeen, SaveSeen
<1>3. CASE OpenFull(l)
  <2>1. /\ load[l] = "idle" /\ got' = got
        /\ load' = [load EXCEPT ![l] = IF full = NoFile THEN "absent" ELSE "reading"]
        /\ rfd' = [rfd EXCEPT ![l] = full]
    BY <1>3 DEF OpenFull
  <2>2. LoadSeen[l] = <<"idle", NoFile>>
    BY <2>1 DEF LoadSeen
  <2>3. LoadSeen' = [LoadSeen EXCEPT ![l] =
                       <<IF FileSeen = NoFile THEN "done" ELSE "busy", FileSeen>>]
    <3>1. CASE full = NoFile
      BY ZenonT(30), <1>0, <1>1, <2>1, <3>1 DEF LoadSeen, FileSeen, TypeOK
    <3>2. CASE full # NoFile
      <4>1. FileSeen = ContentOf(bytes[full]) /\ FileSeen # NoFile
        BY <1>0, <3>2, WholeIsData, FilesAssumption DEF FileSeen, ReadersWhole, LoadWhole
      <4> QED BY ZenonT(30), <1>0, <1>1, <2>1, <3>2, <4>1 DEF LoadSeen, TypeOK
    <3> QED BY <3>1, <3>2
  <2>4. Abstract!Look(l)
    BY <1>1, <1>2, <2>2, <2>3 DEF Abstract!Look
  <2> QED BY <2>4 DEF Abstract!Next
<1>4. CASE ReadPiece(l)
  <2>1. /\ load[l] = "reading" /\ load' = load /\ rfd' = rfd
        /\ \A k \in Loads \ {l} : got'[k] = got[k]
    BY <1>0, <1>4 DEF ReadPiece, TypeOK
  <2>2. LoadSeen' = LoadSeen
    BY <1>1, <2>1 DEF LoadSeen
  <2> QED BY <1>1, <1>2, <2>2
<1>5. CASE ReadEnds(l)
  <2>1. got[l] = bytes[rfd[l]] /\ IsWhole(got[l])
    BY <1>5, ReadsWhole
  <2>2. /\ load[l] = "reading" /\ rfd' = rfd /\ got' = got
        /\ load' = [load EXCEPT ![l] = "loaded"]
    BY <1>5, <2>1 DEF ReadEnds
  <2>3. LoadSeen[l] = <<"busy", ContentOf(got[l])>>
    BY <2>1, <2>2 DEF LoadSeen
  <2>4. LoadSeen' = [LoadSeen EXCEPT ![l] = <<"done", ContentOf(got[l])>>]
    BY ZenonT(30), <1>0, <1>1, <2>2 DEF LoadSeen, TypeOK
  <2>5. Abstract!Return(l)
    BY <1>1, <1>2, <2>3, <2>4 DEF Abstract!Return
  <2> QED BY <2>5 DEF Abstract!Next
<1> QED BY <1>3, <1>4, <1>5 DEF LoadStep

LEMMA CrashRefines ==
  ASSUME Inv, ~rivals, Crash
  PROVE  Abstract!Next
<1>0. TypeOK
  BY DEF Inv
<1>1. full' = full /\ bytes' = bytes /\ rfd' = rfd /\ got' = got /\ rivals' = rivals
  BY DEF Crash
<1>2. FileSeen' = FileSeen
  BY <1>1 DEF FileSeen
<1>3. SaveSeen' = [s \in Saves |-> IF SaveSeen[s] = "busy" THEN "dead" ELSE SaveSeen[s]]
  BY ZenonT(30), <1>0 DEF SaveSeen, TypeOK, Crash
<1>4. LoadSeen' = [l \in Loads |->
                     IF LoadSeen[l][1] = "busy" THEN <<"dead", NoFile>> ELSE LoadSeen[l]]
  BY <1>0, <1>1 DEF LoadSeen, TypeOK, Crash
<1> QED BY <1>1, <1>2, <1>3, <1>4 DEF Abstract!Crash, Abstract!Next

LEMMA NextRefines ==
  ASSUME Inv, [Next]_vars
  PROVE  [Abstract!Next]_(Abstract!vars)
<1>1. CASE rivals
  BY <1>1, RivalsStay DEF Abstract!Next
<1>2. CASE UNCHANGED vars
  BY <1>2 DEF vars, Abstract!vars, FileSeen, SaveSeen, LoadSeen
<1>3. CASE ~rivals /\ Next
  BY <1>3, SaveRefines, LoadRefines, CrashRefines DEF Next, Abstract!vars
<1> QED BY <1>1, <1>2, <1>3

\* The writers keep what their comments promise, "atomically": until two saves
\* of the file overlap, every behaviour of the steps of os.WriteFile, os.Rename
\* and os.ReadFile, with their failures and the deaths of the process, is one
\* of AtomicFile.
THEOREM AtomicHolds == Spec => Atomic
<1>1. Inv /\ [Next]_vars => [Abstract!Next]_(Abstract!vars)
  BY NextRefines
<1> QED BY <1>1, InvHolds, InitRefines, PTL DEF Spec, Atomic, Abstract!Spec

-----------------------------------------------------------------------------
(* Sizes                                                                     *)

\* The limits as numbers.
LEMMA Limits ==
  /\ Formats!EncryptedPacketMaxContent = 295
  /\ Formats!LinkPacketMaxContent = 319
  /\ Formats!PlainPacketMaxContent = 368
  /\ Formats!LinkPacketMDU = 431
  /\ Formats!PaperMDU = 2210
BY DEF Formats!EncryptedPacketMaxContent, Formats!LinkPacketMaxContent,
       Formats!PlainPacketMaxContent, Formats!LinkPacketMDU, Formats!PaperMDU,
       Formats!EncryptedPacketMDU, Formats!PlainPacketMDU, Formats!Overhead,
       Formats!DestinationLength, Formats!SignatureLength, Formats!TimestampSize,
       Formats!StructOverhead, Formats!QRMaxStorage, Formats!uriPrefixLen

\* The content of a packed message against a limit.
LEMMA Content ==
  ASSUME NEW n \in Nat, NEW limit \in Nat
  PROVE  /\ Formats!ContentSize(n) > limit <=> n > limit + 112
         /\ Formats!ContentSize(n) <= limit <=> n <= limit + 112
BY DEF Formats!ContentSize, Formats!DestinationLength, Formats!SignatureLength,
       Formats!TimestampSize, Formats!StructOverhead

\* What a packet takes.
LEMMA Fits ==
  ASSUME NEW n \in Nat
  PROVE  /\ Formats!PacketFits(n) <=> n <= 481
         /\ Formats!PacketFits(Formats!Encrypted(n)) <=> n <= 399
         /\ Formats!PacketFits(Formats!LinkEncrypted(n)) <=> n <= 431
BY DEF Formats!PacketFits, Formats!Encrypted, Formats!LinkEncrypted, Formats!MTU

\* What ChooseDeliveryMethod chooses, by the size of the packed message.
LEMMA ChosenLink ==
  ASSUME NEW n \in Nat \ {0}, NEW t
  PROVE  LET onLink(m) == {<<m, IF n <= 431 THEN "packet" ELSE "resource">>}
         IN /\ Formats!ChooseDeliveryMethod(n, "unknown", t) = onLink("direct")
            /\ Formats!ChooseDeliveryMethod(n, "direct", t) = onLink("direct")
            /\ Formats!ChooseDeliveryMethod(n, "propagated", t) = onLink("propagated")
<1>1. n # 0 /\ (Formats!ContentSize(n) <= Formats!LinkPacketMaxContent <=> n <= 431)
  BY Limits, Content
<1>2. QED
  BY <1>1 DEF Formats!ChooseDeliveryMethod

LEMMA ChosenPaper ==
  ASSUME NEW n \in Nat \ {0}, NEW t
  PROVE  /\ Formats!ChooseDeliveryMethod(n, "paper", t) # {} <=> n <= 2210
         /\ \A c \in Formats!ChooseDeliveryMethod(n, "paper", t) : c[2] = "unknown"
<1>1. n # 0 /\ Formats!PaperMDU = 2210 /\ (n <= 2210 <=> ~(n > 2210))
  BY Limits
<1>2. PICK S : S = {<<"paper", "unknown">>}
  BY ZenonT(60)
<1>3. S # {} /\ \A c \in S : c[2] = "unknown"
  BY <1>2
<1>4. Formats!ChooseDeliveryMethod(n, "paper", t) = IF n > 2210 THEN {} ELSE S
  BY <1>1, <1>2 DEF Formats!ChooseDeliveryMethod
<1>5. QED
  BY <1>1, <1>3, <1>4

LEMMA ChosenOpportunistic ==
  ASSUME NEW n \in Nat \ {0}, NEW t
  PROVE  Formats!ChooseDeliveryMethod(n, "opportunistic", t) =
           {<<IF n > (IF t = "plain" THEN 480 ELSE 407) THEN "direct" ELSE "opportunistic",
              "packet">>}
<1>1. /\ Formats!ContentSize(n) > Formats!PlainPacketMaxContent <=> n > 480
      /\ Formats!ContentSize(n) > Formats!EncryptedPacketMaxContent <=> n > 407
  BY Limits, Content
<1>2. (\E limit \in Formats!MaxContentForMethod("opportunistic", t) :
          Formats!ContentSize(n) > limit) <=> n > (IF t = "plain" THEN 480 ELSE 407)
  BY <1>1 DEF Formats!MaxContentForMethod
<1>3. n # 0
  OBVIOUS
<1>4. QED
  BY <1>2, <1>3 DEF Formats!ChooseDeliveryMethod

LEMMA NeedsDirect ==
  ASSUME NEW n \in Nat
  PROVE  Formats!NeedsDirectDelivery(n) <=> n > 407
BY Limits, Content DEF Formats!NeedsDirectDelivery, Formats!MaxContentForMethod

\* The packet that is chosen carries the message.
LEMMA PacketCarries == Formats!ChosenPacketFits
<1> SUFFICES ASSUME NEW n \in Nat \ {0}, NEW desired \in Formats!Methods,
                    NEW t \in {"single", "plain"},
                    NEW c \in Formats!ChooseDeliveryMethod(n, desired, t)
             PROVE  LET sent == IF n > 16 THEN n - 16 ELSE 0
                        fits == CASE c[1] = "opportunistic" ->
                                       Formats!PacketFits(IF t = "plain" THEN sent
                                                          ELSE Formats!Encrypted(sent))
                                  [] OTHER -> Formats!PacketFits(Formats!LinkEncrypted(n))
                    IN /\ c[2] = "packet" =>
                            (fits <=> ~(/\ desired = "opportunistic" /\ c[1] = "direct"
                                        /\ n > Formats!LinkPacketMDU))
                       /\ desired = "opportunistic" /\ t = "single" =>
                            (Formats!NeedsDirectDelivery(n) <=> c[1] = "direct")
  BY FormatsAssumption DEF Formats!ChosenPacketFits, Formats!DestinationLength
<1> DEFINE sent == IF n > 16 THEN n - 16 ELSE 0
<1>1. Formats!PacketFits(Formats!LinkEncrypted(n)) <=> n <= 431
  BY Fits
<1>2. /\ sent \in Nat
      /\ Formats!PacketFits(sent) <=> n <= 497
      /\ Formats!PacketFits(Formats!Encrypted(sent)) <=> n <= 415
  BY Fits
<1>3. CASE desired = "opportunistic"
  <2>1. c = <<IF n > (IF t = "plain" THEN 480 ELSE 407) THEN "direct" ELSE "opportunistic",
              "packet">>
    BY <1>3, ChosenOpportunistic
  <2>2. Formats!NeedsDirectDelivery(n) <=> n > 407
    BY NeedsDirect
  <2> HIDE DEF sent
  <2>3. QED
    BY <1>1, <1>2, <1>3, <2>1, <2>2, Limits DEF sent
<1>4. CASE desired \in {"unknown", "direct", "propagated"}
  <2>1. /\ c[1] \in {"direct", "propagated"}
        /\ c[2] = IF n <= 431 THEN "packet" ELSE "resource"
    BY <1>4, ChosenLink
  <2>2. QED
    BY <1>1, <1>4, <2>1
<1>5. CASE desired = "paper"
  BY <1>5, ChosenPaper
<1>6. QED
  BY <1>3, <1>4, <1>5 DEF Formats!Methods

\* What a direct send records.
LEMMA RepresentationIsTrue == Formats!RepresentationTrue
<1> SUFFICES ASSUME NEW n \in Nat \ {0}
             PROVE  /\ Formats!directRepresentation(n) = Formats!sendPropagationPayload(n)
                    /\ Formats!sendPropagationPayload(n) = "packet" =>
                         Formats!PacketFits(Formats!LinkEncrypted(n))
                    /\ Formats!ChooseDeliveryMethod(n, "direct", "single") =
                          {<<"direct", Formats!directRepresentation(n)>>}
                         <=> n \notin 320 .. 431
  BY FormatsAssumption, Limits DEF Formats!RepresentationTrue
<1>1. Formats!directRepresentation(n) = IF n > 319 THEN "resource" ELSE "packet"
  BY Limits DEF Formats!directRepresentation
<1>2. Formats!sendPropagationPayload(n) = IF n <= 319 THEN "packet" ELSE "resource"
  BY Limits DEF Formats!sendPropagationPayload
<1>3. Formats!ChooseDeliveryMethod(n, "direct", "single") =
         {<<"direct", IF n <= 431 THEN "packet" ELSE "resource">>}
  BY ChosenLink
<1>4. Formats!PacketFits(Formats!LinkEncrypted(n)) <=> n <= 431
  BY Fits
<1>5. \A a, b : {<<"direct", a>>} = {<<"direct", b>>} <=> a = b
  <2> TAKE a, b
  <2>1. {<<"direct", a>>} = {<<"direct", b>>} => <<"direct", a>> = <<"direct", b>>
    BY Zenon
  <2>2. <<"direct", a>> = <<"direct", b>> => a = b
    OBVIOUS
  <2>3. QED
    BY <2>1, <2>2, Zenon
<1>6. (IF n <= 431 THEN "packet" ELSE "resource") = (IF n > 319 THEN "resource" ELSE "packet")
        <=> n \notin 320 .. 431
  OBVIOUS
<1>7. /\ Formats!directRepresentation(n) = Formats!sendPropagationPayload(n)
      /\ Formats!sendPropagationPayload(n) = "packet" => n <= 431
  BY <1>1, <1>2
<1>8. QED
  BY ZenonT(60), <1>1, <1>3, <1>4, <1>5, <1>6, <1>7

\* What fits on paper.
LEMMA PaperSizes == Formats!PaperFits
<1> SUFFICES ASSUME NEW n \in Nat \ {0}
             PROVE  /\ n <= 2210 <=> 6 + (8 * n + 5) \div 6 <= 2953
                    /\ Formats!ChooseDeliveryMethod(n, "paper", "single") # {}
                         /\ Formats!Encrypted(n) > 2210 <=> n \in 2128 .. 2210
  BY FormatsAssumption, Limits
     DEF Formats!PaperFits, Formats!uriPrefixLen, Formats!QRMaxStorage
<1>1. n <= 2210 <=> 6 + (8 * n + 5) \div 6 <= 2953
  OBVIOUS
<1>2. Formats!Encrypted(n) > 2210 <=> n > 2127
  BY DEF Formats!Encrypted
<1>3. Formats!ChooseDeliveryMethod(n, "paper", "single") # {} <=> n <= 2210
  BY ChosenPaper
<1>4. QED
  BY <1>1, <1>2, <1>3

\* The sizes are right for messages of any size (message.go:145-187,
\* delivery_link.go:146, propagation_link.go:167, paper.go:20).
THEOREM SizesAreRight == Spec => []SizesRight
<1>1. SizesRight
  BY PacketCarries, RepresentationIsTrue, PaperSizes DEF SizesRight
<1>2. QED
  BY <1>1, PTL

-----------------------------------------------------------------------------
(* Paper                                                                     *)

INSTANCE SequenceTheorems
INSTANCE WellFoundedInduction
INSTANCE FiniteSetTheorems

\* The bits of three bytes in four sextets, and back.
LEMMA FirstByte ==
  ASSUME NEW x \in 0 .. 255, NEW y \in 0 .. 255
  PROVE  (x \div 4) * 4 + (((x % 4) * 16 + (y \div 16)) \div 16) = x
OBVIOUS

\* The last of the three bytes is whole as well.
LEMMA ThirdByte ==
  ASSUME NEW y \in 0 .. 255, NEW z \in 0 .. 255
  PROVE  (((y % 16) * 4 + (z \div 64)) % 4) * 64 + (z % 64) = z
OBVIOUS

\* Four sextets in three bytes, and back: the first,
LEMMA FirstSextet ==
  ASSUME NEW w \in 0 .. 63, NEW x \in 0 .. 63
  PROVE  (w * 4 + (x \div 16)) \div 4 = w
OBVIOUS

\* the second,
LEMMA SecondSextet ==
  ASSUME NEW w \in 0 .. 63, NEW x \in 0 .. 63, NEW y \in 0 .. 63
  PROVE  ((w * 4 + (x \div 16)) % 4) * 16 + (((x % 16) * 16 + (y \div 4)) \div 16) = x
OBVIOUS

\* and the fourth.
LEMMA FourthSextet ==
  ASSUME NEW y \in 0 .. 63, NEW z \in 0 .. 63
  PROVE  ((y % 4) * 64 + z) % 64 = z
OBVIOUS

\* A place among groups of three and among groups of four.
LEMMA InThrees ==
  ASSUME NEW i \in Nat \ {0}
  PROVE  \E q \in Nat : i \in {3 * q + 1, 3 * q + 2, 3 * q + 3}
<1>1. (i - 1) \div 3 \in Nat
  OBVIOUS
<1>2. i \in {3 * ((i - 1) \div 3) + 1, 3 * ((i - 1) \div 3) + 2, 3 * ((i - 1) \div 3) + 3}
  OBVIOUS
<1>3. QED
  BY <1>1, <1>2

LEMMA InFours ==
  ASSUME NEW i \in Nat \ {0}
  PROVE  \E q \in Nat : i \in {4 * q + 1, 4 * q + 2, 4 * q + 3, 4 * q + 4}
<1>1. (i - 1) \div 4 \in Nat
  OBVIOUS
<1>2. i \in {4 * ((i - 1) \div 4) + 1, 4 * ((i - 1) \div 4) + 2,
             4 * ((i - 1) \div 4) + 3, 4 * ((i - 1) \div 4) + 4}
  OBVIOUS
<1>3. QED
  BY <1>1, <1>2

\* A byte of a payload, with the zeros after its end.
ByteAt(b, i) == IF i \in DOMAIN b THEN b[i] ELSE 0

LEMMA ByteAtIs ==
  ASSUME NEW b \in Seq(0 .. 255), NEW i \in Nat
  PROVE  ByteAt(b, i) \in 0 .. 255
<1>1. DOMAIN b = 1 .. Len(b) /\ \A j \in 1 .. Len(b) : b[j] \in 0 .. 255
  BY SMTT(60), LenProperties, ElementOfSeq
<1>2. QED
  BY <1>1 DEF ByteAt

\* The characters that base64 makes of a payload.
SextetOf(b, i, k) ==
  CASE i % 4 = 1 -> ByteAt(b, k + 1) \div 4
    [] i % 4 = 2 -> (ByteAt(b, k + 1) % 4) * 16 + ByteAt(b, k + 2) \div 16
    [] i % 4 = 3 -> (ByteAt(b, k + 1) % 16) * 4 + ByteAt(b, k + 2) \div 64
    [] OTHER -> ByteAt(b, k + 1) % 64

LEMMA SextetAt ==
  ASSUME NEW b \in Seq(0 .. 255), NEW N, N = (8 * Len(b) + 5) \div 6,
         NEW q \in Nat, NEW i \in 1 .. N,
         NEW x, x = ByteAt(b, 3 * q + 1), NEW y, y = ByteAt(b, 3 * q + 2),
         NEW z, z = ByteAt(b, 3 * q + 3)
  PROVE  /\ i = 4 * q + 1 => Formats!Sextets(b)[i] = x \div 4
         /\ i = 4 * q + 2 => Formats!Sextets(b)[i] = (x % 4) * 16 + (y \div 16)
         /\ i = 4 * q + 3 => Formats!Sextets(b)[i] = (y % 16) * 4 + (z \div 64)
         /\ i = 4 * q + 4 => Formats!Sextets(b)[i] = z % 64
<1>1. \A j \in 1 .. N : Formats!Sextets(b)[j] = SextetOf(b, j, (3 * (j - 1)) \div 4)
  BY DEF Formats!Sextets, SextetOf, ByteAt
<1>2. ASSUME i = 4 * q + 1 PROVE Formats!Sextets(b)[i] = x \div 4
  <2>1. /\ i % 4 = 1 /\ i % 4 # 2 /\ i % 4 # 3
        /\ (3 * (i - 1)) \div 4 = 3 * q
    BY <1>2
  <2>2. Formats!Sextets(b)[i] = SextetOf(b, i, 3 * q)
    BY <1>1, <2>1, Zenon
  <2>3. QED
    BY <2>1, <2>2, Zenon DEF SextetOf
<1>3. ASSUME i = 4 * q + 2 PROVE Formats!Sextets(b)[i] = (x % 4) * 16 + (y \div 16)
  <2>1. /\ i % 4 = 2 /\ i % 4 # 1 /\ i % 4 # 3
        /\ (3 * (i - 1)) \div 4 = 3 * q
    BY <1>3
  <2>2. Formats!Sextets(b)[i] = SextetOf(b, i, 3 * q)
    BY <1>1, <2>1, Zenon
  <2>3. QED
    BY <2>1, <2>2, Zenon DEF SextetOf
<1>4. ASSUME i = 4 * q + 3 PROVE Formats!Sextets(b)[i] = (y % 16) * 4 + (z \div 64)
  <2>1. /\ i % 4 = 3 /\ i % 4 # 1 /\ i % 4 # 2
        /\ (3 * (i - 1)) \div 4 = 3 * q + 1
        /\ (3 * q + 1) + 1 = 3 * q + 2 /\ (3 * q + 1) + 2 = 3 * q + 3
    BY <1>4
  <2>2. Formats!Sextets(b)[i] = SextetOf(b, i, 3 * q + 1)
    BY <1>1, <2>1, Zenon
  <2>3. QED
    BY <2>1, <2>2, Zenon DEF SextetOf
<1>5. ASSUME i = 4 * q + 4 PROVE Formats!Sextets(b)[i] = z % 64
  <2>1. /\ i % 4 # 1 /\ i % 4 # 2 /\ i % 4 # 3
        /\ (3 * (i - 1)) \div 4 = 3 * q + 2
        /\ (3 * q + 2) + 1 = 3 * q + 3
    BY <1>5
  <2>2. Formats!Sextets(b)[i] = SextetOf(b, i, 3 * q + 2)
    BY <1>1, <2>1, Zenon
  <2>3. QED
    BY <2>1, <2>2, Zenon DEF SextetOf
<1>6. QED
  BY SMTT(60), <1>2, <1>3, <1>4, <1>5

\* The bytes that base64 makes of characters.
ByteOf(t, i, k) ==
  CASE i % 3 = 1 -> t[k + 1] * 4 + t[k + 2] \div 16
    [] i % 3 = 2 -> (t[k + 1] % 16) * 16 + t[k + 2] \div 4
    [] OTHER -> (t[k + 1] % 4) * 64 + t[k + 2]

LEMMA ByteOfText ==
  ASSUME NEW t, NEW M, M = (6 * Len(t)) \div 8, NEW q \in Nat, NEW i \in 1 .. M,
         NEW w, w = t[4 * q + 1], NEW x, x = t[4 * q + 2],
         NEW y, y = t[4 * q + 3], NEW z, z = t[4 * q + 4]
  PROVE  /\ i = 3 * q + 1 => Formats!Bytes(t)[i] = w * 4 + (x \div 16)
         /\ i = 3 * q + 2 => Formats!Bytes(t)[i] = (x % 16) * 16 + (y \div 4)
         /\ i = 3 * q + 3 => Formats!Bytes(t)[i] = (y % 4) * 64 + z
<1>1. \A j \in 1 .. M : Formats!Bytes(t)[j] = ByteOf(t, j, (4 * (j - 1)) \div 3)
  BY DEF Formats!Bytes, ByteOf
<1>2. ASSUME i = 3 * q + 1 PROVE Formats!Bytes(t)[i] = w * 4 + (x \div 16)
  <2>1. /\ i % 3 = 1 /\ i % 3 # 2
        /\ (4 * (i - 1)) \div 3 = 4 * q
    BY <1>2
  <2>2. Formats!Bytes(t)[i] = ByteOf(t, i, 4 * q)
    BY <1>1, <2>1, Zenon
  <2>3. QED
    BY <2>1, <2>2, Zenon DEF ByteOf
<1>3. ASSUME i = 3 * q + 2 PROVE Formats!Bytes(t)[i] = (x % 16) * 16 + (y \div 4)
  <2>1. /\ i % 3 = 2 /\ i % 3 # 1
        /\ (4 * (i - 1)) \div 3 = 4 * q + 1
        /\ (4 * q + 1) + 1 = 4 * q + 2 /\ (4 * q + 1) + 2 = 4 * q + 3
    BY <1>3
  <2>2. Formats!Bytes(t)[i] = ByteOf(t, i, 4 * q + 1)
    BY <1>1, <2>1, Zenon
  <2>3. QED
    BY <2>1, <2>2, Zenon DEF ByteOf
<1>4. ASSUME i = 3 * q + 3 PROVE Formats!Bytes(t)[i] = (y % 4) * 64 + z
  <2>1. /\ i % 3 # 1 /\ i % 3 # 2
        /\ (4 * (i - 1)) \div 3 = 4 * q + 2
        /\ (4 * q + 2) + 1 = 4 * q + 3 /\ (4 * q + 2) + 2 = 4 * q + 4
    BY <1>4
  <2>2. Formats!Bytes(t)[i] = ByteOf(t, i, 4 * q + 2)
    BY <1>1, <2>1, Zenon
  <2>3. QED
    BY <2>1, <2>2, Zenon DEF ByteOf
<1>5. QED
  BY <1>2, <1>3, <1>4

\* Base64 has as many characters as it needs for the bits.
LEMMA SextetsIs ==
  ASSUME NEW b \in Seq(0 .. 255)
  PROVE  /\ Formats!Sextets(b) \in Seq(0 .. 63)
         /\ Len(Formats!Sextets(b)) = (8 * Len(b) + 5) \div 6
<1> DEFINE N == (8 * Len(b) + 5) \div 6
           s == Formats!Sextets(b)
<1>1. N \in Nat
  BY LenProperties
<1>2. s = [i \in 1 .. N |-> s[i]]
  BY DEF Formats!Sextets
<1>3. ASSUME NEW i \in 1 .. N PROVE s[i] \in 0 .. 63
  <2>0. i \in Nat \ {0}
    BY <1>1
  <2>1. PICK q \in Nat : i \in {4 * q + 1, 4 * q + 2, 4 * q + 3, 4 * q + 4}
    BY ZenonT(60), <2>0, InFours
  <2>2. 3 * q + 1 \in Nat /\ 3 * q + 2 \in Nat /\ 3 * q + 3 \in Nat
    OBVIOUS
  <2>3. PICK x \in 0 .. 255, y \in 0 .. 255, z \in 0 .. 255 :
           /\ x = ByteAt(b, 3 * q + 1) /\ y = ByteAt(b, 3 * q + 2) /\ z = ByteAt(b, 3 * q + 3)
    BY ZenonT(60), <2>2, ByteAtIs
  <2> HIDE DEF s
  <2>4. /\ i = 4 * q + 1 => s[i] = x \div 4
        /\ i = 4 * q + 2 => s[i] = (x % 4) * 16 + (y \div 16)
        /\ i = 4 * q + 3 => s[i] = (y % 16) * 4 + (z \div 64)
        /\ i = 4 * q + 4 => s[i] = z % 64
    <3>1. N = (8 * Len(b) + 5) \div 6
      OBVIOUS
    <3> HIDE DEF N
    <3>2. QED
      BY SMTT(60), <2>3, <3>1, SextetAt DEF s
  <2>5. /\ x \div 4 \in 0 .. 63 /\ (x % 4) * 16 + (y \div 16) \in 0 .. 63
        /\ (y % 16) * 4 + (z \div 64) \in 0 .. 63 /\ z % 64 \in 0 .. 63
    BY SMTT(60)
  <2>6. CASE i = 4 * q + 1
    <3>1. s[i] = x \div 4
      BY <2>4, <2>6, Zenon
    <3>2. QED
      BY <2>5, <3>1
  <2>7. CASE i = 4 * q + 2
    <3>1. s[i] = (x % 4) * 16 + (y \div 16)
      BY <2>4, <2>7, Zenon
    <3>2. QED
      BY <2>5, <3>1
  <2>8. CASE i = 4 * q + 3
    <3>1. s[i] = (y % 16) * 4 + (z \div 64)
      BY <2>4, <2>8, Zenon
    <3>2. QED
      BY <2>5, <3>1
  <2>9. CASE i = 4 * q + 4
    <3>1. s[i] = z % 64
      BY <2>4, <2>9, Zenon
    <3>2. QED
      BY <2>5, <3>1
  <2>10. QED
    BY <2>1, <2>6, <2>7, <2>8, <2>9, Zenon
<1> HIDE DEF s, N
<1>4. s \in Seq(0 .. 63) /\ Len(s) = N
  <2>1. s \in [1 .. N -> 0 .. 63]
    BY <1>2, <1>3, Zenon
  <2>2. QED
    BY <1>1, <2>1
<1>5. QED
  BY <1>4 DEF s, N

\* How many characters there are for n bytes, and bytes for m characters.
LEMMA Lengths ==
  /\ \A n \in Nat : /\ ((8 * n + 5) \div 6) % 4 # 1
                    /\ (6 * ((8 * n + 5) \div 6)) \div 8 = n
  /\ \A m \in Nat : m % 4 # 1 => (8 * ((6 * m) \div 8) + 5) \div 6 = m
OBVIOUS

\* Decoding gives back what was encoded.
LEMMA BytesOfSextets ==
  ASSUME NEW b \in Seq(0 .. 255)
  PROVE  Formats!Bytes(Formats!Sextets(b)) = b
<1> DEFINE s == Formats!Sextets(b)
           n == Len(b)
           N == (8 * n + 5) \div 6
           M == (6 * Len(s)) \div 8
<1>1. n \in Nat /\ b = [i \in 1 .. n |-> b[i]]
  BY LenProperties
<1>2. s \in Seq(0 .. 63) /\ Len(s) = N
  BY SMTT(60), SextetsIs
<1>3. M = n
  BY ZenonT(60), <1>1, <1>2, Lengths
<1>4. Formats!Bytes(s) = [i \in 1 .. n |-> Formats!Bytes(s)[i]]
  BY <1>3 DEF Formats!Bytes
<1> HIDE DEF s
<1>5. ASSUME NEW i \in 1 .. n PROVE Formats!Bytes(s)[i] = b[i]
  <2>1. i \in Nat \ {0}
    BY <1>1
  <2>2. PICK q \in Nat : i \in {3 * q + 1, 3 * q + 2, 3 * q + 3}
    BY ZenonT(60), <2>1, InThrees
  <2>3. 3 * q + 1 \in Nat /\ 3 * q + 2 \in Nat /\ 3 * q + 3 \in Nat
    OBVIOUS
  <2>4. PICK x \in 0 .. 255, y \in 0 .. 255, z \in 0 .. 255 :
           /\ x = ByteAt(b, 3 * q + 1) /\ y = ByteAt(b, 3 * q + 2) /\ z = ByteAt(b, 3 * q + 3)
    BY ZenonT(60), <2>3, ByteAtIs
  <2>5. b[i] = ByteAt(b, i)
    BY SMTT(60), <1>1 DEF ByteAt
  <2>6. /\ 4 * q + 1 \in 1 .. N => s[4 * q + 1] = x \div 4
        /\ 4 * q + 2 \in 1 .. N => s[4 * q + 2] = (x % 4) * 16 + (y \div 16)
        /\ 4 * q + 3 \in 1 .. N => s[4 * q + 3] = (y % 16) * 4 + (z \div 64)
        /\ 4 * q + 4 \in 1 .. N => s[4 * q + 4] = z % 64
    BY <2>4, SextetAt DEF s
  <2>7. i \in 1 .. M
    BY <1>3
  <2>8. PICK c1, c2, c3, c4 : /\ c1 = s[4 * q + 1] /\ c2 = s[4 * q + 2]
                              /\ c3 = s[4 * q + 3] /\ c4 = s[4 * q + 4]
    BY SMTT(60)
  <2>9. /\ i = 3 * q + 1 => Formats!Bytes(s)[i] = c1 * 4 + (c2 \div 16)
        /\ i = 3 * q + 2 => Formats!Bytes(s)[i] = (c2 % 16) * 16 + (c3 \div 4)
        /\ i = 3 * q + 3 => Formats!Bytes(s)[i] = (c3 % 4) * 64 + c4
    BY SMTT(60), <2>7, <2>8, ByteOfText
  <2>11. CASE i = 3 * q + 1
    <3>1. 4 * q + 1 \in 1 .. N /\ 4 * q + 2 \in 1 .. N
      BY <1>1, <2>11
    <3>2. c1 = x \div 4 /\ c2 = (x % 4) * 16 + (y \div 16)
      BY <2>6, <2>8, <3>1, Zenon
    <3>3. b[i] = x
      BY <2>4, <2>5, <2>11, Zenon
    <3>4. (x \div 4) * 4 + (((x % 4) * 16 + (y \div 16)) \div 16) = x
      BY FirstByte, Zenon
    <3>5. QED
      BY <2>9, <2>11, <3>2, <3>3, <3>4, Zenon
  <2>12. CASE i = 3 * q + 2
    <3>1. 4 * q + 2 \in 1 .. N /\ 4 * q + 3 \in 1 .. N
      BY <1>1, <2>12
    <3>2. c2 = (x % 4) * 16 + (y \div 16) /\ c3 = (y % 16) * 4 + (z \div 64)
      BY <2>6, <2>8, <3>1, Zenon
    <3>3. b[i] = y
      BY <2>4, <2>5, <2>12, Zenon
    <3>4. (((x % 4) * 16 + (y \div 16)) % 16) * 16 + (((y % 16) * 4 + (z \div 64)) \div 4) = y
      OBVIOUS
    <3>5. QED
      BY <2>9, <2>12, <3>2, <3>3, <3>4, Zenon
  <2>13. CASE i = 3 * q + 3
    <3>1. 4 * q + 3 \in 1 .. N /\ 4 * q + 4 \in 1 .. N
      BY <1>1, <2>13
    <3>2. c3 = (y % 16) * 4 + (z \div 64) /\ c4 = z % 64
      BY <2>6, <2>8, <3>1, Zenon
    <3>3. b[i] = z
      BY <2>4, <2>5, <2>13, Zenon
    <3>4. (((y % 16) * 4 + (z \div 64)) % 4) * 64 + (z % 64) = z
      BY ThirdByte, Zenon
    <3>5. QED
      BY <2>9, <2>13, <3>2, <3>3, <3>4, Zenon
  <2>14. QED
    BY <2>2, <2>11, <2>12, <2>13, Zenon
<1>6. QED
  BY <1>1, <1>4, <1>5, Zenon DEF s

\* A set of natural numbers has a least.
LEMMA Least ==
  ASSUME NEW T, T \subseteq Nat, T # {}
  PROVE  \E n \in T : \A m \in T : n <= m
<1>1. \E n \in T : \A m \in T : <<m, n>> \notin OpToRel(<, Nat)
  BY ZenonT(60), NatLessThanWellFounded, WFMin
<1>2. PICK n \in T : \A m \in T : <<m, n>> \notin OpToRel(<, Nat)
  BY ZenonT(60), <1>1
<1>3. \A m \in T : ~(m < n)
  BY ZenonT(60), <1>2 DEF OpToRel
<1>4. QED
  BY <1>3

\* TrimPad cuts behind the last character that is no padding.
LEMMA TrimPadIs ==
  ASSUME NEW C, NEW s \in Seq(C)
  PROVE  \E n \in 0 .. Len(s) : /\ Formats!TrimPad(s) = SubSeq(s, 1, n)
                                /\ n = 0 \/ s[n] # -1
                                /\ \A i \in n + 1 .. Len(s) : s[i] = -1
<1> DEFINE End(n) == /\ n = 0 \/ s[n] # -1
                     /\ \A i \in n + 1 .. Len(s) : s[i] = -1
           T == {n \in 0 .. Len(s) : \A i \in n + 1 .. Len(s) : s[i] = -1}
<1>1. Len(s) \in Nat
  BY LenProperties
<1>2. Len(s) \in T
  BY <1>1
<1>3. T \subseteq Nat /\ T # {}
  BY <1>1, <1>2
<1> HIDE DEF T
<1>4. PICK n \in T : \A m \in T : n <= m
  BY ZenonT(60), <1>3, Least
<1>5. n \in 0 .. Len(s) /\ \A i \in n + 1 .. Len(s) : s[i] = -1
  BY DEF T
<1>6. n = 0 \/ s[n] # -1
  <2> SUFFICES ASSUME n # 0, s[n] = -1 PROVE FALSE
    OBVIOUS
  <2>1. n - 1 \in 0 .. Len(s)
    BY <1>1, <1>5
  <2>2. \A i \in (n - 1) + 1 .. Len(s) : s[i] = -1
    BY <1>1, <1>5
  <2>3. n - 1 \in T
    BY <2>1, <2>2 DEF T
  <2>4. QED
    BY <1>4, <1>5, <2>3
<1>7. \E m \in 0 .. Len(s) : End(m)
  BY <1>5, <1>6
<1> DEFINE c == CHOOSE m \in 0 .. Len(s) : End(m)
<1>8. c \in 0 .. Len(s) /\ End(c)
  <2> HIDE DEF End
  <2>1. QED
    BY <1>7, Zenon
<1>9. Formats!TrimPad(s) = SubSeq(s, 1, c)
  BY Zenon DEF Formats!TrimPad, Formats!pad
<1> HIDE DEF c
<1>10. QED
  BY <1>8, <1>9, Zenon

\* What is before the padding, taken off again.
LEMMA TrimPadded ==
  ASSUME NEW t \in Seq(0 .. 63), t # <<>>, NEW k \in Nat,
         NEW s, s = t \o [i \in 1 .. k |-> -1]
  PROVE  /\ Formats!TrimPad(s) = t /\ s # <<>>
         /\ s \in Seq(-3 .. 63) /\ Len(s) = Len(t) + k
         /\ \A i \in 1 .. Len(s) : s[i] # -3
<1> DEFINE p == [i \in 1 .. k |-> -1]
           C == -3 .. 63
<1>1. p \in Seq(C) /\ Len(p) = k
  OBVIOUS
<1>2. t \in Seq(C)
  <2>1. 0 .. 63 \subseteq C
    OBVIOUS
  <2> HIDE DEF C
  <2>2. QED
    BY ZenonT(60), <2>1, SeqMonotonic
<1>3. /\ Len(t) \in Nat /\ Len(t) > 0
      /\ \A i \in 1 .. Len(t) : t[i] \in 0 .. 63
  <2>1. Len(t) \in Nat /\ \A i \in 1 .. Len(t) : t[i] \in 0 .. 63
    BY ZenonT(60), LenProperties, ElementOfSeq
  <2>2. Len(t) # 0
    BY EmptySeq
  <2>3. QED
    BY <2>1, <2>2
<1>4. \A i \in 1 .. k : p[i] = -1
  OBVIOUS
<1> HIDE DEF p, C
<1>5. /\ s \in Seq(C) /\ Len(s) = Len(t) + k
      /\ \A i \in 1 .. Len(t) + k : s[i] = IF i <= Len(t) THEN t[i] ELSE p[i - Len(t)]
  <2>1. s = t \o p
    BY DEF p
  <2>2. /\ s \in Seq(C) /\ Len(s) = Len(t) + Len(p)
        /\ \A i \in 1 .. Len(t) + Len(p) :
              s[i] = IF i <= Len(t) THEN t[i] ELSE p[i - Len(t)]
    BY SMTT(60), <1>1, <1>2, <2>1, ConcatProperties
  <2>3. QED
    BY <1>1, <2>2
<1>6. PICK n \in 0 .. Len(s) : /\ Formats!TrimPad(s) = SubSeq(s, 1, n)
                               /\ n = 0 \/ s[n] # -1
                               /\ \A i \in n + 1 .. Len(s) : s[i] = -1
  BY ZenonT(60), <1>5, TrimPadIs
<1>7. s[Len(t)] \in 0 .. 63
  <2>1. Len(t) \in 1 .. Len(t) + k /\ Len(t) \in 1 .. Len(t)
    BY <1>3
  <2>2. s[Len(t)] = t[Len(t)]
    BY <1>3, <1>5, <2>1
  <2>3. QED
    BY SMTT(60), <1>3, <2>1, <2>2
<1>8. n >= Len(t)
  <2> SUFFICES ASSUME n < Len(t) PROVE FALSE
    BY <1>3, <1>5
  <2>1. Len(t) \in n + 1 .. Len(s)
    BY <1>3, <1>5
  <2>2. s[Len(t)] = -1
    BY <1>6, <2>1
  <2>3. -1 \notin 0 .. 63
    OBVIOUS
  <2>4. QED
    BY <1>7, <2>2, <2>3, Zenon
<1>9. n <= Len(t)
  <2> SUFFICES ASSUME n > Len(t) PROVE FALSE
    BY <1>3, <1>5
  <2>1. n \in 1 .. Len(t) + k /\ ~(n <= Len(t)) /\ n - Len(t) \in 1 .. k /\ n # 0
    BY <1>3, <1>5
  <2>2. s[n] = -1
    BY SMTT(60), <1>4, <1>5, <2>1
  <2>3. QED
    BY SMTT(60), <1>6, <2>1, <2>2
<1>10. n = Len(t)
  BY SMTT(60), <1>3, <1>5, <1>8, <1>9
<1>11. SubSeq(s, 1, Len(t)) = t
  <2>1. 1 \in 1 .. Len(t) /\ Len(t) \in 1 .. Len(t) /\ s = t \o p
    BY <1>3 DEF p
  <2>2. SubSeq(s, 1, Len(t)) = SubSeq(t, 1, Len(t))
    BY SMTT(60), <1>1, <1>2, <2>1, SubSeqOfConcat1
  <2>3. QED
    BY SMTT(60), <1>2, <2>2, SubSeqFull
<1>12. s # <<>>
  BY <1>3, <1>5
<1>13. \A i \in 1 .. Len(s) : s[i] # -3
  <2> SUFFICES ASSUME NEW i \in 1 .. Len(s) PROVE s[i] # -3
    OBVIOUS
  <2>1. CASE i <= Len(t)
    <3>1. i \in 1 .. Len(t) /\ s[i] = t[i]
      BY SMTT(60), <1>3, <1>5, <2>1
    <3>2. \A x \in 0 .. 63 : x # -3
      OBVIOUS
    <3>3. QED
      BY <1>3, <3>1, <3>2, Zenon
  <2>2. CASE ~(i <= Len(t))
    <3>1. i - Len(t) \in 1 .. k /\ s[i] = p[i - Len(t)]
      BY <1>3, <1>5, <2>2
    <3>2. QED
      BY SMTT(60), <1>4, <3>1
  <2>3. QED
    BY <2>1, <2>2
<1>14. QED
  BY ZenonT(60), <1>5, <1>6, <1>10, <1>11, <1>12, <1>13 DEF C

\* The cardinality that Unbroken counts with.
LEMMA SameCardinality ==
  ASSUME NEW S
  PROVE  Formats!Cardinality(S) = Cardinality(S)
BY Zenon DEF Formats!Cardinality, Cardinality

\* The cardinality of an initial interval.
LEMMA UpToN ==
  ASSUME NEW n \in Nat
  PROVE  IsFiniteSet(1 .. n) /\ Cardinality(1 .. n) = n
<1>1. /\ IsFiniteSet(1 .. n)
      /\ Cardinality(1 .. n) = IF 1 > n THEN 0 ELSE n - 1 + 1
  BY FS_Interval
<1>2. (IF 1 > n THEN 0 ELSE n - 1 + 1) = n
  OBVIOUS
<1>3. QED
  BY <1>1, <1>2

\* A text without newlines stays as it is.
LEMMA UnbrokenSame ==
  ASSUME NEW s \in Seq(-3 .. 63), \A i \in 1 .. Len(s) : s[i] # -3
  PROVE  Formats!Unbroken(s) = s
<1> DEFINE kept == {i \in DOMAIN s : s[i] # -3}
           count(i) == Formats!Cardinality({k \in kept : k <= i})
           at(j) == CHOOSE i \in kept : count(i) = j
<1>1. PICK n \in Nat : n = Len(s) /\ DOMAIN s = 1 .. n /\ s = [j \in 1 .. n |-> s[j]]
  BY LenProperties
<1>2. Formats!Unbroken(s) = [j \in 1 .. Formats!Cardinality(kept) |-> s[at(j)]]
  BY ZenonT(60) DEF Formats!Unbroken, Formats!newline
<1>3. kept = 1 .. n
  BY <1>1
<1> HIDE DEF kept
<1>4. Formats!Cardinality(kept) = n
  BY <1>1, <1>3, UpToN, SameCardinality, Zenon
<1>5. \A i \in 1 .. n : count(i) = i
  <2> SUFFICES ASSUME NEW i \in 1 .. n PROVE count(i) = i
    OBVIOUS
  <2>1. {k \in kept : k <= i} = 1 .. i /\ i \in Nat
    BY <1>1, <1>3
  <2>2. QED
    BY <2>1, UpToN, SameCardinality, Zenon
<1> HIDE DEF count
<1>6. \A j \in 1 .. n : at(j) = j
  <2> SUFFICES ASSUME NEW j \in 1 .. n PROVE at(j) = j
    OBVIOUS
  <2>1. j \in kept /\ count(j) = j
    BY <1>3, <1>5, Zenon
  <2>2. at(j) \in kept /\ count(at(j)) = j
    BY <2>1, Zenon
  <2> HIDE DEF at
  <2>3. QED
    BY <1>3, <1>5, <2>2, Zenon
<1> HIDE DEF at
<1>7. [j \in 1 .. n |-> s[at(j)]] = [j \in 1 .. n |-> s[j]]
  BY <1>6, Zenon
<1>8. QED
  BY <1>1, <1>2, <1>4, <1>7, Zenon

\* What is left without the newlines is a sequence, whatever the text.
LEMMA UnbrokenSeq ==
  ASSUME NEW s \in Seq(-3 .. 63)
  PROVE  \E C : Formats!Unbroken(s) \in Seq(C)
<1> DEFINE kept == {i \in DOMAIN s : s[i] # -3}
           at(j) == CHOOSE i \in kept : Formats!Cardinality({k \in kept : k <= i}) = j
           N == Formats!Cardinality(kept)
           C == {s[at(j)] : j \in 1 .. N}
<1>1. Formats!Unbroken(s) = [j \in 1 .. N |-> s[at(j)]]
  BY ZenonT(60) DEF Formats!Unbroken, Formats!newline
<1>2. N \in Nat
  <2>1. Len(s) \in Nat /\ DOMAIN s = 1 .. Len(s)
    BY LenProperties
  <2>2. IsFiniteSet(1 .. Len(s)) /\ kept \in SUBSET (1 .. Len(s))
    BY <2>1, UpToN
  <2>3. IsFiniteSet(kept)
    BY <2>2, FS_Subset
  <2>4. Cardinality(kept) \in Nat
    BY <2>3, FS_CardinalityType
  <2>5. QED
    BY <2>4, SameCardinality, Zenon
<1> HIDE DEF N, at
<1>3. [j \in 1 .. N |-> s[at(j)]] \in [1 .. N -> C]
  BY Zenon
<1> HIDE DEF C
<1>4. [j \in 1 .. N |-> s[at(j)]] \in Seq(C)
  BY <1>2, <1>3, SeqDef
<1>5. QED
  BY <1>1, <1>4, Zenon

\* The groups of four that padding completes.
LEMMA Padding ==
  ASSUME NEW m \in Nat, m % 4 # 1
  PROVE  LET q == (4 - (m % 4)) % 4 IN q \in 0 .. 2 /\ (m + q) % 4 = 0
OBVIOUS

LEMMA Unpadded ==
  ASSUME NEW m \in Nat, NEW n \in 0 .. m, m % 4 = 0, m - n <= 2
  PROVE  n % 4 # 1
OBVIOUS

\* Characters give bytes, as many as there are bits for.
LEMMA BytesIs ==
  ASSUME NEW t \in Seq(0 .. 63)
  PROVE  /\ Formats!Bytes(t) \in Seq(0 .. 255)
         /\ Len(Formats!Bytes(t)) = (6 * Len(t)) \div 8
<1> DEFINE b == Formats!Bytes(t)
           M == (6 * Len(t)) \div 8
<1>1. Len(t) \in Nat /\ M \in Nat
  BY LenProperties
<1>2. \A i \in 1 .. Len(t) : t[i] \in 0 .. 63
  BY ElementOfSeq
<1>3. b = [i \in 1 .. M |-> b[i]]
  BY DEF Formats!Bytes
<1> HIDE DEF b
<1>4. ASSUME NEW i \in 1 .. M PROVE b[i] \in 0 .. 255
  <2>1. i \in Nat \ {0}
    BY <1>1
  <2>2. PICK q \in Nat : i \in {3 * q + 1, 3 * q + 2, 3 * q + 3}
    BY ZenonT(60), <2>1, InThrees
  <2>3. PICK w, x, y, z : /\ w = t[4 * q + 1] /\ x = t[4 * q + 2]
                          /\ y = t[4 * q + 3] /\ z = t[4 * q + 4]
    OBVIOUS
  <2>4. /\ i = 3 * q + 1 => b[i] = w * 4 + (x \div 16)
        /\ i = 3 * q + 2 => b[i] = (x % 16) * 16 + (y \div 4)
        /\ i = 3 * q + 3 => b[i] = (y % 4) * 64 + z
    BY SMTT(60), <2>3, ByteOfText DEF b
  <2>5. CASE i = 3 * q + 1
    <3>1. 4 * q + 1 \in 1 .. Len(t) /\ 4 * q + 2 \in 1 .. Len(t)
      BY <1>1, <2>5
    <3>2. w \in 0 .. 63 /\ x \in 0 .. 63
      BY <1>2, <2>3, <3>1, Zenon
    <3>3. w * 4 + (x \div 16) \in 0 .. 255
      BY <3>2
    <3>4. QED
      BY <2>4, <2>5, <3>3, Zenon
  <2>6. CASE i = 3 * q + 2
    <3>1. 4 * q + 2 \in 1 .. Len(t) /\ 4 * q + 3 \in 1 .. Len(t)
      BY <1>1, <2>6
    <3>2. x \in 0 .. 63 /\ y \in 0 .. 63
      BY <1>2, <2>3, <3>1, Zenon
    <3>3. (x % 16) * 16 + (y \div 4) \in 0 .. 255
      BY <3>2
    <3>4. QED
      BY <2>4, <2>6, <3>3, Zenon
  <2>7. CASE i = 3 * q + 3
    <3>1. 4 * q + 3 \in 1 .. Len(t) /\ 4 * q + 4 \in 1 .. Len(t)
      BY <1>1, <2>7
    <3>2. y \in 0 .. 63 /\ z \in 0 .. 63
      BY <1>2, <2>3, <3>1, Zenon
    <3>3. (y % 4) * 64 + z \in 0 .. 255
      BY <3>2
    <3>4. QED
      BY <2>4, <2>7, <3>3, Zenon
  <2>8. QED
    BY <2>2, <2>5, <2>6, <2>7, Zenon
<1> HIDE DEF M
<1>5. b \in [1 .. M -> 0 .. 255]
  BY <1>3, <1>4, Zenon
<1>6. b \in Seq(0 .. 255) /\ Len(b) = M
  BY <1>1, <1>5
<1>7. QED
  BY <1>6 DEF b, M

\* Encoding what was decoded gives the same characters, but for the bits of the
\* last that belong to no byte.
LEMMA SextetsOfBytes ==
  ASSUME NEW t \in Seq(0 .. 63), Len(t) % 4 # 1
  PROVE  /\ Len(Formats!Sextets(Formats!Bytes(t))) = Len(t)
         /\ \A i \in 1 .. Len(t) - 1 : Formats!Sextets(Formats!Bytes(t))[i] = t[i]
<1> DEFINE b == Formats!Bytes(t)
           s == Formats!Sextets(b)
           L == Len(t)
           M == (6 * L) \div 8
<1>1. L \in Nat /\ L % 4 # 1
  BY LenProperties
<1>2. b \in Seq(0 .. 255) /\ Len(b) = M /\ L = (8 * Len(b) + 5) \div 6
  BY ZenonT(60), <1>1, BytesIs, Lengths
<1>3. \A j \in 1 .. L : t[j] \in 0 .. 63
  BY ElementOfSeq
<1>4. Len(s) = L
  BY <1>2, SextetsIs
<1> HIDE DEF s, b
<1>5. ASSUME NEW i \in 1 .. L - 1 PROVE s[i] = t[i]
  <2>1. i \in Nat \ {0} /\ i \in 1 .. L
    BY <1>1
  <2>2. PICK q \in Nat : i \in {4 * q + 1, 4 * q + 2, 4 * q + 3, 4 * q + 4}
    BY ZenonT(60), <2>1, InFours
  <2>3. PICK w, x, y, z : /\ w = t[4 * q + 1] /\ x = t[4 * q + 2]
                          /\ y = t[4 * q + 3] /\ z = t[4 * q + 4]
    OBVIOUS
  <2>4. PICK bx, by, bz : /\ bx = ByteAt(b, 3 * q + 1) /\ by = ByteAt(b, 3 * q + 2)
                          /\ bz = ByteAt(b, 3 * q + 3)
    OBVIOUS
  <2>5. /\ 3 * q + 1 \in 1 .. M => bx = b[3 * q + 1]
        /\ 3 * q + 2 \in 1 .. M => by = b[3 * q + 2]
        /\ 3 * q + 3 \in 1 .. M => bz = b[3 * q + 3]
    BY SMTT(60), <1>2, <2>4, LenProperties DEF ByteAt
  <2>6. /\ 3 * q + 1 \in 1 .. M => b[3 * q + 1] = w * 4 + (x \div 16)
        /\ 3 * q + 2 \in 1 .. M => b[3 * q + 2] = (x % 16) * 16 + (y \div 4)
        /\ 3 * q + 3 \in 1 .. M => b[3 * q + 3] = (y % 4) * 64 + z
    <3>1. ASSUME NEW j \in 1 .. M
          PROVE  /\ j = 3 * q + 1 => b[j] = w * 4 + (x \div 16)
                 /\ j = 3 * q + 2 => b[j] = (x % 16) * 16 + (y \div 4)
                 /\ j = 3 * q + 3 => b[j] = (y % 4) * 64 + z
      BY SMTT(60), <2>3, ByteOfText DEF b
    <3>2. QED
      BY <3>1, Zenon
  <2>7. /\ i = 4 * q + 1 => s[i] = bx \div 4
        /\ i = 4 * q + 2 => s[i] = (bx % 4) * 16 + (by \div 16)
        /\ i = 4 * q + 3 => s[i] = (by % 16) * 4 + (bz \div 64)
        /\ i = 4 * q + 4 => s[i] = bz % 64
    BY SMTT(60), <1>2, <2>1, <2>4, SextetAt DEF s
  <2>8. CASE i = 4 * q + 1
    <3>1. 4 * q + 1 \in 1 .. L /\ 4 * q + 2 \in 1 .. L
      BY SMTT(60), <1>1, <1>2, <2>8
    <3>2. w \in 0 .. 63 /\ x \in 0 .. 63
      BY <1>3, <2>3, <3>1, Zenon
    <3>3. 3 * q + 1 \in 1 .. M
      BY SMTT(60), <1>1, <1>2, <2>8
    <3>4. bx = w * 4 + (x \div 16)
      BY <2>5, <2>6, <3>3, Zenon
    <3>5. (w * 4 + (x \div 16)) \div 4 = w
      BY <3>2, FirstSextet, Zenon
    <3>6. QED
      BY <2>3, <2>7, <2>8, <3>4, <3>5, Zenon
  <2>9. CASE i = 4 * q + 2
    <3>1. 4 * q + 1 \in 1 .. L /\ 4 * q + 2 \in 1 .. L /\ 4 * q + 3 \in 1 .. L
      BY SMTT(60), <1>1, <1>2, <2>9
    <3>2. w \in 0 .. 63 /\ x \in 0 .. 63 /\ y \in 0 .. 63
      BY <1>3, <2>3, <3>1, Zenon
    <3>3. 3 * q + 1 \in 1 .. M /\ 3 * q + 2 \in 1 .. M
      BY SMTT(60), <1>1, <1>2, <2>9
    <3>4. bx = w * 4 + (x \div 16) /\ by = (x % 16) * 16 + (y \div 4)
      BY <2>5, <2>6, <3>3, Zenon
    <3>5. ((w * 4 + (x \div 16)) % 4) * 16 + (((x % 16) * 16 + (y \div 4)) \div 16) = x
      BY <3>2, SecondSextet, ZenonT(60)
    <3>6. QED
      BY <2>3, <2>7, <2>9, <3>4, <3>5, Zenon
  <2>10. CASE i = 4 * q + 3
    <3>1. 4 * q + 2 \in 1 .. L /\ 4 * q + 3 \in 1 .. L /\ 4 * q + 4 \in 1 .. L
      BY SMTT(60), <1>1, <1>2, <2>10
    <3>2. x \in 0 .. 63 /\ y \in 0 .. 63 /\ z \in 0 .. 63
      BY <1>3, <2>3, <3>1, Zenon
    <3>3. 3 * q + 2 \in 1 .. M /\ 3 * q + 3 \in 1 .. M
      BY SMTT(60), <1>1, <1>2, <2>10
    <3>4. by = (x % 16) * 16 + (y \div 4) /\ bz = (y % 4) * 64 + z
      BY <2>5, <2>6, <3>3, Zenon
    <3>5. (((x % 16) * 16 + (y \div 4)) % 16) * 4 + (((y % 4) * 64 + z) \div 64) = y
      BY SMTT(60), <3>2
    <3>6. QED
      BY <2>3, <2>7, <2>10, <3>4, <3>5, Zenon
  <2>11. CASE i = 4 * q + 4
    <3>1. 4 * q + 3 \in 1 .. L /\ 4 * q + 4 \in 1 .. L
      BY SMTT(60), <1>1, <1>2, <2>11
    <3>2. y \in 0 .. 63 /\ z \in 0 .. 63
      BY <1>3, <2>3, <3>1, Zenon
    <3>3. 3 * q + 3 \in 1 .. M
      BY SMTT(60), <1>1, <1>2, <2>11
    <3>4. bz = (y % 4) * 64 + z
      BY <2>5, <2>6, <3>3, Zenon
    <3>5. ((y % 4) * 64 + z) % 64 = z
      BY <3>2, FourthSextet, Zenon
    <3>6. QED
      BY <2>3, <2>7, <2>11, <3>4, <3>5, Zenon
  <2>12. QED
    BY <2>2, <2>8, <2>9, <2>10, <2>11, Zenon
<1>6. QED
  BY <1>4, <1>5, Zenon DEF s, b

\* Padding anew gives a text.
LEMMA RepaddedSeq ==
  ASSUME NEW s \in Seq(-3 .. 63)
  PROVE  Formats!Repadded(s) \in Seq(-3 .. 63)
<1> DEFINE t == Formats!TrimPad(s)
           q == (4 - (Len(t) % 4)) % 4
           p == [i \in 1 .. q |-> -1]
<1>1. PICK n \in 0 .. Len(s) : t = SubSeq(s, 1, n)
  BY ZenonT(60), TrimPadIs
<1> HIDE DEF t
<1>2. Len(s) \in Nat /\ \A i \in 1 .. Len(s) : s[i] \in -3 .. 63
  BY SMTT(60), LenProperties, ElementOfSeq
<1>3. \A i \in 1 .. n : s[i] \in -3 .. 63
  BY SMTT(60), <1>1, <1>2
<1>4. SubSeq(s, 1, n) \in Seq(-3 .. 63)
  BY SMTT(60), <1>1, <1>2, <1>3, SubSeqProperties
<1>5. t \in Seq(-3 .. 63) /\ Len(t) \in Nat
  BY SMTT(60), <1>1, <1>4, LenProperties
<1>6. q \in Nat
  BY <1>5
<1> HIDE DEF q
<1>7. p \in Seq(-3 .. 63)
  BY <1>6
<1> HIDE DEF p
<1>8. t \o p \in Seq(-3 .. 63)
  BY <1>5, <1>7, ConcatProperties
<1>9. Formats!Repadded(s) = t \o p
  BY ZenonT(60) DEF Formats!Repadded, Formats!pad, t, q, p
<1>10. QED
  BY <1>8, <1>9, Zenon

\* "PaperURI encodes encrypted paper payload bytes as an lxm:// URI." and
\* DecodePaperURI reads it, padding or not.
LEMMA PaperIsReadable == Formats!PaperReadable
<1>1. ASSUME NEW p \in Payloads, NEW k \in Paddings, NEW u \in Formats!PaperURI(p)
      PROVE  Formats!DecodePaperURI(<<u[1], u[2] \o [i \in 1 .. k |-> Formats!pad]>>) = {p}
  <2> DEFINE t == Formats!Sextets(p)
  <2>1. p \in Seq(0 .. 255) /\ k \in Nat
    BY FormatsAssumption
  <2>2. p # <<>> /\ ~(Len(p) > Formats!PaperMDU) /\ u = <<TRUE, t>>
    BY ZenonT(60) DEF Formats!PaperURI
  <2>3. Len(p) \in Nat /\ Len(p) # 0
    BY SMTT(60), <2>1, <2>2, LenProperties, EmptySeq
  <2>4. t \in Seq(0 .. 63) /\ Len(t) = (8 * Len(p) + 5) \div 6
    BY <2>1, SextetsIs
  <2>5. /\ Len(t) % 4 # 1 /\ (6 * Len(t)) \div 8 = Len(p) /\ Len(t) # 0
    BY <2>3, <2>4, Lengths
  <2> HIDE DEF t
  <2>6. PICK s : s = t \o [i \in 1 .. k |-> -1]
    BY ZenonT(60)
  <2>7. t # <<>>
    BY <2>5
  <2>8. Formats!TrimPad(s) = t /\ s # <<>>
    BY ZenonT(60), <2>1, <2>4, <2>6, <2>7, TrimPadded
  <2>9. DOMAIN t = 1 .. Len(t) /\ Len(t) \in Nat /\ \A i \in DOMAIN t : t[i] \in 0 .. 63
    <3>1. DOMAIN t = 1 .. Len(t) /\ Len(t) \in Nat
      BY <2>4, LenProperties
    <3>2. \A i \in 1 .. Len(t) : t[i] \in 0 .. 63
      BY ZenonT(60), <2>4, ElementOfSeq
    <3>3. QED
      BY <3>1, <3>2, Zenon
  <2>10. Formats!Bytes(t) = p
    BY <2>1, BytesOfSextets DEF t
  <2> DEFINE q == (4 - (Len(t) % 4)) % 4
             r == t \o [i \in 1 .. q |-> -1]
  <2>11. Formats!Repadded(s) = r
    BY ZenonT(60), <2>8 DEF Formats!Repadded, Formats!pad
  <2>12. q \in 0 .. 2 /\ q \in Nat /\ (Len(t) + q) % 4 = 0
    BY SMTT(60), <2>5, <2>9, Padding
  <2> HIDE DEF q
  <2>13. /\ Formats!TrimPad(r) = t /\ r \in Seq(-3 .. 63) /\ Len(r) = Len(t) + q
         /\ \A i \in 1 .. Len(r) : r[i] # -3
    BY ZenonT(60), <2>4, <2>7, <2>12, TrimPadded
  <2> HIDE DEF r
  <2>14. Formats!Unbroken(r) = r
    BY <2>13, UnbrokenSame, Zenon
  <2>15. Len(r) % 4 = 0 /\ ~(Len(r) - Len(t) > 2)
    BY <2>9, <2>12, <2>13
  <2>16. Formats!DecodeString(r) = {p}
    BY ZenonT(60), <2>9, <2>10, <2>13, <2>14, <2>15 DEF Formats!DecodeString
  <2>17. Len(p) <= Formats!PaperMDU
    BY SMTT(60), <2>2, <2>3, Limits
  <2>18. Formats!DecodePaperURI(<<TRUE, s>>) = {p}
    BY SMTT(60), <2>8, <2>11, <2>16, <2>17 DEF Formats!DecodePaperURI
  <2>19. QED
    BY ZenonT(60), <2>2, <2>6, <2>18 DEF Formats!pad
<1>2. ASSUME NEW s \in Texts, NEW p \in Formats!DecodePaperURI(<<TRUE, s>>)
      PROVE  LET t == Formats!TrimPad(Formats!Unbroken(Formats!Repadded(s)))
             IN IF p = <<>> THEN t = <<>>
                ELSE \E u \in Formats!PaperURI(p) :
                        /\ Len(u[2]) = Len(t)
                        /\ \A i \in 1 .. Len(t) - 1 : u[2][i] = t[i]
  <2> DEFINE r == Formats!Repadded(s)
             v == Formats!Unbroken(r)
             t == Formats!TrimPad(v)
  <2>1. s \in Seq(-3 .. 63)
    BY FormatsAssumption
  <2>2. p \in Formats!DecodeString(r) /\ Len(p) <= Formats!PaperMDU
    BY ZenonT(60) DEF Formats!DecodePaperURI
  <2>3. r \in Seq(-3 .. 63)
    BY <2>1, RepaddedSeq
  <2>4. PICK C : v \in Seq(C)
    BY <2>3, UnbrokenSeq
  <2> HIDE DEF r
  <2>5. /\ Len(v) % 4 = 0 /\ ~(Len(v) - Len(t) > 2)
        /\ \A i \in DOMAIN t : t[i] \in 0 .. 63
        /\ p = Formats!Bytes(t)
    BY ZenonT(60), <2>2 DEF Formats!DecodeString
  <2>6. PICK n \in 0 .. Len(v) : t = SubSeq(v, 1, n)
    BY ZenonT(60), <2>4, TrimPadIs
  <2> HIDE DEF v, t
  <2>7. Len(v) \in Nat /\ \A i \in 1 .. Len(v) : v[i] \in C
    BY SMTT(60), <2>4, LenProperties, ElementOfSeq
  <2>8. t \in Seq(C) /\ Len(t) = n /\ DOMAIN t = 1 .. n /\ n \in Nat
    <3>1. \A i \in 1 .. n : v[i] \in C
      BY SMTT(60), <2>6, <2>7
    <3>2. /\ SubSeq(v, 1, n) \in Seq(C)
          /\ Len(SubSeq(v, 1, n)) = IF 1 <= n THEN n - 1 + 1 ELSE 0
      BY SMTT(60), <2>6, <2>7, <3>1, SubSeqProperties
    <3>3. t \in Seq(C) /\ Len(t) = n /\ n \in Nat
      BY <2>6, <2>7, <3>2
    <3>4. QED
      BY <3>3, LenProperties
  <2>9. t \in Seq(0 .. 63)
    <3>1. t = [i \in 1 .. n |-> t[i]]
      BY <2>8, LenProperties
    <3>2. t \in [1 .. n -> 0 .. 63]
      BY <2>5, <2>8, <3>1, Zenon
    <3>3. n \in Nat
      BY <2>8
    <3>4. QED
      BY <3>2, <3>3, SeqDef, Zenon
  <2>10. Len(t) % 4 # 1
    BY SMTT(60), <2>5, <2>6, <2>7, <2>8, Unpadded
  <2>11. CASE p = <<>>
    <3>1. (6 * n) \div 8 = 0
      <4>1. Len(Formats!Bytes(t)) = (6 * Len(t)) \div 8
        BY <2>9, BytesIs
      <4>2. Formats!Bytes(t) = <<>> /\ Len(<<>>) = 0
        BY <2>5, <2>11
      <4>3. QED
        BY <2>8, <4>1, <4>2, Zenon
    <3>2. n = 0
      BY SMTT(60), <2>8, <2>10, <3>1
    <3>3. t = <<>>
      BY <2>8, <3>2
    <3>4. QED
      BY <2>11, <3>3, Zenon DEF t, v, r
  <2>12. CASE p # <<>>
    <3> DEFINE u == <<TRUE, Formats!Sextets(p)>>
    <3>1. Len(p) \in Nat
      <4>1. p \in Seq(0 .. 255)
        BY SMTT(60), <2>5, <2>9, BytesIs
      <4>2. QED
        BY <4>1, LenProperties
    <3>2. ~(Len(p) > Formats!PaperMDU)
      BY SMTT(60), <2>2, <3>1, Limits
    <3>3. u \in Formats!PaperURI(p)
      BY ZenonT(60), <2>12, <3>2 DEF Formats!PaperURI
    <3>4. u[2] = Formats!Sextets(p)
      OBVIOUS
    <3>5. /\ Len(u[2]) = Len(t)
          /\ \A i \in 1 .. Len(t) - 1 : u[2][i] = t[i]
      BY SMTT(60), <2>5, <2>9, <2>10, <3>4, SextetsOfBytes
    <3> HIDE DEF u
    <3>6. QED
      BY ZenonT(60), <2>12, <3>3, <3>5 DEF t, v, r
  <2>13. QED
    BY <2>11, <2>12
<1>3. QED
  BY ZenonT(60), <1>1, <1>2 DEF Formats!PaperReadable

\* A stored message comes back with what its container keeps.
LEMMA ReloadedKept == Formats!ReloadKeeps
<1> SUFFICES ASSUME NEW m \in Formats!Messages, NEW resolver \in Formats!Resolvers,
                    NEW c \in Formats!PackContainer(m)
             PROVE  LET back == Formats!UnpackContainer(c, resolver)
                    IN /\ back = {} <=> m.packed = "refused" \/ resolver = "failing"
                       /\ c.transport_encryption = "unencrypted" <=> m.method = "unknown"
                       /\ \A r \in back :
                            /\ <<r.state, r.method, r.packed>> = <<m.state, m.method, m.packed>>
                            /\ r.validated => m.packed # "forged" /\ resolver = "knowing"
                            /\ r.incoming
                            /\ r.representation = m.representation <=>
                                 m.representation = IF m.method = "unknown" THEN "unknown" ELSE "packet"
  BY Zenon DEF Formats!ReloadKeeps
<1> DEFINE e == Formats!DetermineTransportEncryption(m.method, "single")
           back == Formats!UnpackContainer(c, resolver)
           valid == resolver = "knowing" /\ m.packed = "signed"
           kept == [state |-> m.state, method |-> m.method, packed |-> m.packed, incoming |-> TRUE,
                    representation |-> IF m.method # "unknown" THEN "packet" ELSE "unknown",
                    validated |-> valid]
<1>1. e = "unencrypted" <=> m.method = "unknown"
  <2>1. CASE m.method = "unknown"
    BY <2>1, Zenon DEF Formats!DetermineTransportEncryption
  <2>2. CASE m.method # "unknown"
    <3>1. e = "EC"
      BY <2>2, Zenon DEF Formats!DetermineTransportEncryption
    <3>2. QED
      BY <2>2, <3>1
  <2>3. QED
    BY <2>1, <2>2
<1> HIDE DEF e
<1>2. /\ m.packed # ""
      /\ c = [state |-> m.state, lxmf_bytes |-> m.packed, method |-> m.method,
              transport_encryption |-> e]
  BY ZenonT(60) DEF Formats!PackContainer, Formats!MessageContainer, e
<1>3. c.state = m.state /\ c.lxmf_bytes = m.packed /\ c.method = m.method
      /\ c.transport_encryption = e
  BY <1>2
<1>4. back = IF m.packed = "refused" \/ resolver = "failing" THEN {} ELSE {kept}
  <2> DEFINE raw == [state |-> "generating", method |-> "unknown", packed |-> m.packed,
                     incoming |-> TRUE, representation |-> "unknown", validated |-> valid]
             restored(u) == [state |-> m.state, method |-> m.method, packed |-> u.packed,
                             incoming |-> u.incoming,
                             representation |->
                               IF m.method # "unknown" /\ u.representation = "unknown"
                               THEN "packet" ELSE u.representation,
                             validated |-> u.validated]
             U == Formats!Unpack(m.packed, resolver)
  <2>1. U = IF m.packed = "refused" \/ resolver = "failing" THEN {} ELSE {raw}
    BY <1>2, Zenon DEF Formats!Unpack
  <2>2. back = {restored(u) : u \in U}
    BY <1>2, <1>3, Zenon DEF Formats!UnpackContainer
  <2> HIDE DEF U, back, valid
  <2>3. restored(raw) = kept
    <3>1. /\ raw.packed = m.packed /\ raw.incoming = TRUE
          /\ raw.representation = "unknown" /\ raw.validated = valid
      BY Zenon
    <3> HIDE DEF raw
    <3>2. QED
      BY <3>1, Zenon
  <2> HIDE DEF raw, restored, kept
  <2>4. QED
    BY <2>1, <2>2, <2>3, Zenon
<1> HIDE DEF back
<1>5. /\ <<kept.state, kept.method, kept.packed>> = <<m.state, m.method, m.packed>>
      /\ kept.validated => m.packed # "forged" /\ resolver = "knowing"
      /\ kept.incoming
      /\ kept.representation = m.representation <=>
           m.representation = IF m.method = "unknown" THEN "unknown" ELSE "packet"
  <2>1. valid => m.packed # "forged" /\ resolver = "knowing"
    OBVIOUS
  <2> HIDE DEF valid
  <2>2. kept.validated = valid /\ kept.incoming = TRUE
    BY Zenon
  <2>3. /\ <<kept.state, kept.method, kept.packed>> = <<m.state, m.method, m.packed>>
        /\ kept.representation = m.representation <=>
             m.representation = IF m.method = "unknown" THEN "unknown" ELSE "packet"
    OBVIOUS
  <2>4. QED
    BY <2>1, <2>2, <2>3, Zenon
<1> HIDE DEF kept
<1>6. back = {} <=> m.packed = "refused" \/ resolver = "failing"
  BY <1>4, Zenon
<1>7. \A r \in back : r = kept
  BY <1>4, Zenon
<1>8. QED
  BY <1>1, <1>3, <1>5, <1>6, <1>7, Zenon DEF back

\* What is read back, for payloads and texts of any length (paper.go:14-49,
\* container.go:25-68).
THEOREM StoredIsReadBack == Spec => []StoredReadBack
<1>1. StoredReadBack
  BY PaperIsReadable, ReloadedKept DEF StoredReadBack
<1>2. QED
  BY <1>1, PTL

=============================================================================
