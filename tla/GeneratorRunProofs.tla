------------------------- MODULE GeneratorRunProofs -------------------------
(***************************************************************************)
(* What a directory of vectors can be relied on for, proved of GeneratorRun*)
(* for every table, every set of command lines and builds, and any tests   *)
(* that fail.                                                              *)
(***************************************************************************)
EXTENDS GeneratorRun, SequenceTheorems, TLAPS

InLoop == pc \in {"select", "write", "close"}
Done(i) == files[Table[i]] \in {MadeNow("whole"), MadeNow("lost")}
LineOf(i) == [stem |-> Table[i], count |-> options.count]

\* No run is newer than the current one.
Numbered ==
  /\ \A s \in Stems : files[s].run <= run
  /\ manifest.run <= run /\ metadata.run <= run

\* What holds while a run is under way.
Running ==
  /\ options.kind = "run" /\ metadata.run < run /\ generated <= entry - 1
  /\ pc \in {"write", "close"} => 
       entry <= Len(Table) /\ files[Stem] = MadeNow("cut") /\ Selected(Stem)
  /\ ~Full => manifest.run < run
  /\ pc = "metadata" => Full /\ entry = Len(Table) + 1

\* What else holds in a run for the whole table: the entries before the current
\* one are done, those behind it are as they were.
FullRunning ==
  /\ manifest.run = run
  /\ generated = entry - 1 /\ Len(printed) = entry - 1
  /\ \A i \in 1..(entry - 1) : Done(i) /\ printed[i] = LineOf(i)
  /\ \A i \in (entry + 1)..Len(Table) : files[Table[i]].run < run
  /\ pc = "select" /\ entry <= Len(Table) => files[Stem].run < run
  /\ InLoop => manifest.lines = <<>>
  /\ pc = "metadata" => manifest.lost \/ ListsTable(options.count)

UnderWay == pc # "stopped" => Running /\ (Full => FullRunning)

IInv ==
  /\ TypeOK /\ Numbered /\ UnderWay
  /\ ManifestIsTrue /\ MetadataIsLast /\ VectorsPassed /\ ReplacedInOrder
  /\ SuccessIsComplete

-----------------------------------------------------------------------------
LEMMA TableFacts ==
  /\ Table \in Seq(Names) /\ Len(Table) \in Nat
  /\ \A i \in 1..Len(Table) : Table[i] \in Stems /\ Table[i] \in Names
  /\ \A s \in Stems : \E i \in 1..Len(Table) : s = Table[i]
  /\ \A i, j \in 1..Len(Table) : Table[i] = Table[j] => i = j
<1>1. Table \in Seq(Names) /\ Len(Table) \in Nat /\ Table \in [1..Len(Table) -> Names]
  <2>1. Table \in Seq(Names)
    BY RunAssumption
  <2> QED BY <2>1, LenProperties
<1>2. \A i \in 1..Len(Table) : Table[i] \in Stems /\ Table[i] \in Names
  BY <1>1 DEF Stems
<1>3. \A s \in Stems : \E i \in 1..Len(Table) : s = Table[i]
  BY DEF Stems
<1> QED BY <1>1, <1>2, <1>3, RunAssumption

LEMMA MadeIsFile ==
  ASSUME TypeOK, NEW state \in {"cut", "lost", "whole"}
  PROVE  MadeNow(state) \in File
  BY RunAssumption DEF TypeOK, MadeNow, MadeAs, File, Options

\* What a manifest.txt that is closed can hold.
LEMMA PrefixesAreLines ==
  ASSUME NEW lines \in Lines, NEW k \in 0..Len(lines)
  PROVE  /\ SubSeq(lines, 1, k) \in Lines
         /\ Len(SubSeq(lines, 1, k)) = k
         /\ \A i \in 1..k : SubSeq(lines, 1, k)[i] = lines[i]
  BY DEF Lines

LEMMA LinesAreOfStems ==
  ASSUME manifest \in Manifest, NEW i \in 1..Len(manifest.lines)
  PROVE  manifest.lines[i] \in Line /\ manifest.lines[i].stem \in Stems
<1>1. manifest.lines \in Seq(Line)
  BY DEF Manifest, Lines
<1>2. manifest.lines[i] \in Line
  BY <1>1, ElementOfSeq
<1> QED BY <1>2 DEF Line

LEMMA WrittenIs ==
  ASSUME TypeOK, ManifestWritten, Full
  PROVE  /\ manifest' \in Manifest /\ manifest'.run = run
         /\ Len(manifest'.lines) \in Nat /\ Len(manifest'.lines) <= Len(printed)
         /\ \A i \in 1..Len(manifest'.lines) : manifest'.lines[i] = printed[i]
         /\ manifest'.lost \/ manifest'.lines = printed
<1>1. printed \in Lines /\ run \in Nat /\ Len(printed) \in Nat
  BY DEF TypeOK, Lines
<1>2. CASE manifest' = [run |-> run, lines |-> printed, lost |-> FALSE]
  BY <1>1, <1>2 DEF Manifest
<1>3. ASSUME NEW k \in 0..Len(printed),
             manifest' = [run |-> run, lines |-> SubSeq(printed, 1, k), lost |-> TRUE]
      PROVE  /\ manifest' \in Manifest /\ manifest'.run = run
             /\ Len(manifest'.lines) \in Nat /\ Len(manifest'.lines) <= Len(printed)
             /\ \A i \in 1..Len(manifest'.lines) : manifest'.lines[i] = printed[i]
             /\ manifest'.lost \/ manifest'.lines = printed
  <2>1. /\ SubSeq(printed, 1, k) \in Lines /\ Len(SubSeq(printed, 1, k)) = k
        /\ \A i \in 1..k : SubSeq(printed, 1, k)[i] = printed[i]
    BY <1>1, PrefixesAreLines
  <2> HIDE DEF Lines
  <2> DEFINE part == SubSeq(printed, 1, k)
  <2>2. manifest'.lines = part /\ manifest'.lost = TRUE /\ manifest'.run = run
    BY <1>3
  <2>3. manifest' \in Manifest
    BY <1>1, <1>3, <2>1 DEF Manifest
  <2> QED BY <1>1, <2>1, <2>2, <2>3
<1> QED BY <1>2, <1>3 DEF ManifestWritten

-----------------------------------------------------------------------------
(***************************************************************************)
(* One lemma per action.                                                   *)
(***************************************************************************)
LEMMA InitHolds == Init => IInv
<1> SUFFICES ASSUME Init PROVE IInv
  OBVIOUS
<1>1. TypeOK
  <2>1. <<>> \in Lines /\ NoFile \in File
    BY DEF Lines, NoFile, File
  <2>2. files \in [Stems -> File]
    BY <2>1 DEF Init
  <2>3. manifest \in Manifest
    BY <2>1 DEF Init, Manifest
  <2>4. options \in Options
    <3>1. options = [kind |-> "usage", filter |-> "", count |-> 0]
      BY DEF Init
    <3> QED BY <3>1, RunAssumption DEF Options
  <2>5. entry \in 1..(Len(Table) + 1) /\ generated \in 0..Len(Table)
    <3>1. entry = 1 /\ generated = 0
      BY DEF Init
    <3> QED BY <3>1, TableFacts
  <2>6. printed \in Lines /\ metadata \in [run : Nat, lost : BOOLEAN]
    BY <2>1 DEF Init
  <2>7. exit = "failure" /\ pc = "stopped" /\ build \in Builds /\ run \in Nat
    BY DEF Init
  <2> QED BY <2>2, <2>3, <2>4, <2>5, <2>6, <2>7 DEF TypeOK
<1>2. \A s \in Stems : files[s].run = 0
  BY DEF Init, NoFile
<1>3. manifest.run = 0 /\ manifest.lines = <<>> /\ metadata.run = 0 /\ run = 0
  BY DEF Init
<1>4. pc = "stopped" /\ exit = "failure"
  BY DEF Init
<1>5. Numbered /\ UnderWay /\ MetadataIsLast /\ VectorsPassed
  BY <1>2, <1>3, <1>4 DEF Numbered, UnderWay, MetadataIsLast, VectorsPassed
<1>6. ManifestIsTrue /\ SuccessIsComplete /\ ReplacedInOrder
  BY <1>3, <1>4 DEF ManifestIsTrue, SuccessIsComplete, ReplacedInOrder
<1> QED BY <1>1, <1>5, <1>6 DEF IInv

\* A step that leaves the vector files and the manifest alone, or truncates
\* this, keeps what is said of them.
LEMMA FilesKept ==
  ASSUME IInv, UNCHANGED files, manifest' = manifest \/ manifest'.lines = <<>>,
         manifest'.run = manifest.run \/ \A s \in Stems : files[s].run < manifest'.run
  PROVE  ManifestIsTrue' /\ VectorsPassed' /\ ReplacedInOrder'
<1>1. ManifestIsTrue'
  BY DEF IInv, ManifestIsTrue
<1>2. VectorsPassed'
  BY DEF IInv, VectorsPassed, TestsPass
<1>3. ReplacedInOrder'
  <2>1. CASE manifest'.run = manifest.run
    BY <2>1 DEF IInv, ReplacedInOrder
  <2>2. CASE \A s \in Stems : files[s].run < manifest'.run
    <3>1. ASSUME NEW j \in 1..Len(Table), files[Table[j]].run = manifest'.run PROVE FALSE
      BY <2>2, <3>1, TableFacts DEF IInv, TypeOK, File
    <3> QED BY <3>1 DEF ReplacedInOrder
  <2> QED BY <2>1, <2>2
<1> QED BY <1>1, <1>2, <1>3

LEMMA OtherInvocationKeeps == IInv /\ OtherInvocation => IInv'
<1> SUFFICES ASSUME IInv, OtherInvocation PROVE IInv'
  OBVIOUS
<1>1. TypeOK'
  <2>1. options' \in Options /\ run' \in Nat /\ exit' \in {"success", "failure"}
    <3>1. Invocations \subseteq Options
      BY RunAssumption
    <3> QED BY <3>1 DEF IInv, TypeOK, OtherInvocation
  <2> QED BY <2>1 DEF IInv, TypeOK, OtherInvocation, disk
<1>2. Numbered' /\ UnderWay' /\ MetadataIsLast' /\ SuccessIsComplete'
  BY DEF IInv, TypeOK, OtherInvocation, disk, Numbered, UnderWay, MetadataIsLast,
         SuccessIsComplete, File, Manifest
<1>3. ManifestIsTrue' /\ VectorsPassed' /\ ReplacedInOrder'
  BY FilesKept DEF OtherInvocation, disk
<1> QED BY <1>1, <1>2, <1>3 DEF IInv

LEMMA RebuildKeeps == IInv /\ Rebuild => IInv'
<1> SUFFICES ASSUME IInv, Rebuild PROVE IInv'
  OBVIOUS
<1>1. TypeOK' /\ Numbered' /\ UnderWay' /\ MetadataIsLast'
  BY DEF IInv, TypeOK, Rebuild, disk, Numbered, UnderWay, MetadataIsLast
<1>2. SuccessIsComplete'
  BY DEF IInv, Rebuild, disk, SuccessIsComplete, ListsTable, Full, MadeAs
<1>3. ManifestIsTrue' /\ VectorsPassed' /\ ReplacedInOrder'
  BY FilesKept DEF Rebuild, disk
<1> QED BY <1>1, <1>2, <1>3 DEF IInv

LEMMA BeginKeeps == IInv /\ Begin => IInv'
<1> SUFFICES ASSUME IInv, Begin PROVE IInv'
  OBVIOUS
<1> DEFINE full == options'.filter = ""
<1>1. /\ options' \in Options /\ options'.kind = "run" /\ run' = run + 1 /\ run \in Nat
      /\ entry' = 1 /\ printed' = <<>> /\ generated' = 0
      /\ UNCHANGED <<files, metadata, build>>
  BY RunAssumption DEF Begin, IInv, TypeOK
<1>2. /\ pc' \in {"select", "stopped"}
      /\ pc' = "stopped" => exit' = "failure" /\ manifest' = manifest
      /\ pc' = "select" => exit' = exit
      /\ pc' = "select" /\ full => manifest' = [run |-> run', lines |-> <<>>, lost |-> FALSE]
      /\ ~full => manifest' = manifest
  BY DEF Begin
<1>3. \A s \in Stems : files[s].run \in Nat /\ files[s].run < run'
  BY <1>1 DEF IInv, TypeOK, Numbered, File
<1>4. /\ manifest' \in Manifest /\ manifest.run < run' /\ metadata.run < run'
      /\ manifest.run \in Nat /\ metadata.run \in Nat
  <2>1. /\ manifest \in Manifest /\ manifest.run < run' /\ metadata.run < run'
        /\ manifest.run \in Nat /\ metadata.run \in Nat
    BY <1>1 DEF IInv, TypeOK, Numbered, Manifest
  <2>2. [run |-> run', lines |-> <<>>, lost |-> FALSE] \in Manifest
    BY <1>1 DEF Manifest, Lines
  <2> QED BY <1>2, <2>1, <2>2
<1>5. TypeOK'
  <2>1. printed' \in Lines /\ entry' \in 1..(Len(Table) + 1) /\ generated' \in 0..Len(Table)
    BY <1>1, TableFacts DEF Lines
  <2>2. pc' \in {"stopped", "select"} /\ exit' \in {exit, "failure"}
    BY <1>2
  <2> QED BY <1>1, <1>4, <2>1, <2>2 DEF IInv, TypeOK
<1>6. Numbered'
  <2>1. manifest'.run <= run'
    <3>1. manifest'.run \in {manifest.run, run'}
      <4>1. manifest' = manifest \/ manifest' = [run |-> run', lines |-> <<>>, lost |-> FALSE]
        BY <1>2
      <4> QED BY <4>1
    <3> QED BY <1>1, <1>4, <3>1
  <2> QED BY <1>1, <1>3, <1>4, <2>1 DEF Numbered
<1>7. UnderWay'
  <2> SUFFICES ASSUME pc' = "select" PROVE Running' /\ (full => FullRunning')
    BY <1>2 DEF UnderWay, Full
  <2>1. Running'
    <3>1. ~full => manifest'.run < run'
      BY <1>2, <1>4
    <3>2. ~Full' => manifest'.run < run'
      BY <3>1 DEF Full
    <3>3. generated' <= entry' - 1 /\ metadata'.run < run' /\ options'.kind = "run"
      BY <1>1, <1>4
    <3> QED BY <3>2, <3>3 DEF Running
  <2>2. ASSUME full PROVE FullRunning'
    <3>1. manifest' = [run |-> run', lines |-> <<>>, lost |-> FALSE]
      BY <1>2, <2>2
    <3>2. \A i \in 1..Len(Table) : files'[Table[i]].run < run'
      BY <1>1, <1>3, TableFacts
    <3>3. entry' <= Len(Table) => files'[Stem'].run < run'
      BY <1>1, <3>2, TableFacts DEF Stem
    <3>4. Len(printed') = 0
      BY <1>1
    <3> QED BY <1>1, <3>1, <3>2, <3>3, <3>4, TableFacts DEF FullRunning, InLoop
  <2> QED BY <2>1, <2>2
<1>8. MetadataIsLast' /\ SuccessIsComplete'
  BY <1>1, <1>2 DEF IInv, MetadataIsLast, SuccessIsComplete
<1>9. ManifestIsTrue' /\ VectorsPassed' /\ ReplacedInOrder'
  <2>1. manifest' = manifest \/ manifest' = [run |-> run', lines |-> <<>>, lost |-> FALSE]
    BY <1>2
  <2> QED BY <1>1, <1>3, <2>1, FilesKept
<1> QED BY <1>5, <1>6, <1>7, <1>8, <1>9 DEF IInv

LEMMA SkipKeeps == IInv /\ Skip => IInv'
<1> SUFFICES ASSUME IInv, Skip PROVE IInv'
  OBVIOUS
<1>1. ~Full /\ entry \in 1..Len(Table) /\ pc = "select"
  BY DEF Skip, Selected, IInv, TypeOK
<1>2. TypeOK' /\ Numbered' /\ MetadataIsLast'
  BY <1>1, TableFacts DEF IInv, TypeOK, Skip, disk, Numbered, MetadataIsLast
<1>3. UnderWay' /\ SuccessIsComplete'
  <2>1. /\ pc' = "select" /\ entry' = entry + 1 /\ generated' = generated
        /\ UNCHANGED <<options, metadata, manifest, run>>
    BY <1>1 DEF Skip, disk
  <2>2. Running /\ generated \in Nat /\ entry \in Nat
    BY <1>1, TableFacts DEF IInv, UnderWay, TypeOK
  <2>3. ~Full'
    BY <1>1, <2>1 DEF Full
  <2>4. Running'
    <3>1. generated' <= entry' - 1
      BY <2>1, <2>2 DEF Running
    <3> QED BY <1>1, <2>1, <2>2, <2>3, <3>1 DEF Running
  <2> QED BY <2>1, <2>3, <2>4 DEF UnderWay, SuccessIsComplete
<1>4. ManifestIsTrue' /\ VectorsPassed' /\ ReplacedInOrder'
  BY FilesKept DEF Skip, disk
<1> QED BY <1>2, <1>3, <1>4 DEF IInv

LEMMA GenerateKeeps == ASSUME IInv, Generate, pc' = "write" PROVE IInv'
<1>1. /\ pc = "select" /\ entry \in 1..Len(Table) /\ Selected(Stem)
      /\ TestsPass(Stem, options.count, build)
      /\ files' = [files EXCEPT ![Stem] = MadeNow("cut")]
      /\ UNCHANGED <<manifest, metadata, options, entry, printed, generated, exit, build, run>>
  BY DEF Generate, Abort, Stop, IInv, TypeOK
<1>2. Stem \in Stems
  BY <1>1, TableFacts DEF Stem
<1>3. MadeNow("cut") \in File /\ MadeNow("cut").run = run
  BY MadeIsFile DEF IInv, MadeNow, MadeAs
<1>4. /\ files \in [Stems -> File] /\ files'[Stem] = MadeNow("cut")
      /\ \A s \in Stems : s # Stem => files'[s] = files[s]
      /\ \A s \in Stems : files[s].run \in Nat /\ files[s].run <= run
      /\ run \in Nat
  BY <1>1, <1>2 DEF IInv, TypeOK, Numbered, File
<1>5. /\ Running /\ (Full => FullRunning)
      /\ metadata.run \in Nat /\ metadata.run < run /\ manifest.run \in Nat
  BY <1>1 DEF IInv, UnderWay, Running, TypeOK, Manifest
<1>6. TypeOK'
  BY <1>1, <1>2, <1>3 DEF IInv, TypeOK
<1>7. \A s \in Stems : /\ files'[s].run \in Nat
                       /\ files'[s].run >= files[s].run /\ files'[s].run <= run
  BY <1>3, <1>4
<1>8. Numbered' /\ MetadataIsLast'
  BY <1>1, <1>3, <1>4, <1>5, <1>7 DEF IInv, Numbered, MetadataIsLast
<1>9. UnderWay'
  <2>1. Running'
    <3>1. files'[Stem'] = MadeNow("cut")'
      BY <1>1, <1>4 DEF Stem, MadeNow, MadeAs
    <3>2. pc' = "write" /\ entry' <= Len(Table) /\ Selected(Stem)'
      <4>1. entry' = entry /\ options' = options /\ pc' = "write" /\ entry \in 1..Len(Table)
        BY <1>1
      <4>2. Selected(Stem)'
        BY <1>1, <4>1 DEF Selected, Full, Stem
      <4> QED BY <4>1, <4>2, TableFacts
    <3>3. ~Full' => manifest'.run < run'
      BY <1>1, <1>5 DEF Running, Full
    <3> QED BY <1>1, <1>5, <3>1, <3>2, <3>3 DEF Running
  <2>2. ASSUME Full PROVE FullRunning'
    <3>1. FullRunning
      BY <1>5, <2>2
    <3>2. \A i \in 1..Len(Table) : i # entry => files'[Table[i]] = files[Table[i]]
      BY <1>1, <1>4, TableFacts DEF Stem
    <3>3. \A i \in 1..(entry - 1) : Done(i)' /\ printed'[i] = LineOf(i)'
      BY <1>1, <3>1, <3>2, TableFacts, SMTT(30) DEF FullRunning, Done, MadeNow, MadeAs, LineOf
    <3>4. \A i \in (entry + 1)..Len(Table) : files'[Table[i]].run < run
      BY <1>1, <3>1, <3>2, TableFacts DEF FullRunning
    <3>5. manifest.lines = <<>>
      BY <1>1, <3>1 DEF FullRunning, InLoop
    <3>6. pc' = "write"
      OBVIOUS
    <3> QED BY <1>1, <3>1, <3>3, <3>4, <3>5, <3>6 DEF FullRunning
  <2> QED BY <1>1, <2>1, <2>2 DEF UnderWay, Full
<1>10. ManifestIsTrue'
  <2>1. CASE Full
    BY <1>1, <1>5, <2>1 DEF FullRunning, InLoop, ManifestIsTrue
  <2>2. CASE ~Full
    <3> SUFFICES ASSUME NEW i \in 1..Len(manifest.lines)
                 PROVE  LET line == manifest.lines[i]  f == files'[line.stem]
                        IN  /\ f.run >= manifest.run
                            /\ f.run = manifest.run => f.count = line.count /\ f.state # "cut"
      BY <1>1 DEF ManifestIsTrue
    <3> DEFINE stem == manifest.lines[i].stem
    <3>1. manifest.lines[i] \in Line /\ stem \in Stems
      BY LinesAreOfStems DEF IInv, TypeOK
    <3>2. manifest.run < run
      BY <1>5, <2>2 DEF Running
    <3>3. CASE stem = Stem
      BY <1>2, <1>3, <1>4, <1>5, <3>2, <3>3
    <3>4. CASE stem # Stem
      BY <1>4, <3>1, <3>4 DEF IInv, ManifestIsTrue
    <3> QED BY <3>3, <3>4
  <2> QED BY <2>1, <2>2
<1>11. VectorsPassed'
  BY <1>1, <1>4 DEF IInv, VectorsPassed, TestsPass, MadeNow, MadeAs
<1>12. ReplacedInOrder'
  <2> SUFFICES ASSUME NEW i \in 1..Len(Table), NEW j \in 1..Len(Table), i < j,
                      files'[Table[j]].run = manifest.run, manifest.run > 0
               PROVE  files'[Table[i]].run >= manifest.run
    BY <1>1 DEF ReplacedInOrder
  <2>1. Table[i] \in Stems /\ Table[j] \in Stems
    BY TableFacts
  <2>2. CASE Table[j] # Stem
    <3>1. files[Table[i]].run >= manifest.run
      BY <1>4, <2>1, <2>2 DEF IInv, ReplacedInOrder
    <3> QED BY <1>4, <1>5, <1>7, <2>1, <3>1
  <2>3. CASE Table[j] = Stem
    <3>1. manifest.run = run /\ Full
      BY <1>3, <1>4, <1>5, <2>3 DEF Running
    <3>2. j = entry /\ i \in 1..(entry - 1) /\ Table[i] # Stem
      BY <1>1, <2>3, TableFacts DEF Stem
    <3>3. files[Table[i]].run = run
      BY <1>5, <3>1, <3>2, SMTT(30) DEF FullRunning, Done, MadeNow, MadeAs
    <3> QED BY <1>4, <2>1, <3>1, <3>2, <3>3
  <2> QED BY <2>2, <2>3
<1>13. SuccessIsComplete'
  BY DEF SuccessIsComplete
<1> QED BY <1>6, <1>8, <1>9, <1>10, <1>11, <1>12, <1>13 DEF IInv

\* A manifest.txt that is closed while a run is in the loop, or behind it.
LEMMA ClosedIsTrue ==
  ASSUME IInv, InLoop, ManifestWritten, UNCHANGED <<files, build, run>>
  PROVE  manifest' \in Manifest /\ manifest'.run = manifest.run /\ ManifestIsTrue'
<1>1. CASE ~Full
  BY <1>1 DEF ManifestWritten, IInv, TypeOK, ManifestIsTrue
<1>2. CASE Full
  <2>1. FullRunning
    BY <1>2 DEF IInv, UnderWay, InLoop
  <2>2. /\ manifest' \in Manifest /\ manifest'.run = run
        /\ Len(manifest'.lines) \in Nat /\ Len(manifest'.lines) <= entry - 1
        /\ \A i \in 1..Len(manifest'.lines) : manifest'.lines[i] = printed[i]
    BY <1>2, <2>1, WrittenIs DEF IInv, FullRunning
  <2>3. entry \in Nat /\ run \in Nat
    BY TableFacts DEF IInv, TypeOK
  <2>4. ASSUME NEW i \in 1..Len(manifest'.lines)
        PROVE  LET line == manifest'.lines[i]  f == files'[line.stem]
               IN  f.run = run /\ f.count = line.count /\ f.state # "cut"
    <3>1. i \in 1..(entry - 1)
      BY <2>2, <2>3
    <3>2. manifest'.lines[i] = LineOf(i) /\ Done(i)
      BY <2>1, <2>2, <3>1 DEF FullRunning
    <3> QED BY <3>2 DEF LineOf, Done, MadeNow, MadeAs
  <2> QED BY <2>1, <2>2, <2>3, <2>4 DEF ManifestIsTrue, FullRunning
<1> QED BY <1>1, <1>2

LEMMA AbortKeeps ==
  ASSUME IInv, InLoop, NEW how \in {"failure", "killed"}, Abort(how), UNCHANGED files
  PROVE  IInv'
<1>1. /\ pc' = "stopped" /\ exit' = how
      /\ UNCHANGED <<files, metadata, options, entry, printed, generated, build, run>>
  BY DEF Abort, Stop
<1>2. manifest' \in Manifest /\ manifest'.run = manifest.run /\ ManifestIsTrue'
  BY <1>1, ClosedIsTrue DEF Abort
<1>3. TypeOK' /\ Numbered'
  BY <1>1, <1>2 DEF IInv, TypeOK, Numbered
<1>4. UnderWay' /\ SuccessIsComplete'
  BY <1>1 DEF UnderWay, SuccessIsComplete
<1>5. MetadataIsLast' /\ VectorsPassed' /\ ReplacedInOrder'
  BY <1>1, <1>2 DEF IInv, MetadataIsLast, VectorsPassed, TestsPass, ReplacedInOrder
<1> QED BY <1>2, <1>3, <1>4, <1>5 DEF IInv

LEMMA WriteKeeps == ASSUME IInv, Write, pc' = "close" PROVE IInv'
<1>1. /\ pc = "write"
      /\ UNCHANGED <<files, manifest, metadata, options, entry, printed, generated, exit,
                     build, run>>
  BY DEF Write, Abort, Stop, disk
<1>2. TypeOK' /\ Numbered' /\ MetadataIsLast' /\ SuccessIsComplete'
  BY <1>1 DEF IInv, TypeOK, Numbered, MetadataIsLast, SuccessIsComplete
<1>3. UnderWay'
  <2>1. Running /\ (Full => FullRunning)
    BY <1>1 DEF IInv, UnderWay
  <2>2. Running'
    BY <1>1, <2>1 DEF Running, Full, Selected, Stem, MadeNow, MadeAs
  <2>3. ASSUME Full PROVE FullRunning'
    <3>1. \A i \in 1..(entry - 1) : Done(i)' /\ printed'[i] = LineOf(i)'
      BY <1>1, <2>1, <2>3 DEF FullRunning, Done, LineOf, MadeNow, MadeAs
    <3> QED BY <1>1, <2>1, <2>3, <3>1 DEF FullRunning, InLoop
  <2> QED BY <1>1, <2>2, <2>3 DEF UnderWay, Full
<1>4. ManifestIsTrue' /\ VectorsPassed' /\ ReplacedInOrder'
  BY <1>1, FilesKept
<1> QED BY <1>2, <1>3, <1>4 DEF IInv

LEMMA CloseKeeps == IInv /\ Close => IInv'
<1> SUFFICES ASSUME IInv, Close PROVE IInv'
  OBVIOUS
<1>1. PICK state \in {"whole", "lost"} : files' = [files EXCEPT ![Stem] = MadeNow(state)]
  BY DEF Close
<1>2. /\ pc = "close" /\ pc' = "select" /\ entry' = entry + 1 /\ generated' = generated + 1
      /\ printed' = IF ~Full THEN printed ELSE Append(printed, LineOf(entry))
      /\ UNCHANGED <<manifest, metadata, options, exit, build, run>>
  BY DEF Close, LineOf, Stem
<1>3. /\ Running /\ (Full => FullRunning) /\ entry \in 1..Len(Table)
      /\ generated \in Nat /\ run \in Nat /\ manifest.run \in Nat /\ metadata.run \in Nat
  BY <1>2, TableFacts DEF IInv, UnderWay, Running, TypeOK, Manifest
<1>4. Stem \in Stems /\ files[Stem] = MadeNow("cut")
  BY <1>2, <1>3, TableFacts DEF Stem, Running
<1>5. MadeNow(state) \in File /\ MadeNow(state).run = run
  BY MadeIsFile DEF IInv, MadeNow, MadeAs
<1>6. /\ files \in [Stems -> File] /\ files'[Stem] = MadeNow(state)
      /\ \A s \in Stems : s # Stem => files'[s] = files[s]
  BY <1>1, <1>4 DEF IInv, TypeOK
<1>7. \A s \in Stems : files'[s].run = files[s].run
  BY <1>4, <1>5, <1>6 DEF MadeNow, MadeAs
<1>8. TypeOK'
  <2>1. files' \in [Stems -> File]
    BY <1>1, <1>4, <1>5, <1>6
  <2>2. printed' \in Lines
    <3>1. printed \in Seq(Line) /\ LineOf(entry) \in Line
      BY <1>3, TableFacts DEF IInv, TypeOK, Lines, Line, LineOf, Options
    <3> QED BY <1>2, <3>1 DEF Lines
  <2>3. entry' \in 1..(Len(Table) + 1) /\ generated' \in 0..Len(Table)
    BY <1>2, <1>3, TableFacts DEF Running
  <2> QED BY <1>2, <2>1, <2>2, <2>3 DEF IInv, TypeOK
<1>9. Numbered' /\ MetadataIsLast' /\ SuccessIsComplete'
  BY <1>2, <1>7 DEF IInv, Numbered, MetadataIsLast, SuccessIsComplete
<1>10. UnderWay'
  <2>1. Running'
    <3>1. entry \in Nat /\ generated' <= entry' - 1
      BY <1>2, <1>3, TableFacts DEF Running
    <3>2. ~Full' => manifest'.run < run'
      BY <1>2, <1>3 DEF Running, Full
    <3> QED BY <1>2, <1>3, <3>1, <3>2 DEF Running
  <2>2. ASSUME Full PROVE FullRunning'
    <3>1. FullRunning /\ printed \in Seq(Line) /\ LineOf(entry) \in Line
      BY <1>3, <2>2, TableFacts DEF IInv, TypeOK, Lines, Line, LineOf, Options
    <3>2. /\ Len(printed') = entry /\ printed'[entry] = LineOf(entry)
          /\ \A i \in 1..(entry - 1) : printed'[i] = printed[i]
      BY <1>2, <1>3, <2>2, <3>1 DEF FullRunning
    <3>3. \A i \in 1..Len(Table) : i # entry => files'[Table[i]] = files[Table[i]]
      BY <1>3, <1>6, TableFacts DEF Stem
    <3>4. ASSUME NEW i \in 1..entry PROVE Done(i)' /\ printed'[i] = LineOf(i)'
      <4>1. CASE i = entry
        BY <1>2, <1>6, <3>2, <4>1 DEF Done, LineOf, MadeNow, MadeAs, Stem
      <4>2. CASE i # entry
        <5>1. i \in 1..(entry - 1) /\ i \in 1..Len(Table)
          BY <1>3, <4>2, TableFacts
        <5>2. Done(i) /\ printed[i] = LineOf(i)
          BY <3>1, <5>1 DEF FullRunning
        <5> QED BY <1>2, <3>2, <3>3, <4>2, <5>1, <5>2 DEF Done, LineOf, MadeNow, MadeAs
      <4> QED BY <4>1, <4>2
    <3>5. \A i \in (entry + 1)..Len(Table) : files'[Table[i]].run < run
      <4> SUFFICES ASSUME NEW i \in (entry + 1)..Len(Table) PROVE files'[Table[i]].run < run
        OBVIOUS
      <4>1. i \in 1..Len(Table) /\ i # entry
        BY <1>3, TableFacts
      <4> QED BY <3>1, <3>3, <4>1 DEF FullRunning
    <3>6. entry' <= Len(Table) => files'[Stem'].run < run
      BY <1>2, <1>3, <3>5, TableFacts DEF Stem
    <3>7. manifest.run = run /\ generated = entry - 1 /\ manifest.lines = <<>>
      BY <1>2, <3>1 DEF FullRunning, InLoop
    <3>8. entry' - 1 = entry /\ entry' + 1 \in Nat /\ entry' + 1 > entry + 1
      BY <1>2, <1>3
    <3>9. \A i \in (entry' + 1)..Len(Table) : files'[Table[i]].run < run
      BY <1>3, <3>5, <3>8, TableFacts
    <3> QED BY <1>2, <1>3, <3>2, <3>4, <3>6, <3>7, <3>8, <3>9 DEF FullRunning
  <2> QED BY <1>2, <2>1, <2>2 DEF UnderWay, Full
<1>11. ManifestIsTrue'
  <2>1. CASE Full
    BY <1>2, <1>3, <2>1 DEF FullRunning, InLoop, ManifestIsTrue
  <2>2. CASE ~Full
    <3> SUFFICES ASSUME NEW i \in 1..Len(manifest.lines)
                 PROVE  LET line == manifest.lines[i]  f == files'[line.stem]
                        IN  /\ f.run >= manifest.run
                            /\ f.run = manifest.run => f.count = line.count /\ f.state # "cut"
      BY <1>2 DEF ManifestIsTrue
    <3> DEFINE stem == manifest.lines[i].stem
    <3>1. stem \in Stems
      BY LinesAreOfStems DEF IInv, TypeOK
    <3>2. manifest.run < run
      BY <1>3, <2>2 DEF Running
    <3>3. CASE stem = Stem
      BY <1>3, <1>5, <1>6, <3>2, <3>3
    <3>4. CASE stem # Stem
      BY <1>6, <3>1, <3>4 DEF IInv, ManifestIsTrue
    <3> QED BY <3>3, <3>4
  <2> QED BY <2>1, <2>2
<1>12. VectorsPassed'
  <2>1. TestsPass(Stem, options.count, build)
    <3>1. files[Stem].run > 0
      BY <1>3, <1>4 DEF Running, MadeNow, MadeAs
    <3>2. files[Stem].count = options.count /\ files[Stem].build = build
      BY <1>4 DEF MadeNow, MadeAs
    <3> QED BY <1>4, <3>1, <3>2 DEF IInv, VectorsPassed
  <2>2. files'[Stem].count = options.count /\ files'[Stem].build = build
    BY <1>6 DEF MadeNow, MadeAs
  <2> QED BY <1>6, <2>1, <2>2 DEF IInv, VectorsPassed, TestsPass
<1>13. ReplacedInOrder'
  BY <1>2, <1>7, TableFacts DEF IInv, ReplacedInOrder
<1> QED BY <1>8, <1>9, <1>10, <1>11, <1>12, <1>13 DEF IInv

LEMMA CloseManifestKeeps == IInv /\ CloseManifest => IInv'
<1> SUFFICES ASSUME IInv, CloseManifest PROVE IInv'
  OBVIOUS
<1>1. /\ pc = "select" /\ entry = Len(Table) + 1 /\ ManifestWritten
      /\ pc' = IF Full THEN "metadata" ELSE "stopped"
      /\ exit' = IF Full THEN exit ELSE "success"
      /\ UNCHANGED <<files, metadata, options, entry, printed, generated, build, run>>
  BY TableFacts DEF CloseManifest, Stop, IInv, TypeOK
<1>2. manifest' \in Manifest /\ manifest'.run = manifest.run /\ ManifestIsTrue'
  BY <1>1, ClosedIsTrue DEF InLoop
<1>3. TypeOK' /\ Numbered'
  BY <1>1, <1>2 DEF IInv, TypeOK, Numbered
<1>4. UnderWay'
  <2> SUFFICES ASSUME Full PROVE Running' /\ FullRunning'
    BY <1>1 DEF UnderWay
  <2>1. Running /\ FullRunning /\ pc' = "metadata"
    BY <1>1 DEF IInv, UnderWay
  <2>2. Running'
    BY <1>1, <2>1 DEF Running, Full
  <2>3. \A i \in 1..(entry - 1) : Done(i)' /\ printed'[i] = LineOf(i)'
    BY <1>1, <2>1 DEF FullRunning, Done, LineOf, MadeNow, MadeAs
  <2>4. manifest'.lost \/ ListsTable(options.count)'
    <3> SUFFICES ASSUME ~manifest'.lost PROVE ListsTable(options.count)'
      OBVIOUS
    <3>1. manifest'.lines = printed
      BY WrittenIs, <1>1 DEF IInv
    <3>2. entry - 1 = Len(Table)
      BY <1>1, TableFacts
    <3> QED BY <1>1, <2>1, <3>1, <3>2 DEF FullRunning, LineOf, ListsTable
  <2>5. (entry + 1)..Len(Table) = {}
    BY <1>1, TableFacts
  <2> QED BY <1>1, <1>2, <2>1, <2>2, <2>3, <2>4, <2>5 DEF FullRunning, InLoop
<1>5. SuccessIsComplete'
  BY <1>1 DEF SuccessIsComplete, Full
<1>6. MetadataIsLast' /\ VectorsPassed' /\ ReplacedInOrder'
  BY <1>1, <1>2 DEF IInv, MetadataIsLast, VectorsPassed, TestsPass, ReplacedInOrder
<1> QED BY <1>2, <1>3, <1>4, <1>5, <1>6 DEF IInv

\* Behind the loop of a full run, every file is of this run and this build.
LEMMA AllDone ==
  ASSUME IInv, pc = "metadata"
  PROVE  /\ Full /\ FullRunning /\ run \in Nat
         /\ \A s \in Stems : files[s] \in {MadeNow("whole"), MadeNow("lost")}
<1>1. Full /\ FullRunning /\ entry = Len(Table) + 1 /\ run \in Nat
  BY DEF IInv, UnderWay, Running, TypeOK
<1>2. ASSUME NEW s \in Stems PROVE files[s] \in {MadeNow("whole"), MadeNow("lost")}
  <2>1. PICK i \in 1..Len(Table) : s = Table[i]
    BY TableFacts
  <2>2. i \in 1..(entry - 1)
    BY <1>1, TableFacts
  <2> QED BY <1>1, <2>1, <2>2 DEF FullRunning, Done
<1> QED BY <1>1, <1>2

LEMMA MetadataKept ==
  ASSUME IInv, pc = "metadata", pc' = "stopped", NEW lost \in BOOLEAN,
         metadata' \in {metadata, [run |-> run, lost |-> lost]},
         exit' \in {"success", "failure", "killed"},
         UNCHANGED <<files, manifest, options, entry, printed, generated, build, run>>,
         exit' = "success" => metadata'.run = run
  PROVE  IInv'
<1>1. /\ Full /\ FullRunning /\ run \in Nat
      /\ \A s \in Stems : files[s] \in {MadeNow("whole"), MadeNow("lost")}
  BY AllDone
<1>2. metadata' \in [run : Nat, lost : BOOLEAN] /\ metadata'.run <= run
  BY <1>1 DEF IInv, TypeOK, Numbered
<1>3. TypeOK' /\ Numbered' /\ UnderWay'
  BY <1>2 DEF IInv, TypeOK, Numbered, UnderWay
<1>4. MetadataIsLast'
  <2>1. \A s \in Stems : files[s].run = run
    BY <1>1 DEF MadeNow, MadeAs
  <2> QED BY <1>1, <1>2, <2>1 DEF MetadataIsLast
<1>5. SuccessIsComplete'
  <2> SUFFICES ASSUME exit' = "success"
               PROVE  /\ \E b \in Builds :
                           \A s \in Stems : files[s] \in {MadeAs(b, "whole"), MadeAs(b, "lost")}
                      /\ manifest.run = run /\ (manifest.lost \/ ListsTable(options.count))
                      /\ metadata'.run = run
    BY <1>1 DEF SuccessIsComplete, ListsTable, MadeAs
  <2>1. /\ build \in Builds
        /\ \A s \in Stems : files[s] \in {MadeAs(build, "whole"), MadeAs(build, "lost")}
    BY <1>1 DEF IInv, TypeOK, MadeNow
  <2> QED BY <1>1, <2>1 DEF FullRunning
<1>6. ManifestIsTrue' /\ VectorsPassed' /\ ReplacedInOrder'
  BY FilesKept
<1> QED BY <1>3, <1>4, <1>5, <1>6 DEF IInv

LEMMA WriteMetadataKeeps == IInv /\ WriteMetadata => IInv'
<1> SUFFICES ASSUME IInv, WriteMetadata PROVE IInv'
  OBVIOUS
<1>1. /\ pc = "metadata" /\ pc' = "stopped"
      /\ UNCHANGED <<files, manifest, options, entry, printed, generated, build, run>>
  BY DEF WriteMetadata, Stop
<1>2. CASE metadata' = metadata /\ exit' = "failure"
  BY <1>1, <1>2, MetadataKept
<1>3. CASE exit' = "success" /\ \E lost \in BOOLEAN : metadata' = [run |-> run, lost |-> lost]
  <2>1. PICK lost \in BOOLEAN : metadata' = [run |-> run, lost |-> lost]
    BY <1>3
  <2>2. metadata'.run = run
    BY <2>1
  <2> QED BY <1>1, <1>3, <2>1, <2>2, MetadataKept
<1> QED BY <1>2, <1>3 DEF WriteMetadata, Stop

LEMMA KillKeeps == IInv /\ Kill => IInv'
<1> SUFFICES ASSUME IInv, Kill PROVE IInv'
  OBVIOUS
<1>1. CASE pc # "metadata"
  BY <1>1, AbortKeeps DEF Kill, InLoop, IInv, TypeOK
<1>2. CASE pc = "metadata"
  <2>1. /\ pc' = "stopped" /\ exit' = "killed"
        /\ UNCHANGED <<files, manifest, options, entry, printed, generated, build, run>>
        /\ metadata' \in {metadata, [run |-> run, lost |-> TRUE]}
    BY <1>2 DEF Kill, Stop
  <2> QED BY <1>2, <2>1, MetadataKept
<1> QED BY <1>1, <1>2

LEMMA StutterKeeps == IInv /\ UNCHANGED vars => IInv'
<1> SUFFICES ASSUME IInv, UNCHANGED vars PROVE IInv'
  OBVIOUS
<1>1. TypeOK' /\ Numbered' /\ MetadataIsLast' /\ ManifestIsTrue' /\ ReplacedInOrder'
  BY DEF IInv, vars, TypeOK, Numbered, MetadataIsLast, ManifestIsTrue, ReplacedInOrder
<1>2. VectorsPassed'
  BY DEF IInv, vars, VectorsPassed, TestsPass
<1>3. SuccessIsComplete'
  BY DEF IInv, vars, SuccessIsComplete, ListsTable, Full, MadeAs
<1>4. UnderWay'
  BY DEF IInv, vars, UnderWay, Running, FullRunning, InLoop, Full, Selected, Stem, Done,
         LineOf, MadeNow, MadeAs, ListsTable
<1> QED BY <1>1, <1>2, <1>3, <1>4 DEF IInv

LEMMA Inductive == Spec => []IInv
<1>1. IInv /\ [Next]_vars => IInv'
  <2> SUFFICES ASSUME IInv, [Next]_vars PROVE IInv'
    OBVIOUS
  <2>1. CASE Generate
    <3>1. CASE pc' = "write"
      BY <2>1, <3>1, GenerateKeeps
    <3>2. CASE pc' # "write"
      BY <2>1, <3>2, AbortKeeps DEF Generate, InLoop
    <3> QED BY <3>1, <3>2
  <2>2. CASE Write
    <3>1. CASE pc' = "close"
      BY <2>2, <3>1, WriteKeeps
    <3>2. CASE pc' # "close"
      BY <2>2, <3>2, AbortKeeps DEF Write, InLoop
    <3> QED BY <3>1, <3>2
  <2> QED BY <2>1, <2>2, OtherInvocationKeeps, BeginKeeps, SkipKeeps, CloseKeeps,
             CloseManifestKeeps, WriteMetadataKeeps, KillKeeps, RebuildKeeps, StutterKeeps
          DEF Next
<1> QED BY <1>1, InitHolds, PTL DEF Spec

-----------------------------------------------------------------------------
\* Every variable keeps its type, for every table, command line and failure.
THEOREM TypeCorrect == Spec => []TypeOK
<1>1. IInv => TypeOK
  BY DEF IInv
<1> QED BY <1>1, Inductive, PTL

\* Exit code 0 of a full run means what a caller takes it to mean: vectors of
\* one build for the whole table, the manifest of them, and the metadata.
THEOREM SuccessMeansComplete == Spec => []SuccessIsComplete
<1>1. IInv => SuccessIsComplete
  BY DEF IInv
<1> QED BY <1>1, Inductive, PTL

\* No line of manifest.txt is of a file that its own run has left cut, or with
\* another count, whatever stopped the run.
THEOREM ManifestCanBeTrusted == Spec => []ManifestIsTrue
<1>1. IInv => ManifestIsTrue
  BY DEF IInv
<1> QED BY <1>1, Inductive, PTL

\* The vectors in the directory, whole or cut, have all passed in the build
\* that made them, whichever builds and runs left them there.
THEOREM VectorsHavePassed == Spec => []VectorsPassed
<1>1. IInv => VectorsPassed
  BY DEF IInv
<1> QED BY <1>1, Inductive, PTL

\* The full run that made manifest.txt has replaced a prefix of the table's
\* vectors, however it ended.
THEOREM FilesReplacedInOrder == Spec => []ReplacedInOrder
<1>1. IInv => ReplacedInOrder
  BY DEF IInv
<1> QED BY <1>1, Inductive, PTL

\* No vector file is older than metadata.json, even when its run was killed.
THEOREM MetadataIsWrittenLast == Spec => []MetadataIsLast
<1>1. IInv => MetadataIsLast
  BY DEF IInv
<1> QED BY <1>1, Inductive, PTL

\* A run with --opcode leaves every other file, the manifest and the metadata
\* as they were.
THEOREM FilteredRunsAreLocal == Spec => FilteredRunIsLocal
<1> DEFINE Local ==
      /\ options'.kind # "run" => UNCHANGED disk
      /\ options'.filter # "" =>
           /\ UNCHANGED <<manifest, metadata>>
           /\ \A s \in Stems \ {options'.filter} : files'[s] = files[s]
<1>1. IInv /\ [Next]_vars => [Local]_vars
  <2> SUFFICES ASSUME IInv, Next PROVE Local
    OBVIOUS
  <2>1. CASE pc = "stopped"
    BY <2>1 DEF Next, OtherInvocation, Begin, Skip, Generate, Write, Close, CloseManifest,
                WriteMetadata, Kill, Rebuild, disk
  <2>2. CASE pc # "stopped"
    <3>1. options' = options /\ options.kind = "run" /\ files \in [Stems -> File]
      BY <2>2 DEF Next, OtherInvocation, Begin, Skip, Generate, Write, Close, CloseManifest,
                  WriteMetadata, Kill, Rebuild, Abort, Stop, IInv, UnderWay, Running, TypeOK
    <3> SUFFICES ASSUME ~Full
                 PROVE  /\ UNCHANGED <<manifest, metadata>>
                        /\ \A s \in Stems \ {options.filter} : files'[s] = files[s]
      BY <3>1 DEF Full
    <3>2. pc # "metadata"
      BY <2>2 DEF IInv, UnderWay, Running
    <3>3. UNCHANGED <<manifest, metadata>>
      BY <2>2, <3>2 DEF Next, OtherInvocation, Begin, Skip, Generate, Write, Close,
           CloseManifest, WriteMetadata, Kill, Rebuild, Abort, ManifestWritten, disk
    <3>4. CASE UNCHANGED files
      BY <3>3, <3>4
    <3>5. ASSUME NEW state, files' = [files EXCEPT ![Stem] = MadeNow(state)], Stem = options.filter
          PROVE  \A s \in Stems \ {options.filter} : files'[s] = files[s]
      BY <3>1, <3>5
    <3>6. CASE Generate
      BY <3>4, <3>5, <3>6 DEF Generate, Selected
    <3>7. CASE Close
      <4>1. Stem = options.filter
        BY <2>2, <3>7 DEF Close, Selected, IInv, UnderWay, Running
      <4> QED BY <3>3, <3>5, <3>7, <4>1 DEF Close
    <3>8. ~Generate /\ ~Close => UNCHANGED files
      BY <2>2 DEF Next, OtherInvocation, Begin, Skip, Write, CloseManifest, WriteMetadata,
                  Kill, Rebuild, disk
    <3> QED BY <3>3, <3>4, <3>6, <3>7, <3>8
  <2> QED BY <2>1, <2>2
<1> QED BY <1>1, Inductive, PTL DEF Spec, FilteredRunIsLocal, disk
=============================================================================
