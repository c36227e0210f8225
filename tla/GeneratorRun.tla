---------------------------- MODULE GeneratorRun ----------------------------
(***************************************************************************)
(* main() over one output directory: runs of several builds of the         *)
(* generator, for the whole table or with --opcode for one file, that      *)
(* succeed, stop at a test that fails, at a file that cannot be opened or  *)
(* written, or are killed; what they leave in the vector files, in         *)
(* manifest.txt and in metadata.json.                                      *)
(*                                                                         *)
(* manifest.txt is smaller than the buffer of stdio: how much of it is on  *)
(* disk is known when it is closed, and not before.  The results of        *)
(* gzclose and fclose are ignored: what they lose is lost unnoticed.  (A    *)
(* line cut in two counts as lost.)                                        *)
(***************************************************************************)
EXTENDS Naturals, Sequences

CONSTANTS
  Names,        \* stems, and what else --opcode may be given; "" stands for no --opcode
  Table,        \* the stems of OPCODE_TABLE
  Invocations,  \* the command lines: see CommandLine
  Builds,       \* builds of the generator, 1..n
  Failing,      \* Failing[b]: the pairs <<stem, test_index>> that fail in build b
  MaxRuns       \* bound: runs of the generator

Stems == {Table[i] : i \in 1..Len(Table)}
Options == [kind : {"run", "sanity", "usage"}, filter : Names, count : Nat]

ASSUME RunAssumption ==
  /\ "" \in Names /\ Table \in Seq(Names) /\ "" \notin Stems
  /\ \A i, j \in 1..Len(Table) : Table[i] = Table[j] => i = j
  /\ Invocations \subseteq Options
  /\ Builds \subseteq Nat \ {0} /\ Builds # {} /\ MaxRuns \in Nat

VARIABLES
  files, manifest, metadata,  \* the directory
  pc, options, entry,         \* where main() is, its options and table position
  printed,                    \* the lines it has printed to manifest.txt
  generated,                  \* generated_files
  exit,                       \* how the last run ended
  build,                      \* the build that runs
  run                         \* history: the number of the run

disk == <<files, manifest, metadata>>
vars == <<files, manifest, metadata, pc, options, entry, printed, generated, exit, build, run>>

(***************************************************************************)
(* A file on disk, with the run and the build that made it.  Its state is  *)
(* "cut" after gzopen truncated it, "lost" when gzclose could not write    *)
(* the rest, "whole" otherwise.  Run 0 stands for no file.                 *)
(***************************************************************************)
File == [run : Nat, build : Nat, count : Nat, state : {"cut", "lost", "whole"}]
NoFile == [run |-> 0, build |-> 0, count |-> 0, state |-> "cut"]
MadeAs(b, state) == [run |-> run, build |-> b, count |-> options.count, state |-> state]
MadeNow(state) == MadeAs(build, state)

Line == [stem : Stems, count : Nat]
Lines == Seq(Line)
Manifest == [run : Nat, lines : Lines, lost : BOOLEAN]

Init ==
  /\ files = [s \in Stems |-> NoFile]
  /\ manifest = [run |-> 0, lines |-> <<>>, lost |-> FALSE]
  /\ metadata = [run |-> 0, lost |-> FALSE]
  /\ pc = "stopped" /\ options = [kind |-> "usage", filter |-> "", count |-> 0]
  /\ entry = 1 /\ printed = <<>> /\ generated = 0
  /\ exit = "failure" /\ build \in Builds /\ run = 0

-----------------------------------------------------------------------------
Full == options.filter = ""
Stem == Table[entry]
Selected(stem) == Full \/ stem = options.filter

\* What a manifest.txt that was opened holds once the process is gone: all
\* lines, or those that reached the disk.
ManifestWritten ==
  IF Full THEN manifest' \in {[run |-> run, lines |-> printed, lost |-> FALSE]}
                       \cup {[run |-> run, lines |-> SubSeq(printed, 1, k), lost |-> TRUE]
                               : k \in 0..Len(printed)}
  ELSE UNCHANGED manifest

Stop(how) ==
  /\ pc' = "stopped" /\ exit' = how
  /\ UNCHANGED <<options, entry, printed, generated, build, run>>

\* fail_test, exit(1) and a signal: exit() flushes manifest.txt.
Abort(how) == Stop(how) /\ ManifestWritten /\ UNCHANGED metadata

-----------------------------------------------------------------------------
\* A command line without a run: a usage error, or the sanity cases, of which
\* the first that does not terminate or has other cycles exits with 1.
OtherInvocation ==
  /\ pc = "stopped" /\ run < MaxRuns
  /\ options' \in {o \in Invocations : o.kind # "run"}
  /\ exit' \in {"failure", "success"} /\ (options'.kind = "usage" => exit' = "failure")
  /\ run' = run + 1
  /\ UNCHANGED <<disk, pc, entry, printed, generated, build>>

\* Mutants of Begin: manifest.txt is opened by every run, or to append;
\* metadata.json is written first.
BeginRun(opened, lines) ==
  /\ pc = "stopped" /\ run < MaxRuns
  /\ options' \in {o \in Invocations : o.kind = "run"}
  /\ run' = run + 1 /\ entry' = 1 /\ printed' = lines /\ generated' = 0
  /\ \/ /\ pc' = "select"
        /\ manifest' = IF opened \/ options'.filter = ""
                       THEN [run |-> run', lines |-> <<>>, lost |-> FALSE] ELSE manifest
        /\ UNCHANGED exit
     \/ pc' = "stopped" /\ exit' = "failure" /\ UNCHANGED manifest
  /\ UNCHANGED <<files, build>>
BeginAlways   == BeginRun(TRUE, <<>>) /\ UNCHANGED metadata
BeginAppend   == BeginRun(FALSE, manifest.lines) /\ UNCHANGED metadata
BeginMetadata == BeginRun(FALSE, <<>>) /\ metadata' = [run |-> run', lost |-> FALSE]

\* main() up to the loop.  The directory may be out of reach, and manifest.txt,
\* which is truncated here, impossible to open.
Begin ==
  /\ pc = "stopped" /\ run < MaxRuns
  /\ options' \in {o \in Invocations : o.kind = "run"}
  /\ run' = run + 1 /\ entry' = 1 /\ printed' = <<>> /\ generated' = 0
  /\ \/ /\ pc' = "select"
        /\ manifest' = IF options'.filter = ""
                       THEN [run |-> run', lines |-> <<>>, lost |-> FALSE] ELSE manifest
        /\ UNCHANGED exit
     \/ pc' = "stopped" /\ exit' = "failure" /\ UNCHANGED manifest
  /\ UNCHANGED <<files, metadata, build>>

Skip ==
  /\ pc = "select" /\ entry <= Len(Table) /\ ~Selected(Stem)
  /\ entry' = entry + 1
  /\ UNCHANGED <<disk, pc, options, printed, generated, exit, build, run>>

TestsPass(stem, count, b) == \A t \in Failing[b] : ~(t[1] = stem /\ t[2] < count)

\* Mutants of Generate: a test that fails is reported and no more; the run goes
\* on with the next opcode.
GenerateUnchecked ==
  /\ pc = "select" /\ entry <= Len(Table) /\ Selected(Stem)
  /\ pc' = "write" /\ files' = [files EXCEPT ![Stem] = MadeNow("cut")]
  /\ UNCHANGED <<manifest, metadata, options, entry, printed, generated, exit, build, run>>
GenerateSkipping ==
  /\ pc = "select" /\ entry <= Len(Table) /\ Selected(Stem)
  /\ IF TestsPass(Stem, options.count, build)
     THEN /\ pc' = "write" /\ files' = [files EXCEPT ![Stem] = MadeNow("cut")]
          /\ UNCHANGED entry
     ELSE UNCHANGED <<pc, files>> /\ entry' = entry + 1
  /\ UNCHANGED <<manifest, metadata, options, printed, generated, exit, build, run>>

\* generate_test for every index, and gzopen: a test that fails ends the run,
\* and so does a file that cannot be opened; the file is truncated after both.
Generate ==
  /\ pc = "select" /\ entry <= Len(Table) /\ Selected(Stem)
  /\ \/ /\ TestsPass(Stem, options.count, build)
        /\ pc' = "write" /\ files' = [files EXCEPT ![Stem] = MadeNow("cut")]
        /\ UNCHANGED <<manifest, metadata, options, entry, printed, generated, exit, build, run>>
     \/ Abort("failure") /\ UNCHANGED files

\* gzwrite.
Write ==
  /\ pc = "write"
  /\ \/ /\ pc' = "close"
        /\ UNCHANGED <<disk, options, entry, printed, generated, exit, build, run>>
     \/ Abort("failure") /\ UNCHANGED files

\* Mutant of Close: the line is printed for the next opcode of the table.
CloseNext ==
  /\ pc = "close" /\ pc' = "select" /\ entry' = entry + 1
  /\ \E state \in {"whole", "lost"} : files' = [files EXCEPT ![Stem] = MadeNow(state)]
  /\ printed' = IF ~Full THEN printed
                ELSE Append(printed, [stem |-> Table[(entry % Len(Table)) + 1],
                                      count |-> options.count])
  /\ generated' = generated + 1
  /\ UNCHANGED <<manifest, metadata, options, exit, build, run>>

\* gzclose, with the result ignored, and the line of the manifest.
Close ==
  /\ pc = "close" /\ pc' = "select" /\ entry' = entry + 1
  /\ \E state \in {"whole", "lost"} : files' = [files EXCEPT ![Stem] = MadeNow(state)]
  /\ printed' = IF ~Full THEN printed
                ELSE Append(printed, [stem |-> Stem, count |-> options.count])
  /\ generated' = generated + 1
  /\ UNCHANGED <<manifest, metadata, options, exit, build, run>>

\* The end of the loop: a run with --opcode is over, whatever it has found.
CloseManifest ==
  /\ pc = "select" /\ entry > Len(Table)
  /\ ManifestWritten /\ UNCHANGED <<files, metadata>>
  /\ IF Full THEN pc' = "metadata"
                  /\ UNCHANGED <<options, entry, printed, generated, exit, build, run>>
     ELSE Stop("success")

\* The count of the files is checked, and metadata.json is written.
WriteMetadata ==
  /\ pc = "metadata"
  /\ \/ /\ generated = Len(Table)
        /\ \E lost \in BOOLEAN : metadata' = [run |-> run, lost |-> lost]
        /\ Stop("success")
     \/ UNCHANGED metadata /\ Stop("failure")
  /\ UNCHANGED <<files, manifest>>

\* The run is killed, perhaps while metadata.json is written.
Kill ==
  /\ pc # "stopped" /\ UNCHANGED files
  /\ \/ pc # "metadata" /\ Abort("killed")
     \/ /\ pc = "metadata" /\ Stop("killed") /\ UNCHANGED manifest
        /\ metadata' \in {metadata, [run |-> run, lost |-> TRUE]}

\* The generator is changed and built again.
Rebuild ==
  /\ pc = "stopped" /\ build' \in Builds \ {build}
  /\ UNCHANGED <<disk, pc, options, entry, printed, generated, exit, run>>

Next ==
  \/ OtherInvocation \/ Begin \/ Skip \/ Generate \/ Write \/ Close
  \/ CloseManifest \/ WriteMetadata \/ Kill \/ Rebuild

Spec == Init /\ [][Next]_vars
-----------------------------------------------------------------------------
TypeOK ==
  /\ files \in [Stems -> File]
  /\ manifest \in Manifest
  /\ metadata \in [run : Nat, lost : BOOLEAN]
  /\ pc \in {"stopped", "select", "write", "close", "metadata"}
  /\ options \in Options
  /\ entry \in 1..(Len(Table) + 1)
  /\ printed \in Lines
  /\ generated \in 0..Len(Table)
  /\ exit \in {"success", "failure", "killed"}
  /\ build \in Builds /\ run \in Nat

(***************************************************************************)
(* A full run that succeeds leaves one build's vectors of the whole table, *)
(* with the count it was given, the manifest of exactly these, and the     *)
(* metadata: whatever earlier runs left behind, only a close that failed   *)
(* unnoticed can be missing (exit code of main()).                         *)
(***************************************************************************)
ListsTable(count) ==
  /\ Len(manifest.lines) = Len(Table)
  /\ \A i \in 1..Len(Table) : manifest.lines[i] = [stem |-> Table[i], count |-> count]
SuccessIsComplete ==
  pc = "stopped" /\ exit = "success" /\ options.kind = "run" /\ Full =>
    /\ \E b \in Builds : \A s \in Stems : files[s] \in {MadeAs(b, "whole"), MadeAs(b, "lost")}
    /\ manifest.run = run /\ (manifest.lost \/ ListsTable(options.count))
    /\ metadata.run = run

(***************************************************************************)
(* Every line that manifest.txt is left with when its run is over is true  *)
(* of the file of that run: the file was closed before the line was        *)
(* printed, so that neither a test that fails nor a kill leaves a line of  *)
(* a file that is cut.  Only a later run with --opcode can make it wrong.  *)
(***************************************************************************)
ManifestIsTrue ==
  \A i \in 1..Len(manifest.lines) :
    LET line == manifest.lines[i]  f == files[line.stem]
    IN  /\ f.run >= manifest.run
        /\ f.run = manifest.run => f.count = line.count /\ f.state # "cut"

(***************************************************************************)
(* metadata.json is written last: all files are of its run or of a later   *)
(* one, even when that run was killed.                                     *)
(***************************************************************************)
MetadataIsLast == \A s \in Stems : files[s].run >= metadata.run

(***************************************************************************)
(* No vector file, whole or cut, is of a build in which one of its tests   *)
(* fails: a file is not touched until its tests have passed.               *)
(***************************************************************************)
VectorsPassed ==
  \A s \in Stems : files[s].run > 0 => TestsPass(s, files[s].count, files[s].build)

(***************************************************************************)
(* The full run that made manifest.txt has replaced the vectors from the   *)
(* start of the table up to some entry, however it ended: what follows is  *)
(* as old as it was.                                                       *)
(***************************************************************************)
ReplacedInOrder ==
  \A i, j \in 1..Len(Table) :
    i < j /\ manifest.run > 0 /\ files[Table[j]].run = manifest.run
      => files[Table[i]].run >= manifest.run

(***************************************************************************)
(* A run with --opcode touches nothing but its own file, and a run that is *)
(* none touches nothing.                                                   *)
(***************************************************************************)
FilteredRunIsLocal ==
  [][/\ options'.kind # "run" => UNCHANGED disk
     /\ options'.filter # "" =>
          /\ UNCHANGED <<manifest, metadata>>
          /\ \A s \in Stems \ {options'.filter} : files'[s] = files[s]]_vars

(***************************************************************************)
(* README.md:15: "v1/manifest.txt - one <stem> <test count> line per       *)
(* generated file", whenever a run has succeeded in a directory that a     *)
(* full run has completed.                                                 *)
(***************************************************************************)
OneLinePerFile ==
  /\ pc = "stopped" /\ exit = "success"
  /\ manifest.run > 0 /\ metadata.run = manifest.run /\ ~manifest.lost
  => {manifest.lines[i] : i \in 1..Len(manifest.lines)} =
       {[stem |-> s, count |-> files[s].count] : s \in {t \in Stems : files[t].run > 0}}
=============================================================================
