--------------------------------- MODULE Fix ---------------------------------
(***************************************************************************)
(* `kuro fix` (cli/cmd/fix.go): sessions that collect findings from the    *)
(* tree or from a report, and for each one replace a secret by a reference *)
(* to the environment, record a suppression, skip it or quit.  Sessions    *)
(* share the tree and the suppression manifest without a lock; each reads  *)
(* a whole file, and later renames a whole new one over it.  A session may *)
(* be killed at any step.                                                  *)
(***************************************************************************)
EXTENDS Integers, FiniteSets, SequencesExt

CONSTANTS
  Sessions,  \* the processes
  Modes,     \* how they may be invoked, a subset of Mode
  Files,     \* the files of the tree, in the order of the walk
  Secrets,   \* the values that a secret detector finds, none a part of another one
  Trees,     \* the contents the tree may start with
  Reports    \* the reports --report may name: lists of positions

Mode == [auto : BOOLEAN, dryRun : BOOLEAN, report : BOOLEAN]

(***************************************************************************)
(* A line is the occurrences of values in it, in quotes of a kind or bare, *)
(* and its references to the environment, in the order in which the        *)
(* detectors look for the values and, of one value, in the order of the    *)
(* text.  A detector may find a value in one place and not in another: the *)
(* last one looks for a name such as api_key before it.                    *)
(***************************************************************************)
Occurrence == [secret : Secrets, quote : {"double", "single", "bare"}, recognized : BOOLEAN]
Reference  == [secret |-> "", quote |-> "none", recognized |-> FALSE]
Line       == Seq(Occurrence \cup {Reference})

\* The module that a reference takes: whether it is imported, whether the text
\* that says so is somewhere in the file, be it in a comment, a literal or another
\* name, and what the place is like where an import would be put, if there is one.
Imports == [imported : BOOLEAN, mentioned : BOOLEAN, place : {"read", "unread", "none"}]

\* Lines that an import adds are not counted.
File == [kind : {"go", "py", "js", "other"}, imports : Imports, lines : Seq(Line)]
Tree == [ToSet(Files) -> File]

\* A file that refers to the environment imports what that takes.
Refers(file)   == \E k \in DOMAIN file.lines : Reference \in ToSet(file.lines[k])
Resolves(file) == Refers(file) => file.kind = "js" \/ file.imports.imported

ASSUME FixAssumption ==
  /\ Modes \subseteq Mode
  /\ Trees \subseteq {t \in Tree : \A f \in ToSet(Files) : Resolves(t[f])}
  /\ Files \in Seq(STRING) /\ "" \notin Secrets

\* Where a finding is, a finding, and what the manifest says.
Position == [file : ToSet(Files), line : Nat]
Finding  == [at : Position, secret : Secrets \cup {""}]
Manifest == [state : {"absent", "valid", "invalid"}, records : SUBSET Position]

ASSUME ReportsAssumption == Reports \subseteq Seq(Position)

VARIABLES
  origin,    \* the files before the first session
  tree,      \* the files on disk
  manifest,  \* .kuro-suppressions.json on disk
  pc,        \* where each session is
  mode,      \* its flags
  findings,  \* what it has left to go through
  toWrite,   \* the file or manifest it has ready to be renamed into place
  failed,    \* its failedFixes
  status     \* its exit status, -1 without one

diskVars    == <<origin, tree, manifest>>
sessionVars == <<pc, mode, findings, toWrite, failed, status>>
vars        == <<diskVars, sessionVars>>

NoImports == [imported |-> FALSE, mentioned |-> FALSE, place |-> "none"]
NoFile    == [kind |-> "other", imports |-> NoImports, lines |-> <<>>]

NoMode == [auto |-> FALSE, dryRun |-> FALSE, report |-> FALSE]
Empty  == [file |-> NoFile, manifest |-> [state |-> "absent", records |-> {}]]

TypeOK ==
  /\ origin \in Tree /\ tree \in Tree
  /\ manifest \in Manifest
  /\ pc \in [Sessions -> {"idle", "loop", "file", "manifest", "ended"}]
  /\ mode \in [Sessions -> Modes \cup {NoMode}]
  /\ findings \in [Sessions -> Seq(Finding)]
  /\ toWrite \in [Sessions -> [file : File, manifest : Manifest]]
  /\ failed \in [Sessions -> Nat]
  /\ status \in [Sessions -> -1 .. 1]

Init ==
  /\ origin \in Trees /\ tree = origin
  /\ manifest \in {[state |-> "absent", records |-> {}], [state |-> "invalid", records |-> {}]}
  /\ pc = [s \in Sessions |-> "idle"]
  /\ mode = [s \in Sessions |-> NoMode]
  /\ findings = [s \in Sessions |-> <<>>]
  /\ toWrite = [s \in Sessions |-> Empty]
  /\ failed = [s \in Sessions |-> 0]
  /\ status = [s \in Sessions |-> -1]

-----------------------------------------------------------------------------

\* extractSecretMatch: the first value that a detector finds in a line, or "".
Recognized(line) == {i \in DOMAIN line : line[i].recognized}
Detected(line)   == IF Recognized(line) = {} THEN "" ELSE line[Min(Recognized(line))].secret

\* scanLocalFindingsRoot: each line of each file with such a value, in the order of
\* the walk.
FileFindings(f) ==
  LET Lines == {k \in DOMAIN tree[f].lines : Detected(tree[f].lines[k]) # ""}
  IN  {[at |-> [file |-> f, line |-> k], secret |-> Detected(tree[f].lines[k])] : k \in Lines}

TreeFindings == UNION {FileFindings(f) : f \in ToSet(Files)}

Before(p, q) ==
  \E i, j \in DOMAIN Files :
    /\ p.file = Files[i] /\ q.file = Files[j]
    /\ i < j \/ (i = j /\ p.line < q.line)

TreeWalk ==
  {q \in SetToSeqs(TreeFindings) : \A i, j \in DOMAIN q : i < j => Before(q[i].at, q[j].at)}

\* loadFindingsFromReport: one bad position rejects the report; the secret is
\* read off the line, and may be none.
ReportValid(report) == \A i \in DOMAIN report : report[i].line \in DOMAIN tree[report[i].file].lines
ReportFindings(report) ==
  [i \in DOMAIN report |-> [at     |-> report[i],
                            secret |-> Detected(tree[report[i].file].lines[report[i].line])]]

\* Where a value occurs in a file: line and place in it.
Occurrences(file, secret) ==
  UNION {{k} \X {i \in DOMAIN file.lines[k] : file.lines[k][i].secret = secret} :
           k \in DOMAIN file.lines}

Holds(file, secret, quote) ==
  {o \in Occurrences(file, secret) : file.lines[o[1]][o[2]].quote = quote}

\* The first of some places.
First(places) ==
  LET k == Min({o[1] : o \in places})
  IN  <<k, Min({o[2] : o \in {p \in places : p[1] = k}})>>

\* The first occurrence in double quotes, or else in single quotes, recognized or not.
Replaced(file, secret) ==
  LET double == Holds(file, secret, "double")
  IN  IF double # {} THEN double ELSE Holds(file, secret, "single")

\* Unless the text mentions it, an import is put where there is a place for one.
WithImport(kind, imports) ==
  IF kind \notin {"go", "py"} \/ imports.mentioned THEN imports
  ELSE [imports EXCEPT !.imported  = @ \/ imports.place = "read",
                       !.mentioned = imports.place # "none"]

Fixable(file, secret) == secret # "" /\ file.kind # "other" /\ Replaced(file, secret) # {}

\* Mutant: the import is left to the user.
ApplyFixWithoutImport(file, secret) ==
  LET o == First(Replaced(file, secret))
  IN  IF ~Fixable(file, secret) THEN file
      ELSE [file EXCEPT !.lines[o[1]][o[2]] = Reference]

\* One occurrence becomes a reference; without a quoted one the file stays as it is.
ApplyFixToContent(file, secret) ==
  LET o == First(Replaced(file, secret))
  IN  IF ~Fixable(file, secret) THEN file
      ELSE [file EXCEPT !.lines[o[1]][o[2]] = Reference,
                        !.imports = WithImport(file.kind, @)]

-----------------------------------------------------------------------------

End(s, code) ==
  /\ pc' = [pc EXCEPT ![s] = "ended"]
  /\ status' = [status EXCEPT ![s] = code]

\* The findings are loaded; without any, or without a usable report, that is all.
Start(s) ==
  /\ pc[s] = "idle"
  /\ \E m \in Modes :
       /\ mode' = [mode EXCEPT ![s] = m]
       /\ \E found \in IF m.report THEN {ReportFindings(r) : r \in {q \in Reports : ReportValid(q)}}
                       ELSE TreeWalk :
            /\ findings' = [findings EXCEPT ![s] = found]
            /\ IF found = <<>> THEN End(s, 0)
               ELSE pc' = [pc EXCEPT ![s] = "loop"] /\ UNCHANGED status
  /\ UNCHANGED <<diskVars, toWrite, failed>>

\* The tree cannot be read, or the report is missing, malformed or invalid.
StartFails(s) ==
  /\ pc[s] = "idle"
  /\ \E m \in Modes : mode' = [mode EXCEPT ![s] = m]
  /\ End(s, 1)
  /\ UNCHANGED <<diskVars, findings, toWrite, failed>>

InLoop(s) == pc[s] = "loop" /\ findings[s] # <<>>

\* The loop goes on to the next finding.
NextFinding(s) ==
  /\ pc' = [pc EXCEPT ![s] = "loop"]
  /\ findings' = [findings EXCEPT ![s] = Tail(@)]

\* applyFixToFile reads the file and makes the new content.
ReadFile(s) ==
  /\ InLoop(s)
  /\ LET f   == Head(findings[s]).at.file
         new == ApplyFixToContent(tree[f], Head(findings[s]).secret)
     IN  /\ new # tree[f]
         /\ IF mode[s].dryRun THEN NextFinding(s) /\ UNCHANGED toWrite
            ELSE /\ pc' = [pc EXCEPT ![s] = "file"]
                 /\ toWrite' = [toWrite EXCEPT ![s].file = new]
                 /\ UNCHANGED findings
  /\ UNCHANGED <<diskVars, mode, failed, status>>

\* Mutant: a finding that cannot be fixed is passed over.
FixSkips(s) ==
  /\ InLoop(s)
  /\ NextFinding(s)
  /\ UNCHANGED <<diskVars, mode, toWrite, failed, status>>

\* There is no safe replacement, or the file is gone or not a regular one.
FixFails(s) ==
  /\ InLoop(s)
  /\ NextFinding(s)
  /\ failed' = [failed EXCEPT ![s] = @ + 1]
  /\ UNCHANGED <<diskVars, mode, toWrite, status>>

\* writeRootFileAtomic: a temporary file is renamed over the old one.
WriteFile(s) ==
  /\ pc[s] = "file"
  /\ tree' = [tree EXCEPT ![Head(findings[s]).at.file] = toWrite[s].file]
  /\ toWrite' = [toWrite EXCEPT ![s] = Empty]
  /\ NextFinding(s)
  /\ UNCHANGED <<origin, manifest, mode, failed, status>>

\* Mutant: a manifest that does not parse is started anew.
ReadManifestLeniently(s) ==
  /\ InLoop(s)
  /\ ~mode[s].auto
  /\ pc' = [pc EXCEPT ![s] = "manifest"]
  /\ toWrite' = [toWrite EXCEPT ![s].manifest =
                   [state |-> "valid", records |-> manifest.records \cup {Head(findings[s]).at}]]
  /\ UNCHANGED <<diskVars, mode, findings, failed, status>>

\* The user marks a false positive or suppresses: saveSuppression reads the
\* manifest and adds a record.
ReadManifest(s) ==
  /\ InLoop(s)
  /\ ~mode[s].auto
  /\ manifest.state # "invalid"
  /\ pc' = [pc EXCEPT ![s] = "manifest"]
  /\ toWrite' = [toWrite EXCEPT ![s].manifest =
                   [state |-> "valid", records |-> manifest.records \cup {Head(findings[s]).at}]]
  /\ UNCHANGED <<diskVars, mode, findings, failed, status>>

WriteManifest(s) ==
  /\ pc[s] = "manifest"
  /\ manifest' = toWrite[s].manifest
  /\ toWrite' = [toWrite EXCEPT ![s] = Empty]
  /\ NextFinding(s)
  /\ UNCHANGED <<origin, tree, mode, failed, status>>

\* Writing the temporary file or renaming it fails; it is removed.
WriteFails(s) ==
  /\ pc[s] \in {"file", "manifest"}
  /\ toWrite' = [toWrite EXCEPT ![s] = Empty]
  /\ failed' = [failed EXCEPT ![s] = @ + 1]
  /\ NextFinding(s)
  /\ UNCHANGED <<diskVars, mode, status>>

Skip(s) ==
  /\ InLoop(s)
  /\ ~mode[s].auto
  /\ NextFinding(s)
  /\ UNCHANGED <<diskVars, mode, toWrite, failed, status>>

\* The user quits: status 0 whatever happened before.
Quit(s) ==
  /\ InLoop(s)
  /\ ~mode[s].auto
  /\ End(s, 0)
  /\ UNCHANGED <<diskVars, mode, findings, toWrite, failed>>

\* Mutant: the exit status is the number of failures.
FinishWithCount(s) ==
  /\ pc[s] = "loop"
  /\ findings[s] = <<>>
  /\ End(s, failed[s])
  /\ UNCHANGED <<diskVars, mode, findings, toWrite, failed>>

\* All findings were gone through.
Finish(s) ==
  /\ pc[s] = "loop"
  /\ findings[s] = <<>>
  /\ End(s, IF failed[s] > 0 THEN 1 ELSE 0)
  /\ UNCHANGED <<diskVars, mode, findings, toWrite, failed>>

Kill(s) ==
  /\ pc[s] \in {"loop", "file", "manifest"}
  /\ pc' = [pc EXCEPT ![s] = "ended"]
  /\ toWrite' = [toWrite EXCEPT ![s] = Empty]
  /\ UNCHANGED <<diskVars, mode, findings, failed, status>>

Session(s) ==
  Start(s) \/ StartFails(s) \/ ReadFile(s) \/ FixFails(s) \/ WriteFile(s) \/ ReadManifest(s)
    \/ WriteManifest(s) \/ WriteFails(s) \/ Skip(s) \/ Quit(s) \/ Finish(s) \/ Kill(s)

Next == \E s \in Sessions : Session(s)

Spec == Init /\ [][Next]_vars

-----------------------------------------------------------------------------

WholeTree == [auto |-> TRUE, dryRun |-> FALSE, report |-> FALSE]

Started == {s \in Sessions : pc[s] # "idle"}
Alone   == \A s, t \in Started : s = t

(***************************************************************************)
(* A session that had the tree to itself, went through all of it and ended *)
(* with status 0 leaves no more occurrences of a value in a file than the  *)
(* walk did not report: every line with a recognized value is a finding,   *)
(* and each of its findings took one occurrence away, although not always  *)
(* the one it was found at (fix.go:134-191, 241-246).  So nothing is left  *)
(* where each occurrence is recognized and on a line of its own, and what  *)
(* can be left are secrets beside others and places like theirs            *)
(* (fix.go:448-463).                                                       *)
(***************************************************************************)
Unreported(file, secret) ==
  {o \in Occurrences(file, secret) :
     LET found == Recognized(file.lines[o[1]]) IN found = {} \/ o[2] # Min(found)}

EveryFindingIsFixed ==
  \A s \in Sessions : Started = {s} /\ mode[s] = WholeTree /\ status[s] = 0 =>
    \A f \in ToSet(Files), v \in Secrets :
      Cardinality(Occurrences(tree[f], v)) <= Cardinality(Unreported(origin[f], v))

(***************************************************************************)
(* A file never refers to the environment without the import it takes,     *)
(* whatever copies sessions write over each other, unless it misleads the  *)
(* code from the start: it does not have the import, and the text that is  *)
(* searched for it is there all the same, or there is no place where an    *)
(* import would be read (fix.go:219-231, 428-446).                         *)
(***************************************************************************)
Misleads(file) ==
  ~file.imports.imported /\ (file.imports.mentioned \/ file.imports.place # "read")

ReferencesResolve ==
  \A f \in ToSet(Files) : Misleads(origin[f]) \/ Resolves(tree[f])

(***************************************************************************)
(* A session that fails, stops or is killed loses no suppression recorded  *)
(* before, as long as no other one runs beside it; and no session, beside  *)
(* others or not, replaces a manifest it cannot read (fix.go:347-372).     *)
(***************************************************************************)
SuppressionsKept ==
  [][/\ Alone => manifest.records \subseteq manifest'.records
     /\ manifest.state = "invalid" => manifest'.state = "invalid"]_vars
=============================================================================
