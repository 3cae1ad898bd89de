------------------------------- MODULE PatchText -------------------------------
(***************************************************************************)
(* The way of a language model's file changes to a branch: ingest turns    *)
(* them into one diff (ingest-context.processor.ts), the policy job judges *)
(* the row (evaluate-policy.processor.ts), the sandbox validates the diff  *)
(* against the base commit and the applicator writes it to a new branch,   *)
(* one GitHub call per file (patch-applicator.ts).                         *)
(***************************************************************************)
EXTENDS DiffText

CONSTANTS
  Paths,
  Cases,        \* what a run starts from: [base, fetched, changes]
  MaxFaults,    \* GitHub calls that fail (bound of the checked instances)
  SensitivePaths, FrozenPaths, DeniedPaths,  \* what the rules forbid to change
  SecretLines,  \* lines with a secret that is no placeholder
  LargeDiff,    \* from how many lines on a diff is called large
  Title         \* the patch's title

Absent == <<>>    \* a path without a file
Tree == [Paths -> Seq(Lines)]

(* A file change the response schema accepts (FileChangeSchema): content for  *)
(* create and modify, find and replace for replace, and at most five of them. *)
AcceptedChange(c) ==
  /\ c.path \in Paths /\ c.action \in {"create", "modify", "delete", "replace"}
  /\ c.action \in {"create", "modify"} => IsText(c.text) /\ c.text # EmptyText
  /\ c.action = "replace" => IsText(c.find) /\ IsText(c.text)
Accepted(changes) ==
  \E n \in 1..5 : DOMAIN changes = 1..n /\ \A i \in 1..n : AcceptedChange(changes[i])

ASSUME PatchTextAssumption ==
  /\ MaxFaults \in Nat /\ IsFiniteSet(Paths)
  /\ SensitivePaths \subseteq Paths /\ FrozenPaths \subseteq Paths /\ DeniedPaths \subseteq Paths
  /\ SecretLines \subseteq Lines \ {Blank} /\ LargeDiff \in Nat /\ Title \notin Paths
  /\ \A c \in Cases : c.base \in Tree /\ Accepted(c.changes)

VARIABLES
  case,       \* the base commit, the files ingest fetched for its plan, the response
  patch,      \* the Patch row: diff and files, or NoPatch
  verdict,    \* what the policy job made of the patch
  validation, \* of validatePatches: "none", "valid", "invalid"
  branch,     \* the files on the new branch
  next,       \* the file change the applicator is at (0: not begun)
  outcome,    \* of applyPatches: "none", "applied", "failed"
  faults

vars == <<case, patch, verdict, validation, branch, next, outcome, faults>>

NoPatch == [diff |-> <<>>, files |-> <<>>]
NotJudged == [result |-> "none", violations |-> {}]

Init ==
  /\ case \in Cases
  /\ patch = NoPatch /\ verdict = NotJudged /\ validation = "none"
  /\ branch = [p \in Paths |-> Absent] /\ next = 0 /\ outcome = "none" /\ faults = 0

-----------------------------------------------------------------------------
(* ingest: the diff of each file change, against the text that was fetched.   *)
(* A change that cannot be turned into a diff is skipped.                     *)

Fetched(p) == IF p \in case.fetched THEN case.base[p] ELSE Absent
HasText(p) == Fetched(p) \notin {Absent, EmptyText}
None == <<>>

ChangeDiff(c) ==
  LET old == Fetched(c.path)
      replaced == c.action = "replace"
      fits == ~ replaced \/ (HasText(c.path) /\ Occurrences(old, c.find) = 1)
  IN IF ~ fits \/ (c.action = "delete" /\ ~ HasText(c.path)) THEN None
     ELSE IF c.action = "delete" THEN <<DeleteDiff(c.path, old)>>
     ELSE IF c.action = "create" \/ ~ HasText(c.path) THEN <<CreateDiff(c.path, c.text)>>
     ELSE <<ModifyDiff(c.path, old, IF replaced THEN Replaced(old, c.find, c.text) ELSE c.text)>>

GeneratePatch ==
  /\ patch = NoPatch /\ outcome = "none"
  /\ \E made \in {[i \in DOMAIN case.changes |-> ChangeDiff(case.changes[i])]} :
     \E done \in {InOrder({i \in DOMAIN made : made[i] # None})} :
       IF done = <<>> THEN outcome' = "failed" /\ UNCHANGED patch
       ELSE /\ patch' = [diff |-> FlattenSeq([k \in DOMAIN done |-> made[done[k]][1].patch]),
                         files |-> [k \in DOMAIN done |->
                           [path |-> case.changes[done[k]].path,
                            additions |-> made[done[k]][1].additions,
                            deletions |-> made[done[k]][1].deletions]]]
            /\ UNCHANGED outcome
  /\ UNCHANGED <<case, verdict, validation, branch, next, faults>>

-----------------------------------------------------------------------------
(* evaluate-policy.processor.ts: the rules for one Patch row.  The files of   *)
(* the row are judged by their names, the diff by its added lines, whatever   *)
(* file they are of.  The warning of a high risk is left out: ingest writes   *)
(* that level for six files and more, and a response has five at most.        *)

Violation(rule, blocking, file) == [rule |-> rule, blocking |-> blocking, file |-> file]

\* Mutant: the first file of the diff is scanned.
ScanFirstFile(d) ==
  LET lines == FileChanges(d)[1].lines IN {lines[i].line : i \in Additions(lines)} \cap SecretLines

(* startsWith('+') && !startsWith('+++'); a secret is within a line here.     *)
ScanForSecrets(d) == {d[i].line : i \in Additions(d)} \cap SecretLines

(* A secret is reported under the title of the patch, for which Title stands. *)
PolicyViolations(row) ==
  LET files == {row.files[k].path : k \in DOMAIN row.files}
  IN {Violation("NO_SENSITIVE_FILES", TRUE, p) : p \in files \cap SensitivePaths}
       \cup {Violation("FROZEN_FILE", TRUE, p) : p \in files \cap FrozenPaths}
       \cup {Violation("DENY_GLOB", TRUE, p) : p \in files \cap DeniedPaths}
       \cup {Violation("SECRET_DETECTED", TRUE, Title) : s \in ScanForSecrets(row.diff)}
       \cup {Violation("LARGE_DIFF_WARNING", FALSE, Title) : n \in {Len(row.diff)} \ 0..LargeDiff}

(* hasBlockingViolations, and the result of the PolicyV1 document             *)
PolicyResult(violations) == IF \E v \in violations : v.blocking THEN "blocked" ELSE "passed"

EvaluatePolicy ==
  /\ patch # NoPatch /\ verdict = NotJudged
  /\ LET violations == PolicyViolations(patch)
     IN verdict' = [result |-> PolicyResult(violations), violations |-> violations]
  /\ UNCHANGED <<case, patch, validation, branch, next, outcome, faults>>

-----------------------------------------------------------------------------
(* validatePatches, at the base commit; a file GitHub does not give counts as *)
(* not found.                                                                 *)

\* Mutant: modified files are only looked for.
InvalidIfMissing(change, unread) ==
  ~ change.isNew /\ (case.base[change.path] = Absent \/ change.path \in unread)

Invalid(change, unread) ==
  LET there == case.base[change.path] # Absent /\ change.path \notin unread
  IN IF change.isNew THEN NewFileText(change.lines) = EmptyText
     ELSE IF change.isDeleted THEN ~ there
     ELSE ~ there \/ Mismatches(case.base[change.path], change.lines) # {}

ValidatePatches(unread) ==
  /\ patch # NoPatch /\ validation = "none" /\ next = 0
  /\ LET changes == FileChanges(patch.diff)
     IN validation' = IF \E k \in DOMAIN changes : Invalid(changes[k], unread)
                      THEN "invalid" ELSE "valid"
  /\ faults' = faults + Cardinality(unread)
  /\ UNCHANGED <<case, patch, verdict, branch, next, outcome>>

-----------------------------------------------------------------------------
(* applyPatchesToBranch, and the same loop in applyPatches                    *)

CreateBranch ==
  /\ validation = "valid" /\ next = 0 /\ outcome = "none"
  /\ branch' = case.base /\ next' = 1
  /\ UNCHANGED <<case, patch, verdict, validation, outcome, faults>>

GoOn == next' = next + 1 /\ UNCHANGED outcome
Fail == outcome' = "failed" /\ UNCHANGED <<branch, next>>

(* updateFile: GitHub refuses a file that is there without its sha.           *)
UpdateFile(path, text, withSha) ==
  IF branch[path] # Absent /\ ~ withSha THEN Fail
  ELSE branch' = [branch EXCEPT ![path] = text] /\ GoOn

\* Mutant: deleted files are left for the pull request.
DeleteChangeSkipped(change, read, written) == GoOn /\ UNCHANGED branch

(* getFileContents and deleteFile under one try: "File might not exist, skip" *)
DeleteChange(change, read, written) ==
  /\ branch' = IF read /\ written THEN [branch EXCEPT ![change.path] = Absent] ELSE branch
  /\ GoOn

\* Mutant: the diff's added lines are written over a file that was not read.
ModifyChangeForced(change, read) ==
  UpdateFile(change.path,
             IF read THEN Applied(branch[change.path], change.lines) ELSE NewFileText(change.lines),
             TRUE)

(* A diff that does not fit fails the patch set; a file that cannot be read   *)
(* is written as if it were new.                                              *)
ModifyChange(change, read) ==
  IF ~ read \/ branch[change.path] = Absent
    THEN UpdateFile(change.path, NewFileText(change.lines), FALSE)
  ELSE IF Mismatches(branch[change.path], change.lines) # {} THEN Fail
  ELSE UpdateFile(change.path, Applied(branch[change.path], change.lines), TRUE)

ApplyChange ==
  /\ next > 0 /\ outcome = "none" /\ next <= Len(FileChanges(patch.diff))
  /\ \E read, written \in BOOLEAN, change \in {FileChanges(patch.diff)[next]} :
       /\ faults' = faults + Cardinality({x \in {"read", "write"} :
                                 (x = "read" /\ ~ read) \/ (x = "write" /\ ~ written)})
       /\ IF change.isDeleted THEN DeleteChange(change, read, written)
          ELSE IF ~ written THEN Fail
          ELSE IF change.isNew THEN UpdateFile(change.path, NewFileText(change.lines), FALSE)
          ELSE ModifyChange(change, read)
  /\ faults' <= MaxFaults
  /\ UNCHANGED <<case, patch, verdict, validation>>

FinishApply ==
  /\ next > Len(FileChanges(patch.diff)) /\ next > 0 /\ outcome = "none"
  /\ outcome' = "applied"
  /\ UNCHANGED <<case, patch, verdict, validation, branch, next, faults>>

Next ==
  \/ GeneratePatch
  \/ EvaluatePolicy
  \/ \E unread \in SUBSET Paths : Cardinality(unread) <= MaxFaults - faults /\ ValidatePatches(unread)
  \/ CreateBranch
  \/ ApplyChange
  \/ FinishApply

Spec == Init /\ [][Next]_vars

-----------------------------------------------------------------------------
(* What the response asks for: the new text of each path.                     *)

ChangesOf(p) == {i \in DOMAIN case.changes : case.changes[i].path = p}
Once == \A p \in Paths : Cardinality(ChangesOf(p)) <= 1

Wanted(p) ==
  IF ChangesOf(p) = {} THEN case.base[p]
  ELSE LET c == case.changes[CHOOSE i \in ChangesOf(p) : TRUE]
       IN CASE c.action = "delete" -> Absent
            [] c.action = "replace" -> Replaced(case.base[p], c.find, c.text)
            [] c.action \in {"create", "modify"} -> c.text

PatchedPaths == {patch.files[k].path : k \in DOMAIN patch.files}

(* Texts the diff format of the engine can carry: no changed line begins like *)
(* a file header, and a change keeps the newline at the end.                  *)
Plain(c) == \A i \in DOMAIN c : c[i] \notin PlusLines \cup MinusLines
Carried(p) ==
  LET old == case.base[p]
      new == Wanted(p)
  IN /\ Plain(old) /\ Plain(new)
     /\ (old # Absent /\ new # Absent) => EndsWithNewline(old) = EndsWithNewline(new)

(* patch-applicator.ts, "Apply a unified diff to existing content": at every  *)
(* point of the application, whatever GitHub calls fail, a file on the branch *)
(* is the base's or the wanted one, never a mixture.  The hunks, the context, *)
(* the old line numbers and the sha all have to fit for it.                   *)
NeverMangled ==
  next > 0 /\ Once =>
    \A p \in Paths : branch[p] # case.base[p] =>
      p \in PatchedPaths /\ (Carried(p) => branch[p] = Wanted(p))

(* A patch set that was applied with no failed call has every wanted file.    *)
AppliedIsWanted ==
  outcome = "applied" /\ Once /\ faults = 0 =>
    \A p \in PatchedPaths : Carried(p) => branch[p] = Wanted(p)

(* validatePatches, "Call this before applyPatches() ... to catch issues      *)
(* early": while GitHub answers, a valid patch set that changes each path once*)
(* and creates only new files does not fail when it is applied, header-like   *)
(* lines and final newlines included.                                         *)
CreatesOnlyNew ==
  \A k \in DOMAIN FileChanges(patch.diff) :
    FileChanges(patch.diff)[k].isNew => case.base[FileChanges(patch.diff)[k].path] = Absent
ValidApplies ==
  validation = "valid" /\ outcome = "failed" /\ Once /\ CreatesOnlyNew => faults > 0

(* evaluate-policy.processor.ts, "Secret scanning in diff content (blocking)": *)
(* no secret gets onto the branch, in a file whose base has none such, unseen *)
(* by the evaluation of the patch, which reads the diff alone; the applicator *)
(* reads it too, in code of its own, and puts it together with what it finds  *)
(* on the branch.  It holds at every point of the application, whatever calls *)
(* fail, for several changes of one path and header-like lines as well.       *)
SecretsAreSeen ==
  verdict # NotJudged =>
    \A p \in Paths : \A i \in DOMAIN branch[p] :
      (branch[p][i] \in SecretLines /\ \A j \in DOMAIN case.base[p] : case.base[p][j] # branch[p][i]) =>
        verdict.result = "blocked" /\ Violation("SECRET_DETECTED", TRUE, Title) \in verdict.violations
=============================================================================
