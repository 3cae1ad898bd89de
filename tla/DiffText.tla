------------------------------- MODULE DiffText -------------------------------
(***************************************************************************)
(* Unified diffs as the engine writes and reads them: diff-generator.ts    *)
(* makes them, patch-applicator.ts validates and applies them, and         *)
(* diff-parser.ts counts them.  A text is what split('\n') makes of it: a  *)
(* non-empty sequence of lines, whose last one is Blank exactly when the   *)
(* text ends with a newline (the empty text is <<Blank>>).  The words of a *)
(* line are abstract, except for a beginning the readers take for a header.*)
(***************************************************************************)
EXTENDS Integers, SequencesExt

CONSTANTS
  Lines,       \* the lines texts are made of, Blank among them
  Blank,       \* the line without characters
  PlusLines,   \* lines that begin with "++"
  MinusLines,  \* lines that begin with "--"
  Context      \* contextLines: unchanged lines shown around a change

ASSUME DiffAssumption ==
  /\ Blank \in Lines /\ Context \in Nat \ {0}
  /\ PlusLines \subseteq Lines \ {Blank} /\ MinusLines \subseteq Lines \ {Blank}

IsText(c) == c \in Seq(Lines) /\ c # <<>>
EmptyText == <<Blank>>
EndsWithNewline(c) == c[Len(c)] = Blank

(* A line of a diff: how it begins, and the rest; a hunk header carries the   *)
(* first old and the first new line it is about.                              *)
DiffLine(mark, line) == [mark |-> mark, line |-> line, at |-> 0, to |-> 0]
HunkHeader(at, to) == [mark |-> "@@", line |-> Blank, at |-> at, to |-> to]

(* startsWith('+') && !startsWith('+++'), and the same for '-'                *)
IsAddition(l) == l.mark = "+" /\ l.line \notin PlusLines
IsDeletion(l) == l.mark = "-" /\ l.line \notin MinusLines
Additions(d) == {i \in DOMAIN d : IsAddition(d[i])}
Deletions(d) == {i \in DOMAIN d : IsDeletion(d[i])}

(* The numbers in S, from the least on: a filter of a sequence keeps its order *)
InOrder(S) ==
  [k \in 1..Cardinality(S) |-> CHOOSE i \in S : Cardinality({j \in S : j < i}) = k - 1]

-----------------------------------------------------------------------------
(* The diff library: its unit is a line with its newline, and its edit script *)
(* keeps a longest common subsequence.                                        *)

Tokens(c) ==
  IF EndsWithNewline(c) THEN [i \in 1..(Len(c) - 1) |-> [line |-> c[i], nl |-> TRUE]]
  ELSE [i \in 1..Len(c) |-> [line |-> c[i], nl |-> i < Len(c)]]

Edit(mark, tok, rest) == <<[mark |-> mark, tok |-> tok]>> \o rest
EditScript(old, new) ==
  LET s == Tokens(old)
      t == Tokens(new)
      from[x \in (1..(Len(s) + 1)) \X (1..(Len(t) + 1))] ==
        LET i == x[1]
            j == x[2]
            del == Edit("-", s[i], from[<<i + 1, j>>])
            add == Edit("+", t[j], from[<<i, j + 1>>])
        IN IF i > Len(s) /\ j > Len(t) THEN <<>>
           ELSE IF i > Len(s) THEN add
           ELSE IF j > Len(t) THEN del
           ELSE IF s[i] = t[j] THEN Edit(" ", s[i], from[<<i + 1, j + 1>>])
           ELSE IF Len(del) <= Len(add) THEN del ELSE add
  IN from[<<1, 1>>]

(* The script's changes with Context unchanged lines around them; a hunk is a *)
(* run of shown steps.                                                        *)
Hunks(old, new) ==
  LET ops == EditScript(old, new)
      shown == {p \in DOMAIN ops :
                  \E q \in (p - Context)..(p + Context) : q \in DOMAIN ops /\ ops[q].mark # " "}
      number(p, other) == 1 + Cardinality({q \in 1..(p - 1) : ops[q].mark # other})
      piece(p) ==
        IF p \notin shown THEN <<>>
        ELSE (IF p - 1 \in shown THEN <<>> ELSE <<HunkHeader(number(p, "+"), number(p, "-"))>>)
               \o <<DiffLine(ops[p].mark, ops[p].tok.line)>>
               \o (IF ops[p].tok.nl THEN <<>> ELSE <<DiffLine("\\", Blank)>>)
  IN FlattenSeq([p \in DOMAIN ops |-> piece(p)])

-----------------------------------------------------------------------------
(* diff-generator.ts *)

(* generateUnifiedDiff: the text and the numbers stored with the patch.       *)
AllLines(mark, c) == [i \in DOMAIN c |-> DiffLine(mark, c[i])]

CreateDiff(path, new) ==
  [patch |-> <<DiffLine("git", path), DiffLine("new", Blank), HunkHeader(0, 1)>> \o AllLines("+", new),
   additions |-> Len(new), deletions |-> 0]

DeleteDiff(path, old) ==
  [patch |-> <<DiffLine("git", path), DiffLine("deleted", Blank), HunkHeader(1, 0)>> \o AllLines("-", old),
   additions |-> 0, deletions |-> Len(old)]

ModifyDiff(path, old, new) ==
  LET hunks == Hunks(old, new)
  IN [patch |-> <<DiffLine("git", path)>> \o hunks,
      additions |-> Cardinality(Additions(hunks)), deletions |-> Cardinality(Deletions(hunks))]

(* countOccurrences: from the left, without overlaps.  A find string is a     *)
(* sequence of whole lines here.                                              *)
MatchesAt(c, find, i) == i + Len(find) - 1 <= Len(c) /\ SubSeq(c, i, i + Len(find) - 1) = find
Occurrences(c, find) ==
  LET count[i \in 1..(Len(c) + Len(find))] ==
        IF i > Len(c) THEN 0
        ELSE IF MatchesAt(c, find, i) THEN 1 + count[i + Len(find)]
        ELSE count[i + 1]
  IN count[1]

(* originalContent.replace(find, replace): the first occurrence               *)
Replaced(c, find, repl) ==
  LET i == CHOOSE k \in DOMAIN c :
             MatchesAt(c, find, k) /\ \A m \in 1..(k - 1) : ~ MatchesAt(c, find, m)
  IN SubSeq(c, 1, i - 1) \o repl \o SubSeq(c, i + Len(find), Len(c))

(* validateDiffContext: the numbers of the diff's lines that do not match.    *)
TextLine(c, i) == IF i \in DOMAIN c THEN c[i] ELSE Blank
Mismatches(c, d) ==
  LET read[k \in 0..Len(d)] ==
        IF k = 0 THEN [inHunk |-> FALSE, at |-> 0, bad |-> {}]
        ELSE LET l == d[k]
                 r == read[k - 1]
             IN IF l.mark = "@@" THEN [r EXCEPT !.inHunk = TRUE, !.at = l.at]
                ELSE IF r.inHunk /\ (l.mark = " " \/ IsDeletion(l))
                  THEN [r EXCEPT !.at = @ + 1,
                          !.bad = IF r.at \in DOMAIN c /\ c[r.at] = l.line THEN @ ELSE @ \cup {k}]
                ELSE r
  IN read[Len(d)].bad

-----------------------------------------------------------------------------
(* patch-applicator.ts *)

(* applyDiffToContent: the old lines between the hunks are copied; w.at is the *)
(* old line the next one is copied from.                                      *)
Copied(c, i, j) == [k \in 1..(IF j < i THEN 0 ELSE j - i + 1) |-> TextLine(c, i + k - 1)]
WriteLine(c, w, l) ==
  IF l.mark = "@@"
    THEN [inHunk |-> TRUE, at |-> IF l.at > w.at THEN l.at ELSE w.at,
          out |-> w.out \o Copied(c, w.at, l.at - 1)]
  ELSE IF w.inHunk
    THEN [w EXCEPT !.at = IF l.mark = " " \/ IsDeletion(l) THEN @ + 1 ELSE @,
                   !.out = IF l.mark = " " \/ IsAddition(l) THEN Append(@, l.line) ELSE @]
  ELSE w
Applied(c, d) ==
  LET write[k \in 0..Len(d)] ==
        IF k = 0 THEN [inHunk |-> FALSE, at |-> 1, out |-> <<>>] ELSE WriteLine(c, write[k - 1], d[k])
      done == write[Len(d)]
      text == done.out \o Copied(c, done.at, Len(c))
  IN IF text = <<>> THEN EmptyText ELSE text

(* extractNewFileContent *)
NewFileText(d) ==
  LET added == InOrder(Additions(d))
  IN IF added = <<>> THEN EmptyText ELSE [k \in DOMAIN added |-> d[added[k]].line]

(* extractFileChangesFromDiff: the diff cut at its git headers.               *)
FileChanges(d) ==
  LET heads == InOrder({i \in DOMAIN d : d[i].mark = "git"})
      last(k) == IF k = Len(heads) THEN Len(d) ELSE heads[k + 1] - 1
      part(k) == SubSeq(d, heads[k], last(k))
      has(k, mark) == \E i \in DOMAIN part(k) : part(k)[i].mark = mark
  IN [k \in DOMAIN heads |->
        [path |-> d[heads[k]].line, lines |-> part(k),
         isNew |-> has(k, "new"), isDeleted |-> has(k, "deleted")]]

-----------------------------------------------------------------------------
(* diff-parser.ts: what parseDiff reports of each file.                       *)
ParsedFiles(d) ==
  LET parts == FileChanges(d)
  IN [k \in DOMAIN parts |->
        [path |-> parts[k].path,
         additions |-> Cardinality(Additions(parts[k].lines)),
         deletions |-> Cardinality(Deletions(parts[k].lines)),
         isNew |-> parts[k].isNew, isDeleted |-> parts[k].isDeleted]]

TouchedFiles(d) == {ParsedFiles(d)[k].path : k \in DOMAIN ParsedFiles(d)}
=============================================================================
