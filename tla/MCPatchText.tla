------------------------------ MODULE MCPatchText ------------------------------
(* An instance of PatchText: two files; single changes between all short texts *)
(* and between texts with two distant changes, and pairs of changes on a few   *)
(* bases.                                                                      *)
EXTENDS PatchText

MCLines == {"x", "y", "k", "secret", "++z", "--z", ""}
MCPaths == {"a.ts", "a.tsx"}

Ended(S) == S \cup {Append(t, "") : t \in S}
Short == Ended(BoundedSeq({"x", "secret", "++z", "--z"}, 2) \ {<<>>})
Ends == {<<>>, <<"x">>, <<"secret">>}
Long == Ended({h \o <<"k", "k", "k">> \o t : h \in Ends, t \in Ends})
Few == {<<"x", "">>, <<"x", "k", "k", "x">>}

Change(path, action, text, find) == [path |-> path, action |-> action, text |-> text, find |-> find]
Modifies(path, S) == {Change(path, "modify", t, <<>>) : t \in S}
Creates(path, S) == {Change(path, "create", t, <<>>) : t \in S}
Replaces(path, F, S) == {Change(path, "replace", t, f) : t \in S, f \in F}
Delete(path) == Change(path, "delete", <<>>, <<>>)

One(old, changes) ==
  {[base |-> [p \in MCPaths |-> IF p = "a.ts" THEN old ELSE <<"x", "">>],
    fetched |-> MCPaths, changes |-> <<c>>] : c \in changes}

Singles ==
  UNION {One(old, Modifies("a.ts", Short) \cup {Delete("a.ts")}) : old \in Short}
    \cup UNION {One(old, Modifies("a.ts", Long)) : old \in Long}
    \cup UNION {One(old, Replaces("a.ts", {<<"x">>, <<"k">>, <<"k", "k">>, <<"x", "k">>},
                                  {<<"y">>, <<"secret", "y">>})) : old \in Short \cup Long}
    \cup One(Absent, Creates("a.ts", Short))

SomeChanges ==
  UNION {Modifies(p, Few) \cup Creates(p, {<<"y">>}) \cup {Delete(p)} \cup Replaces(p, {<<"x">>}, {<<"y">>, <<"secret">>}) :
           p \in MCPaths}

Pairs ==
  {[base |-> b, fetched |-> f, changes |-> <<c, d>>] :
     b \in [MCPaths -> Few \cup {Absent}], f \in {MCPaths, {"a.tsx"}}, c \in SomeChanges, d \in SomeChanges}

MCCases == Singles \cup Pairs
=============================================================================
