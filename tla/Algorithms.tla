----------------------------- MODULE Algorithms -----------------------------
(***************************************************************************)
(* Pure functions, each checked against a definition of what it should      *)
(* compute: the line diffs of the web and terminal interfaces, the if:      *)
(* conditions of CI checks and the lookup of a file's owners.  probe, chosen *)
(* once, is the input.                                                       *)
(***************************************************************************)
EXTENDS Integers, Sequences, FiniteSets, FiniteSetsExt, SequencesExt

CONSTANTS
    Lines,       \* the lines files are made of
    MaxLines,    \* bound: lines of a file
    MaxTokens    \* bound: tokens of a condition; two more of only a few kinds

VARIABLE probe

-----------------------------------------------------------------------------
(* Line diffs.                                                             *)

\* dp[i, j] is the length of a longest common subsequence of the first i lines
\* of a and the first j lines of b.
lcsTable(a, b) ==
    LET dp[i \in 0 .. Len(a), j \in 0 .. Len(b)] ==
            IF i = 0 \/ j = 0 THEN 0
            ELSE IF a[i] = b[j] THEN dp[i - 1, j - 1] + 1
            ELSE IF dp[i - 1, j] >= dp[i, j - 1] THEN dp[i - 1, j] ELSE dp[i, j - 1]
    IN  dp

Op(kind, line) == [kind |-> kind, line |-> line]

\* From the ends of a and b: a common line, else an added one where that leaves
\* the longer common subsequence, or one as long and ties add, else a deleted one.
Backtrack(a, b, tiesAdd) ==
    LET dp == lcsTable(a, b)
        script[i \in 0 .. Len(a), j \in 0 .. Len(b)] ==
            IF i = 0 /\ j = 0 THEN <<>>
            ELSE IF i > 0 /\ j > 0 /\ a[i] = b[j]
            THEN Append(script[i - 1, j - 1], Op("ctx", a[i]))
            ELSE IF j > 0 /\ (i = 0 \/ dp[i, j - 1] > dp[i - 1, j]
                                \/ (tiesAdd /\ dp[i, j - 1] = dp[i - 1, j]))
            THEN Append(script[i, j - 1], Op("add", b[j]))
            ELSE Append(script[i - 1, j], Op("del", a[i]))
    IN  script[Len(a), Len(b)]

\* The web interface and the terminal interface break ties differently.
lcsEditScript(a, b) == Backtrack(a, b, TRUE)
lcsLineDiff(base, hd) == Backtrack(base, hd, FALSE)

LinesOf(ops, without) ==
    LET kept == SelectSeq(ops, LAMBDA o : o.kind # without)
    IN  [i \in DOMAIN kept |-> kept[i].line]

\* Operations within ctx lines of a change, in runs; a run is a hunk.
Included(ops, ctx) ==
    {j \in DOMAIN ops : \E i \in DOMAIN ops : ops[i].kind # "ctx" /\ j - ctx <= i /\ i <= j + ctx}
HunkStarts(ops, ctx) == {i \in Included(ops, ctx) : i - 1 \notin Included(ops, ctx)}
HunkEnd(ops, ctx, i) == Min({j \in i .. Len(ops) : j + 1 \notin Included(ops, ctx)})

CountIn(ops, without) == Len(SelectSeq(ops, LAMBDA o : o.kind # without))

(* Mutant. *)
Hunk_swapped(ops, ctx, i) ==
    LET before == SubSeq(ops, 1, i - 1)  body == SubSeq(ops, i, HunkEnd(ops, ctx, i))
    IN  [oldStart |-> 1 + CountIn(before, "del"), newStart |-> 1 + CountIn(before, "add"),
         oldCount |-> CountIn(body, "add"), newCount |-> CountIn(body, "del"), ops |-> body]

Hunk(ops, ctx, i) ==
    LET before == SubSeq(ops, 1, i - 1)  body == SubSeq(ops, i, HunkEnd(ops, ctx, i))
    IN  [oldStart |-> 1 + CountIn(before, "add"), newStart |-> 1 + CountIn(before, "del"),
         oldCount |-> CountIn(body, "add"), newCount |-> CountIn(body, "del"), ops |-> body]

opsToHunks(ops, ctx) ==
    LET starts == SetToSortSeq(HunkStarts(ops, ctx), <)
    IN  [k \in DOMAIN starts |-> Hunk(ops, ctx, starts[k])]

-----------------------------------------------------------------------------
(* if: conditions, as tokens, with a space only where two words meet.  A    *)
(* string is the sequence of its tokens.  For a push, event.type is "push"   *)
(* and event.base_branch is empty; the word push is no field.                *)

Type == "event.type"
BaseBranch == "event.base_branch"
Push == "push"
Quotes == {"'", "\""}
LogicTokens == {Type, BaseBranch, "&&", "||", "(", ")"}
Tokens == LogicTokens \cup Quotes \cup {Push, "==", "!="}

Is(s, p, tokens) == p <= Len(s) /\ s[p] \in tokens

Err == [ok |-> FALSE, val |-> FALSE, pos |-> 0]
Ok(v, p) == [ok |-> TRUE, val |-> v, pos |-> p]

\* From the quote at p to the next one of its kind.
parseStringLiteral(s, p) ==
    LET ends == {q \in p + 1 .. Len(s) : s[q] = s[p]}
    IN  IF ends = {} THEN Err ELSE Ok(SubSeq(s, p + 1, Min(ends) - 1), Min(ends) + 1)

resolveField(f) == IF f = Type THEN <<Push>> ELSE <<>>

parseValue(s, p) ==
    IF Is(s, p, Quotes) THEN parseStringLiteral(s, p)
    ELSE IF Is(s, p, {Type, BaseBranch}) THEN Ok(resolveField(s[p]), p + 1)
    ELSE Err

RECURSIVE parseOr(_, _), parseAnd(_, _), parseComparison(_, _), OrRest(_, _), AndRest(_, _)

parseComparison(s, p) ==
    IF Is(s, p, {"("})
    THEN LET r == parseOr(s, p + 1)
         IN  IF r.ok /\ Is(s, r.pos, {")"}) THEN Ok(r.val, r.pos + 1) ELSE Err
    ELSE LET left == parseValue(s, p)
             right == parseValue(s, left.pos + 1)
         IN  IF ~left.ok THEN Err
             ELSE IF ~Is(s, left.pos, {"==", "!="}) THEN Ok(left.val # <<>>, left.pos)
             ELSE IF ~right.ok THEN Err
             ELSE Ok((s[left.pos] = "==") <=> (left.val = right.val), right.pos)

\* The loops: one more operand for every operator.
AndRest(s, left) ==
    IF ~left.ok \/ ~Is(s, left.pos, {"&&"}) THEN left
    ELSE LET right == parseComparison(s, left.pos + 1)
         IN  AndRest(s, IF right.ok THEN Ok(left.val /\ right.val, right.pos) ELSE Err)
parseAnd(s, p) == AndRest(s, parseComparison(s, p))

OrRest(s, left) ==
    IF ~left.ok \/ ~Is(s, left.pos, {"||"}) THEN left
    ELSE LET right == parseAnd(s, left.pos + 1)
         IN  OrRest(s, IF right.ok THEN Ok(left.val \/ right.val, right.pos) ELSE Err)
parseOr(s, p) == OrRest(s, parseAnd(s, p))

EvalIf(s) ==
    IF s = <<>> THEN Ok(TRUE, 1)
    ELSE LET r == parseOr(s, 1) IN IF r.ok /\ r.pos = Len(s) + 1 THEN r ELSE Err

-----------------------------------------------------------------------------
(* Owners.  A path is the sequence of its characters.                      *)

\* dir -> the identities its OWNERS file lists; an empty file counts as none.
ParseOwners(files) == [d \in {x \in DOMAIN files : files[x] # {}} |-> files[d]]

Covers(k, path) == k = <<>> \/ IsPrefix(Append(k, "/"), path)

\* The longest key that covers the path; none owns it when there is no such key.
ResolveOwners(owners, path) ==
    LET keys == {k \in DOMAIN owners : Covers(k, path)}
    IN  IF keys = {} THEN {}
        ELSE owners[CHOOSE k \in keys : \A l \in keys : Len(l) <= Len(k)]

Dirs == {<<>>, <<"a">>, <<"a", "/", "b">>, <<"a", "b">>}
OwnedPaths == {<<"x">>, <<"a", "/", "x">>, <<"a", "/", "b", "/", "x">>, <<"a", "b", "/", "x">>,
               <<"a", "b", "b", "/", "x">>}
OwnersFiles == UNION {[D -> {{}, {"ann"}, {"bob"}}] : D \in SUBSET Dirs}

-----------------------------------------------------------------------------
(* Inputs.                                                                 *)

SeqsUpTo(S, n) == UNION {[1 .. k -> S] : k \in 0 .. n}
\* Conditions without comparisons that neither begin nor end wrong.
LongConditions ==
    {s \in [1 .. MaxTokens + 2 -> LogicTokens] :
        s[1] \in {Type, BaseBranch, "("} /\ s[MaxTokens + 2] \in {Type, BaseBranch, ")"}}
\* Comparisons of quoted strings, and what looks like one.
LiteralConditions == [1 .. MaxTokens + 2 -> Quotes \cup {Push, "=="}]
NoProbe == [kind |-> "none"]
Probes ==
    [kind : {"diff"}, a : SeqsUpTo(Lines, MaxLines), b : SeqsUpTo(Lines, MaxLines), ctx : {0, 1}]
    \cup [kind : {"if"}, expr : SeqsUpTo(Tokens, MaxTokens) \cup LongConditions \cup LiteralConditions]
    \cup [kind : {"owners"}, files : OwnersFiles, path : OwnedPaths]

-----------------------------------------------------------------------------
(* Properties.                                                             *)

Subsequences(s) ==
    {[i \in 1 .. Cardinality(S) |-> s[SetToSortSeq(S, <)[i]]] : S \in SUBSET DOMAIN s}
LongestCommon(a, b) == Max({Len(s) : s \in Subsequences(a) \cap Subsequences(b)})
Rebuilds(ops, a, b) ==
    /\ LinesOf(ops, "add") = a
    /\ LinesOf(ops, "del") = b
    /\ Cardinality({i \in DOMAIN ops : ops[i].kind = "ctx"}) = LongestCommon(a, b)

\* The script of lcsEditScript (and of lcsLineDiff) turns the old file into the
\* new one, and no shorter script does, which is what its comment promises.
EditScriptShortest ==
    probe.kind = "diff" =>
        /\ Rebuilds(lcsEditScript(probe.a, probe.b), probe.a, probe.b)
        /\ Rebuilds(lcsLineDiff(probe.a, probe.b), probe.a, probe.b)

\* A hunk as a unified diff has it.  There a range without lines starts at the
\* line before it, 0 in an empty file; the headers of opsToHunks give the line
\* after it (@@ -1,0 +1,2 @@ for two lines added to an empty file).
AsUnified(h) ==
    [h EXCEPT !.oldStart = IF h.oldCount = 0 THEN h.oldStart - 1 ELSE h.oldStart,
              !.newStart = IF h.newCount = 0 THEN h.newStart - 1 ELSE h.newStart]

\* The lines above a range of a unified diff.
Above(start, count) == IF count = 0 THEN start ELSE start - 1

RECURSIVE Patched(_, _, _, _)
\* What the hunks of a unified diff from the k-th on make of a, with the lines from
\* pos on to go and the lines of out done; "reject" when a hunk is not where its
\* header says.
Patched(hunks, k, a, state) ==
    IF k > Len(hunks) THEN state.out \o SubSeq(a, state.pos, Len(a))
    ELSE LET h == hunks[k]
             old == LinesOf(h.ops, "add")
             new == LinesOf(h.ops, "del")
             above == Above(h.oldStart, h.oldCount)
             out == state.out \o SubSeq(a, state.pos, above)
             next == above + h.oldCount + 1
         IN  IF /\ SubSeq(a, above + 1, next - 1) = old
                /\ Above(h.newStart, h.newCount) = Len(out) /\ h.newCount = Len(new)
             THEN Patched(hunks, k + 1, a, [pos |-> next, out |-> out \o new])
             ELSE <<"reject">>

\* The hunks that opsToHunks cuts out of the script, with the line numbers of their
\* headers, are a unified diff, but for the start of a range without lines, which
\* is one too high: applied to the old file they give the new one.  With lines of
\* context, as computeFileDiff asks for, only an empty file has such a range.
HunksPatchOldToNew ==
    probe.kind = "diff" =>
        LET hunks == opsToHunks(lcsEditScript(probe.a, probe.b), probe.ctx)
        IN  /\ Patched([k \in DOMAIN hunks |-> AsUnified(hunks[k])], 1, probe.a,
                       [pos |-> 1, out |-> <<>>]) = probe.b
            /\ \A k \in DOMAIN hunks :
                   AsUnified(hunks[k]) = hunks[k] \/ probe.ctx = 0 \/ <<>> \in {probe.a, probe.b}

\* The grammar of conditions: the values a token sequence has as an or, an and or
\* an operand; none when it is not one.
RECURSIVE OrValues(_), AndValues(_), OperandValues(_)
Before(s, i) == SubSeq(s, 1, i - 1)
After(s, i) == SubSeq(s, i + 1, Len(s))
OrValues(s) ==
    AndValues(s) \cup
    UNION {{l \/ r : l \in OrValues(Before(s, i)), r \in AndValues(After(s, i))} :
           i \in {k \in DOMAIN s : s[k] = "||"}}
AndValues(s) ==
    OperandValues(s) \cup
    UNION {{l /\ r : l \in AndValues(Before(s, i)), r \in OperandValues(After(s, i))} :
           i \in {k \in DOMAIN s : s[k] = "&&"}}
Inner(s) == SubSeq(s, 2, Len(s) - 1)
\* A field, or a quoted string without the quote it is in.
StringsOf(s) ==
    {x \in {<<Push>>} : s = <<Type>>} \cup {x \in {<<>>} : s = <<BaseBranch>>}
    \cup {x \in {Inner(s)} : Len(s) > 1 /\ s[1] \in Quotes /\ s[Len(s)] = s[1]
                              /\ \A i \in DOMAIN Inner(s) : Inner(s)[i] # s[1]}
Compared(s, i) ==
    {(s[i] = "==") <=> (l = r) : l \in StringsOf(Before(s, i)), r \in StringsOf(After(s, i))}
OperandValues(s) ==
    {x # <<>> : x \in StringsOf(s)}
    \cup UNION {Compared(s, i) : i \in {k \in DOMAIN s : s[k] \in {"==", "!="}}}
    \cup IF Len(s) > 2 /\ s[1] = "(" /\ s[Len(s)] = ")" THEN OrValues(Inner(s)) ELSE {}

\* EvalIf accepts exactly the conditions of its grammar, && before ||, parentheses
\* first, operators in quotes being text, and gives each its only value; everything
\* else, an unknown field or a string without its closing quote too, is an error (a
\* check whose condition is an error is skipped).
ConditionFollowsGrammar ==
    probe.kind = "if" /\ probe.expr # <<>> =>
        LET r == EvalIf(probe.expr)
        IN  OrValues(probe.expr) = IF r.ok THEN {r.val} ELSE {}

RECURSIVE NearestOwners(_, _)
\* Up from a directory to the first one whose OWNERS file lists somebody.
NearestOwners(files, dir) ==
    IF dir \in DOMAIN files /\ files[dir] # {} THEN files[dir]
    ELSE IF dir = <<>> THEN {}
    ELSE LET slashes == {i \in DOMAIN dir : dir[i] = "/"}
         IN  NearestOwners(files, IF slashes = {} THEN <<>> ELSE SubSeq(dir, 1, Max(slashes) - 1))
DirOf(path) ==
    LET slashes == {i \in DOMAIN path : path[i] = "/"}
    IN  IF slashes = {} THEN <<>> ELSE SubSeq(path, 1, Max(slashes) - 1)

\* The owners of a file are those of the nearest directory above it that names any,
\* though the code matches prefixes of strings and compares their lengths.
OwnersAreNearest ==
    probe.kind = "owners" =>
        ResolveOwners(ParseOwners(probe.files), probe.path)
            = NearestOwners(probe.files, DirOf(probe.path))

\* The functions compute what their definitions say, on the input that was
\* chosen.
FunctionsRight ==
    /\ EditScriptShortest
    /\ HunksPatchOldToNew
    /\ ConditionFollowsGrammar
    /\ OwnersAreNearest
=============================================================================
