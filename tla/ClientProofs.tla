----------------------------- MODULE ClientProofs -----------------------------
(***************************************************************************)
(* The clients: what the commands do to a workspace and to the edits in    *)
(* it, that a pull catches up and an honest chain passes, and what the     *)
(* terminal interface keeps between its screens.                           *)
(***************************************************************************)
EXTENDS Workspace, Tui, SequenceTheorems, NaturalsInduction, WellFoundedInduction, TLAPS

-----------------------------------------------------------------------------
(* Files by path.                                                          *)

Kept == Contents \cup {Empty}

LEMMA TreeIs ==
    ASSUME NEW f \in Trees
    PROVE  /\ f = [p \in DOMAIN f |-> f[p]] /\ DOMAIN f \subseteq Paths
           /\ \A p \in DOMAIN f : f[p] \in Kept
<1>1. PICK D \in SUBSET Paths : f \in [D -> Contents \cup {Empty}]
    BY DEF Trees
<1> QED BY <1>1 DEF Kept

LEMMA TreeMade ==
    ASSUME NEW f, f = [p \in DOMAIN f |-> f[p]], DOMAIN f \subseteq Paths,
           \A p \in DOMAIN f : f[p] \in Kept
    PROVE  f \in Trees
<1>1. f \in [DOMAIN f -> Contents \cup {Empty}]
    BY DEF Kept
<1> QED BY <1>1 DEF Trees

LEMMA ChangeIs ==
    ASSUME NEW f \in Changes
    PROVE  /\ f = [p \in DOMAIN f |-> f[p]] /\ DOMAIN f \subseteq Paths
           /\ \A p \in DOMAIN f : f[p] \in Kept \cup {Gone}
<1>1. PICK D \in SUBSET Paths : f \in [D -> Contents \cup {Empty, Gone}]
    BY DEF Changes
<1> QED BY <1>1 DEF Kept

LEMMA ChangeMade ==
    ASSUME NEW f, f = [p \in DOMAIN f |-> f[p]], DOMAIN f \subseteq Paths,
           \A p \in DOMAIN f : f[p] \in Kept \cup {Gone}
    PROVE  f \in Changes
<1>1. f \in [DOMAIN f -> Contents \cup {Empty, Gone}]
    BY DEF Kept
<1> QED BY <1>1 DEF Changes

LEMMA TreeIsChange ==
    ASSUME NEW f \in Trees
    PROVE  f \in Changes
BY TreeIs, ChangeMade

LEMMA NoFilesTree == NoFiles \in Trees /\ DOMAIN NoFiles = {}
<1>1. NoFiles = [p \in DOMAIN NoFiles |-> NoFiles[p]] /\ DOMAIN NoFiles = {}
    BY DEF NoFiles
<1> QED BY <1>1, TreeMade

LEMMA OneTree ==
    ASSUME NEW p \in Paths, NEW c \in Kept
    PROVE  One(p, c) \in Trees
<1>1. PICK f : f = One(p, c)
    OBVIOUS
<1>2. f = [q \in DOMAIN f |-> f[q]] /\ DOMAIN f = {p} /\ f[p] = c
    BY <1>1 DEF One
<1> QED BY <1>1, <1>2, TreeMade

LEMMA OneChange ==
    ASSUME NEW p \in Paths, NEW c \in Kept \cup {Gone}
    PROVE  One(p, c) \in Changes
<1>1. PICK f : f = One(p, c)
    OBVIOUS
<1>2. f = [q \in DOMAIN f |-> f[q]] /\ DOMAIN f = {p} /\ f[p] = c
    BY <1>1 DEF One
<1> QED BY <1>1, <1>2, ChangeMade

\* What is written wins over what is there.
LEMMA AtOnto ==
    ASSUME NEW f, NEW g, NEW p
    PROVE  At(Onto(f, g), p) = IF p \in DOMAIN f THEN f[p] ELSE At(g, p)
BY DEF Onto, At

LEMMA OntoTree ==
    ASSUME NEW f \in Trees, NEW g \in Trees
    PROVE  Onto(f, g) \in Trees
<1>1. PICK h : h = Onto(f, g)
    OBVIOUS
<1>2. /\ h = [p \in DOMAIN h |-> h[p]] /\ DOMAIN h = DOMAIN f \cup DOMAIN g
      /\ \A p \in DOMAIN h : h[p] = IF p \in DOMAIN f THEN f[p] ELSE g[p]
    BY <1>1 DEF Onto
<1>3. DOMAIN f \subseteq Paths /\ DOMAIN g \subseteq Paths
    BY TreeIs
<1>4. \A p \in DOMAIN h : h[p] \in Kept
    BY <1>2, TreeIs
<1> QED BY <1>1, <1>2, <1>3, <1>4, TreeMade

LEMMA OntoChange ==
    ASSUME NEW f \in Changes, NEW g \in Changes
    PROVE  Onto(f, g) \in Changes
<1>1. PICK h : h = Onto(f, g)
    OBVIOUS
<1>2. /\ h = [p \in DOMAIN h |-> h[p]] /\ DOMAIN h = DOMAIN f \cup DOMAIN g
      /\ \A p \in DOMAIN h : h[p] = IF p \in DOMAIN f THEN f[p] ELSE g[p]
    BY <1>1 DEF Onto
<1>3. DOMAIN f \subseteq Paths /\ DOMAIN g \subseteq Paths
    BY ChangeIs
<1>4. \A p \in DOMAIN h : h[p] \in Kept \cup {Gone}
    BY <1>2, ChangeIs
<1> QED BY <1>1, <1>2, <1>3, <1>4, ChangeMade

LEMMA AtWithout ==
    ASSUME NEW f, NEW S, NEW p
    PROVE  At(Without(f, S), p) = IF p \in S THEN Gone ELSE At(f, p)
BY DEF Without, At

LEMMA WithoutTree ==
    ASSUME NEW f \in Trees, NEW S
    PROVE  Without(f, S) \in Trees
<1>1. PICK h : h = Without(f, S)
    OBVIOUS
<1>2. /\ h = [p \in DOMAIN h |-> h[p]] /\ DOMAIN h = DOMAIN f \ S
      /\ \A p \in DOMAIN h : h[p] = f[p]
    BY <1>1 DEF Without
<1>3. DOMAIN h \subseteq Paths /\ \A p \in DOMAIN h : h[p] \in Kept
    BY <1>2, TreeIs
<1> QED BY <1>1, <1>2, <1>3, TreeMade

LEMMA OverlayTree ==
    ASSUME NEW f \in Trees, NEW g \in Changes
    PROVE  Overlay(f, g) \in Trees
<1> DEFINE S == {p \in DOMAIN g : g[p] = Gone}
<1>1. PICK h : h = Onto(g, f)
    OBVIOUS
<1>2. /\ DOMAIN h = DOMAIN g \cup DOMAIN f
      /\ \A p \in DOMAIN h : h[p] = IF p \in DOMAIN g THEN g[p] ELSE f[p]
    BY <1>1 DEF Onto
<1>3. PICK k : k = Without(h, S)
    OBVIOUS
<1>4. /\ k = [p \in DOMAIN k |-> k[p]] /\ DOMAIN k = DOMAIN h \ S
      /\ \A p \in DOMAIN k : k[p] = h[p]
    BY <1>3 DEF Without
<1>5. DOMAIN f \subseteq Paths /\ DOMAIN g \subseteq Paths
    BY TreeIs, ChangeIs
<1>6. \A p \in DOMAIN f : f[p] \in Kept
    BY TreeIs
<1>7. \A p \in DOMAIN g \ S : g[p] \in Kept
    BY ChangeIs
<1>8. \A p \in DOMAIN k : k[p] \in Kept
    BY <1>2, <1>4, <1>6, <1>7
<1>9. k \in Trees
    BY <1>2, <1>4, <1>5, <1>8, TreeMade
<1> QED BY <1>1, <1>3, <1>9 DEF Overlay

\* An edit changes one file.
LEMMA OverlayOneIs ==
    ASSUME NEW f, NEW d, NEW c, NEW p
    PROVE  At(Overlay(f, One(d, c)), p) = IF p = d THEN c ELSE At(f, p)
<1>1. PICK g : g = One(d, c)
    OBVIOUS
<1>2. DOMAIN g = {d} /\ g[d] = c
    BY <1>1 DEF One
<1>3. PICK h : h = Onto(g, f)
    OBVIOUS
<1>4. \A q : At(h, q) = IF q \in DOMAIN g THEN g[q] ELSE At(f, q)
    BY <1>3 DEF Onto, At
<1>5. Overlay(f, g) = Without(h, {q \in DOMAIN g : g[q] = Gone})
    BY <1>3 DEF Overlay
<1>6. At(Overlay(f, g), p) = IF p \in {q \in DOMAIN g : g[q] = Gone} THEN Gone ELSE At(h, p)
    BY <1>5 DEF Without, At
<1> QED BY <1>1, <1>2, <1>4, <1>6

\* Trees that hold the same at every path are the same tree.
LEMMA TreesEqual ==
    ASSUME NEW f \in Trees, NEW g \in Trees, \A p \in Paths : At(f, p) = At(g, p)
    PROVE  f = g
<1>1. \A p \in DOMAIN f : f[p] # Gone
    BY TreeIs, WorkspaceAssumption DEF Kept
<1>2. \A p \in DOMAIN g : g[p] # Gone
    BY TreeIs, WorkspaceAssumption DEF Kept
<1>3. DOMAIN f \subseteq Paths /\ DOMAIN g \subseteq Paths
    BY TreeIs
<1>4. DOMAIN f = DOMAIN g /\ \A p \in DOMAIN f : f[p] = g[p]
    BY <1>1, <1>2, <1>3 DEF At
<1>5. f = [p \in DOMAIN f |-> f[p]] /\ g = [p \in DOMAIN g |-> g[p]]
    BY TreeIs
<1> QED BY <1>4, <1>5

LEMMA DifferingNone ==
    ASSUME NEW f \in Trees, NEW g \in Trees, Differing(f, g) = {}
    PROVE  f = g
<1>1. \A p \in Paths : At(f, p) = At(g, p)
    BY DEF Differing, At
<1> QED BY <1>1, TreesEqual

LEMMA DifferingIs ==
    ASSUME NEW f, NEW g, NEW p
    PROVE  p \in Differing(f, g) <=> At(f, p) # At(g, p)
BY DEF Differing, At

-----------------------------------------------------------------------------
(* Sequences.                                                              *)

\* A non-empty set of naturals has a least element.
LEMMA LeastIn ==
    ASSUME NEW S \in SUBSET Nat, S # {}
    PROVE  \E x \in S : \A y \in S : x <= y
<1> DEFINE less == OpToRel(<, Nat)
<1>1. PICK x \in S : \A y \in S : ~ (<<y, x>> \in less)
    BY NatLessThanWellFounded, WFMin
<1>2. \A u, t \in Nat : u < t => <<u, t>> \in less
    BY DEF OpToRel
<1> HIDE DEF less
<1>3. \A y \in S : ~ (y < x)
    BY <1>1, <1>2
<1>4. \A y \in S : x <= y
    BY <1>1, <1>3
<1> QED BY <1>1, <1>4

\* A bounded one has a greatest element.
LEMMA GreatestIn ==
    ASSUME NEW S \in SUBSET Nat, S # {}, NEW m \in Nat, \A x \in S : x <= m
    PROVE  \E x \in S : \A y \in S : y <= x
<1> DEFINE T == {m - x : x \in S}
<1>1. T \in SUBSET Nat /\ T # {}
    OBVIOUS
<1>2. PICK t \in T : \A u \in T : t <= u
    <2> HIDE DEF T
    <2> QED BY <1>1, LeastIn
<1>3. PICK x \in S : t = m - x
    BY <1>2
<1>4. \A y \in S : m - x <= m - y
    BY <1>2, <1>3
<1> HIDE DEF T
<1>5. \A y \in S : y <= x
    BY <1>4
<1> QED BY <1>5

LEMMA MaxInIs ==
    ASSUME NEW S \in SUBSET Nat, NEW m \in S, \A n \in S : n <= m
    PROVE  MaxIn(S) = m
<1>1. S # {} /\ \E k \in S : \A n \in S : n <= k
    OBVIOUS
<1>2. PICK k : k = CHOOSE x \in S : \A n \in S : n <= x
    OBVIOUS
<1>3. k \in S /\ \A n \in S : n <= k
    BY <1>1, <1>2
<1>4. k = m
    BY <1>3
<1> QED BY <1>1, <1>2, <1>4 DEF MaxIn

LEMMA MaxInOf ==
    ASSUME NEW S \in SUBSET Nat, S # {}, NEW m \in Nat, \A x \in S : x <= m
    PROVE  MaxIn(S) \in S /\ \A n \in S : n <= MaxIn(S)
<1>1. PICK k \in S : \A n \in S : n <= k
    BY GreatestIn
<1>2. MaxIn(S) = k
    BY <1>1, MaxInIs
<1> QED BY <1>1, <1>2

LEMMA MaxInNat ==
    ASSUME NEW S \in SUBSET Nat, NEW m \in Nat, \A x \in S : x <= m
    PROVE  MaxIn(S) \in Nat
<1>1. CASE S = {}
    BY <1>1 DEF MaxIn
<1>2. CASE S # {}
    BY <1>2, MaxInOf
<1> QED BY <1>1, <1>2

\* Elements below some element of the set do not change its maximum.
LEMMA MaxInUp ==
    ASSUME NEW A \in SUBSET Nat, NEW B \in SUBSET Nat, NEW h \in A, NEW m \in Nat,
           \A x \in B : x <= m, A \subseteq B, \A x \in B \ A : x <= h
    PROVE  MaxIn(B) = MaxIn(A)
<1>1. PICK k \in A : \A n \in A : n <= k
    BY GreatestIn
<1>2. \A n \in B : n <= k
    BY <1>1
<1> QED BY <1>1, <1>2, MaxInIs

-----------------------------------------------------------------------------
(* The server.                                                             *)

LEMMA NewCommits ==
    ASSUME ServerTypeOK, NEW b \in Branches, NEW n \in Nat
    PROVE  /\ Logged(b, n) \in Seq([branch : Branches, prev : Nat])
           /\ Len(Logged(b, n)) = Len(log) + n
           /\ \A s \in 1..Len(log) : Logged(b, n)[s] = log[s]
           /\ \A i \in 1..n :
                  /\ Logged(b, n)[Len(log) + i].branch = b
                  /\ i = 1 => Logged(b, n)[Len(log) + i].prev
                                  = fetchPrevCommitHash(b, Len(log) + 1)
                  /\ i > 1 => Logged(b, n)[Len(log) + i].prev = Len(log) + i - 1
<1>1. PICK f : f = fetchPrevCommitHash(b, Len(log) + 1)
    OBVIOUS
<1>2. Len(log) \in Nat /\ log \in Seq([branch : Branches, prev : Nat])
    BY DEF ServerTypeOK
<1>3. f \in Nat
    <2> DEFINE S == {t \in 1..(Len(log) + 1 - 1) : t <= Len(log) /\ log[t].branch = b}
    <2>1. \A x \in S : x \in Nat /\ x <= Len(log)
        BY <1>2
    <2>2. MaxIn(S) \in Nat
        <3> HIDE DEF S
        <3>1. S \in SUBSET Nat
            BY <2>1
        <3> QED BY <1>2, <2>1, <3>1, MaxInNat
    <2> QED BY <1>1, <2>2 DEF fetchPrevCommitHash
<1>4. PICK k \in Nat : k = Len(log)
    BY <1>2
<1>5. PICK new : new = [i \in 1..n |-> [branch |-> b, prev |-> IF i > 1 THEN k + i - 1 ELSE f]]
    OBVIOUS
<1>6. new \in Seq([branch : Branches, prev : Nat]) /\ Len(new) = n
    <2>1. \A i \in 1..n : [branch |-> b, prev |-> IF i > 1 THEN k + i - 1 ELSE f]
                              \in [branch : Branches, prev : Nat]
        BY <1>3
    <2>2. new \in [1..n -> [branch : Branches, prev : Nat]]
        BY <1>5, <2>1
    <2>3. new \in Seq([branch : Branches, prev : Nat])
        BY <2>2, SeqDef
    <2> QED BY <2>2, <2>3
<1>7. Logged(b, n) = log \o new
    BY <1>1, <1>4, <1>5 DEF Logged
<1>8. PICK L : L = log \o new
    OBVIOUS
<1>9. /\ L \in Seq([branch : Branches, prev : Nat]) /\ Len(L) = Len(log) + n
      /\ \A i \in 1..(Len(log) + n) : L[i] = IF i <= Len(log) THEN log[i] ELSE new[i - Len(log)]
    BY <1>2, <1>6, <1>8, ConcatProperties
<1>10. \A s \in 1..Len(log) : L[s] = log[s]
    BY <1>2, <1>9
<1>11. \A i \in 1..n : L[k + i] = new[i]
    BY <1>4, <1>9
<1>12. \A i \in 1..n : /\ L[k + i].branch = b
                       /\ i = 1 => L[k + i].prev = f
                       /\ i > 1 => L[k + i].prev = k + i - 1
    <2> SUFFICES ASSUME NEW i \in 1..n
                 PROVE  /\ new[i].branch = b
                        /\ i = 1 => new[i].prev = f
                        /\ i > 1 => new[i].prev = k + i - 1
        BY <1>11
    <2>1. PICK p \in Nat : p = IF i > 1 THEN k + i - 1 ELSE f
        BY <1>3
    <2>2. new[i] = [branch |-> b, prev |-> p]
        BY <1>5, <2>1
    <2>3. new[i].branch = b /\ new[i].prev = p
        BY <2>2
    <2>4. (i = 1 => p = f) /\ (i > 1 => p = k + i - 1)
        BY <1>3, <2>1
    <2> QED BY <2>3, <2>4
<1> QED BY <1>1, <1>4, <1>7, <1>8, <1>9, <1>10, <1>12

LEMMA MaterializeType ==
    ASSUME ServerTypeOK, NEW b \in Branches
    PROVE  MaterializeTree(b) \in Trees
<1>1. main.tree \in Trees /\ NoFiles \in Trees
    BY NoFilesTree DEF ServerTypeOK
<1>2. ASSUME b \in Topics
      PROVE  Overlay(topic[b].baseTree, topic[b].over) \in Trees
    <2>1. topic[b].baseTree \in Trees /\ topic[b].over \in Changes
        BY <1>2 DEF ServerTypeOK
    <2> QED BY <2>1, OverlayTree
<1> QED BY <1>1, <1>2 DEF MaterializeTree, Branches

LEMMA MainMovesType ==
    ASSUME NEW t \in [Topics -> [status : {"none", "active", "merged"}, head : Nat,
                             baseTree : Trees, over : Changes, moved : SUBSET Paths,
                             commits : Nat]],
           NEW S \in SUBSET Paths
    PROVE  /\ MainMoves(S, t) \in [Topics -> [status : {"none", "active", "merged"}, head : Nat,
                             baseTree : Trees, over : Changes, moved : SUBSET Paths,
                             commits : Nat]]
           /\ \A b \in Topics : /\ MainMoves(S, t)[b].head = t[b].head
                                /\ MainMoves(S, t)[b].status = t[b].status
                                /\ MainMoves(S, t)[b].commits = t[b].commits
<1>1. PICK u : u = MainMoves(S, t)
    OBVIOUS
<1>2. u = [b \in Topics |-> [t[b] EXCEPT !.moved = t[b].moved \cup S]]
    BY <1>1 DEF MainMoves
<1>3. \A b \in Topics : t[b].moved \cup S \in SUBSET Paths
    OBVIOUS
<1>4. \A b \in Topics : /\ u[b].head = t[b].head /\ u[b].status = t[b].status
                        /\ u[b].commits = t[b].commits
    BY <1>2
<1>5. u \in [Topics -> [status : {"none", "active", "merged"}, head : Nat,
                             baseTree : Trees, over : Changes, moved : SUBSET Paths,
                             commits : Nat]]
    BY <1>2, <1>3
<1> QED BY <1>1, <1>4, <1>5

\* What a write leaves of the heads of the branches and of the log.
LEMMA ServerCommitIs ==
    ASSUME ServerTypeOK, NEW b \in Branches, NEW chg \in Changes, ServerCommit(b, chg)
    PROVE  /\ ServerTypeOK' /\ log' = Logged(b, 1) /\ Active(b)
           /\ b = "main" => main'.head = Len(log) + 1
           /\ b # "main" => main' = main
           /\ \A a \in Topics : /\ topic'[a].status = topic[a].status
                                /\ a # b => topic'[a].head = topic[a].head
                                /\ a # b => topic'[a].commits = topic[a].commits
                                /\ a = b => topic'[a].head = Len(log) + 1
                                /\ a = b => topic'[a].commits = topic[a].commits + 1
<1>1. log' = Logged(b, 1) /\ Active(b)
    BY DEF ServerCommit
<1>2. log' \in Seq([branch : Branches, prev : Nat]) /\ Len(log) \in Nat
    <2>1. log' \in Seq([branch : Branches, prev : Nat])
        BY <1>1, NewCommits
    <2>2. Len(log) \in Nat
        BY DEF ServerTypeOK
    <2> QED BY <2>1, <2>2
<1>3. CASE b = "main"
    <2>1. main' = [head |-> Len(log) + 1, tree |-> Overlay(main.tree, chg)]
          /\ topic' = MainMoves(DOMAIN chg, topic)
        BY <1>3 DEF ServerCommit
    <2>2. Overlay(main.tree, chg) \in Trees
        BY OverlayTree DEF ServerTypeOK
    <2>3. DOMAIN chg \in SUBSET Paths
        BY ChangeIs
    <2>4. b \notin Topics
        BY <1>3, WorkspaceAssumption
    <2>5. main' \in [head : Nat, tree : Trees] /\ main'.head = Len(log) + 1
        BY <1>2, <2>1, <2>2
    <2>6. /\ topic' \in [Topics -> [status : {"none", "active", "merged"}, head : Nat,
                             baseTree : Trees, over : Changes, moved : SUBSET Paths,
                             commits : Nat]]
          /\ \A a \in Topics : /\ topic'[a].head = topic[a].head
                               /\ topic'[a].status = topic[a].status
                               /\ topic'[a].commits = topic[a].commits
        BY <2>1, <2>3, MainMovesType DEF ServerTypeOK
    <2>7. \A a \in Topics : a # b
        BY <2>4
    <2>8. ServerTypeOK'
        BY <1>2, <2>5, <2>6 DEF ServerTypeOK
    <2> QED BY <1>1, <1>3, <2>5, <2>6, <2>7, <2>8
<1>4. CASE b # "main"
    <2>1. b \in Topics /\ main' = main
          /\ topic' = [topic EXCEPT ![b] =
                   [topic[b] EXCEPT !.head = Len(log) + 1, !.over = Onto(chg, topic[b].over),
                                    !.commits = topic[b].commits + 1]]
        BY <1>4 DEF ServerCommit, Branches
    <2>2. PICK over \in Changes : over = Onto(chg, topic[b].over)
        BY <2>1, OntoChange DEF ServerTypeOK
    <2>n. PICK c \in Nat, k \in Nat : c = topic[b].commits + 1 /\ k = Len(log) + 1
        BY <1>2, <2>1 DEF ServerTypeOK
    <2>3. PICK r : r = [topic[b] EXCEPT !.head = k, !.over = over, !.commits = c]
        OBVIOUS
    <2>4. topic[b] \in [status : {"none", "active", "merged"}, head : Nat,
                             baseTree : Trees, over : Changes, moved : SUBSET Paths,
                             commits : Nat]
        BY <2>1 DEF ServerTypeOK
    <2>5. /\ r \in [status : {"none", "active", "merged"}, head : Nat,
                             baseTree : Trees, over : Changes, moved : SUBSET Paths,
                             commits : Nat]
          /\ r.head = Len(log) + 1 /\ r.commits = topic[b].commits + 1
          /\ r.status = topic[b].status
        BY <2>n, <2>3, <2>4
    <2>6. topic' = [topic EXCEPT ![b] = r]
        BY <2>1, <2>2, <2>n, <2>3
    <2>7. topic' \in [Topics -> [status : {"none", "active", "merged"}, head : Nat,
                             baseTree : Trees, over : Changes, moved : SUBSET Paths,
                             commits : Nat]]
        BY <2>1, <2>5, <2>6 DEF ServerTypeOK
    <2>8. \A a \in Topics : topic'[a] = IF a = b THEN r ELSE topic[a]
        BY <2>1, <2>6 DEF ServerTypeOK
    <2>9. ServerTypeOK'
        BY <1>2, <2>1, <2>7 DEF ServerTypeOK
    <2> QED BY <1>1, <1>4, <2>1, <2>5, <2>8, <2>9
<1> QED BY <1>3, <1>4

LEMMA CreateBranchIs ==
    ASSUME ServerTypeOK, NEW b \in Topics, CreateBranch(b)
    PROVE  /\ ServerTypeOK' /\ log' = log /\ main' = main
           /\ topic[b].status = "none"
           /\ \A a \in Topics \ {b} : topic'[a] = topic[a]
           /\ topic'[b].status = "active" /\ topic'[b].head = main.head /\ topic'[b].commits = 0
<1>1. main.head \in Nat /\ main.tree \in Trees /\ NoFiles \in Changes
    BY NoFilesTree, TreeIsChange DEF ServerTypeOK
<1>2. PICK r : r = [status |-> "active", head |-> main.head, baseTree |-> main.tree,
                    over |-> NoFiles, moved |-> {}, commits |-> 0]
    OBVIOUS
<1>3. /\ r \in [status : {"none", "active", "merged"}, head : Nat,
                baseTree : Trees, over : Changes, moved : SUBSET Paths, commits : Nat]
      /\ r.status = "active" /\ r.head = main.head /\ r.commits = 0
    BY <1>1, <1>2
<1>4. /\ topic' = [topic EXCEPT ![b] = r] /\ log' = log /\ main' = main
      /\ topic[b].status = "none"
    BY <1>2 DEF CreateBranch
<1>5. ServerTypeOK'
    BY <1>3, <1>4 DEF ServerTypeOK
<1> QED BY <1>3, <1>4, <1>5 DEF ServerTypeOK

LEMMA ServerMergeIs ==
    ASSUME ServerTypeOK, NEW b \in Topics, ServerMerge(b)
    PROVE  /\ ServerTypeOK' /\ topic[b].status = "active"
           /\ \A a \in Topics : /\ topic'[a].head = topic[a].head
                                /\ topic'[a].commits = topic[a].commits
                                /\ a # b => topic'[a].status = topic[a].status
                                /\ a = b => topic'[a].status = "merged"
           /\ \/ main' = main /\ log' = log
              \/ main'.head = Len(log) + 1 /\ log' = Logged("main", 1)
<1>1. PICK done : done = [topic EXCEPT ![b] = [topic[b] EXCEPT !.status = "merged"]]
    OBVIOUS
<1>2. /\ done \in [Topics -> [status : {"none", "active", "merged"}, head : Nat,
                             baseTree : Trees, over : Changes, moved : SUBSET Paths,
                             commits : Nat]]
      /\ \A a \in Topics : /\ done[a].head = topic[a].head
                           /\ done[a].commits = topic[a].commits
                           /\ a # b => done[a].status = topic[a].status
                           /\ a = b => done[a].status = "merged"
    BY <1>1 DEF ServerTypeOK
<1>3. topic[b].status = "active"
    BY DEF ServerMerge
<1>4. CASE DOMAIN topic[b].over = {}
    <2>1. topic' = done /\ main' = main /\ log' = log
        BY <1>1, <1>4 DEF ServerMerge
    <2>2. ServerTypeOK'
        BY <1>2, <2>1 DEF ServerTypeOK
    <2> QED BY <1>2, <1>3, <2>1, <2>2
<1>5. CASE DOMAIN topic[b].over # {}
    <2>1. /\ topic' = MainMoves(DOMAIN topic[b].over, done)
          /\ main' = [head |-> Len(log) + 1, tree |-> Overlay(main.tree, topic[b].over)]
          /\ log' = Logged("main", 1)
        BY <1>1, <1>5 DEF ServerMerge
    <2>2. topic[b].over \in Changes /\ main.tree \in Trees
        BY DEF ServerTypeOK
    <2>3. Overlay(main.tree, topic[b].over) \in Trees /\ DOMAIN topic[b].over \in SUBSET Paths
        BY <2>2, OverlayTree, ChangeIs
    <2>4. "main" \in Branches
        BY DEF Branches
    <2>5. log' \in Seq([branch : Branches, prev : Nat]) /\ Len(log) \in Nat
        <3>1. log' \in Seq([branch : Branches, prev : Nat])
            BY <2>1, <2>4, NewCommits
        <3>2. Len(log) \in Nat
            BY DEF ServerTypeOK
        <3> QED BY <3>1, <3>2
    <2>6. main' \in [head : Nat, tree : Trees] /\ main'.head = Len(log) + 1
        BY <2>1, <2>3, <2>5
    <2>7. /\ topic' \in [Topics -> [status : {"none", "active", "merged"}, head : Nat,
                             baseTree : Trees, over : Changes, moved : SUBSET Paths,
                             commits : Nat]]
          /\ \A a \in Topics : /\ topic'[a].head = done[a].head
                               /\ topic'[a].status = done[a].status
                               /\ topic'[a].commits = done[a].commits
        BY <1>2, <2>1, <2>3, MainMovesType
    <2>8. ServerTypeOK'
        BY <2>5, <2>6, <2>7 DEF ServerTypeOK
    <2> QED BY <1>2, <1>3, <2>1, <2>6, <2>7, <2>8
<1> QED BY <1>4, <1>5

LEMMA ServerRebaseIs ==
    ASSUME ServerTypeOK, NEW b \in Topics, ServerRebase(b)
    PROVE  /\ ServerTypeOK' /\ main' = main /\ log' = Logged(b, topic[b].commits)
           /\ topic[b].commits \in Nat /\ topic[b].status = "active"
           /\ \A a \in Topics \ {b} : topic'[a] = topic[a]
           /\ topic'[b].status = "active" /\ topic'[b].commits = topic[b].commits
           /\ topic'[b].head = IF topic[b].commits = 0 THEN main.head
                               ELSE Len(log) + topic[b].commits
<1>1. PICK n : n = topic[b].commits
    OBVIOUS
<1>2. n \in Nat /\ main.head \in Nat /\ main.tree \in Trees /\ b \in Branches /\ Len(log) \in Nat
    BY <1>1 DEF ServerTypeOK, Branches
<1>3. PICK h : h = IF n = 0 THEN main.head ELSE Len(log) + n
    OBVIOUS
<1>4. PICK r : r = [topic[b] EXCEPT !.baseTree = main.tree, !.moved = {}, !.head = h]
    OBVIOUS
<1>5. /\ topic' = [topic EXCEPT ![b] = r] /\ log' = Logged(b, n) /\ main' = main
      /\ topic[b].status = "active"
    BY <1>1, <1>3, <1>4 DEF ServerRebase
<1>6. h \in Nat
    BY <1>2, <1>3
<1>7. topic[b] \in [status : {"none", "active", "merged"}, head : Nat,
                baseTree : Trees, over : Changes, moved : SUBSET Paths, commits : Nat]
    BY DEF ServerTypeOK
<1>8. /\ r \in [status : {"none", "active", "merged"}, head : Nat,
                baseTree : Trees, over : Changes, moved : SUBSET Paths, commits : Nat]
      /\ r.status = topic[b].status /\ r.head = h /\ r.commits = n
    BY <1>1, <1>2, <1>4, <1>6, <1>7
<1>9. log' \in Seq([branch : Branches, prev : Nat])
    BY <1>2, <1>5, NewCommits
<1>10. ServerTypeOK'
    BY <1>5, <1>8, <1>9 DEF ServerTypeOK
<1>11. topic'[b] = r /\ \A a \in Topics \ {b} : topic'[a] = topic[a]
    BY <1>5 DEF ServerTypeOK
<1> QED BY <1>1, <1>2, <1>3, <1>5, <1>8, <1>10, <1>11

LEMMA ChainGrows ==
    ASSUME ServerTypeOK, ChainLinked, NEW b \in Branches, NEW n \in Nat, NEW L,
           L = Logged(b, n)
    PROVE  \A s \in 1..Len(L) : L[s].prev = MaxIn({t \in 1..(s - 1) : L[t].branch = L[s].branch})
<1>1. PICK k \in Nat : k = Len(log)
    BY DEF ServerTypeOK
<1>a. /\ Len(Logged(b, n)) = Len(log) + n /\ \A s \in 1..Len(log) : Logged(b, n)[s] = log[s]
      /\ \A i \in 1..n :
             /\ Logged(b, n)[Len(log) + i].branch = b
             /\ i = 1 => Logged(b, n)[Len(log) + i].prev = fetchPrevCommitHash(b, Len(log) + 1)
             /\ i > 1 => Logged(b, n)[Len(log) + i].prev = Len(log) + i - 1
    BY NewCommits
<1>2. Len(L) = k + n /\ \A s \in 1..k : L[s] = log[s]
    BY <1>1, <1>a
<1>3. \A i \in 1..n : /\ L[k + i].branch = b
                      /\ i = 1 => L[k + i].prev = fetchPrevCommitHash(b, k + 1)
                      /\ i > 1 => L[k + i].prev = k + i - 1
    BY <1>1, <1>a
<1> SUFFICES ASSUME NEW s \in 1..(k + n)
             PROVE  L[s].prev = MaxIn({t \in 1..(s - 1) : L[t].branch = L[s].branch})
    BY <1>2
<1>4. CASE s <= k
    <2>1. s \in 1..k
        BY <1>4
    <2>2. log[s].prev = MaxIn({t \in 1..(s - 1) : log[t].branch = log[s].branch})
        BY <1>1, <2>1 DEF ChainLinked
    <2>3. L[s] = log[s] /\ \A t \in 1..(s - 1) : L[t] = log[t]
        BY <1>2, <2>1
    <2>4. {t \in 1..(s - 1) : L[t].branch = L[s].branch}
            = {t \in 1..(s - 1) : log[t].branch = log[s].branch}
        BY <2>3
    <2> QED BY <2>2, <2>3, <2>4
<1>5. CASE s = k + 1
    <2>1. 1 \in 1..n /\ s - 1 = k /\ k + 1 - 1 = k
        BY <1>5
    <2>2. L[s].branch = b /\ L[s].prev = fetchPrevCommitHash(b, k + 1)
        BY <1>3, <1>5, <2>1
    <2>3. {t \in 1..(k + 1 - 1) : t <= Len(log) /\ log[t].branch = b}
            = {t \in 1..(s - 1) : L[t].branch = b}
        BY <1>1, <1>2, <2>1
    <2>4. L[s].prev = MaxIn({t \in 1..(k + 1 - 1) : t <= Len(log) /\ log[t].branch = b})
        BY <2>2 DEF fetchPrevCommitHash
    <2>5. {t \in 1..(s - 1) : L[t].branch = L[s].branch} = {t \in 1..(s - 1) : L[t].branch = b}
        BY <2>2
    <2> QED BY <2>3, <2>4, <2>5
<1>6. CASE s > k + 1
    <2>1. PICK i \in 1..n : s = k + i /\ i > 1 /\ i - 1 \in 1..n
        <3>1. s - k \in 1..n /\ s = k + (s - k) /\ s - k > 1 /\ (s - k) - 1 \in 1..n
            BY <1>6
        <3> QED BY <3>1
    <2>2. L[s].branch = b /\ L[s].prev = s - 1
        BY <1>3, <2>1
    <2>3. L[s - 1].branch = b /\ s - 1 \in 1..(s - 1)
        <3>1. k + (i - 1) = s - 1
            BY <2>1
        <3>2. L[k + (i - 1)].branch = b
            BY <1>3, <2>1
        <3>3. s - 1 \in 1..(s - 1)
            BY <1>6
        <3> QED BY <3>1, <3>2, <3>3
    <2> DEFINE S == {t \in 1..(s - 1) : L[t].branch = b}
    <2>4. S \in SUBSET Nat /\ s - 1 \in S /\ \A t \in S : t <= s - 1
        BY <2>3
    <2>5. MaxIn(S) = s - 1
        <3> HIDE DEF S
        <3> QED BY <2>4, MaxInIs
    <2> QED BY <2>2, <2>5
<1> QED BY <1>4, <1>5, <1>6

\* Commits at the end of a branch keep the chain, when its head moves to the
\* last of them and the heads of branches that have commits move nowhere else.
LEMMA ChainKept ==
    ASSUME ServerTypeOK, ServerTypeOK', ChainLinked, NEW b \in Branches, NEW n \in Nat,
           log' = Logged(b, n),
           main'.head \in {main.head, Len(log) + n},
           \A a \in Topics : topic'[a].head \in {topic[a].head, main.head, Len(log) + n},
           \A a \in Topics : topic'[a].status = "none" => topic'[a].commits = 0,
           \A a \in Topics : topic'[a].commits = 0 => topic[a].commits = 0,
           \A a \in Branches : \/ BranchHead(a)' \in {BranchHead(a), Len(log) + n}
                               \/ a \in Topics /\ topic[a].commits = 0 /\ (a # b \/ n = 0),
           n # 0 => BranchHead(b)' = Len(log) + n /\ (b \in Topics => topic'[b].commits # 0)
    PROVE  ChainLinked'
<1>1. PICK k \in Nat : k = Len(log)
    BY DEF ServerTypeOK
<1>a. /\ Len(Logged(b, n)) = Len(log) + n /\ \A s \in 1..Len(log) : Logged(b, n)[s] = log[s]
      /\ \A i \in 1..n :
             /\ Logged(b, n)[Len(log) + i].branch = b
             /\ i = 1 => Logged(b, n)[Len(log) + i].prev = fetchPrevCommitHash(b, Len(log) + 1)
             /\ i > 1 => Logged(b, n)[Len(log) + i].prev = Len(log) + i - 1
    BY NewCommits
<1>2. Len(log') = k + n /\ \A s \in 1..k : log'[s] = log[s]
    BY <1>1, <1>a
<1>3. \A i \in 1..n : log'[k + i].branch = b
    BY <1>1, <1>a
<1>4. \A s \in 1..Len(log') :
          log'[s].prev = MaxIn({t \in 1..(s - 1) : log'[t].branch = log'[s].branch})
    BY ChainGrows
<1>5. main'.head <= Len(log')
    BY <1>1, <1>2 DEF ChainLinked, ServerTypeOK
<1>6. \A a \in Topics : topic'[a].head <= Len(log')
    <2> TAKE a \in Topics
    <2>1. topic[a].head \in Nat /\ main.head \in Nat
        BY DEF ServerTypeOK
    <2>2. topic[a].head <= k /\ main.head <= k
        BY <1>1 DEF ChainLinked
    <2> QED BY <1>1, <1>2, <2>1, <2>2
<1>7. \A s \in 1..(k + n) : \A a : a = log'[s].branch =>
          /\ s <= IF a = "main" THEN main'.head ELSE topic'[a].head
          /\ a \in Topics => topic'[a].commits # 0
    <2> SUFFICES ASSUME NEW s \in 1..(k + n), NEW a, a = log'[s].branch
                 PROVE  s <= BranchHead(a)' /\ (a \in Topics => topic'[a].commits # 0)
        BY DEF BranchHead
    <2>1. CASE s <= k
        <3>1. s \in 1..k /\ a = log[s].branch
            BY <1>2, <2>1
        <3>2. s <= BranchHead(a) /\ (a \in Topics => topic[a].commits # 0)
            BY <1>1, <3>1 DEF ChainLinked
        <3>3. a \in Branches
            <4>1. log[s] \in [branch : Branches, prev : Nat]
                BY <1>1, <3>1, ElementOfSeq DEF ServerTypeOK
            <4> QED BY <3>1, <4>1
        <3>4. BranchHead(a)' \in {BranchHead(a), k + n}
            BY <1>1, <3>2, <3>3
        <3>5. a \in Topics => topic'[a].commits # 0
            BY <3>2
        <3> QED BY <2>1, <3>2, <3>4, <3>5
    <2>2. CASE s > k
        <3>1. s - k \in 1..n /\ s = k + (s - k) /\ n # 0
            BY <2>2
        <3>2. a = b
            BY <1>3, <3>1
        <3>3. BranchHead(b)' = k + n /\ (b \in Topics => topic'[b].commits # 0)
            BY <1>1, <3>1
        <3> QED BY <3>2, <3>3
    <2> QED BY <2>1, <2>2
<1>8. \A a \in Topics : topic'[a].status = "none" => topic'[a].commits = 0
    OBVIOUS
<1> QED BY <1>2, <1>4, <1>5, <1>6, <1>7, <1>8 DEF ChainLinked, BranchHead

\* The log only grows.
Grown ==
    /\ Len(log) \in Nat /\ Len(log') \in Nat /\ Len(log) <= Len(log')
    /\ \A s \in 1..Len(log) : log'[s] = log[s]

LEMMA GrownBy ==
    ASSUME ServerTypeOK, NEW b \in Branches, NEW n \in Nat, log' = Logged(b, n)
    PROVE  Grown /\ Len(log') = Len(log) + n
<1>1. Len(log) \in Nat
    BY DEF ServerTypeOK
<1>2. Len(Logged(b, n)) = Len(log) + n /\ \A s \in 1..Len(log) : Logged(b, n)[s] = log[s]
    BY NewCommits
<1> QED BY <1>1, <1>2 DEF Grown

LEMMA NotGrown ==
    ASSUME ServerTypeOK, log' = log
    PROVE  Grown
BY DEF Grown, ServerTypeOK

LEMMA CommitChains ==
    ASSUME ServerTypeOK, ChainLinked, NEW b \in Branches, NEW chg \in Changes,
           ServerCommit(b, chg)
    PROVE  ChainLinked' /\ Grown /\ Len(log') = Len(log) + 1
<1>1. /\ ServerTypeOK' /\ log' = Logged(b, 1) /\ Active(b)
      /\ b = "main" => main'.head = Len(log) + 1
      /\ b # "main" => main' = main
      /\ \A a \in Topics : /\ topic'[a].status = topic[a].status
                           /\ a # b => topic'[a].head = topic[a].head
                           /\ a # b => topic'[a].commits = topic[a].commits
                           /\ a = b => topic'[a].head = Len(log) + 1
                           /\ a = b => topic'[a].commits = topic[a].commits + 1
    BY ServerCommitIs
<1>2. \A a \in Topics : topic[a].commits \in Nat
    BY DEF ServerTypeOK
<1>3. \A a \in Topics : topic[a].status = "none" => topic[a].commits = 0 /\ a # b
    BY <1>1 DEF ChainLinked, Active
<1>4. \A a \in Topics : topic'[a].status = "none" => topic'[a].commits = 0
    BY <1>1, <1>3
<1>5. \A a \in Topics : topic'[a].commits = 0 => topic[a].commits = 0
    BY <1>1, <1>2
<1>6. \A a \in Branches : BranchHead(a)' \in {BranchHead(a), Len(log) + 1}
    BY <1>1 DEF BranchHead, Branches
<1>7. BranchHead(b)' = Len(log) + 1
    BY <1>1 DEF BranchHead, Branches
<1>8. b \in Topics => topic'[b].commits # 0
    BY <1>1, <1>2
<1>9. main'.head \in {main.head, Len(log) + 1}
    BY <1>1
<1>10. \A a \in Topics : topic'[a].head \in {topic[a].head, main.head, Len(log) + 1}
    BY <1>1
<1>11. ChainLinked'
    BY <1>1, <1>4, <1>5, <1>6, <1>7, <1>8, <1>9, <1>10, ChainKept
<1> QED BY <1>1, <1>11, GrownBy

LEMMA CreateChains ==
    ASSUME ServerTypeOK, ChainLinked, NEW b \in Topics, CreateBranch(b)
    PROVE  ChainLinked' /\ Grown /\ Len(log') = Len(log)
<1>1. /\ ServerTypeOK' /\ log' = log /\ main' = main
      /\ topic[b].status = "none"
      /\ \A a \in Topics \ {b} : topic'[a] = topic[a]
      /\ topic'[b].status = "active" /\ topic'[b].head = main.head /\ topic'[b].commits = 0
    BY CreateBranchIs
<1>2. b # "main"
    BY WorkspaceAssumption
<1>3. topic[b].commits = 0
    BY <1>1 DEF ChainLinked
<1>4. \A s \in 1..Len(log) : log[s].branch # b
    BY <1>3 DEF ChainLinked
<1>5. \A a \in Topics : /\ topic'[a].head <= Len(log)
                        /\ topic'[a].status = "none" => topic'[a].commits = 0
    BY <1>1 DEF ChainLinked
<1>6. \A s \in 1..Len(log) :
          LET a == log[s].branch IN
          /\ s <= IF a = "main" THEN main.head ELSE topic'[a].head
          /\ a \in Topics => topic'[a].commits # 0
    <2> SUFFICES ASSUME NEW s \in 1..Len(log), NEW a, a = log[s].branch
                 PROVE  /\ s <= IF a = "main" THEN main.head ELSE topic'[a].head
                        /\ a \in Topics => topic'[a].commits # 0
        OBVIOUS
    <2>1. a # b
        BY <1>4
    <2>2. /\ s <= IF a = "main" THEN main.head ELSE topic[a].head
          /\ a \in Topics => topic[a].commits # 0
        BY DEF ChainLinked, BranchHead
    <2>3. a \in Branches
        <3>1. log[s] \in [branch : Branches, prev : Nat]
            BY ElementOfSeq DEF ServerTypeOK
        <3> QED BY <3>1
    <2> QED BY <1>1, <2>1, <2>2, <2>3 DEF Branches
<1>7. ChainLinked'
    BY <1>1, <1>5, <1>6 DEF ChainLinked, BranchHead
<1> QED BY <1>1, <1>7, NotGrown

LEMMA MergeChains ==
    ASSUME ServerTypeOK, ChainLinked, NEW b \in Topics, ServerMerge(b)
    PROVE  ChainLinked' /\ Grown
<1>1. /\ ServerTypeOK' /\ topic[b].status = "active"
      /\ \A a \in Topics : /\ topic'[a].head = topic[a].head
                           /\ topic'[a].commits = topic[a].commits
                           /\ a # b => topic'[a].status = topic[a].status
                           /\ a = b => topic'[a].status = "merged"
      /\ \/ main' = main /\ log' = log
         \/ main'.head = Len(log) + 1 /\ log' = Logged("main", 1)
    BY ServerMergeIs
<1>2. \A a \in Topics : topic'[a].status = "none" => topic'[a].commits = 0
    BY <1>1 DEF ChainLinked
<1>3. CASE main' = main /\ log' = log
    <2>1. \A a \in Topics : topic'[a].head <= Len(log)
        BY <1>1 DEF ChainLinked
    <2>2. \A s \in 1..Len(log) :
              LET a == log[s].branch IN
              /\ s <= IF a = "main" THEN main.head ELSE topic'[a].head
              /\ a \in Topics => topic'[a].commits # 0
        <3> SUFFICES ASSUME NEW s \in 1..Len(log), NEW a, a = log[s].branch
                     PROVE  /\ s <= IF a = "main" THEN main.head ELSE topic'[a].head
                            /\ a \in Topics => topic'[a].commits # 0
            OBVIOUS
        <3>1. /\ s <= IF a = "main" THEN main.head ELSE topic[a].head
              /\ a \in Topics => topic[a].commits # 0
            BY DEF ChainLinked, BranchHead
        <3>2. a \in Branches
            <4>1. log[s] \in [branch : Branches, prev : Nat]
                BY ElementOfSeq DEF ServerTypeOK
            <4> QED BY <4>1
        <3> QED BY <1>1, <3>1, <3>2 DEF Branches
    <2>3. ChainLinked'
        BY <1>2, <1>3, <2>1, <2>2 DEF ChainLinked, BranchHead
    <2> QED BY <1>3, <2>3, NotGrown
<1>4. CASE main'.head = Len(log) + 1 /\ log' = Logged("main", 1)
    <2>1. "main" \in Branches /\ "main" \notin Topics
        BY WorkspaceAssumption DEF Branches
    <2>2. \A a \in Branches : BranchHead(a)' \in {BranchHead(a), Len(log) + 1}
        BY <1>1, <1>4 DEF BranchHead, Branches
    <2>3. BranchHead("main")' = Len(log) + 1
        BY <1>4 DEF BranchHead
    <2>4. \A a \in Topics : topic'[a].head \in {topic[a].head, main.head, Len(log) + 1}
        BY <1>1
    <2>5. \A a \in Topics : topic'[a].commits = 0 => topic[a].commits = 0
        BY <1>1
    <2>6. ChainLinked'
        BY <1>1, <1>2, <1>4, <2>1, <2>2, <2>3, <2>4, <2>5, ChainKept
    <2> QED BY <1>4, <2>1, <2>6, GrownBy
<1> QED BY <1>1, <1>3, <1>4

LEMMA RebaseChains ==
    ASSUME ServerTypeOK, ChainLinked, NEW b \in Topics, ServerRebase(b)
    PROVE  ChainLinked' /\ Grown
<1>1. PICK n \in Nat : n = topic[b].commits
    BY DEF ServerTypeOK
<1>2. /\ ServerTypeOK' /\ main' = main /\ log' = Logged(b, n)
      /\ \A a \in Topics \ {b} : topic'[a] = topic[a]
      /\ topic'[b].status = "active" /\ topic'[b].commits = n
      /\ topic'[b].head = IF n = 0 THEN main.head ELSE Len(log) + n
    BY <1>1, ServerRebaseIs
<1>3. b \in Branches /\ b # "main" /\ Len(log) \in Nat
    BY WorkspaceAssumption DEF Branches, ServerTypeOK
<1>4. \A a \in Topics : topic'[a].status = "none" => topic'[a].commits = 0
    BY <1>2 DEF ChainLinked
<1>5. \A a \in Topics : topic'[a].commits = 0 => topic[a].commits = 0
    BY <1>1, <1>2
<1>6. \A a \in Topics : topic'[a].head \in {topic[a].head, main.head, Len(log) + n}
    BY <1>2
<1>7. \A a \in Branches : \/ BranchHead(a)' \in {BranchHead(a), Len(log) + n}
                          \/ a \in Topics /\ topic[a].commits = 0 /\ (a # b \/ n = 0)
    <2> TAKE a \in Branches
    <2>1. CASE a = "main"
        BY <1>2, <2>1 DEF BranchHead
    <2>2. CASE a = b
        BY <1>1, <1>2, <1>3, <2>2 DEF BranchHead
    <2>3. CASE a # "main" /\ a # b
        BY <1>2, <2>3 DEF BranchHead, Branches
    <2> QED BY <2>1, <2>2, <2>3
<1>8. n # 0 => BranchHead(b)' = Len(log) + n /\ (b \in Topics => topic'[b].commits # 0)
    BY <1>2, <1>3 DEF BranchHead
<1>9. main'.head \in {main.head, Len(log) + n}
    BY <1>2
<1>10. ChainLinked'
    BY <1>2, <1>3, <1>4, <1>5, <1>6, <1>7, <1>8, <1>9, ChainKept
<1> QED BY <1>2, <1>3, <1>10, GrownBy

-----------------------------------------------------------------------------
(* Types.                                                                  *)

LEMMA NewStateType == NewState \in States
BY NoFilesTree DEF NewState, States

LEMMA CommandType ==
    ASSUME NEW op \in Ops, NEW pc \in Pcs, NEW b \in Branches, NEW todo \in SUBSET Paths,
           NEW seq \in Nat
    PROVE  /\ Command(op, pc, b, todo, seq) \in Commands
           /\ Command(op, pc, b, todo, seq).op = op /\ Command(op, pc, b, todo, seq).pc = pc
           /\ Command(op, pc, b, todo, seq).branch = b
           /\ Command(op, pc, b, todo, seq).todo = todo
           /\ Command(op, pc, b, todo, seq).seq = seq
           /\ Command(op, pc, b, todo, seq).old = NewState
           /\ Command(op, pc, b, todo, seq).quiet = FALSE
BY NoFilesTree, NewStateType DEF Command, Commands

LEMMA IdleType ==
    /\ Idle \in Commands /\ Idle.pc = "idle" /\ Idle.old = NewState /\ Idle.seq = 0
    /\ Idle.quiet = FALSE
BY NoFilesTree, NewStateType DEF Idle, Command, Commands, Branches, Ops, Pcs

LEMMA SyncType ==
    ASSUME NEW op \in Ops, NEW b \in Branches, NEW s \in States
    PROVE  /\ syncTree(op, b, s) \in Commands /\ syncTree(op, b, s).op = op
           /\ syncTree(op, b, s).pc = IF s.files = NoFiles /\ Exists(b) THEN "archive" ELSE "tree"
           /\ syncTree(op, b, s).branch = b /\ syncTree(op, b, s).old = s
           /\ syncTree(op, b, s).clean = (Differing(local, s.files) = {})
           /\ syncTree(op, b, s).seq = 0
<1>1. PICK c \in BOOLEAN : c = (Differing(local, s.files) = {})
    OBVIOUS
<1>2. PICK pc \in {"archive", "tree"} :
          pc = IF s.files = NoFiles /\ Exists(b) THEN "archive" ELSE "tree"
    OBVIOUS
<1>3. PICK r : r = [op |-> op, pc |-> pc, branch |-> b, todo |-> {}, seq |-> 0, quiet |-> TRUE,
                    clean |-> c, old |-> s, server |-> NoFiles]
    OBVIOUS
<1>4. syncTree(op, b, s) = r
    BY <1>1, <1>2, <1>3 DEF syncTree
<1>5. r \in Commands /\ r.op = op /\ r.pc = pc /\ r.branch = b /\ r.old = s /\ r.clean = c /\ r.seq = 0
    BY <1>3, NoFilesTree DEF Commands, Pcs, SyncSteps
<1> QED BY <1>1, <1>2, <1>4, <1>5

LEMMA DifferingPaths ==
    ASSUME NEW f \in Trees, NEW g \in Trees
    PROVE  Differing(f, g) \subseteq Paths
BY TreeIs DEF Differing

LEMMA TypesNoticed ==
    ASSUME WsTypeOK, Noticed, ServerTypeOK'
    PROVE  WsTypeOK'
<1>1. /\ cmd' = [cmd EXCEPT !.quiet = FALSE] /\ cfg' = cfg /\ st' = st /\ local' = local
      /\ edited' = edited /\ unsaved' = unsaved /\ missed' = missed
    BY DEF Noticed, disk
<1>2. cmd' \in Commands /\ cmd'.pc = cmd.pc
    BY <1>1 DEF WsTypeOK, Commands
<1>3. DiskTypeOK'
    BY <1>1, <1>2 DEF WsTypeOK, DiskTypeOK, At_pc
<1> QED BY <1>2, <1>3 DEF WsTypeOK

LEMMA TypesOther ==
    ASSUME WsTypeOK, NEW b \in Branches,
           \/ \E d \in Docs, c \in Contents \cup {Gone} : OtherCommit(b, d, c)
           \/ b \in Topics /\ (OtherMerge(b) \/ OtherRebase(b))
    PROVE  WsTypeOK'
<1>1. CASE \E d \in Docs, c \in Contents \cup {Gone} : OtherCommit(b, d, c)
    <2>1. PICK d \in Docs, c \in Contents \cup {Gone} : OtherCommit(b, d, c)
        BY <1>1
    <2>2. One(d, c) \in Changes
        BY OneChange DEF Kept, Paths
    <2>3. ServerTypeOK'
        BY <2>1, <2>2, ServerCommitIs DEF OtherCommit, WsTypeOK
    <2> QED BY <2>1, <2>3, TypesNoticed DEF OtherCommit
<1>2. CASE b \in Topics /\ OtherMerge(b)
    BY <1>2, ServerMergeIs, TypesNoticed DEF OtherMerge, WsTypeOK
<1>3. CASE b \in Topics /\ OtherRebase(b)
    BY <1>3, ServerRebaseIs, TypesNoticed DEF OtherRebase, WsTypeOK
<1> QED BY <1>1, <1>2, <1>3

LEMMA TypesEdit ==
    ASSUME WsTypeOK, NEW d \in Docs, NEW c \in Contents \cup {Gone}, Edit(d, c)
    PROVE  WsTypeOK'
<1>1. local' = Overlay(local, One(d, c)) /\ UNCHANGED <<main, topic, log, cfg, st, cmd, missed>>
      /\ edited' \in {edited \ {d}, edited \cup {d}} /\ unsaved' = unsaved \ {d}
    BY DEF Edit, server
<1>2. One(d, c) \in Changes
    BY OneChange DEF Kept, Paths
<1>3. local' \in Trees
    BY <1>1, <1>2, OverlayTree DEF WsTypeOK, DiskTypeOK
<1>4. DiskTypeOK'
    BY <1>1, <1>3 DEF WsTypeOK, DiskTypeOK, At_pc
<1> QED BY <1>1, <1>4 DEF WsTypeOK, ServerTypeOK

LEMMA TypesInterrupt ==
    ASSUME WsTypeOK, Interrupt
    PROVE  WsTypeOK'
<1>1. UNCHANGED <<main, topic, log, cfg, st, local, edited, unsaved, missed>> /\ cmd' = Idle
    BY DEF Interrupt, server, disk, history
<1>2. DiskTypeOK'
    BY <1>1, IdleType DEF WsTypeOK, DiskTypeOK, At_pc
<1> QED BY <1>1, <1>2, IdleType DEF WsTypeOK, ServerTypeOK

\* A command that starts on a workspace.
LEMMA TypesBegin ==
    ASSUME WsTypeOK, ServerTypeOK', NEW c \in Commands, Begin(c), cfg' \in Branches, st' \in States,
           local' = local, edited' \subseteq edited,
           unsaved' = unsaved \/ unsaved' \in SUBSET Paths
    PROVE  WsTypeOK'
<1>1. cmd' = c /\ missed' = {}
    BY DEF Begin
<1>2. cfg' # NoBranch
    BY WorkspaceAssumption
<1> QED BY <1>1, <1>2 DEF WsTypeOK, DiskTypeOK

\* A step of a running command.
LEMMA TypesStep ==
    ASSUME WsTypeOK, ServerTypeOK', cmd.pc # "idle", cmd' \in Commands,
           cfg' \in Branches, st' \in States, local' \in Trees, edited' \subseteq edited,
           unsaved' \in SUBSET Paths, missed' = missed \/ missed' \in SUBSET Paths
    PROVE  WsTypeOK'
<1>2. cfg' # NoBranch
    BY WorkspaceAssumption
<1> QED BY <1>2 DEF WsTypeOK, DiskTypeOK

LEMMA Running ==
    ASSUME WsTypeOK, cmd.pc # "idle"
    PROVE  cfg \in Branches
BY DEF WsTypeOK, DiskTypeOK, At_pc

LEMMA Fields ==
    ASSUME WsTypeOK
    PROVE  /\ cmd.branch \in Branches /\ cmd.todo \subseteq Paths /\ cmd.seq \in Nat
           /\ cmd.old \in States /\ cmd.old.seq \in Nat /\ cmd.old.hash \in Nat \cup {NoHash}
           /\ cmd.server \in Trees /\ st \in States /\ st.seq \in Nat /\ st.files \in Trees
           /\ st.hash \in Nat \cup {NoHash} /\ local \in Trees /\ edited \subseteq Docs
           /\ unsaved \subseteq Paths /\ missed \subseteq Paths /\ Len(log) \in Nat /\ main.head \in Nat
           /\ cmd.quiet \in BOOLEAN /\ cmd.clean \in BOOLEAN
<1>1. cmd \in Commands /\ st \in States /\ local \in Trees
    BY DEF WsTypeOK, DiskTypeOK
<1>2. cmd.old \in States
    BY <1>1 DEF Commands
<1> QED BY <1>1, <1>2 DEF WsTypeOK, DiskTypeOK, ServerTypeOK, Commands, States

\* ds init, checkout and pull start a sync.
LEMMA TypesSync ==
    ASSUME WsTypeOK,
           InitWorkspace \/ (\E b \in Branches : Checkout(b)) \/ (\E v \in BOOLEAN : Pull(v))
    PROVE  /\ WsTypeOK' /\ cmd.pc = "idle" /\ UNCHANGED server /\ local' = local /\ st' = st
           /\ edited' = edited /\ unsaved' = unsaved /\ stray' = stray /\ lost' = lost
           /\ settled' = FALSE /\ alarm' = alarm /\ missed' = {}
           /\ \E op \in {"init", "checkout", "pull", "pull --skip-verify"} :
                  /\ cmd' = syncTree(op, cfg', st)
                  /\ op # "init" => Differing(local, st.files) = {}
<1>1. st \in States /\ NewState \in States /\ "main" \in Branches
    BY Fields, NewStateType DEF Branches
<1>2. CASE InitWorkspace
    <2>1. /\ cfg = NoBranch /\ Begin(syncTree("init", "main", NewState)) /\ cfg' = "main"
          /\ st' = NewState /\ UNCHANGED <<server, local, edited, unsaved, stray>>
        BY <1>2 DEF InitWorkspace
    <2>2. st = NewState
        BY <2>1 DEF WsTypeOK, DiskTypeOK
    <2>3. syncTree("init", "main", NewState) \in Commands
        BY <1>1, SyncType DEF Ops
    <2>4. ServerTypeOK'
        BY <2>1 DEF server, ServerTypeOK, WsTypeOK
    <2>5. WsTypeOK'
        BY <1>1, <2>1, <2>3, <2>4, TypesBegin
    <2>6. /\ cmd.pc = "idle" /\ cmd' = syncTree("init", "main", NewState) /\ settled' = FALSE
          /\ lost' = lost /\ alarm' = alarm /\ missed' = {}
        BY <2>1 DEF Begin, At_pc
    <2> QED BY <2>1, <2>2, <2>5, <2>6
<1>3. CASE \E b \in Branches : Checkout(b)
    <2>1. PICK b \in Branches : Checkout(b)
        BY <1>3
    <2>2. /\ cfg' = b /\ Differing(local, st.files) = {} /\ Begin(syncTree("checkout", b, st))
          /\ UNCHANGED <<server, st, local, edited, unsaved, stray>>
        BY <2>1 DEF Checkout, isDirty
    <2>3. syncTree("checkout", b, st) \in Commands
        BY <1>1, SyncType DEF Ops
    <2>4. ServerTypeOK'
        BY <2>2 DEF server, ServerTypeOK, WsTypeOK
    <2>5. WsTypeOK'
        BY <1>1, <2>2, <2>3, <2>4, TypesBegin
    <2>6. /\ cmd.pc = "idle" /\ cmd' = syncTree("checkout", b, st) /\ settled' = FALSE
          /\ lost' = lost /\ alarm' = alarm /\ missed' = {}
        BY <2>2 DEF Begin, At_pc
    <2> QED BY <2>2, <2>5, <2>6
<1>4. CASE \E v \in BOOLEAN : Pull(v)
    <2>1. PICK v \in BOOLEAN : Pull(v)
        BY <1>4
    <2>2. PICK op \in {"pull", "pull --skip-verify"} :
              op = IF v THEN "pull --skip-verify" ELSE "pull"
        OBVIOUS
    <2>3. /\ cfg # NoBranch /\ Differing(local, st.files) = {} /\ Begin(syncTree(op, cfg, st))
          /\ UNCHANGED <<server, cfg, st, local, edited, unsaved, stray>>
        BY <2>1, <2>2 DEF Pull, isDirty, disk
    <2>4. cfg \in Branches /\ op \in Ops
        BY <2>3 DEF WsTypeOK, DiskTypeOK, Ops
    <2>5. syncTree(op, cfg, st) \in Commands
        BY <1>1, <2>4, SyncType
    <2>6. ServerTypeOK'
        BY <2>3 DEF server, ServerTypeOK, WsTypeOK
    <2>7. WsTypeOK'
        BY <1>1, <2>3, <2>4, <2>5, <2>6, TypesBegin
    <2>8. /\ cmd.pc = "idle" /\ cmd' = syncTree(op, cfg, st) /\ settled' = FALSE
          /\ lost' = lost /\ alarm' = alarm /\ missed' = {}
        BY <2>3 DEF Begin, At_pc
    <2> QED BY <2>3, <2>7, <2>8
<1> QED BY <1>2, <1>3, <1>4

\* The changes ds commit posts.
LEMMA PostedType ==
    ASSUME WsTypeOK
    PROVE  [p \in Differing(local, st.files) |-> At(local, p)] \in Changes
<1>1. local \in Trees /\ st.files \in Trees
    BY Fields
<1>2. PICK chg : chg = [p \in Differing(local, st.files) |-> At(local, p)]
    OBVIOUS
<1>3. DOMAIN chg \subseteq Paths
    BY <1>1, <1>2, DifferingPaths
<1>4. \A p \in DOMAIN chg : chg[p] \in Kept \cup {Gone}
    <2>1. \A p \in DOMAIN local : local[p] \in Kept
        BY <1>1, TreeIs
    <2> QED BY <1>2, <2>1 DEF At
<1>5. chg = [p \in DOMAIN chg |-> chg[p]]
    BY <1>2
<1> QED BY <1>2, <1>3, <1>4, <1>5, ChangeMade

LEMMA TypesCommitPost ==
    ASSUME WsTypeOK, CommitPost
    PROVE  /\ WsTypeOK' /\ cmd.pc = "idle" /\ UNCHANGED disk
           /\ unsaved' = unsaved \cup Differing(local, st.files)
           /\ edited' = edited \ Differing(local, st.files)
           /\ stray' = stray \cup ((Differing(local, st.files) \cap Docs) \ (edited \cup unsaved))
           /\ settled' = FALSE /\ lost' = lost /\ alarm' = alarm /\ cfg \in Branches
           /\ \E chg \in Changes : ServerCommit(cfg, chg)
           /\ cmd' = Command("commit", "posted", cfg, {}, Len(log) + 1)
<1>1. PICK chg \in Changes : chg = [p \in Differing(local, st.files) |-> At(local, p)]
    BY PostedType
<1>2. DOMAIN chg = Differing(local, st.files)
    BY <1>1
<1>3. /\ cfg # NoBranch /\ ServerCommit(cfg, chg)
      /\ Begin(Command("commit", "posted", cfg, {}, Len(log) + 1))
      /\ edited' = edited \ DOMAIN chg /\ unsaved' = unsaved \cup DOMAIN chg
      /\ stray' = stray \cup ((DOMAIN chg \cap Docs) \ (edited \cup unsaved))
      /\ UNCHANGED disk
    BY <1>1 DEF CommitPost, Change
<1>4. cfg \in Branches /\ st \in States /\ Len(log) + 1 \in Nat
    BY <1>3, Fields DEF WsTypeOK, DiskTypeOK
<1>5. ServerTypeOK'
    BY <1>3, <1>4, ServerCommitIs DEF WsTypeOK
<1>6. Command("commit", "posted", cfg, {}, Len(log) + 1) \in Commands
    <2>1. "commit" \in Ops /\ "posted" \in Pcs /\ {} \in SUBSET Paths
        BY DEF Ops, Pcs
    <2> QED BY <1>4, <2>1, CommandType
<1>p. unsaved' \in SUBSET Paths
    BY <1>2, <1>3, Fields, DifferingPaths
<1>7. WsTypeOK'
    BY <1>p, <1>3, <1>4, <1>5, <1>6, TypesBegin DEF disk
<1> QED BY <1>2, <1>3, <1>4, <1>7 DEF Begin, At_pc

LEMMA TypesCheckoutNew ==
    ASSUME WsTypeOK, NEW b \in Topics, CheckoutNew(b)
    PROVE  /\ WsTypeOK' /\ cmd.pc = "idle" /\ UNCHANGED disk /\ unsaved' = unsaved
           /\ edited' = edited /\ stray' = stray
           /\ settled' = FALSE /\ lost' = lost /\ alarm' = alarm
           /\ CreateBranch(b) /\ cmd' = Command("checkout -b", "created", b, {}, main.head)
           /\ b \in Branches /\ main.head \in Nat
<1>1. /\ cfg # NoBranch /\ CreateBranch(b)
      /\ Begin(Command("checkout -b", "created", b, {}, main.head))
      /\ UNCHANGED <<disk, edited, unsaved, stray>>
    BY DEF CheckoutNew
<1>2. cfg \in Branches /\ st \in States /\ main.head \in Nat /\ b \in Branches
    BY <1>1, Fields DEF WsTypeOK, DiskTypeOK, Branches
<1>3. ServerTypeOK'
    BY <1>1, CreateBranchIs DEF WsTypeOK
<1>4. Command("checkout -b", "created", b, {}, main.head) \in Commands
    <2>1. "checkout -b" \in Ops /\ "created" \in Pcs /\ {} \in SUBSET Paths
        BY DEF Ops, Pcs
    <2> QED BY <1>2, <2>1, CommandType
<1>5. WsTypeOK'
    BY <1>1, <1>2, <1>3, <1>4, TypesBegin DEF disk
<1> QED BY <1>1, <1>2, <1>5 DEF Begin, At_pc

LEMMA TypesMerge ==
    ASSUME WsTypeOK, Merge
    PROVE  /\ WsTypeOK' /\ cmd.pc = "idle" /\ UNCHANGED disk /\ unsaved' = unsaved
           /\ edited' = edited /\ stray' = stray
           /\ settled' = FALSE /\ lost' = lost /\ alarm' = alarm
           /\ cfg \in Topics /\ ServerMerge(cfg)
           /\ cmd' = Command("merge", "merged", cfg, {}, 0) /\ cfg \in Branches
<1>1. /\ cfg \in Topics /\ ServerMerge(cfg)
      /\ Begin(Command("merge", "merged", cfg, {}, 0))
      /\ UNCHANGED <<disk, edited, unsaved, stray>>
    BY DEF Merge
<1>2. cfg \in Branches /\ st \in States
    BY <1>1, Fields DEF Branches
<1>3. ServerTypeOK'
    BY <1>1, ServerMergeIs DEF WsTypeOK
<1>4. Command("merge", "merged", cfg, {}, 0) \in Commands
    <2>1. "merge" \in Ops /\ "merged" \in Pcs /\ {} \in SUBSET Paths
        BY DEF Ops, Pcs
    <2> QED BY <1>2, <2>1, CommandType
<1>5. WsTypeOK'
    BY <1>1, <1>2, <1>3, <1>4, TypesBegin DEF disk
<1> QED BY <1>1, <1>2, <1>5 DEF Begin, At_pc

LEMMA TypesRebase ==
    ASSUME WsTypeOK, Rebase
    PROVE  /\ WsTypeOK' /\ cmd.pc = "idle" /\ UNCHANGED disk /\ unsaved' = unsaved
           /\ edited' = edited /\ stray' = stray
           /\ settled' = FALSE /\ lost' = lost /\ alarm' = alarm
           /\ cfg \in Topics /\ ServerRebase(cfg) /\ cfg \in Branches
           /\ \E h \in Nat : h = topic'[cfg].head /\ cmd' = Command("rebase", "sequence", cfg, {}, h)
<1>1. /\ cfg \in Topics /\ ServerRebase(cfg)
      /\ Begin(Command("rebase", "sequence", cfg, {}, topic'[cfg].head))
      /\ UNCHANGED <<disk, edited, unsaved, stray>>
    BY DEF Rebase
<1>2. cfg \in Branches /\ st \in States
    BY <1>1, Fields DEF Branches
<1>3. ServerTypeOK'
    BY <1>1, ServerRebaseIs DEF WsTypeOK
<1>4. PICK h \in Nat : h = topic'[cfg].head
    BY <1>1, <1>3 DEF ServerTypeOK
<1>5. Command("rebase", "sequence", cfg, {}, h) \in Commands
    <2>1. "rebase" \in Ops /\ "sequence" \in Pcs /\ {} \in SUBSET Paths
        BY DEF Ops, Pcs
    <2> QED BY <1>2, <2>1, CommandType
<1>6. Begin(Command("rebase", "sequence", cfg, {}, h))
    BY <1>1, <1>4
<1>7. WsTypeOK'
    BY <1>1, <1>2, <1>3, <1>5, <1>6, TypesBegin DEF disk
<1> QED BY <1>1, <1>2, <1>4, <1>6, <1>7 DEF Begin, At_pc

LEMMA TypesRebaseConflict ==
    ASSUME WsTypeOK, RebaseConflict
    PROVE  /\ WsTypeOK' /\ cmd.pc = "idle" /\ UNCHANGED disk /\ unsaved' = unsaved
           /\ edited' = edited /\ stray' = stray
           /\ settled' = FALSE /\ lost' = lost /\ alarm' = alarm /\ UNCHANGED server
           /\ cfg \in Branches
           /\ \E S \in SUBSET Paths : cmd' = Command("rebase", "copies", cfg, S, 0)
<1>1. PICK S : S = Conflicts(cfg) \cap Docs
    OBVIOUS
<1>2. /\ cfg \in Topics /\ Begin(Command("rebase", "copies", cfg, S, 0))
      /\ UNCHANGED <<server, disk, edited, unsaved, stray>>
    BY <1>1 DEF RebaseConflict
<1>3. cfg \in Branches /\ st \in States /\ S \in SUBSET Paths
    BY <1>1, <1>2, Fields DEF Branches, Paths
<1>4. ServerTypeOK'
    BY <1>2 DEF server, ServerTypeOK, WsTypeOK
<1>5. Command("rebase", "copies", cfg, S, 0) \in Commands
    <2>1. "rebase" \in Ops /\ "copies" \in Pcs /\ {} \in SUBSET Paths
        BY DEF Ops, Pcs
    <2> QED BY <1>3, <2>1, CommandType
<1>6. WsTypeOK'
    BY <1>2, <1>3, <1>4, <1>5, TypesBegin DEF disk
<1> QED BY <1>2, <1>3, <1>6 DEF Begin, At_pc

LEMMA TypesResolve ==
    ASSUME WsTypeOK, NEW d \in Docs, Resolve(d)
    PROVE  /\ WsTypeOK' /\ cmd.pc = "idle" /\ UNCHANGED disk /\ unsaved' = unsaved \cup {d}
           /\ edited' = edited \ {d} /\ stray' = stray
           /\ settled' = FALSE /\ lost' = lost /\ alarm' = alarm
           /\ cfg \in Branches /\ \E chg \in Changes : ServerCommit(cfg, chg)
           /\ cmd' = Command("resolve", "resolved", cfg, {d}, Len(log) + 1)
           /\ d \in DOMAIN local /\ {d} \in SUBSET Paths
<1>1. /\ cfg # NoBranch /\ d \in DOMAIN local /\ ServerCommit(cfg, One(d, local[d]))
      /\ Begin(Command("resolve", "resolved", cfg, {d}, Len(log) + 1))
      /\ edited' = edited \ {d} /\ unsaved' = unsaved \cup {d} /\ UNCHANGED <<disk, stray>>
    BY DEF Resolve
<1>2. cfg \in Branches /\ st \in States /\ Len(log) + 1 \in Nat /\ d \in Paths /\ local \in Trees
    BY <1>1, Fields DEF WsTypeOK, DiskTypeOK, Paths
<1>3. PICK c \in Kept : c = local[d]
    BY <1>1, <1>2, TreeIs
<1>4. One(d, c) \in Changes
    BY <1>2, OneChange
<1>5. ServerCommit(cfg, One(d, c))
    BY <1>1, <1>3
<1>6. ServerTypeOK'
    BY <1>2, <1>4, <1>5, ServerCommitIs DEF WsTypeOK
<1>7. Command("resolve", "resolved", cfg, {d}, Len(log) + 1) \in Commands /\ {d} \in SUBSET Paths
    <2>1. "resolve" \in Ops /\ "resolved" \in Pcs /\ {d} \in SUBSET Paths
        BY <1>2 DEF Ops, Pcs
    <2> QED BY <1>2, <2>1, CommandType
<1>p. unsaved' \in SUBSET Paths
    BY <1>1, <1>2, Fields
<1>8. WsTypeOK'
    BY <1>p, <1>1, <1>2, <1>6, <1>7, TypesBegin DEF disk
<1> QED BY <1>1, <1>2, <1>4, <1>5, <1>7, <1>8 DEF Begin, At_pc

LEMMA ServerSame ==
    ASSUME WsTypeOK, UNCHANGED server
    PROVE  ServerTypeOK'
BY DEF server, ServerTypeOK, WsTypeOK

\* The steps of syncTree that write files.
LEMMA TypesSyncWrites ==
    ASSUME WsTypeOK, NEW files \in Trees, NEW c \in Commands, cmd.pc # "idle",
           Write(files), cmd' = c, UNCHANGED <<server, cfg, st>>,
           unsaved' \in SUBSET Paths, missed' \in SUBSET Paths
    PROVE  WsTypeOK' /\ local' = files /\ edited' = edited \ Differing(local, files)
           /\ lost' = (IF Differing(local, files) \cap edited = {} THEN lost
                       ELSE lost \cup {cmd.op})
<1>1. /\ local' = files /\ edited' = edited \ Differing(local, files)
      /\ lost' = (IF Differing(local, files) \cap edited = {} THEN lost ELSE lost \cup {cmd.op})
    BY DEF Write
<1>2. ServerTypeOK'
    BY ServerSame
<1>3. cfg \in Branches /\ st \in States
    BY Fields, Running
<1>4. WsTypeOK'
    BY <1>1, <1>2, <1>3, TypesStep
<1> QED BY <1>1, <1>4

LEMMA TypesArchive ==
    ASSUME WsTypeOK, NEW failed \in SUBSET DOMAIN MaterializeTree(cmd.branch), syncArchive(failed)
    PROVE  \E files \in Trees, c \in Commands, given \in Trees :
               /\ given = Without(MaterializeTree(cmd.branch), failed)
               /\ files = Onto(given, local) /\ Write(files) /\ cmd' = c /\ cmd.pc = "archive"
               /\ c.pc = "listing" /\ c.op = cmd.op /\ c.branch = cmd.branch /\ c.old = cmd.old
               /\ c.quiet = cmd.quiet /\ c.clean = cmd.clean /\ c.seq = cmd.seq
               /\ unsaved' = unsaved \cup DOMAIN given /\ unsaved' \in SUBSET Paths
               /\ missed' = missed \cup failed /\ missed' \in SUBSET Paths
               /\ UNCHANGED <<server, cfg, st, stray, settled, alarm>>
<1>1. PICK tree \in Trees : tree = MaterializeTree(cmd.branch)
    BY Fields, MaterializeType DEF WsTypeOK
<1>2. PICK given \in Trees : given = Without(tree, failed)
    BY <1>1, WithoutTree
<1>3. PICK files \in Trees : files = Onto(given, local)
    BY Fields, OntoTree
<1>4. PICK c : c = [cmd EXCEPT !.pc = "listing"]
    OBVIOUS
<1>5. c \in Commands /\ c.pc = "listing" /\ c.op = cmd.op /\ c.branch = cmd.branch /\ c.old = cmd.old
      /\ c.quiet = cmd.quiet /\ c.clean = cmd.clean /\ c.seq = cmd.seq
    BY <1>4 DEF WsTypeOK, Commands, Pcs, SyncSteps
<1>6. /\ cmd.pc = "archive" /\ Write(files) /\ cmd' = c
      /\ unsaved' = unsaved \cup DOMAIN given /\ missed' = missed \cup failed
      /\ UNCHANGED <<server, cfg, st, stray, settled, alarm>>
    BY <1>1, <1>2, <1>3, <1>4 DEF syncArchive, At_pc, ReadStep
<1>7. unsaved' \in SUBSET Paths /\ missed' \in SUBSET Paths
    <2>1. DOMAIN tree \subseteq Paths /\ DOMAIN given \subseteq Paths
        BY TreeIs
    <2> QED BY <1>1, <1>6, <2>1, Fields
<1> QED BY <1>1, <1>2, <1>3, <1>5, <1>6, <1>7

LEMMA TypesArchiveListing ==
    ASSUME WsTypeOK, ArchiveListing
    PROVE  /\ WsTypeOK' /\ cmd.pc = "listing"
           /\ UNCHANGED <<server, disk, edited, lost, stray, settled, missed, alarm>>
           /\ unsaved' = unsaved \cup DOMAIN MaterializeTree(cmd.branch)
           /\ cmd'.pc = "head" /\ cmd'.op = cmd.op /\ cmd'.branch = cmd.branch /\ cmd'.old = cmd.old
           /\ cmd'.quiet = cmd.quiet /\ cmd'.clean = cmd.clean /\ cmd'.seq = cmd.seq
           /\ cmd'.server = MaterializeTree(cmd.branch)
<1>1. PICK tree \in Trees : tree = MaterializeTree(cmd.branch)
    BY Fields, MaterializeType DEF WsTypeOK
<1>2. cmd' = [cmd EXCEPT !.pc = "head", !.server = tree]
      /\ UNCHANGED <<server, disk, edited, lost, stray, settled, missed, alarm>>
      /\ cmd.pc = "listing" /\ unsaved' = unsaved \cup DOMAIN tree
    BY <1>1 DEF ArchiveListing, Step, At_pc
<1>3. /\ cmd' \in Commands
      /\ cmd'.pc = "head" /\ cmd'.op = cmd.op /\ cmd'.branch = cmd.branch /\ cmd'.old = cmd.old
      /\ cmd'.quiet = cmd.quiet /\ cmd'.clean = cmd.clean /\ cmd'.seq = cmd.seq
      /\ cmd'.server = tree
    BY <1>2 DEF WsTypeOK, Commands, Pcs, SyncSteps
<1>4. cfg \in Branches /\ st \in States /\ local \in Trees /\ unsaved' \in SUBSET Paths
    BY <1>2, Fields, Running, TreeIs
<1>5. ServerTypeOK'
    BY <1>2, ServerSame
<1>6. WsTypeOK'
    BY <1>2, <1>3, <1>4, <1>5, TypesStep DEF disk
<1> QED BY <1>1, <1>2, <1>3, <1>6

LEMMA TypesTreeListing ==
    ASSUME WsTypeOK, TreeListing
    PROVE  /\ WsTypeOK' /\ UNCHANGED <<server, disk, history>> /\ cmd.pc = "tree"
           /\ cmd'.pc = "files" /\ cmd'.op = cmd.op /\ cmd'.branch = cmd.branch /\ cmd'.old = cmd.old
           /\ cmd'.quiet = cmd.quiet /\ cmd'.clean = cmd.clean /\ cmd'.seq = cmd.seq
           /\ cmd'.server = MaterializeTree(cmd.branch)
           /\ cmd'.todo = ToDownload(MaterializeTree(cmd.branch))
<1>1. PICK tree \in Trees : tree = MaterializeTree(cmd.branch)
    BY Fields, MaterializeType DEF WsTypeOK
<1>2. PICK todo : todo = ToDownload(tree)
    OBVIOUS
<1>3. todo \in SUBSET Paths
    BY <1>2, TreeIs DEF ToDownload
<1>4. cmd' = [cmd EXCEPT !.pc = "files", !.server = tree, !.todo = todo]
      /\ UNCHANGED <<server, disk, history>> /\ cmd.pc = "tree"
    BY <1>1, <1>2 DEF TreeListing, Step, At_pc
<1>5. /\ cmd' \in Commands
      /\ cmd'.pc = "files" /\ cmd'.op = cmd.op /\ cmd'.branch = cmd.branch /\ cmd'.old = cmd.old
      /\ cmd'.quiet = cmd.quiet /\ cmd'.clean = cmd.clean /\ cmd'.seq = cmd.seq
      /\ cmd'.server = tree /\ cmd'.todo = todo
    BY <1>3, <1>4 DEF WsTypeOK, Commands, Pcs, SyncSteps
<1>6. cfg \in Branches /\ st \in States /\ local \in Trees /\ unsaved \in SUBSET Paths
    BY <1>4, Fields, Running
<1>7. ServerTypeOK'
    BY <1>4, ServerSame
<1>8. WsTypeOK'
    BY <1>4, <1>5, <1>6, <1>7, TypesStep DEF disk, history
<1> QED BY <1>1, <1>2, <1>4, <1>5, <1>8

LEMMA TypesDownload ==
    ASSUME WsTypeOK, NEW p \in cmd.todo, NEW ok \in BOOLEAN, Download(p, ok)
    PROVE  \E files \in Trees, c \in Commands, x \in Kept :
               /\ files = Onto(One(p, x), local)
               /\ ok => \/ x = At(MaterializeTree(cmd.branch), p)
                        \/ p \notin DOMAIN MaterializeTree(cmd.branch)
               /\ ~ok => x = Empty
               /\ Write(files) /\ cmd' = c /\ cmd.pc = "files" /\ p \in Paths
               /\ c.pc = "files" /\ c.op = cmd.op /\ c.branch = cmd.branch /\ c.old = cmd.old
               /\ c.quiet = cmd.quiet /\ c.clean = cmd.clean /\ c.seq = cmd.seq
               /\ c.server = cmd.server /\ c.todo = cmd.todo \ {p}
               /\ unsaved' = unsaved \cup {p} /\ unsaved' \in SUBSET Paths
               /\ missed' = missed \cup (IF ok THEN {} ELSE {p}) /\ missed' \in SUBSET Paths
               /\ UNCHANGED <<server, cfg, st, stray, settled, alarm>>
<1>1. PICK tree \in Trees : tree = MaterializeTree(cmd.branch)
    BY Fields, MaterializeType DEF WsTypeOK
<1>2. PICK x \in Kept : x = IF ok /\ p \in DOMAIN tree THEN tree[p] ELSE Empty
    BY TreeIs DEF Kept
<1>3. p \in Paths /\ local \in Trees /\ cmd.todo \in SUBSET Paths
    BY Fields
<1>4. PICK files \in Trees : files = Onto(One(p, x), local)
    BY <1>3, OneTree, OntoTree
<1>5. PICK todo \in SUBSET Paths : todo = cmd.todo \ {p}
    BY <1>3
<1>6. PICK c : c = [cmd EXCEPT !.todo = todo]
    OBVIOUS
<1>7. /\ Write(files) /\ cmd' = c /\ cmd.pc = "files" /\ unsaved' = unsaved \cup {p}
      /\ missed' = missed \cup (IF ok THEN {} ELSE {p})
      /\ UNCHANGED <<server, cfg, st, stray, settled, alarm>>
    BY <1>1, <1>2, <1>4, <1>5, <1>6 DEF Download, At_pc, ReadStep
<1>8. c \in Commands /\ c.pc = "files" /\ c.op = cmd.op /\ c.branch = cmd.branch /\ c.old = cmd.old
      /\ c.quiet = cmd.quiet /\ c.clean = cmd.clean /\ c.seq = cmd.seq
      /\ c.server = cmd.server /\ c.todo = todo
    BY <1>6, <1>7 DEF WsTypeOK, Commands
<1>9. /\ ok => x = At(tree, p) \/ p \notin DOMAIN tree
      /\ ~ok => x = Empty
    BY <1>2 DEF At
<1>10. unsaved' \in SUBSET Paths /\ missed' \in SUBSET Paths
    BY <1>3, <1>7, Fields
<1> QED BY <1>1, <1>3, <1>4, <1>5, <1>7, <1>8, <1>9, <1>10

LEMMA TypesRemoveDeleted ==
    ASSUME WsTypeOK, RemoveDeleted
    PROVE  \E files \in Trees, c \in Commands :
               /\ files = Without(local, DOMAIN st.files \ DOMAIN cmd.server)
               /\ Write(files) /\ cmd' = c /\ cmd.pc = "files" /\ cmd.todo = {}
               /\ c.pc = "head" /\ c.op = cmd.op /\ c.branch = cmd.branch /\ c.old = cmd.old
               /\ c.quiet = cmd.quiet /\ c.clean = cmd.clean /\ c.seq = cmd.seq
               /\ c.server = cmd.server
               /\ unsaved' = unsaved \cup (DOMAIN st.files \ DOMAIN cmd.server)
               /\ unsaved' \in SUBSET Paths /\ missed' \in SUBSET Paths
               /\ UNCHANGED <<server, cfg, st, stray, settled, missed, alarm>>
<1>1. PICK files \in Trees : files = Without(local, DOMAIN st.files \ DOMAIN cmd.server)
    BY Fields, WithoutTree
<1>2. PICK c : c = [cmd EXCEPT !.pc = "head"]
    OBVIOUS
<1>3. c \in Commands /\ c.pc = "head" /\ c.op = cmd.op /\ c.branch = cmd.branch /\ c.old = cmd.old
      /\ c.quiet = cmd.quiet /\ c.clean = cmd.clean /\ c.seq = cmd.seq /\ c.server = cmd.server
    BY <1>2 DEF WsTypeOK, Commands, Pcs, SyncSteps
<1>4. /\ Write(files) /\ cmd' = c /\ cmd.pc = "files" /\ cmd.todo = {}
      /\ unsaved' = unsaved \cup (DOMAIN st.files \ DOMAIN cmd.server)
      /\ UNCHANGED <<server, cfg, st, stray, settled, missed, alarm>>
    BY <1>1, <1>2 DEF RemoveDeleted, At_pc, Step
<1>5. unsaved' \in SUBSET Paths /\ missed' \in SUBSET Paths
    <2>1. DOMAIN st.files \subseteq Paths
        BY Fields, TreeIs
    <2> QED BY <1>4, <2>1, Fields
<1> QED BY <1>1, <1>3, <1>4, <1>5

LEMMA TypesSaveSynced ==
    ASSUME WsTypeOK, SaveSynced
    PROVE  /\ WsTypeOK' /\ UNCHANGED <<server, cfg, local, lost, stray, missed, alarm>> /\ cmd.pc = "head"
           /\ st'.files = cmd.server /\ st'.hash = st.hash
           /\ st'.seq = IF Exists(cmd.branch) THEN BranchHead(cmd.branch) ELSE st.seq
           /\ unsaved' = unsaved \cap Differing(local, cmd.server)
           /\ edited' = edited \cap Differing(local, cmd.server)
           /\ settled' = (cmd.quiet /\ cmd.clean)
           /\ \/ cmd' = Idle
              \/ /\ cmd'.pc = "verify" /\ cmd'.old = cmd.old /\ cmd'.seq = cmd.seq
                 /\ cmd'.branch = cmd.branch
<1>1. PICK q : q = IF Exists(cmd.branch) THEN BranchHead(cmd.branch) ELSE st.seq
    OBVIOUS
<1>2. q \in Nat
    <2>1. cmd.branch \in Branches /\ st.seq \in Nat
        BY Fields
    <2>2. BranchHead(cmd.branch) \in Nat
        BY <2>1 DEF BranchHead, Branches, WsTypeOK, ServerTypeOK
    <2> QED BY <1>1, <2>1, <2>2
<1>3. /\ st' = [seq |-> q, files |-> cmd.server, hash |-> st.hash]
      /\ unsaved' = unsaved \cap Differing(local, cmd.server)
      /\ edited' = edited \cap Differing(local, cmd.server)
      /\ settled' = (cmd.quiet /\ cmd.clean)
      /\ cmd' = (IF cmd.op = "pull" THEN [cmd EXCEPT !.pc = "verify"] ELSE Idle)
      /\ UNCHANGED <<server, cfg, local, lost, stray, missed, alarm>> /\ cmd.pc = "head"
    BY <1>1 DEF SaveSynced, Step, At_pc
<1>4. cmd.server \in Trees /\ local \in Trees /\ st.hash \in Nat \cup {NoHash}
    BY Fields
<1>5. st' \in States /\ st'.files = cmd.server /\ st'.hash = st.hash /\ st'.seq = q
    BY <1>2, <1>3, <1>4 DEF States
<1>6. /\ cmd' \in Commands
      /\ \/ cmd' = Idle
         \/ cmd'.pc = "verify" /\ cmd'.old = cmd.old /\ cmd'.seq = cmd.seq
            /\ cmd'.branch = cmd.branch
    <2>1. PICK c : c = [cmd EXCEPT !.pc = "verify"]
        OBVIOUS
    <2>2. c \in Commands /\ c.pc = "verify" /\ c.old = cmd.old /\ c.seq = cmd.seq
          /\ c.branch = cmd.branch
        BY <2>1 DEF WsTypeOK, Commands, Pcs
    <2> QED BY <1>3, <2>1, <2>2, IdleType
<1>7. cfg \in Branches /\ unsaved' \in SUBSET Paths /\ ServerTypeOK'
    BY <1>3, <1>4, DifferingPaths, Running, ServerSame
<1>8. WsTypeOK'
    BY <1>3, <1>4, <1>5, <1>6, <1>7, TypesStep
<1> QED BY <1>1, <1>3, <1>5, <1>6, <1>8

LEMMA TypesVerifyPull ==
    ASSUME WsTypeOK, VerifyPull
    PROVE  /\ WsTypeOK' /\ UNCHANGED <<server, cfg, local, edited, unsaved, lost, stray, settled, missed>>
           /\ cmd.pc = "verify" /\ cmd' = Idle /\ st'.seq = st.seq /\ st'.files = st.files
           /\ \/ st'.hash \in {st.hash, cmd.old.hash} \/ st'.hash \in 1..st.seq
<1>1. PICK old : old = cmd.old
    OBVIOUS
<1>2. PICK anchor : anchor = MaxIn({1, old.seq})
    OBVIOUS
<1>3. PICK own : own = {s \in (anchor + 1)..st.seq : log[s].branch = cfg}
    OBVIOUS
<1>4. PICK pass : pass = (old.seq # st.seq /\ old.seq <= st.seq /\ anchor = old.hash
                          /\ Linked(cfg, anchor, st.seq, old.hash))
    OBVIOUS
<1>5. PICK h : h = IF st.seq = 0 THEN st.hash ELSE IF old.hash = NoHash THEN st.seq
                   ELSE IF pass THEN MaxIn({old.hash} \cup own) ELSE st.hash
    OBVIOUS
<1>6. st' = [st EXCEPT !.hash = h] /\ cmd' = Idle /\ cmd.pc = "verify"
      /\ UNCHANGED <<server, cfg, local, edited, unsaved, lost, stray, settled, missed>>
    BY <1>1, <1>2, <1>3, <1>4, <1>5 DEF VerifyPull, At_pc, Step
<1>7. /\ old.seq \in Nat /\ old.hash \in Nat \cup {NoHash} /\ st.seq \in Nat
      /\ st.hash \in Nat \cup {NoHash} /\ local \in Trees /\ unsaved \in SUBSET Paths
      /\ cfg \in Branches
    BY <1>1, <1>6, Fields, Running
<1>8. anchor \in Nat /\ 1 <= anchor
    <2>1. MaxIn({1, old.seq}) \in {1, old.seq} /\ \A n \in {1, old.seq} : n <= MaxIn({1, old.seq})
        <3>1. {1, old.seq} \in SUBSET Nat /\ {1, old.seq} # {} /\ old.seq + 1 \in Nat
              /\ \A x \in {1, old.seq} : x <= old.seq + 1
            BY <1>7
        <3> QED BY <3>1, MaxInOf
    <2> QED BY <1>2, <1>7, <2>1
<1>9. \A s \in own : s \in 1..st.seq
    BY <1>3, <1>7, <1>8
<1>10. old.hash # NoHash => MaxIn({old.hash} \cup own) \in {old.hash} \cup own
    <2> SUFFICES ASSUME old.hash # NoHash
                 PROVE  MaxIn({old.hash} \cup own) \in {old.hash} \cup own
        OBVIOUS
    <2>1. old.hash \in Nat /\ old.hash + st.seq \in Nat
        BY <1>7
    <2>2. \A x \in {old.hash} \cup own : x \in Nat /\ x <= old.hash + st.seq
        BY <1>7, <1>9, <2>1
    <2>3. {old.hash} \cup own \in SUBSET Nat
        BY <2>2
    <2> QED BY <2>1, <2>2, <2>3, MaxInOf
<1>11. h \in {st.hash, old.hash} \/ h \in 1..st.seq
    <2>1. CASE h = st.hash
        BY <2>1
    <2>2. CASE h = st.seq /\ st.seq # 0
        BY <1>7, <2>2
    <2>3. CASE old.hash # NoHash /\ h = MaxIn({old.hash} \cup own)
        BY <1>9, <1>10, <2>3
    <2> QED BY <1>5, <2>1, <2>2, <2>3
<1>12. h \in Nat \cup {NoHash}
    BY <1>7, <1>11
<1>13. st' \in States /\ st'.seq = st.seq /\ st'.files = st.files /\ st'.hash = h
    BY <1>6, <1>12 DEF WsTypeOK, DiskTypeOK, States
<1>14. WsTypeOK'
    BY <1>6, <1>7, <1>13, ServerSame, TypesStep, IdleType
<1> QED BY <1>1, <1>6, <1>11, <1>13, <1>14

LEMMA TypesVerify ==
    ASSUME WsTypeOK, Verify
    PROVE  /\ WsTypeOK' /\ UNCHANGED <<server, disk, cmd, edited, unsaved, lost, stray, settled, missed>>
           /\ cfg \in Branches
<1>1. UNCHANGED <<server, disk, cmd, edited, unsaved, lost, stray, settled, missed>> /\ cfg \in Branches
    BY DEF Verify
<1>2. DiskTypeOK'
    BY <1>1 DEF disk, WsTypeOK, DiskTypeOK, At_pc
<1> QED BY <1>1, <1>2, ServerSame DEF WsTypeOK

LEMMA TypesCommitSave ==
    ASSUME WsTypeOK, CommitSave
    PROVE  /\ WsTypeOK' /\ UNCHANGED <<server, cfg, local, edited, lost, stray, settled, missed, alarm>>
           /\ cmd.pc = "posted" /\ cmd' = Idle /\ unsaved' = {}
           /\ st'.seq = cmd.seq /\ st'.hash = cmd.seq /\ st'.files = local
<1>1. /\ st' = [seq |-> cmd.seq, files |-> local, hash |-> cmd.seq] /\ unsaved' = {} /\ cmd' = Idle
      /\ cmd.pc = "posted" /\ UNCHANGED <<server, cfg, local, edited, lost, stray, settled, missed, alarm>>
    BY DEF CommitSave, At_pc, Step
<1>2. cfg \in Branches /\ local \in Trees /\ cmd.seq \in Nat
    BY <1>1, Fields, Running
<1>3. st' \in States /\ st'.seq = cmd.seq /\ st'.hash = cmd.seq /\ st'.files = local
    BY <1>1, <1>2 DEF States
<1>4. WsTypeOK'
    BY <1>1, <1>2, <1>3, ServerSame, TypesStep, IdleType
<1> QED BY <1>1, <1>3, <1>4

LEMMA TypesCheckoutNewConfig ==
    ASSUME WsTypeOK, CheckoutNewConfig
    PROVE  /\ WsTypeOK' /\ UNCHANGED <<server, st, local, history>>
           /\ cmd.pc = "created" /\ cmd'.pc = "sequence" /\ cmd'.seq = cmd.seq /\ cmd'.old = cmd.old
<1>1. /\ cmd' = [cmd EXCEPT !.pc = "sequence"] /\ cfg' = cmd.branch /\ cmd.pc = "created"
      /\ UNCHANGED <<server, st, local, history>>
    BY DEF CheckoutNewConfig, At_pc, Step
<1>2. cmd' \in Commands /\ cmd'.pc = "sequence" /\ cmd'.seq = cmd.seq /\ cmd'.old = cmd.old
    BY <1>1 DEF WsTypeOK, Commands, Pcs
<1>3. cmd.branch \in Branches /\ local \in Trees /\ st \in States /\ unsaved \in SUBSET Paths
    BY Fields
<1>4. WsTypeOK'
    BY <1>1, <1>2, <1>3, ServerSame, TypesStep DEF history
<1> QED BY <1>1, <1>2, <1>4

LEMMA TypesMergeToMain ==
    ASSUME WsTypeOK, MergeToMain
    PROVE  /\ WsTypeOK' /\ UNCHANGED <<server, st, local, history>>
           /\ cmd.pc = "merged" /\ cmd' = syncTree("merge", cfg', st) /\ cfg' = "main"
<1>1. /\ cmd' = syncTree("merge", "main", st) /\ cfg' = "main" /\ cmd.pc = "merged"
      /\ UNCHANGED <<server, st, local, history>>
    BY DEF MergeToMain, At_pc, Step
<1>2. "main" \in Branches /\ local \in Trees /\ st \in States /\ unsaved \in SUBSET Paths
    BY Fields DEF Branches
<1>3. cmd' \in Commands
    BY <1>1, <1>2, SyncType DEF Ops
<1>4. WsTypeOK'
    BY <1>1, <1>2, <1>3, ServerSame, TypesStep DEF history
<1> QED BY <1>1, <1>4

LEMMA TypesSequenceSave ==
    ASSUME WsTypeOK, SequenceSave
    PROVE  /\ WsTypeOK' /\ UNCHANGED <<server, cfg, local, history>>
           /\ cmd.pc = "sequence" /\ cmd' = Idle
           /\ st'.seq = cmd.seq /\ st'.files = st.files /\ st'.hash = st.hash
<1>1. /\ cmd' = Idle /\ st' = [st EXCEPT !.seq = cmd.seq] /\ cmd.pc = "sequence"
      /\ UNCHANGED <<server, cfg, local, history>>
    BY DEF SequenceSave, At_pc, Step
<1>2. cfg \in Branches /\ local \in Trees /\ cmd.seq \in Nat /\ unsaved \in SUBSET Paths
    BY <1>1, Fields, Running
<1>3. st' \in States /\ st'.seq = cmd.seq /\ st'.files = st.files /\ st'.hash = st.hash
    BY <1>1, <1>2 DEF WsTypeOK, DiskTypeOK, States
<1>4. WsTypeOK'
    BY <1>1, <1>2, <1>3, ServerSame, TypesStep, IdleType DEF history
<1> QED BY <1>1, <1>3, <1>4

LEMMA CopiesPaths ==
    ASSUME NEW d \in Docs
    PROVE  Copies(d) \subseteq Paths /\ Copies(d) \cap Docs = {} /\ d \notin Copies(d) /\ d \in Paths
<1>1. Copies(d) \subseteq Paths /\ d \in Paths
    BY DEF Paths
<1>2. Copies(d) \cap Docs = {}
    BY WorkspaceAssumption
<1> QED BY <1>1, <1>2

LEMMA TypesConflictFiles ==
    ASSUME WsTypeOK, NEW d \in Docs, writeRebaseConflictFiles(d)
    PROVE  /\ WsTypeOK' /\ UNCHANGED <<server, cfg, st, stray, settled, missed, alarm>>
           /\ cmd.pc = "copies" /\ unsaved' = unsaved \cup Copies(d)
           /\ \/ cmd' = Idle
              \/ cmd'.pc = "copies" /\ cmd'.seq = cmd.seq /\ cmd'.old = cmd.old
           /\ edited' = edited \ Differing(local, local')
           /\ lost' = (IF Differing(local, local') \cap edited = {} THEN lost
                       ELSE lost \cup {cmd.op})
           /\ \A p : p \notin Copies(d) => At(local', p) = At(local, p)
<1> DEFINE side(b) == IF d \in DOMAIN MaterializeTree(b) THEN MaterializeTree(b)[d] ELSE Empty
<1>1. PICK both : both = [p \in Copies(d) |-> side(IF p = <<d, "main">> THEN "main" ELSE cfg)]
    OBVIOUS
<1>2. PICK files : files = Onto(both, local)
    OBVIOUS
<1>3. PICK todo : todo = cmd.todo \ {d}
    OBVIOUS
<1>4. /\ Write(files) /\ unsaved' = unsaved \cup Copies(d) /\ cmd.pc = "copies"
      /\ cmd' = (IF todo = {} THEN Idle ELSE [cmd EXCEPT !.todo = todo])
      /\ UNCHANGED <<server, cfg, st, stray, settled, missed, alarm>>
    BY <1>1, <1>2, <1>3 DEF writeRebaseConflictFiles, At_pc, Step
<1>5. cfg \in Branches /\ "main" \in Branches /\ local \in Trees /\ st \in States
      /\ cmd.todo \in SUBSET Paths /\ unsaved \in SUBSET Paths
    BY <1>4, Running, Fields DEF Branches
<1>6. MaterializeTree(cfg) \in Trees /\ MaterializeTree("main") \in Trees
    BY <1>5, MaterializeType DEF WsTypeOK
<1>7. side(cfg) \in Kept /\ side("main") \in Kept
    BY <1>6, TreeIs DEF Kept
<1>8. both \in Trees /\ DOMAIN both = Copies(d)
    <2>1. DOMAIN both = Copies(d) /\ both = [p \in DOMAIN both |-> both[p]]
        BY <1>1
    <2>2. \A p \in DOMAIN both : both[p] \in {side("main"), side(cfg)}
        BY <1>1
    <2> HIDE DEF side
    <2>3. \A p \in DOMAIN both : both[p] \in Kept
        BY <1>7, <2>2
    <2> QED BY <2>1, <2>3, CopiesPaths, TreeMade
<1> HIDE DEF side
<1>9. files \in Trees
    BY <1>2, <1>5, <1>8, OntoTree
<1>10. local' = files /\ edited' = edited \ Differing(local, local')
       /\ lost' = (IF Differing(local, local') \cap edited = {} THEN lost ELSE lost \cup {cmd.op})
    BY <1>4 DEF Write
<1>11. /\ cmd' \in Commands
       /\ \/ cmd' = Idle
          \/ cmd'.pc = "copies" /\ cmd'.seq = cmd.seq /\ cmd'.old = cmd.old
    <2>1. PICK c : c = [cmd EXCEPT !.todo = todo]
        OBVIOUS
    <2>2. todo \in SUBSET Paths
        BY <1>3, <1>5
    <2>3. c \in Commands /\ c.pc = cmd.pc /\ c.seq = cmd.seq /\ c.old = cmd.old
        BY <2>1, <2>2 DEF WsTypeOK, Commands
    <2> QED BY <1>4, <2>1, <2>3, IdleType
<1>12. unsaved' \in SUBSET Paths
    BY <1>4, <1>5, CopiesPaths
<1>13. WsTypeOK'
    BY <1>4, <1>5, <1>9, <1>10, <1>11, <1>12, ServerSame, TypesStep
<1>14. \A p : p \notin Copies(d) => At(files, p) = At(local, p)
    BY <1>2, <1>8, AtOnto
<1> QED BY <1>4, <1>10, <1>11, <1>13, <1>14

LEMMA TypesResolveSave ==
    ASSUME WsTypeOK, NEW d \in Docs, ResolveSave(d)
    PROVE  /\ UNCHANGED <<server, cfg, stray, settled, missed, alarm>>
           /\ cmd.pc = "resolved" /\ cmd' = Idle /\ d \in cmd.todo
           /\ st'.seq = cmd.seq /\ st'.hash = st.hash
           /\ st'.files = Onto(One(d, local[d]), st.files)
           /\ local' = Without(local, Copies(d))
           /\ unsaved' = unsaved \ ({d} \cup Copies(d))
           /\ edited' = edited \ Differing(local, local')
           /\ lost' = (IF Differing(local, local') \cap edited = {} THEN lost
                       ELSE lost \cup {cmd.op})
           /\ d \in DOMAIN local => WsTypeOK'
<1>1. PICK files : files = Onto(One(d, local[d]), st.files)
    OBVIOUS
<1>2. /\ st' = [seq |-> cmd.seq, files |-> files, hash |-> st.hash]
      /\ Write(Without(local, Copies(d))) /\ unsaved' = unsaved \ ({d} \cup Copies(d))
      /\ cmd' = Idle /\ cmd.pc = "resolved" /\ d \in cmd.todo
      /\ UNCHANGED <<server, cfg, stray, settled, missed, alarm>>
    BY <1>1 DEF ResolveSave, At_pc, Step
<1>3. /\ local' = Without(local, Copies(d)) /\ edited' = edited \ Differing(local, local')
      /\ lost' = (IF Differing(local, local') \cap edited = {} THEN lost ELSE lost \cup {cmd.op})
    BY <1>2 DEF Write
<1>4. /\ cfg \in Branches /\ local \in Trees /\ st.files \in Trees /\ cmd.seq \in Nat
      /\ st.hash \in Nat \cup {NoHash} /\ unsaved \in SUBSET Paths /\ d \in Paths
    BY <1>2, Running, Fields, CopiesPaths
<1>5. st'.seq = cmd.seq /\ st'.hash = st.hash /\ st'.files = files
    BY <1>2
<1>6. ASSUME d \in DOMAIN local
      PROVE  WsTypeOK'
    <2>1. PICK x \in Kept : x = local[d]
        BY <1>4, <1>6, TreeIs
    <2>2. files \in Trees
        BY <1>1, <1>4, <2>1, OneTree, OntoTree
    <2>3. st' \in States
        BY <1>2, <1>4, <2>2 DEF States
    <2>4. local' \in Trees
        BY <1>3, <1>4, WithoutTree
    <2> QED BY <1>2, <1>3, <1>4, <2>3, <2>4, ServerSame, TypesStep, IdleType
<1> QED BY <1>1, <1>2, <1>3, <1>5, <1>6

-----------------------------------------------------------------------------
(* The user's edits.                                                       *)

\* A step that leaves the files and the history of the edits alone.
LEMMA EditsSame ==
    ASSUME EditsKept, WsTypeOK', local' = local, st'.files = st.files, edited' = edited,
           unsaved' = unsaved, lost' = lost, stray' = stray,
           cmd'.pc \notin {"posted", "listing", "files", "head"},
           cmd'.pc = "archive" => st.files = NoFiles,
           cmd'.pc = "resolved" => cmd.pc = "resolved" /\ cmd'.todo = cmd.todo,
           cmd'.pc \in SyncSteps => cmd'.op \in {"init", "merge"} \/ edited = {}
    PROVE  EditsKept'
<1>1. EditsShow'
    BY DEF EditsKept, EditsShow, At_pc
<1>2. DifferencesKnown'
    BY DEF EditsKept, DifferencesKnown, At_pc
<1> QED BY <1>1, <1>2 DEF EditsKept, EditsSurvive, CommitsOwnChanges

LEMMA EditsNoticed ==
    ASSUME EditsKept, WsTypeOK', Noticed
    PROVE  EditsKept'
<1>1. /\ cmd' = [cmd EXCEPT !.quiet = FALSE] /\ cfg' = cfg /\ st' = st /\ local' = local
      /\ edited' = edited /\ unsaved' = unsaved /\ lost' = lost /\ stray' = stray
    BY DEF Noticed, disk
<1>2. cmd'.pc = cmd.pc /\ cmd'.op = cmd.op /\ cmd'.todo = cmd.todo
      /\ cmd'.server = cmd.server
    BY <1>1 DEF EditsKept, WsTypeOK, Commands
<1>3. EditsShow'
    BY <1>1, <1>2 DEF EditsKept, EditsShow, At_pc
<1>4. DifferencesKnown'
    BY <1>1, <1>2 DEF EditsKept, DifferencesKnown, At_pc
<1> QED BY <1>1, <1>3, <1>4 DEF EditsKept, EditsSurvive, CommitsOwnChanges

LEMMA EditsEdit ==
    ASSUME EditsKept, WsTypeOK', NEW d \in Docs, NEW c \in Contents \cup {Gone}, Edit(d, c)
    PROVE  EditsKept'
<1>1. /\ local' = Overlay(local, One(d, c)) /\ UNCHANGED <<st, cmd, lost, stray>>
      /\ edited' = (IF At(st.files, d) = c THEN edited \ {d} ELSE edited \cup {d})
      /\ unsaved' = unsaved \ {d} /\ cmd.pc = "idle"
    BY DEF Edit, At_pc
<1>2. \A p : At(local', p) = IF p = d THEN c ELSE At(local, p)
    BY <1>1, OverlayOneIs
<1>3. PICK fs : fs = st.files
    OBVIOUS
<1>4. PICK old : old = local
    OBVIOUS
<1>5. PICK new : new = local'
    OBVIOUS
<1>6. \A p : At(new, p) = IF p = d THEN c ELSE At(old, p)
    BY <1>2, <1>4, <1>5
<1>7. \A p : p \in Differing(new, fs) <=> At(new, p) # At(fs, p)
    BY DifferingIs
<1>8. \A p : p \in Differing(old, fs) <=> At(old, p) # At(fs, p)
    BY DifferingIs
<1>9. \A p : p # d => (p \in Differing(new, fs) <=> p \in Differing(old, fs))
    BY <1>6, <1>7, <1>8
<1>10. d \in Differing(new, fs) <=> c # At(fs, d)
    BY <1>6, <1>7
<1>11. edited \subseteq Differing(old, fs)
    BY <1>3, <1>4 DEF EditsKept, EditsShow
<1>12. edited' \subseteq Differing(new, fs)
    BY <1>1, <1>3, <1>9, <1>10, <1>11
<1>13. Differing(old, fs) \cap Docs \subseteq edited \cup unsaved
    BY <1>1, <1>3, <1>4 DEF EditsKept, DifferencesKnown, At_pc, SyncSteps
<1>14. Differing(new, fs) \cap Docs \subseteq edited' \cup unsaved'
    BY <1>1, <1>3, <1>9, <1>10, <1>13
<1>15. EditsShow'
    BY <1>1, <1>3, <1>5, <1>12 DEF EditsShow, At_pc, SyncSteps
<1>16. DifferencesKnown'
    BY <1>1, <1>3, <1>5, <1>14 DEF DifferencesKnown, At_pc
<1> QED BY <1>1, <1>15, <1>16 DEF EditsKept, EditsSurvive, CommitsOwnChanges

LEMMA EditsInterrupt ==
    ASSUME EditsKept, WsTypeOK', Interrupt
    PROVE  EditsKept'
<1>1. UNCHANGED <<st, local, edited, unsaved, lost, stray>> /\ cmd' = Idle
    BY DEF Interrupt, disk, history
<1>2. cmd'.pc = "idle"
    BY <1>1, IdleType
<1> QED BY <1>1, <1>2, EditsSame DEF SyncSteps

LEMMA EditsSync ==
    ASSUME EditsKept, InitWorkspace \/ (\E b \in Branches : Checkout(b)) \/ (\E v \in BOOLEAN : Pull(v))
    PROVE  EditsKept'
<1>1. PICK op \in {"init", "checkout", "pull", "pull --skip-verify"} :
          /\ cmd' = syncTree(op, cfg', st)
          /\ op # "init" => Differing(local, st.files) = {}
    BY TypesSync DEF EditsKept
<1>2. /\ WsTypeOK' /\ cmd.pc = "idle" /\ local' = local /\ st' = st
      /\ edited' = edited /\ unsaved' = unsaved /\ stray' = stray /\ lost' = lost
    BY TypesSync DEF EditsKept
<1>3. /\ cmd'.op = op /\ cmd'.pc \in {"archive", "tree"}
      /\ cmd'.pc = "archive" => st.files = NoFiles
    BY <1>1 DEF syncTree
<1>4. op \in {"init", "merge"} \/ edited = {}
    BY <1>1 DEF EditsKept, EditsShow
<1> QED BY <1>2, <1>3, <1>4, EditsSame DEF SyncSteps

LEMMA EditsCommitPost ==
    ASSUME EditsKept, CommitPost
    PROVE  EditsKept'
<1>1. /\ WsTypeOK' /\ cmd.pc = "idle" /\ local' = local /\ st' = st /\ lost' = lost
      /\ edited' = edited \ Differing(local, st.files)
      /\ unsaved' = unsaved \cup Differing(local, st.files)
      /\ stray' = stray \cup ((Differing(local, st.files) \cap Docs) \ (edited \cup unsaved))
    BY TypesCommitPost DEF EditsKept, disk
<1>2. cmd' = Command("commit", "posted", cfg, {}, Len(log) + 1)
    BY TypesCommitPost DEF EditsKept
<1>3. cmd'.pc = "posted"
    BY <1>2 DEF Command
<1>4. edited' = {}
    BY <1>1 DEF EditsKept, EditsShow
<1>5. stray' = {}
    BY <1>1 DEF EditsKept, DifferencesKnown, At_pc, SyncSteps, CommitsOwnChanges
<1>6. EditsShow'
    BY <1>3, <1>4 DEF EditsShow, At_pc, SyncSteps
<1>7. DifferencesKnown'
    BY <1>1, <1>3 DEF DifferencesKnown, At_pc
<1> QED BY <1>1, <1>5, <1>6, <1>7 DEF EditsKept, EditsSurvive, CommitsOwnChanges

LEMMA EditsBegin ==
    ASSUME EditsKept, (\E b \in Topics : CheckoutNew(b)) \/ Merge \/ Rebase \/ RebaseConflict
    PROVE  EditsKept'
<1>1. /\ WsTypeOK' /\ cmd.pc = "idle" /\ UNCHANGED disk /\ unsaved' = unsaved
      /\ edited' = edited /\ stray' = stray /\ lost' = lost
    BY TypesCheckoutNew, TypesMerge, TypesRebase, TypesRebaseConflict DEF EditsKept
<1>2. cmd'.pc \in {"created", "merged", "sequence", "copies"}
    <2>1. CASE \E b \in Topics : CheckoutNew(b)
        <3>1. PICK b \in Topics : CheckoutNew(b)
            BY <2>1
        <3>2. cmd' = Command("checkout -b", "created", b, {}, main.head)
            BY <3>1, TypesCheckoutNew DEF EditsKept
        <3> QED BY <3>2 DEF Command
    <2>2. CASE Merge
        <3>1. cmd' = Command("merge", "merged", cfg, {}, 0)
            BY <2>2, TypesMerge DEF EditsKept
        <3> QED BY <3>1 DEF Command
    <2>3. CASE Rebase
        <3>1. \E h \in Nat : cmd' = Command("rebase", "sequence", cfg, {}, h)
            BY <2>3, TypesRebase DEF EditsKept
        <3> QED BY <3>1 DEF Command
    <2>4. CASE RebaseConflict
        <3>1. \E S \in SUBSET Paths : cmd' = Command("rebase", "copies", cfg, S, 0)
            BY <2>4, TypesRebaseConflict DEF EditsKept
        <3> QED BY <3>1 DEF Command
    <2> QED BY <2>1, <2>2, <2>3, <2>4
<1> QED BY <1>1, <1>2, EditsSame DEF SyncSteps, disk

LEMMA EditsResolve ==
    ASSUME EditsKept, NEW d \in Docs, Resolve(d)
    PROVE  EditsKept'
<1>1. /\ WsTypeOK' /\ cmd.pc = "idle" /\ local' = local /\ st' = st /\ lost' = lost /\ stray' = stray
      /\ edited' = edited \ {d} /\ unsaved' = unsaved \cup {d} /\ d \in DOMAIN local
      /\ cmd' = Command("resolve", "resolved", cfg, {d}, Len(log) + 1)
    BY TypesResolve DEF EditsKept, disk
<1>2. cmd'.pc = "resolved" /\ cmd'.todo = {d}
    BY <1>1 DEF Command
<1>3. EditsShow'
    BY <1>1, <1>2 DEF EditsKept, EditsShow, At_pc, SyncSteps
<1>4. Differing(local, st.files) \cap Docs \subseteq edited \cup unsaved
    BY <1>1 DEF EditsKept, DifferencesKnown, At_pc, SyncSteps
<1>5. DifferencesKnown'
    BY <1>1, <1>2, <1>4 DEF DifferencesKnown, At_pc
<1> QED BY <1>1, <1>3, <1>5 DEF EditsKept, EditsSurvive, CommitsOwnChanges

\* What is left of the edits after a write still shows.
LEMMA LeftShows ==
    ASSUME NEW old, NEW new, NEW fs, NEW E, E \subseteq Differing(old, fs)
    PROVE  E \ Differing(old, new) \subseteq Differing(new, fs)
<1> SUFFICES ASSUME NEW p \in E, p \notin Differing(old, new)
             PROVE  p \in Differing(new, fs)
    OBVIOUS
<1>1. At(old, p) # At(fs, p)
    BY DifferingIs
<1>2. At(old, p) = At(new, p)
    BY DifferingIs
<1> QED BY <1>1, <1>2, DifferingIs

LEMMA EditsSyncWrites ==
    ASSUME EditsKept, NEW files \in Trees, NEW c \in Commands,
           Write(files), cmd' = c, UNCHANGED <<server, cfg, st, stray>>,
           unsaved' \in SUBSET Paths, missed' \in SUBSET Paths,
           unsaved \subseteq unsaved', Differing(local, files) \subseteq unsaved',
           cmd.pc \in SyncSteps, c.pc \in {"listing", "files", "head"}, c.op = cmd.op,
           c.pc = "listing" => st.files = NoFiles,
           c.pc = "files" => \A p \in DOMAIN c.server \ c.todo :
                                 At(st.files, p) = c.server[p] \/ p \in unsaved',
           c.pc = "head" => \A p \in Docs : At(files, p) # At(c.server, p) =>
                                At(files, p) # At(st.files, p) \/ p \in unsaved'
    PROVE  EditsKept'
<1>1. cmd.pc # "idle"
    BY DEF SyncSteps
<1>2. /\ WsTypeOK' /\ local' = files /\ edited' = edited \ Differing(local, files)
      /\ lost' = (IF Differing(local, files) \cap edited = {} THEN lost ELSE lost \cup {cmd.op})
    BY <1>1, TypesSyncWrites DEF EditsKept
<1>3. edited \subseteq Differing(local, st.files) /\ (cmd.op \in {"init", "merge"} \/ edited = {})
    BY DEF EditsKept, EditsShow
<1>4. edited' \subseteq Differing(files, st.files)
    BY <1>2, <1>3, LeftShows
<1>5. EditsShow'
    BY <1>2, <1>3, <1>4 DEF EditsShow, At_pc, SyncSteps
<1>6. Differing(files, st.files) \cap Docs \subseteq edited' \cup unsaved'
    <2>1. PICK old, fs : old = local /\ fs = st.files
        OBVIOUS
    <2>2. Differing(old, fs) \cap Docs \subseteq edited \cup unsaved
        BY <2>1 DEF EditsKept, DifferencesKnown
    <2>3. edited' = edited \ Differing(old, files) /\ Differing(old, files) \subseteq unsaved'
        BY <1>2, <2>1
    <2> SUFFICES ASSUME NEW p \in Docs, p \in Differing(files, fs), p \notin Differing(old, files)
                 PROVE  p \in edited' \cup unsaved'
        BY <2>1, <2>3
    <2>4. At(old, p) = At(files, p) /\ At(files, p) # At(fs, p)
        BY DifferingIs
    <2>5. p \in Differing(old, fs)
        BY <2>4, DifferingIs
    <2> QED BY <2>2, <2>3, <2>5
<1>7. c.pc = "head" => Differing(files, c.server) \cap Docs \subseteq edited' \cup unsaved'
    <2> SUFFICES ASSUME c.pc = "head", NEW p \in Docs, p \in Differing(files, c.server)
                 PROVE  p \in edited' \cup unsaved'
        OBVIOUS
    <2>1. At(files, p) # At(c.server, p)
        BY DifferingIs
    <2>2. CASE At(files, p) # At(st.files, p)
        BY <1>6, <2>2, DifferingIs
    <2> QED BY <2>1, <2>2
<1>8. DifferencesKnown'
    BY <1>2, <1>6, <1>7 DEF DifferencesKnown, At_pc
<1>9. EditsSurvive'
    BY <1>2, <1>3 DEF EditsKept, EditsSurvive
<1> QED BY <1>2, <1>5, <1>8, <1>9 DEF EditsKept, CommitsOwnChanges

\* The reads of syncTree, whatever fails of them.
Archives == \E failed \in SUBSET DOMAIN MaterializeTree(cmd.branch) : syncArchive(failed)
Downloads == \E p \in cmd.todo, ok \in BOOLEAN : Download(p, ok)

LEMMA EditsSyncSteps ==
    ASSUME EditsKept, Archives \/ Downloads \/ RemoveDeleted
    PROVE  EditsKept'
<1>1. WsTypeOK /\ local \in Trees
    BY Fields DEF EditsKept
<1>2. CASE Archives
    <2>1. PICK failed \in SUBSET DOMAIN MaterializeTree(cmd.branch) : syncArchive(failed)
        BY <1>2 DEF Archives
    <2>2. PICK files \in Trees, c \in Commands, given \in Trees :
               /\ files = Onto(given, local) /\ Write(files) /\ cmd' = c /\ cmd.pc = "archive"
               /\ c.pc = "listing" /\ c.op = cmd.op
               /\ unsaved' = unsaved \cup DOMAIN given /\ unsaved' \in SUBSET Paths
               /\ missed' \in SUBSET Paths
               /\ UNCHANGED <<server, cfg, st, stray, settled, alarm>>
        BY <1>1, <2>1, TypesArchive
    <2>3. Differing(local, files) \subseteq DOMAIN given
        BY <2>2, AtOnto, DifferingIs
    <2>4. st.files = NoFiles
        BY <2>2 DEF EditsKept, DifferencesKnown
    <2>5. Differing(local, files) \subseteq unsaved' /\ unsaved \subseteq unsaved'
        BY <2>2, <2>3
    <2> QED BY <2>2, <2>4, <2>5, EditsSyncWrites DEF SyncSteps
<1>3. CASE Downloads
    <2>1. PICK p \in cmd.todo, ok \in BOOLEAN : Download(p, ok)
        BY <1>3 DEF Downloads
    <2>2. PICK files \in Trees, c \in Commands, x \in Kept :
               /\ files = Onto(One(p, x), local) /\ Write(files) /\ cmd' = c /\ cmd.pc = "files"
               /\ c.pc = "files" /\ c.op = cmd.op
               /\ c.server = cmd.server /\ c.todo = cmd.todo \ {p}
               /\ unsaved' = unsaved \cup {p} /\ unsaved' \in SUBSET Paths
               /\ missed' \in SUBSET Paths
               /\ UNCHANGED <<server, cfg, st, stray, settled, alarm>>
        BY <1>1, <2>1, TypesDownload
    <2>3. Differing(local, files) \subseteq {p}
        <3>1. DOMAIN One(p, x) = {p}
            BY DEF One
        <3> QED BY <2>2, <3>1, AtOnto, DifferingIs
    <2>4. \A q \in DOMAIN cmd.server \ cmd.todo : At(st.files, q) = cmd.server[q] \/ q \in unsaved
        BY <2>2 DEF EditsKept, DifferencesKnown, At_pc
    <2>5. \A q \in DOMAIN c.server \ c.todo : At(st.files, q) = c.server[q] \/ q \in unsaved'
        BY <2>2, <2>4
    <2>6. Differing(local, files) \subseteq unsaved' /\ unsaved \subseteq unsaved'
        BY <2>2, <2>3
    <2> QED BY <2>2, <2>5, <2>6, EditsSyncWrites DEF SyncSteps
<1>4. CASE RemoveDeleted
    <2>1. PICK files \in Trees, c \in Commands :
               /\ files = Without(local, DOMAIN st.files \ DOMAIN cmd.server)
               /\ Write(files) /\ cmd' = c /\ cmd.pc = "files" /\ cmd.todo = {}
               /\ c.pc = "head" /\ c.op = cmd.op /\ c.server = cmd.server
               /\ unsaved' = unsaved \cup (DOMAIN st.files \ DOMAIN cmd.server)
               /\ unsaved' \in SUBSET Paths /\ missed' \in SUBSET Paths
               /\ UNCHANGED <<server, cfg, st, stray, settled, missed, alarm>>
        BY <1>1, <1>4, TypesRemoveDeleted
    <2>2. PICK fs, sv : fs = st.files /\ sv = cmd.server
        OBVIOUS
    <2>3. files = Without(local, DOMAIN fs \ DOMAIN sv)
          /\ unsaved' = unsaved \cup (DOMAIN fs \ DOMAIN sv)
        BY <2>1, <2>2
    <2>4. \A q : At(files, q) = IF q \in DOMAIN fs \ DOMAIN sv THEN Gone ELSE At(local, q)
        BY <2>3, AtWithout
    <2>5. Differing(local, files) \subseteq DOMAIN fs \ DOMAIN sv
        BY <2>4, DifferingIs
    <2>6. \A q \in DOMAIN sv : At(fs, q) = sv[q] \/ q \in unsaved
        BY <2>1, <2>2 DEF EditsKept, DifferencesKnown, At_pc
    <2>7. ASSUME NEW q \in Docs, At(files, q) # At(sv, q)
          PROVE  At(files, q) # At(fs, q) \/ q \in unsaved'
        <3>1. CASE q \in DOMAIN sv
            <4>1. At(sv, q) = sv[q]
                BY <3>1 DEF At
            <4> QED BY <2>3, <2>6, <2>7, <3>1, <4>1
        <3>2. CASE q \notin DOMAIN sv
            <4>1. At(sv, q) = Gone
                BY <3>2 DEF At
            <4>2. q \notin DOMAIN fs
                BY <2>4, <2>7, <3>2, <4>1
            <4>3. At(fs, q) = Gone
                BY <4>2 DEF At
            <4> QED BY <2>7, <4>1, <4>3
        <3> QED BY <3>1, <3>2
    <2>8. \A q \in Docs : At(files, q) # At(c.server, q) =>
              At(files, q) # At(st.files, q) \/ q \in unsaved'
        BY <2>1, <2>2, <2>7
    <2>9. Differing(local, files) \subseteq unsaved' /\ unsaved \subseteq unsaved'
        BY <2>3, <2>5
    <2> QED BY <2>1, <2>8, <2>9, EditsSyncWrites DEF SyncSteps
<1> QED BY <1>2, <1>3, <1>4

LEMMA EditsListing ==
    ASSUME EditsKept, ArchiveListing \/ TreeListing
    PROVE  EditsKept'
<1>1. PICK tree : tree = MaterializeTree(cmd.branch)
    OBVIOUS
<1>2. /\ WsTypeOK' /\ local' = local /\ st' = st /\ edited' = edited /\ lost' = lost /\ stray' = stray
      /\ cmd.pc \in {"listing", "tree"} /\ cmd'.pc \in {"head", "files"} /\ cmd'.op = cmd.op
      /\ cmd'.server = tree /\ unsaved \subseteq unsaved'
    BY <1>1, TypesArchiveListing, TypesTreeListing DEF EditsKept, disk, history
<1>3. cmd.op \in {"init", "merge"} \/ edited = {}
    BY <1>2 DEF EditsKept, EditsShow, SyncSteps
<1>4. EditsShow'
    BY <1>2, <1>3 DEF EditsKept, EditsShow, At_pc, SyncSteps
<1>5. Differing(local, st.files) \cap Docs \subseteq edited \cup unsaved
    BY DEF EditsKept, DifferencesKnown
<1>6. CASE ArchiveListing
    <2>1. cmd.pc = "listing" /\ cmd'.pc = "head" /\ unsaved' = unsaved \cup DOMAIN tree
        BY <1>1, <1>6, TypesArchiveListing DEF EditsKept
    <2>2. st.files = NoFiles
        BY <2>1 DEF EditsKept, DifferencesKnown
    <2>3. ASSUME NEW p \in Docs, p \in Differing(local, tree)
          PROVE  p \in edited \cup unsaved'
        <3>1. CASE p \in DOMAIN tree
            BY <2>1, <3>1
        <3>2. CASE p \notin DOMAIN tree
            <4>1. At(tree, p) = Gone /\ At(NoFiles, p) = Gone
                BY <3>2, NoFilesTree DEF At
            <4>2. At(local, p) # At(tree, p)
                BY <2>3, DifferingIs
            <4>3. p \in Differing(local, NoFiles)
                BY <4>1, <4>2, DifferingIs
            <4> QED BY <1>2, <1>5, <2>2, <4>3
        <3> QED BY <3>1, <3>2
    <2>4. DifferencesKnown'
        BY <1>2, <1>5, <2>1, <2>3 DEF DifferencesKnown, At_pc
    <2> QED BY <1>2, <1>4, <2>4 DEF EditsKept, EditsSurvive, CommitsOwnChanges
<1>7. CASE TreeListing
    <2>1. cmd'.pc = "files" /\ cmd'.todo = ToDownload(tree) /\ cmd'.server = tree
        BY <1>1, <1>7, TypesTreeListing DEF EditsKept
    <2>2. \A p \in DOMAIN tree \ ToDownload(tree) : At(st.files, p) = tree[p]
        BY DEF ToDownload
    <2>3. DifferencesKnown'
        BY <1>2, <1>5, <2>1, <2>2 DEF DifferencesKnown, At_pc
    <2> QED BY <1>2, <1>4, <2>3 DEF EditsKept, EditsSurvive, CommitsOwnChanges
<1> QED BY <1>6, <1>7

LEMMA EditsSaveSynced ==
    ASSUME EditsKept, SaveSynced
    PROVE  EditsKept'
<1>1. /\ WsTypeOK' /\ UNCHANGED <<local, lost, stray>> /\ st'.files = cmd.server
      /\ unsaved' = unsaved \cap Differing(local, cmd.server) /\ cmd.pc = "head"
      /\ edited' = edited \cap Differing(local, cmd.server)
      /\ cmd' = Idle \/ cmd'.pc = "verify"
    BY TypesSaveSynced DEF EditsKept
<1>2. cmd'.pc \in {"idle", "verify"}
    BY <1>1, IdleType
<1>3. EditsShow'
    BY <1>1, <1>2 DEF EditsShow, At_pc, SyncSteps
<1>4. DifferencesKnown'
    BY <1>1, <1>2 DEF EditsKept, DifferencesKnown, At_pc
<1> QED BY <1>1, <1>3, <1>4 DEF EditsKept, EditsSurvive, CommitsOwnChanges

LEMMA EditsSaves ==
    ASSUME EditsKept, VerifyPull \/ CheckoutNewConfig \/ MergeToMain \/ SequenceSave \/ Verify
    PROVE  EditsKept'
<1>1. CASE VerifyPull
    <2>1. /\ WsTypeOK' /\ UNCHANGED <<local, edited, unsaved, lost, stray>> /\ cmd.pc = "verify"
          /\ cmd' = Idle /\ st'.files = st.files
        BY <1>1, TypesVerifyPull DEF EditsKept
    <2> QED BY <2>1, IdleType, EditsSame DEF SyncSteps
<1>2. CASE CheckoutNewConfig
    <2>1. /\ WsTypeOK' /\ UNCHANGED <<st, local, history>> /\ cmd.pc = "created"
          /\ cmd'.pc = "sequence"
        BY <1>2, TypesCheckoutNewConfig DEF EditsKept
    <2> QED BY <2>1, EditsSame DEF SyncSteps, history
<1>3. CASE MergeToMain
    <2>1. /\ WsTypeOK' /\ UNCHANGED <<st, local, history>> /\ cmd.pc = "merged"
          /\ cmd' = syncTree("merge", cfg', st)
        BY <1>3, TypesMergeToMain DEF EditsKept
    <2>2. /\ cmd'.pc \in {"archive", "tree"} /\ cmd'.op = "merge"
          /\ cmd'.pc = "archive" => st.files = NoFiles
        BY <2>1 DEF syncTree
    <2> QED BY <2>1, <2>2, EditsSame DEF SyncSteps, history
<1>4. CASE SequenceSave
    <2>1. /\ WsTypeOK' /\ UNCHANGED <<local, history>> /\ cmd.pc = "sequence"
          /\ cmd' = Idle /\ st'.files = st.files
        BY <1>4, TypesSequenceSave DEF EditsKept
    <2> QED BY <2>1, IdleType, EditsSame DEF SyncSteps, history
<1>5. CASE Verify
    <2>1. /\ WsTypeOK' /\ UNCHANGED <<disk, cmd, edited, unsaved, lost, stray>> /\ cmd.pc = "idle"
        BY <1>5, TypesVerify DEF EditsKept, Verify, At_pc
    <2> QED BY <2>1, EditsSame DEF SyncSteps, disk
<1> QED BY <1>1, <1>2, <1>3, <1>4, <1>5

LEMMA EditsCommitSave ==
    ASSUME EditsKept, CommitSave
    PROVE  EditsKept'
<1>1. /\ WsTypeOK' /\ UNCHANGED <<local, edited, lost, stray>> /\ st'.files = local
      /\ cmd.pc = "posted" /\ cmd' = Idle
    BY TypesCommitSave DEF EditsKept
<1>2. cmd'.pc = "idle" /\ edited' = {}
    BY <1>1, IdleType DEF EditsKept, EditsShow, At_pc
<1>3. Differing(local', st'.files) = {}
    BY <1>1 DEF Differing
<1>4. EditsShow'
    BY <1>2 DEF EditsShow, At_pc, SyncSteps
<1>5. DifferencesKnown'
    BY <1>2, <1>3 DEF DifferencesKnown, At_pc
<1> QED BY <1>1, <1>4, <1>5 DEF EditsKept, EditsSurvive, CommitsOwnChanges

LEMMA EditsConflictFiles ==
    ASSUME EditsKept, NEW d \in Docs, writeRebaseConflictFiles(d)
    PROVE  EditsKept'
<1>1. /\ WsTypeOK' /\ UNCHANGED <<st, stray>> /\ cmd.pc = "copies"
      /\ unsaved' = unsaved \cup Copies(d) /\ (cmd' = Idle \/ cmd'.pc = "copies")
      /\ edited' = edited \ Differing(local, local')
      /\ lost' = (IF Differing(local, local') \cap edited = {} THEN lost ELSE lost \cup {cmd.op})
      /\ \A p : p \notin Copies(d) => At(local', p) = At(local, p)
    BY TypesConflictFiles DEF EditsKept
<1>2. cmd'.pc \in {"idle", "copies"}
    BY <1>1, IdleType
<1>3. PICK new, old, fs : new = local' /\ old = local /\ fs = st.files
    OBVIOUS
<1>4. \A p \in Docs : At(new, p) = At(old, p)
    BY <1>1, <1>3, CopiesPaths
<1>5. \A p \in Docs : p \notin Differing(old, new)
    BY <1>4, DifferingIs
<1>6. edited' = edited /\ lost' = lost
    BY <1>1, <1>3, <1>5, Fields DEF EditsKept
<1>7. \A p \in Docs : p \in Differing(new, fs) <=> p \in Differing(old, fs)
    BY <1>4, DifferingIs
<1>8. edited \subseteq Docs /\ edited \subseteq Differing(old, fs)
    BY <1>3, Fields DEF EditsKept, EditsShow
<1>9. EditsShow'
    BY <1>1, <1>2, <1>3, <1>6, <1>7, <1>8 DEF EditsShow, At_pc, SyncSteps
<1>10. Differing(old, fs) \cap Docs \subseteq edited \cup unsaved
    BY <1>1, <1>3 DEF EditsKept, DifferencesKnown, At_pc, SyncSteps
<1>11. DifferencesKnown'
    BY <1>1, <1>2, <1>3, <1>6, <1>7, <1>10 DEF DifferencesKnown, At_pc
<1> QED BY <1>1, <1>6, <1>9, <1>11 DEF EditsKept, EditsSurvive, CommitsOwnChanges

LEMMA EditsResolveSave ==
    ASSUME EditsKept, NEW d \in Docs, ResolveSave(d)
    PROVE  EditsKept'
<1>1. /\ UNCHANGED stray /\ cmd.pc = "resolved" /\ cmd' = Idle /\ d \in cmd.todo
      /\ st'.files = Onto(One(d, local[d]), st.files) /\ local' = Without(local, Copies(d))
      /\ unsaved' = unsaved \ ({d} \cup Copies(d))
      /\ edited' = edited \ Differing(local, local')
      /\ lost' = (IF Differing(local, local') \cap edited = {} THEN lost ELSE lost \cup {cmd.op})
      /\ d \in DOMAIN local => WsTypeOK'
    BY TypesResolveSave DEF EditsKept
<1>2. d \in DOMAIN local /\ d \notin edited /\ cmd'.pc = "idle" /\ cmd.todo = {d}
    BY <1>1, IdleType DEF EditsKept, EditsShow, At_pc
<1>3. PICK new, old, fs, gs : new = local' /\ old = local /\ fs = st.files /\ gs = st'.files
    OBVIOUS
<1>4. \A p \in Docs : At(new, p) = At(old, p)
    BY <1>1, <1>3, CopiesPaths, AtWithout
<1>5. \A p \in Docs : At(gs, p) = IF p = d THEN At(old, d) ELSE At(fs, p)
    <2>1. DOMAIN One(d, old[d]) = {d} /\ One(d, old[d])[d] = old[d]
        BY DEF One
    <2>2. gs = Onto(One(d, old[d]), fs)
        BY <1>1, <1>3
    <2>3. At(old, d) = old[d]
        BY <1>2, <1>3 DEF At
    <2> QED BY <2>1, <2>2, <2>3, AtOnto
<1>6. \A p \in Docs : p \notin Differing(old, new)
    BY <1>4, DifferingIs
<1>7. edited' = edited /\ lost' = lost
    BY <1>1, <1>3, <1>6, Fields DEF EditsKept
<1>8. \A p \in Docs : p \in Differing(new, gs) <=> p # d /\ p \in Differing(old, fs)
    <2> TAKE p \in Docs
    <2>1. p \in Differing(new, gs) <=> At(new, p) # At(gs, p)
        BY DifferingIs
    <2>2. p \in Differing(old, fs) <=> At(old, p) # At(fs, p)
        BY DifferingIs
    <2> QED BY <1>4, <1>5, <2>1, <2>2
<1>9. edited \subseteq Docs /\ edited \subseteq Differing(old, fs)
    BY <1>3, Fields DEF EditsKept, EditsShow
<1>10. EditsShow'
    BY <1>2, <1>3, <1>7, <1>8, <1>9 DEF EditsShow, At_pc, SyncSteps
<1>11. Differing(old, fs) \cap Docs \subseteq edited \cup unsaved
    BY <1>1, <1>2, <1>3 DEF EditsKept, DifferencesKnown, At_pc, SyncSteps
<1>12. DifferencesKnown'
    BY <1>1, <1>2, <1>3, <1>7, <1>8, <1>11, CopiesPaths DEF DifferencesKnown, At_pc
<1> QED BY <1>1, <1>2, <1>7, <1>10, <1>12 DEF EditsKept, EditsSurvive, CommitsOwnChanges

LEMMA EditsInit ==
    ASSUME WsInit
    PROVE  EditsKept
<1>1. PICK c0 \in Contents : c0 = CHOOSE c \in Contents : TRUE
    BY WorkspaceAssumption
<1>2. PICK tree : tree = [d \in Docs |-> c0]
    OBVIOUS
<1>3. tree \in Trees
    <2>1. tree = [p \in DOMAIN tree |-> tree[p]] /\ DOMAIN tree = Docs
          /\ \A p \in DOMAIN tree : tree[p] \in Kept
        BY <1>2 DEF Kept
    <2>2. Docs \subseteq Paths
        BY DEF Paths
    <2> QED BY <2>1, <2>2, TreeMade
<1>4. NoFiles \in Trees /\ NoFiles \in Changes
    BY NoFilesTree, TreeIsChange
<1>5. /\ main = [head |-> 1, tree |-> tree]
      /\ topic = [b \in Topics |-> [status |-> "none", head |-> 0, baseTree |-> NoFiles,
                                    over |-> NoFiles, moved |-> {}, commits |-> 0]]
      /\ log = << [branch |-> "main", prev |-> 0] >>
      /\ cmd = Idle /\ edited = {} /\ unsaved = {} /\ lost = {} /\ stray = {}
      /\ missed = {}
    BY <1>1, <1>2 DEF WsInit
<1>6. /\ cfg = NoBranch \/ cfg = "main"
      /\ cfg = NoBranch => st = NewState /\ local = NoFiles
      /\ cfg = "main" => local = tree /\ st = [seq |-> 1, files |-> tree, hash |-> NoHash]
    <2>1. main.tree = tree
        BY <1>5
    <2>2. NoBranch # "main"
        BY WorkspaceAssumption DEF Branches
    <2> QED BY <2>1, <2>2 DEF WsInit
<1>7. local \in Trees /\ st \in States /\ st.files = local
    <2>1. CASE cfg = NoBranch
        BY <1>4, <1>6, <2>1, NewStateType DEF NewState
    <2>2. CASE cfg = "main"
        BY <1>3, <1>6, <2>2 DEF States
    <2> QED BY <1>6, <2>1, <2>2
<1>8. ServerTypeOK
    <2>1. [branch |-> "main", prev |-> 0] \in [branch : Branches, prev : Nat]
        BY DEF Branches
    <2>2. log \in Seq([branch : Branches, prev : Nat])
        BY <1>5, <2>1
    <2> QED BY <1>3, <1>4, <1>5, <2>2 DEF ServerTypeOK
<1>9. WsTypeOK
    BY <1>5, <1>6, <1>7, <1>8, IdleType DEF WsTypeOK, DiskTypeOK, At_pc, Branches
<1>10. Differing(local, st.files) = {}
    BY <1>7 DEF Differing
<1>11. EditsShow
    BY <1>5, IdleType DEF EditsShow, At_pc, SyncSteps
<1>12. DifferencesKnown
    BY <1>5, <1>10, IdleType DEF DifferencesKnown, At_pc
<1> QED BY <1>5, <1>9, <1>11, <1>12 DEF EditsKept, EditsSurvive, CommitsOwnChanges

\* The steps of other people, by the branch they write to.
OtherStep(b) ==
    \/ \E d \in Docs, c \in Contents \cup {Gone} : OtherCommit(b, d, c)
    \/ b \in Topics /\ (OtherMerge(b) \/ OtherRebase(b))

LEMMA OtherSteps ==
    ASSUME \/ \E b \in Branches, d \in Docs, c \in Contents \cup {Gone} : OtherCommit(b, d, c)
           \/ \E b \in Topics : OtherMerge(b) \/ OtherRebase(b)
    PROVE  \E b \in Branches : OtherStep(b)
BY DEF OtherStep, Branches

LEMMA EditsOther ==
    ASSUME EditsKept, NEW b \in Branches, OtherStep(b)
    PROVE  EditsKept'
<1>1. WsTypeOK'
    BY TypesOther DEF EditsKept, OtherStep
<1>2. Noticed
    BY DEF OtherStep, OtherCommit, OtherMerge, OtherRebase
<1> QED BY <1>1, <1>2, EditsNoticed

LEMMA EditsStep ==
    ASSUME EditsKept, [WsNext]_wsVars
    PROVE  EditsKept'
<1>w. WsTypeOK
    BY DEF EditsKept
<1>1. CASE \/ \E b \in Branches, d \in Docs, c \in Contents \cup {Gone} : OtherCommit(b, d, c)
           \/ \E b \in Topics : OtherMerge(b) \/ OtherRebase(b)
    BY <1>1, OtherSteps, EditsOther
<1>2. CASE \E d \in Docs, c \in Contents \cup {Gone} : Edit(d, c)
    BY <1>w, <1>2, TypesEdit, EditsEdit
<1>3. CASE Interrupt
    BY <1>w, <1>3, TypesInterrupt, EditsInterrupt
<1>4. CASE InitWorkspace \/ (\E b \in Branches : Checkout(b)) \/ (\E v \in BOOLEAN : Pull(v))
    BY <1>4, EditsSync
<1>5. CASE Archives \/ Downloads \/ RemoveDeleted
    BY <1>5, EditsSyncSteps
<1>6. CASE ArchiveListing \/ TreeListing
    BY <1>6, EditsListing
<1>7. CASE SaveSynced
    BY <1>7, EditsSaveSynced
<1>8. CASE VerifyPull \/ CheckoutNewConfig \/ MergeToMain \/ SequenceSave \/ Verify
    BY <1>8, EditsSaves
<1>9. CASE CommitPost
    BY <1>9, EditsCommitPost
<1>10. CASE CommitSave
    BY <1>10, EditsCommitSave
<1>11. CASE (\E b \in Topics : CheckoutNew(b)) \/ Merge \/ Rebase \/ RebaseConflict
    BY <1>11, EditsBegin
<1>12. CASE \E d \in Docs : writeRebaseConflictFiles(d) \/ Resolve(d) \/ ResolveSave(d)
    BY <1>12, EditsConflictFiles, EditsResolve, EditsResolveSave
<1>13. CASE UNCHANGED wsVars
    <2>1. UNCHANGED <<main, topic, log, cfg, st, local, cmd, edited, unsaved, missed, lost, stray>>
        BY <1>13 DEF wsVars, server, disk, history
    <2>2. WsTypeOK'
        BY <2>1 DEF EditsKept, WsTypeOK, ServerTypeOK, DiskTypeOK, At_pc
    <2> QED BY <2>1, <2>2
        DEF EditsKept, EditsShow, DifferencesKnown, EditsSurvive, CommitsOwnChanges, At_pc
<1> QED BY <1>1, <1>2, <1>3, <1>4, <1>5, <1>6, <1>7, <1>8, <1>9, <1>10, <1>11, <1>12, <1>13
        DEF WsNext, Archives, Downloads

\* No command destroys an edit the user has not posted, except ds init and
\* ds merge, and ds commit posts only what the user changed and what a command
\* wrote, removed or posted without recording it: the leftovers of a sync that
\* was interrupted, overtaken by others or answered with errors, or of a commit
\* or resolve that was interrupted.  Those it may post over others' commits.
THEOREM EditsHold == WsSpec => []EditsKept
<1>1. WsInit => EditsKept
    BY EditsInit
<1>2. EditsKept /\ [WsNext]_wsVars => EditsKept'
    BY EditsStep
<1> QED BY <1>1, <1>2, PTL DEF WsSpec

-----------------------------------------------------------------------------
(* What a sync leaves.                                                     *)

SyncSound == SyncGoesOn /\ SyncCatchesUp

LEMMA SyncOff ==
    ASSUME settled' = FALSE, cmd'.pc \notin SyncSteps, cmd'.pc = "merged" => missed' = {}
    PROVE  SyncSound'
BY DEF SyncSound, SyncGoesOn, SyncCatchesUp, SyncSteps, At_pc

LEMMA TreeSame ==
    ASSUME UNCHANGED server, cmd'.branch = cmd.branch
    PROVE  MaterializeTree(cmd.branch)' = MaterializeTree(cmd.branch)
BY DEF server, MaterializeTree, Exists

LEMMA TreeSameCfg ==
    ASSUME UNCHANGED server, cfg' = cfg
    PROVE  /\ MaterializeTree(cfg)' = MaterializeTree(cfg) /\ Exists(cfg)' = Exists(cfg)
           /\ BranchHead(cfg)' = BranchHead(cfg)
BY DEF server, MaterializeTree, Exists, BranchHead

LEMMA SyncNoticed ==
    ASSUME WsTypeOK, SyncSound, Noticed
    PROVE  SyncSound'
<1>1. /\ cmd' = [cmd EXCEPT !.quiet = FALSE] /\ cfg' = cfg /\ st' = st /\ local' = local
      /\ settled' = FALSE /\ missed' = missed
    BY DEF Noticed, disk
<1>2. cmd'.pc = cmd.pc /\ cmd'.branch = cmd.branch /\ cmd'.old = cmd.old /\ cmd'.quiet = FALSE
      /\ cmd'.clean = cmd.clean /\ cmd'.todo = cmd.todo /\ cmd'.server = cmd.server
    BY <1>1 DEF WsTypeOK, Commands
<1> QED BY <1>1, <1>2 DEF SyncSound, SyncGoesOn, SyncCatchesUp, At_pc

\* The beginning of a sync.
LEMMA SyncBegins ==
    ASSUME WsTypeOK, WsTypeOK', NEW op \in Ops, cfg' \in Branches,
           cmd' = syncTree(op, cfg', st), st' = st, local' = local, settled' = FALSE, missed' = {}
    PROVE  SyncSound'
<1>1. st \in States /\ local \in Trees /\ st.files \in Trees
    BY Fields
<1>2. PICK b \in Branches : b = cfg'
    OBVIOUS
<1>3. cmd' = syncTree(op, b, st)
    BY <1>2
<1>4. /\ cmd'.pc = (IF st.files = NoFiles /\ Exists(b) THEN "archive" ELSE "tree")
      /\ cmd'.branch = b /\ cmd'.old = st /\ cmd'.clean = (Differing(local, st.files) = {})
    BY <1>1, <1>3, SyncType
<1>5. cmd'.pc \in {"archive", "tree"} /\ (cmd'.pc = "archive" => st.files = NoFiles)
    BY <1>4
<1>6. cmd'.clean => local = st.files
    BY <1>1, <1>4, DifferingNone
<1> QED BY <1>2, <1>4, <1>5, <1>6 DEF SyncSound, SyncGoesOn, SyncCatchesUp, At_pc, SyncSteps

LEMMA SyncSyncs ==
    ASSUME WsTypeOK, InitWorkspace \/ (\E b \in Branches : Checkout(b)) \/ (\E v \in BOOLEAN : Pull(v))
    PROVE  SyncSound'
<1>1. PICK op \in {"init", "checkout", "pull", "pull --skip-verify"} : cmd' = syncTree(op, cfg', st)
    BY TypesSync
<1>2. WsTypeOK' /\ st' = st /\ local' = local /\ settled' = FALSE /\ missed' = {}
    BY TypesSync
<1>3. cmd'.pc \in {"archive", "tree"}
    BY <1>1 DEF syncTree
<1>4. cfg' \in Branches
    BY <1>2, <1>3 DEF WsTypeOK, DiskTypeOK, At_pc
<1>5. op \in Ops
    BY DEF Ops
<1> QED BY <1>1, <1>2, <1>4, <1>5, SyncBegins

LEMMA SyncMergeToMain ==
    ASSUME WsTypeOK, SyncSound, MergeToMain
    PROVE  SyncSound'
<1>1. /\ WsTypeOK' /\ UNCHANGED <<server, st, local, history>>
      /\ cmd.pc = "merged" /\ cmd' = syncTree("merge", cfg', st) /\ cfg' = "main"
    BY TypesMergeToMain
<1>2. settled' = settled /\ missed' = missed
    BY <1>1 DEF history
<1>3. settled' = FALSE /\ missed' = {}
    BY <1>1, <1>2 DEF SyncSound, SyncGoesOn
<1> QED BY <1>1, <1>3, SyncBegins DEF Ops, Branches

LEMMA SyncArchive ==
    ASSUME EditsKept, SyncSound, NEW failed \in SUBSET DOMAIN MaterializeTree(cmd.branch),
           syncArchive(failed)
    PROVE  SyncSound'
<1>w. WsTypeOK
    BY DEF EditsKept
<1>1. PICK files \in Trees, c \in Commands, given \in Trees :
               /\ given = Without(MaterializeTree(cmd.branch), failed)
               /\ files = Onto(given, local) /\ Write(files) /\ cmd' = c /\ cmd.pc = "archive"
               /\ c.pc = "listing" /\ c.op = cmd.op /\ c.branch = cmd.branch /\ c.old = cmd.old
               /\ c.quiet = cmd.quiet /\ c.clean = cmd.clean /\ c.seq = cmd.seq
               /\ missed' = missed \cup failed
               /\ UNCHANGED <<server, cfg, st, stray, settled, alarm>>
    BY <1>w, TypesArchive
<1>2. local' = files
    BY <1>1 DEF Write
<1>3. settled' = FALSE /\ missed' = failed
    BY <1>1 DEF SyncSound, SyncGoesOn
<1>4. PICK tree : tree = MaterializeTree(cmd.branch)
    OBVIOUS
<1>5. MaterializeTree(cmd.branch)' = tree
    BY <1>1, <1>4, TreeSame
<1>6. ASSUME cmd.clean
      PROVE  \A p \in Paths : IF p \in failed THEN At(files, p) \in {Gone, Empty}
                               ELSE At(files, p) = At(tree, p)
    <2>1. local = NoFiles
        BY <1>1, <1>6 DEF SyncSound, SyncGoesOn, EditsKept, DifferencesKnown
    <2>2. \A p : At(NoFiles, p) = Gone
        BY NoFilesTree DEF At
    <2>3. \A p : At(given, p) = IF p \in failed THEN Gone ELSE At(tree, p)
        BY <1>1, <1>4, AtWithout
    <2>4. \A p : At(files, p) = At(given, p)
        <3> TAKE p
        <3>1. CASE p \in DOMAIN given
            BY <1>1, <3>1, AtOnto DEF At
        <3>2. CASE p \notin DOMAIN given
            BY <1>1, <2>1, <2>2, <3>2, AtOnto DEF At
        <3> QED BY <3>1, <3>2
    <2> QED BY <2>3, <2>4
<1>7. AsGiven(MaterializeTree(cmd.branch))' <=>
          \A p \in Paths : IF p \in failed THEN At(files, p) \in {Gone, Empty}
                            ELSE At(files, p) = At(tree, p)
    BY <1>2, <1>3, <1>5 DEF AsGiven
<1>8. cfg = cmd.branch /\ cmd.old = st
    BY <1>1 DEF SyncSound, SyncGoesOn, SyncSteps
<1>9. cmd.clean => AsGiven(MaterializeTree(cmd.branch))'
    BY <1>6, <1>7
<1> QED BY <1>1, <1>2, <1>3, <1>8, <1>9 DEF SyncSound, SyncGoesOn, SyncCatchesUp, At_pc, SyncSteps

LEMMA SyncArchiveListing ==
    ASSUME WsTypeOK, SyncSound, ArchiveListing
    PROVE  SyncSound'
<1>1. /\ UNCHANGED <<server, disk, settled, missed>> /\ cmd.pc = "listing"
      /\ cmd'.pc = "head" /\ cmd'.branch = cmd.branch /\ cmd'.old = cmd.old
      /\ cmd'.quiet = cmd.quiet /\ cmd'.clean = cmd.clean
      /\ cmd'.server = MaterializeTree(cmd.branch)
    BY TypesArchiveListing
<1>2. UNCHANGED <<server, cfg, st, local, settled, missed>>
    BY <1>1 DEF disk
<1>3. settled' = FALSE
    BY <1>1, <1>2 DEF SyncSound, SyncGoesOn
<1>4. PICK tree : tree = MaterializeTree(cmd.branch)
    OBVIOUS
<1>5. MaterializeTree(cmd.branch)' = tree
    BY <1>1, <1>2, <1>4, TreeSame
<1>6. cmd.quiet /\ cmd.clean => AsGiven(tree)
    BY <1>1, <1>4 DEF SyncSound, SyncGoesOn, At_pc
<1>g. AsGiven(cmd.server)' = AsGiven(tree)
    BY <1>1, <1>2, <1>4 DEF AsGiven
<1>7. cfg = cmd.branch /\ cmd.old = st
    BY <1>1 DEF SyncSound, SyncGoesOn, SyncSteps
<1> QED BY <1>g, <1>1, <1>2, <1>3, <1>4, <1>5, <1>6, <1>7
        DEF SyncSound, SyncGoesOn, SyncCatchesUp, At_pc, SyncSteps

LEMMA SyncTreeListing ==
    ASSUME WsTypeOK, SyncSound, TreeListing
    PROVE  SyncSound'
<1>1. /\ UNCHANGED <<server, disk, history>> /\ cmd.pc = "tree"
      /\ cmd'.pc = "files" /\ cmd'.branch = cmd.branch /\ cmd'.old = cmd.old
      /\ cmd'.quiet = cmd.quiet /\ cmd'.clean = cmd.clean
      /\ cmd'.server = MaterializeTree(cmd.branch)
      /\ cmd'.todo = ToDownload(MaterializeTree(cmd.branch))
    BY TypesTreeListing
<1>2. UNCHANGED <<server, cfg, st, local, settled, missed>>
    BY <1>1 DEF disk, history
<1>3. settled' = FALSE /\ missed' = {}
    BY <1>1, <1>2 DEF SyncSound, SyncGoesOn
<1>4. PICK tree : tree = MaterializeTree(cmd.branch)
    OBVIOUS
<1>5. MaterializeTree(cmd.branch)' = tree
    BY <1>1, <1>2, <1>4, TreeSame
<1>6. cmd.clean => local = st.files
    BY <1>1 DEF SyncSound, SyncGoesOn
<1>7. cfg = cmd.branch /\ cmd.old = st
    BY <1>1 DEF SyncSound, SyncGoesOn, SyncSteps
<1>8. ASSUME cmd.clean, NEW p \in Paths, p \notin ToDownload(tree)
      PROVE  At(local, p) = At(IF p \in DOMAIN tree THEN tree ELSE st.files, p)
    <2>1. local = st.files
        BY <1>6, <1>8
    <2>2. CASE p \in DOMAIN tree
        <3>1. At(st.files, p) = tree[p] /\ At(tree, p) = tree[p]
            BY <1>8, <2>2 DEF ToDownload, At
        <3> QED BY <2>1, <2>2, <3>1
    <2>3. CASE p \notin DOMAIN tree
        BY <2>1, <2>3
    <2> QED BY <2>2, <2>3
<1>9. cmd'.server = tree /\ cmd'.todo = ToDownload(tree)
    BY <1>1, <1>4
<1>t. cmd'.todo \subseteq DOMAIN cmd'.server \ missed'
    BY <1>3, <1>9 DEF ToDownload
<1>10. cmd'.clean => \A p \in Paths \ cmd'.todo :
           At(local', p) = At(IF p \in DOMAIN cmd'.server THEN cmd'.server ELSE st'.files, p)
    BY <1>1, <1>2, <1>8, <1>9
<1> QED BY <1>1, <1>2, <1>3, <1>5, <1>7, <1>9, <1>t, <1>10
        DEF SyncSound, SyncGoesOn, SyncCatchesUp, At_pc, SyncSteps

LEMMA SyncDownload ==
    ASSUME WsTypeOK, SyncSound, NEW p \in cmd.todo, NEW ok \in BOOLEAN, Download(p, ok)
    PROVE  SyncSound'
<1>1. PICK files \in Trees, c \in Commands, x \in Kept :
               /\ files = Onto(One(p, x), local)
               /\ ok => \/ x = At(MaterializeTree(cmd.branch), p)
                        \/ p \notin DOMAIN MaterializeTree(cmd.branch)
               /\ ~ok => x = Empty
               /\ Write(files) /\ cmd' = c /\ cmd.pc = "files" /\ p \in Paths
               /\ c.pc = "files" /\ c.op = cmd.op /\ c.branch = cmd.branch /\ c.old = cmd.old
               /\ c.quiet = cmd.quiet /\ c.clean = cmd.clean /\ c.seq = cmd.seq
               /\ c.server = cmd.server /\ c.todo = cmd.todo \ {p}
               /\ missed' = missed \cup (IF ok THEN {} ELSE {p})
               /\ UNCHANGED <<server, cfg, st, stray, settled, alarm>>
    BY TypesDownload
<1>2. local' = files
    BY <1>1 DEF Write
<1>3. settled' = FALSE
    BY <1>1 DEF SyncSound, SyncGoesOn
<1>4. PICK tree : tree = MaterializeTree(cmd.branch)
    OBVIOUS
<1>5. MaterializeTree(cmd.branch)' = tree
    BY <1>1, <1>4, TreeSame
<1>6. cmd.quiet => cmd.server = tree
    BY <1>1, <1>4 DEF SyncSound, SyncGoesOn
<1>7. cfg = cmd.branch /\ cmd.old = st
    BY <1>1 DEF SyncSound, SyncGoesOn, SyncSteps
<1>8. \A q : At(files, q) = IF q = p THEN x ELSE At(local, q)
    <2>1. DOMAIN One(p, x) = {p} /\ One(p, x)[p] = x
        BY DEF One
    <2> QED BY <1>1, <2>1, AtOnto
<1>9. cmd.todo \subseteq DOMAIN cmd.server \ missed
    BY <1>1 DEF SyncSound, SyncGoesOn, At_pc
<1>10. PICK fs, ms, mt : fs = st.files /\ ms = missed /\ mt = missed'
    OBVIOUS
<1>11. /\ p \notin ms /\ mt = ms \cup (IF ok THEN {} ELSE {p})
       /\ c.todo \subseteq DOMAIN c.server \ mt
    BY <1>1, <1>9, <1>10
<1>12. ASSUME cmd.quiet, cmd.clean, NEW q \in Paths, q \notin c.todo
       PROVE  IF q \in mt THEN At(files, q) = Empty
              ELSE At(files, q) = At(IF q \in DOMAIN tree THEN tree ELSE fs, q)
    <2>1. p \in DOMAIN tree
        BY <1>6, <1>9, <1>12
    <2>2. CASE q = p
        <3>1. At(files, q) = x
            BY <1>8, <2>2
        <3>2. CASE ok
            <4>1. x = At(tree, p) /\ p \notin mt
                BY <1>1, <1>4, <1>11, <2>1, <3>2
            <4> QED BY <2>1, <2>2, <3>1, <4>1
        <3>3. CASE ~ok
            <4>1. x = Empty /\ p \in mt
                BY <1>1, <1>11, <3>3
            <4> QED BY <2>2, <3>1, <4>1
        <3> QED BY <3>2, <3>3
    <2>3. CASE q # p
        <3>1. q \notin cmd.todo
            BY <1>1, <1>12, <2>3
        <3>2. IF q \in ms THEN At(local, q) = Empty
              ELSE At(local, q) = At(IF q \in DOMAIN tree THEN tree ELSE fs, q)
            BY <1>1, <1>6, <1>10, <1>12, <3>1 DEF SyncSound, SyncGoesOn, At_pc
        <3>3. At(files, q) = At(local, q) /\ (q \in mt <=> q \in ms)
            BY <1>8, <1>11, <2>3
        <3> QED BY <3>2, <3>3
    <2> QED BY <2>2, <2>3
<1>13. cmd.quiet /\ cmd.clean => \A q \in Paths \ c.todo :
           IF q \in missed' THEN At(files, q) = Empty
           ELSE At(files, q) = At(IF q \in DOMAIN c.server THEN c.server ELSE st.files, q)
    BY <1>1, <1>6, <1>10, <1>12
<1>14. c.todo \subseteq DOMAIN c.server \ missed'
    BY <1>10, <1>11
<1> QED BY <1>1, <1>2, <1>3, <1>5, <1>6, <1>7, <1>13, <1>14
        DEF SyncSound, SyncGoesOn, SyncCatchesUp, At_pc, SyncSteps

LEMMA SyncRemoveDeleted ==
    ASSUME WsTypeOK, SyncSound, RemoveDeleted
    PROVE  SyncSound'
<1>1. PICK files \in Trees, c \in Commands :
               /\ files = Without(local, DOMAIN st.files \ DOMAIN cmd.server)
               /\ Write(files) /\ cmd' = c /\ cmd.pc = "files" /\ cmd.todo = {}
               /\ c.pc = "head" /\ c.op = cmd.op /\ c.branch = cmd.branch /\ c.old = cmd.old
               /\ c.quiet = cmd.quiet /\ c.clean = cmd.clean /\ c.seq = cmd.seq
               /\ c.server = cmd.server
               /\ UNCHANGED <<server, cfg, st, stray, settled, missed, alarm>>
    BY TypesRemoveDeleted
<1>2. local' = files
    BY <1>1 DEF Write
<1>3. settled' = FALSE
    BY <1>1 DEF SyncSound, SyncGoesOn
<1>4. PICK tree : tree = MaterializeTree(cmd.branch)
    OBVIOUS
<1>5. MaterializeTree(cmd.branch)' = tree
    BY <1>1, <1>4, TreeSame
<1>6. cmd.quiet => cmd.server = tree
    BY <1>1, <1>4 DEF SyncSound, SyncGoesOn
<1>7. cfg = cmd.branch /\ cmd.old = st
    BY <1>1 DEF SyncSound, SyncGoesOn, SyncSteps
<1>8. PICK sv, fs, ms : sv = cmd.server /\ fs = st.files /\ ms = missed
    OBVIOUS
<1>9. ASSUME cmd.quiet, cmd.clean
      PROVE  \A q \in Paths : IF q \in ms THEN At(files, q) \in {Gone, Empty}
                               ELSE At(files, q) = At(sv, q)
    <2> TAKE q \in Paths
    <2>1. IF q \in ms THEN At(local, q) = Empty
          ELSE At(local, q) = At(IF q \in DOMAIN sv THEN sv ELSE fs, q)
        BY <1>1, <1>8, <1>9 DEF SyncSound, SyncGoesOn, At_pc
    <2>2. At(files, q) = IF q \in DOMAIN fs \ DOMAIN sv THEN Gone ELSE At(local, q)
        BY <1>1, <1>8, AtWithout
    <2>3. CASE q \in ms
        BY <2>1, <2>2, <2>3
    <2>4. CASE q \notin ms /\ q \in DOMAIN sv
        BY <2>1, <2>2, <2>4
    <2>5. CASE q \notin ms /\ q \notin DOMAIN sv
        <3>1. At(sv, q) = Gone
            BY <2>5 DEF At
        <3>2. q \notin DOMAIN fs => At(fs, q) = Gone
            BY DEF At
        <3> QED BY <2>1, <2>2, <2>5, <3>1, <3>2
    <2> QED BY <2>3, <2>4, <2>5
<1>10. AsGiven(cmd.server)' <=>
           \A q \in Paths : IF q \in ms THEN At(files, q) \in {Gone, Empty}
                             ELSE At(files, q) = At(sv, q)
    BY <1>1, <1>2, <1>8 DEF AsGiven
<1>11. cmd.quiet /\ cmd.clean => AsGiven(cmd.server)'
    BY <1>9, <1>10
<1> QED BY <1>1, <1>2, <1>3, <1>5, <1>6, <1>7, <1>11
        DEF SyncSound, SyncGoesOn, SyncCatchesUp, At_pc, SyncSteps

LEMMA SyncSaves ==
    ASSUME WsTypeOK, SyncSound, SaveSynced
    PROVE  SyncSound'
<1>1. /\ UNCHANGED <<server, cfg, local, missed>> /\ cmd.pc = "head" /\ st'.files = cmd.server
      /\ st'.seq = (IF Exists(cmd.branch) THEN BranchHead(cmd.branch) ELSE st.seq)
      /\ settled' = (cmd.quiet /\ cmd.clean) /\ (cmd' = Idle \/ cmd'.pc = "verify")
    BY TypesSaveSynced
<1>2. cmd'.pc \in {"idle", "verify"}
    BY <1>1, IdleType
<1>3. cfg = cmd.branch
    BY <1>1 DEF SyncSound, SyncGoesOn, SyncSteps
<1>4. SyncGoesOn'
    BY <1>2 DEF SyncGoesOn, At_pc, SyncSteps
<1>5. ASSUME cmd.quiet, cmd.clean
      PROVE  AsGiven(cmd.server) /\ cmd.server = MaterializeTree(cfg)
    BY <1>1, <1>3, <1>5 DEF SyncSound, SyncGoesOn, At_pc
<1>6. Exists(cfg) => st'.seq = BranchHead(cfg)
    BY <1>1, <1>3
<1>7. /\ MaterializeTree(cfg)' = MaterializeTree(cfg) /\ Exists(cfg)' = Exists(cfg)
      /\ BranchHead(cfg)' = BranchHead(cfg)
    BY <1>1, TreeSameCfg
<1>g. AsGiven(st.files)' = AsGiven(cmd.server)
    BY <1>1 DEF AsGiven
<1>8. SyncCatchesUp'
    BY <1>g, <1>1, <1>5, <1>6, <1>7 DEF SyncCatchesUp
<1> QED BY <1>4, <1>8 DEF SyncSound

\* A step that leaves the settled workspace as it is.
LEMMA SyncStays ==
    ASSUME WsTypeOK, SyncSound, UNCHANGED <<server, cfg, local, settled, missed>>,
           st'.files = st.files, st'.seq = st.seq, cmd'.pc = "idle"
    PROVE  SyncSound'
<1>1. SyncGoesOn'
    BY DEF SyncGoesOn, At_pc, SyncSteps
<1>2. /\ MaterializeTree(cfg)' = MaterializeTree(cfg) /\ Exists(cfg)' = Exists(cfg)
      /\ BranchHead(cfg)' = BranchHead(cfg)
    BY TreeSameCfg
<1>g. AsGiven(st.files)' = AsGiven(st.files)
    BY DEF AsGiven
<1>3. SyncCatchesUp'
    BY <1>g, <1>2 DEF SyncSound, SyncCatchesUp
<1> QED BY <1>1, <1>3 DEF SyncSound

\* The end of a command that is no sync.
LEMMA SyncEnds ==
    ASSUME SyncSound, settled' = settled, cmd.pc \notin {"idle", "verify"}, cmd'.pc \notin SyncSteps \cup {"merged"}
    PROVE  SyncSound'
<1>1. settled' = FALSE
    BY DEF SyncSound, SyncGoesOn
<1> QED BY <1>1, SyncOff

LEMMA SyncStep ==
    ASSUME EditsKept, WsTypeOK', SyncSound, [WsNext]_wsVars
    PROVE  SyncSound'
<1>w. WsTypeOK
    BY DEF EditsKept
<1>1. CASE \/ \E b \in Branches, d \in Docs, c \in Contents \cup {Gone} : OtherCommit(b, d, c)
           \/ \E b \in Topics : OtherMerge(b) \/ OtherRebase(b)
    <2>1. Noticed
        BY <1>1 DEF OtherCommit, OtherMerge, OtherRebase
    <2> QED BY <1>w, <2>1, SyncNoticed
<1>2. CASE \E d \in Docs, c \in Contents \cup {Gone} : Edit(d, c)
    <2>1. settled' = FALSE /\ cmd'.pc = "idle"
        BY <1>2 DEF Edit, At_pc
    <2> QED BY <2>1, SyncOff DEF SyncSteps
<1>3. CASE Interrupt
    <2>1. UNCHANGED <<server, cfg, st, local, settled, missed>> /\ cmd' = Idle
        BY <1>3 DEF Interrupt, disk, history
    <2> QED BY <1>w, <2>1, IdleType, SyncStays
<1>4. CASE InitWorkspace \/ (\E b \in Branches : Checkout(b)) \/ (\E v \in BOOLEAN : Pull(v))
    BY <1>w, <1>4, SyncSyncs
<1>5. CASE Archives \/ ArchiveListing \/ TreeListing
    BY <1>w, <1>5, SyncArchive, SyncArchiveListing, SyncTreeListing DEF Archives
<1>6. CASE Downloads \/ RemoveDeleted
    BY <1>w, <1>6, SyncDownload, SyncRemoveDeleted DEF Downloads
<1>7. CASE SaveSynced
    BY <1>w, <1>7, SyncSaves
<1>8. CASE VerifyPull
    <2>1. UNCHANGED <<server, cfg, local, settled, missed>> /\ st'.files = st.files /\ st'.seq = st.seq
          /\ cmd' = Idle
        BY <1>w, <1>8, TypesVerifyPull
    <2> QED BY <1>w, <2>1, IdleType, SyncStays
<1>9. CASE Verify
    <2>1. UNCHANGED <<server, disk, cmd, settled, missed>> /\ cmd.pc = "idle"
        BY <1>9 DEF Verify, At_pc
    <2> QED BY <1>w, <2>1, SyncStays DEF disk
<1>10. CASE CommitPost \/ (\E b \in Topics : CheckoutNew(b)) \/ Merge \/ Rebase \/ RebaseConflict
            \/ (\E d \in Docs : Resolve(d))
    <2>1. settled' = FALSE
        BY <1>w, <1>10, TypesCommitPost, TypesCheckoutNew, TypesMerge, TypesRebase,
           TypesRebaseConflict, TypesResolve
    <2>2. cmd'.pc \in {"posted", "created", "merged", "sequence", "copies", "resolved"}
        <3>1. CASE CommitPost
            <4>1. cmd' = Command("commit", "posted", cfg, {}, Len(log) + 1)
                BY <1>w, <3>1, TypesCommitPost
            <4> QED BY <4>1 DEF Command
        <3>2. CASE \E b \in Topics : CheckoutNew(b)
            <4>1. PICK b \in Topics : CheckoutNew(b)
                BY <3>2
            <4>2. cmd' = Command("checkout -b", "created", b, {}, main.head)
                BY <1>w, <4>1, TypesCheckoutNew
            <4> QED BY <4>2 DEF Command
        <3>3. CASE Merge
            BY <3>3 DEF Merge, Begin, Command
        <3>4. CASE Rebase
            BY <3>4 DEF Rebase, Begin, Command
        <3>5. CASE RebaseConflict
            BY <3>5 DEF RebaseConflict, Begin, Command
        <3>6. CASE \E d \in Docs : Resolve(d)
            BY <3>6 DEF Resolve, Begin, Command
        <3> QED BY <1>10, <3>1, <3>2, <3>3, <3>4, <3>5, <3>6
    <2>3. missed' = {}
        BY <1>10 DEF CommitPost, CheckoutNew, Merge, Rebase, RebaseConflict, Resolve, Begin
    <2> QED BY <2>1, <2>2, <2>3, SyncOff DEF SyncSteps
<1>11. CASE CommitSave \/ CheckoutNewConfig \/ SequenceSave
            \/ (\E d \in Docs : writeRebaseConflictFiles(d) \/ ResolveSave(d))
    <2>1. settled' = settled /\ cmd.pc \in {"posted", "created", "sequence", "copies", "resolved"}
        BY <1>11 DEF CommitSave, CheckoutNewConfig, SequenceSave, writeRebaseConflictFiles,
                     ResolveSave, At_pc, history
    <2>2. cmd'.pc \in {"idle", "sequence", "copies"}
        BY <1>w, <1>11, TypesCommitSave, TypesCheckoutNewConfig, TypesSequenceSave,
           TypesConflictFiles, TypesResolveSave, IdleType
    <2> QED BY <2>1, <2>2, SyncEnds DEF SyncSteps
<1>12. CASE MergeToMain
    BY <1>w, <1>12, SyncMergeToMain
<1>13. CASE UNCHANGED wsVars
    <2>1. UNCHANGED <<server, cfg, st, local, cmd, settled, missed>>
        BY <1>13 DEF wsVars, disk, history
    <2>2. /\ MaterializeTree(cfg)' = MaterializeTree(cfg) /\ Exists(cfg)' = Exists(cfg)
          /\ BranchHead(cfg)' = BranchHead(cfg)
        BY <2>1, TreeSameCfg
    <2>3. MaterializeTree(cmd.branch)' = MaterializeTree(cmd.branch)
        BY <2>1, TreeSame
    <2> QED BY <2>1, <2>2, <2>3 DEF SyncSound, SyncGoesOn, SyncCatchesUp, AsGiven, At_pc
<1> QED BY <1>1, <1>2, <1>3, <1>4, <1>5, <1>6, <1>7, <1>8, <1>9, <1>10, <1>11, <1>12, <1>13
        DEF WsNext, Archives, Downloads

-----------------------------------------------------------------------------
(* The chain.                                                              *)

ChainSound == ChainLinked /\ SequencesKnown /\ HonestChainPasses

LEMMA LinkedPull ==
    ASSUME WsTypeOK, ChainSound, cmd.pc = "verify", Anchored(cmd.old, cfg)
    PROVE  /\ cmd.old.seq <= st.seq
           /\ MaxIn({1, cmd.old.seq}) = cmd.old.hash
           /\ Linked(cfg, MaxIn({1, cmd.old.seq}), st.seq, cmd.old.hash)
<1>1. PICK h : h = cmd.old.hash
    OBVIOUS
<1>2. cmd.old.seq = h /\ log[h].branch = cfg /\ h # NoHash
    BY <1>1 DEF Anchored
<1>3. Len(log) \in Nat /\ st.seq \in Nat
    BY Fields
<1>4. h \in 1..Len(log) /\ h <= st.seq /\ st.seq <= Len(log)
    BY <1>1, <1>2 DEF ChainSound, SequencesKnown, At_pc
<1>5. h \in Nat /\ 1 <= h
    BY <1>3, <1>4
<1>6. MaxIn({1, h}) = h
    <2>1. {1, h} \in SUBSET Nat /\ h \in {1, h} /\ \A n \in {1, h} : n <= h
        BY <1>5
    <2> QED BY <2>1, MaxInIs
<1>7. Linked(cfg, h, st.seq, h)
    <2> DEFINE own == {s \in (h + 1)..st.seq : log[s].branch = cfg}
    <2> SUFFICES ASSUME NEW s \in own
                 PROVE  log[s].prev = MaxIn({h} \cup {t \in own : t < s})
        BY DEF Linked
    <2>1. s \in 1..Len(log) /\ log[s].branch = cfg /\ s \in Nat /\ h < s
        BY <1>3, <1>4, <1>5
    <2>2. log[s].prev = MaxIn({t \in 1..(s - 1) : log[t].branch = cfg})
        BY <2>1 DEF ChainSound, ChainLinked
    <2> DEFINE A == {h} \cup {t \in own : t < s}
               B == {t \in 1..(s - 1) : log[t].branch = cfg}
    <2>3. \A x \in B : x \in Nat /\ x <= s - 1
        BY <2>1
    <2>4. \A x \in A : x \in B
        BY <1>2, <1>3, <1>5, <2>1
    <2>5. \A x \in B : x \notin A => x <= h
        BY <1>3, <1>4, <1>5, <2>1
    <2>6. s - 1 \in Nat /\ h \in A
        BY <1>5, <2>1
    <2>7. MaxIn(B) = MaxIn(A)
        <3> HIDE DEF A, B
        <3>1. B \in SUBSET Nat /\ A \subseteq B /\ \A x \in B \ A : x <= h
            BY <2>3, <2>4, <2>5
        <3>2. A \in SUBSET Nat
            BY <3>1
        <3>3. \A x \in B : x <= s - 1
            BY <2>3
        <3> QED BY <2>6, <3>1, <3>2, <3>3, MaxInUp
    <2> QED BY <2>2, <2>7
<1> QED BY <1>1, <1>2, <1>4, <1>6, <1>7

LEMMA LinkedAll ==
    ASSUME ServerTypeOK, ChainLinked, NEW b \in Branches, NEW first,
           NEW own, own = {s \in 1..BranchHead(b) : log[s].branch = b},
           first = CHOOSE s \in own : \A t \in own : s <= t, own # {}
    PROVE  Linked(b, first, BranchHead(b), first)
<1>1. PICK hd \in Nat : hd = BranchHead(b)
    BY DEF BranchHead, Branches, ServerTypeOK
<1>2. Len(log) \in Nat /\ hd <= Len(log)
    BY <1>1 DEF ChainLinked, BranchHead, Branches, ServerTypeOK
<1>3. \A s \in own : s \in Nat /\ s \in 1..hd /\ log[s].branch = b
    BY <1>1
<1>4. first \in own /\ \A t \in own : first <= t
    <2>1. own \in SUBSET Nat
        BY <1>3
    <2>2. \E s \in own : \A t \in own : s <= t
        BY <2>1, LeastIn
    <2> QED BY <2>2
<1>5. first \in Nat /\ 1 <= first /\ first <= hd /\ log[first].branch = b
    BY <1>3, <1>4
<1> DEFINE rest == {s \in (first + 1)..hd : log[s].branch = b}
<1> SUFFICES ASSUME NEW s \in rest
             PROVE  log[s].prev = MaxIn({first} \cup {t \in rest : t < s})
    BY <1>1 DEF Linked
<1>6. s \in Nat /\ s \in 1..Len(log) /\ s <= hd /\ first < s /\ log[s].branch = b
    BY <1>2, <1>5
<1>7. log[s].prev = MaxIn({t \in 1..(s - 1) : log[t].branch = b})
    BY <1>6 DEF ChainLinked
<1>8. {t \in 1..(s - 1) : log[t].branch = b} = {first} \cup {t \in rest : t < s}
    <2>1. ASSUME NEW t \in 1..(s - 1), log[t].branch = b
          PROVE  t \in {first} \cup {u \in rest : u < s}
        <3>1. t \in 1..hd /\ t < s
            BY <1>6, <2>1
        <3>2. t \in own
            BY <1>1, <2>1, <3>1
        <3>3. first <= t
            BY <1>4, <3>2
        <3>4. CASE t = first
            BY <3>4
        <3>5. CASE t # first
            <4>1. t \in (first + 1)..hd
                BY <1>5, <3>1, <3>3, <3>5
            <4> QED BY <2>1, <3>1, <4>1
        <3> QED BY <3>4, <3>5
    <2>2. ASSUME NEW t \in {first} \cup {u \in rest : u < s}
          PROVE  t \in 1..(s - 1) /\ log[t].branch = b
        BY <1>5, <1>6, <2>2
    <2> HIDE DEF rest
    <2> QED BY <2>1, <2>2
<1> QED BY <1>7, <1>8

LEMMA ChainSame ==
    ASSUME ChainLinked, UNCHANGED server
    PROVE  ChainLinked'
BY DEF ChainLinked, server, BranchHead

\* The sequences a workspace keeps stay known when the log grows.
LEMMA SequencesKept ==
    ASSUME SequencesKnown, Grown,
           st'.seq <= Len(log), st'.seq \in Nat, st'.hash \in {NoHash} \cup 1..Len(log),
           cmd'.old.seq <= Len(log), cmd'.old.seq \in Nat,
           cmd'.old.hash \in {NoHash} \cup 1..Len(log),
           cmd'.seq <= Len(log'), cmd'.pc = "posted" => cmd'.seq # 0,
           cmd'.pc = "verify" => cmd.pc = "verify" /\ st' = st /\ cfg' = cfg /\ cmd'.old = cmd.old
    PROVE  SequencesKnown'
<1>1. \A n \in Nat : n <= Len(log) => n <= Len(log')
    BY DEF Grown
<1>2. \A h \in {NoHash} \cup 1..Len(log) : h \in {NoHash} \cup 1..Len(log')
    BY DEF Grown
<1>3. ASSUME cmd'.pc = "verify", Anchored(cmd.old, cfg)'
      PROVE  cmd'.old.seq <= st'.seq
    <2>1. PICK o : o = cmd.old
        OBVIOUS
    <2>2. cmd'.old = o /\ st' = st /\ cfg' = cfg /\ cmd.pc = "verify"
        BY <1>3, <2>1
    <2>3. o.hash # NoHash /\ o.seq = o.hash /\ log'[o.hash].branch = cfg
        BY <1>3, <2>2 DEF Anchored
    <2>4. o.hash \in 1..Len(log)
        BY <2>2, <2>3
    <2>5. log[o.hash].branch = cfg
        BY <2>3, <2>4 DEF Grown
    <2>6. Anchored(cmd.old, cfg)
        BY <2>1, <2>3, <2>5 DEF Anchored
    <2> QED BY <2>1, <2>2, <2>6 DEF SequencesKnown, At_pc
<1> QED BY <1>1, <1>2, <1>3 DEF SequencesKnown, At_pc

LEMMA KnownNow ==
    ASSUME WsTypeOK, SequencesKnown
    PROVE  /\ st.seq <= Len(log) /\ st.seq \in Nat /\ st.hash \in {NoHash} \cup 1..Len(log)
           /\ cmd.old.seq <= Len(log) /\ cmd.old.seq \in Nat
           /\ cmd.old.hash \in {NoHash} \cup 1..Len(log)
           /\ NewState.seq <= Len(log) /\ NewState.seq \in Nat
           /\ NewState.hash \in {NoHash} \cup 1..Len(log)
           /\ cmd.seq <= Len(log) /\ cmd.seq \in Nat /\ Len(log) \in Nat
<1>1. NewState.seq = 0 /\ NewState.hash = NoHash
    BY DEF NewState
<1>2. Len(log) \in Nat /\ st.seq \in Nat /\ cmd.old.seq \in Nat /\ cmd.seq \in Nat
    BY Fields
<1> QED BY <1>1, <1>2 DEF SequencesKnown

LEMMA ChainOther ==
    ASSUME WsTypeOK, ChainSound, NEW b \in Branches, OtherStep(b)
    PROVE  ChainSound'
<1>1. ServerTypeOK /\ ChainLinked /\ SequencesKnown
    BY DEF WsTypeOK, ChainSound
<1>2. ChainLinked' /\ Grown
    <2>1. CASE \E d \in Docs, c \in Contents \cup {Gone} : OtherCommit(b, d, c)
        <3>1. PICK d \in Docs, c \in Contents \cup {Gone} : OtherCommit(b, d, c)
            BY <2>1
        <3>2. One(d, c) \in Changes
            BY OneChange DEF Kept, Paths
        <3> QED BY <1>1, <3>1, <3>2, CommitChains DEF OtherCommit
    <2>2. CASE b \in Topics /\ OtherMerge(b)
        BY <1>1, <2>2, MergeChains DEF OtherMerge
    <2>3. CASE b \in Topics /\ OtherRebase(b)
        BY <1>1, <2>3, RebaseChains DEF OtherRebase
    <2> QED BY <2>1, <2>2, <2>3 DEF OtherStep
<1>3. Noticed
    BY DEF OtherStep, OtherCommit, OtherMerge, OtherRebase
<1>4. cmd' = [cmd EXCEPT !.quiet = FALSE] /\ cfg' = cfg /\ st' = st /\ alarm' = alarm
    BY <1>3 DEF Noticed, disk
<1>5. cmd'.pc = cmd.pc /\ cmd'.old = cmd.old /\ cmd'.seq = cmd.seq
    BY <1>4 DEF WsTypeOK, Commands
<1>6. cmd'.seq <= Len(log') /\ (cmd'.pc = "posted" => cmd'.seq # 0)
    BY <1>1, <1>2, <1>5, KnownNow DEF Grown, SequencesKnown, At_pc
<1>7. SequencesKnown'
    BY <1>1, <1>2, <1>4, <1>5, <1>6, KnownNow, SequencesKept
<1> QED BY <1>2, <1>4, <1>7 DEF ChainSound, HonestChainPasses

\* A command that writes to the server and keeps what it answers.
LEMMA ChainBegin ==
    ASSUME WsTypeOK, ChainSound, ChainLinked', Grown, NEW op, NEW pc, NEW b, NEW todo, NEW seq \in Nat,
           st' = st, alarm' = alarm, cmd' = Command(op, pc, b, todo, seq),
           pc # "verify", seq <= Len(log'), pc = "posted" => seq # 0
    PROVE  ChainSound'
<1>1. cmd'.pc = pc /\ cmd'.old = NewState /\ cmd'.seq = seq
    BY DEF Command
<1>2. SequencesKnown
    BY DEF ChainSound
<1>3. SequencesKnown'
    BY <1>1, <1>2, KnownNow, SequencesKept
<1> QED BY <1>3 DEF ChainSound, HonestChainPasses

\* A step that leaves the server alone.
LEMMA ChainStep ==
    ASSUME WsTypeOK, ChainSound, UNCHANGED server, alarm' = alarm,
           st'.seq <= Len(log), st'.seq \in Nat, st'.hash \in {NoHash} \cup 1..Len(log),
           cmd'.old \in {NewState, st, cmd.old}, cmd'.seq \in {0, cmd.seq}, cmd'.pc # "posted",
           cmd'.pc = "verify" => cmd.pc = "verify" /\ st' = st /\ cfg' = cfg /\ cmd'.old = cmd.old
    PROVE  ChainSound'
<1>1. ServerTypeOK /\ ChainLinked /\ SequencesKnown
    BY DEF WsTypeOK, ChainSound
<1>2. ChainLinked'
    BY <1>1, ChainSame
<1>3. log' = log
    BY DEF server
<1>4. Grown
    BY <1>1, <1>3, NotGrown
<1>5. cmd'.seq <= Len(log')
    BY <1>1, <1>3, KnownNow
<1>6. /\ cmd'.old.seq <= Len(log) /\ cmd'.old.seq \in Nat
      /\ cmd'.old.hash \in {NoHash} \cup 1..Len(log)
    BY <1>1, KnownNow
<1>7. SequencesKnown'
    BY <1>1, <1>4, <1>5, <1>6, SequencesKept
<1> QED BY <1>2, <1>7 DEF ChainSound, HonestChainPasses

LEMMA ChainCommitPost ==
    ASSUME WsTypeOK, ChainSound, CommitPost \/ (\E d \in Docs : Resolve(d))
    PROVE  ChainSound'
<1>1. ServerTypeOK /\ ChainLinked /\ Len(log) \in Nat
    BY Fields DEF WsTypeOK, ChainSound
<1>2. UNCHANGED disk /\ alarm' = alarm /\ cfg \in Branches
      /\ \E chg \in Changes : ServerCommit(cfg, chg)
    BY TypesCommitPost, TypesResolve
<1>3. ChainLinked' /\ Grown /\ Len(log') = Len(log) + 1
    BY <1>1, <1>2, CommitChains
<1>4. PICK seq \in Nat : seq = Len(log) + 1
    BY <1>1
<1>5. seq <= Len(log') /\ seq # 0 /\ st' = st
    BY <1>1, <1>2, <1>3, <1>4 DEF disk
<1>6. CASE CommitPost
    <2>1. cmd' = Command("commit", "posted", cfg, {}, seq)
        BY <1>4, <1>6, TypesCommitPost
    <2> QED BY <1>2, <1>3, <1>5, <2>1, ChainBegin
<1>7. CASE \E d \in Docs : Resolve(d)
    <2>1. PICK d \in Docs : Resolve(d)
        BY <1>7
    <2>2. cmd' = Command("resolve", "resolved", cfg, {d}, seq)
        BY <1>4, <2>1, TypesResolve
    <2> QED BY <1>2, <1>3, <1>5, <2>2, ChainBegin
<1> QED BY <1>6, <1>7

LEMMA ChainCheckoutNew ==
    ASSUME WsTypeOK, ChainSound, NEW b \in Topics, CheckoutNew(b)
    PROVE  ChainSound'
<1>1. ServerTypeOK /\ ChainLinked /\ Len(log) \in Nat /\ main.head \in Nat
    BY Fields DEF WsTypeOK, ChainSound
<1>2. PICK h \in Nat : h = main.head
    BY <1>1
<1>3. UNCHANGED disk /\ alarm' = alarm /\ CreateBranch(b)
      /\ cmd' = Command("checkout -b", "created", b, {}, main.head)
    BY TypesCheckoutNew
<1>4. cmd' = Command("checkout -b", "created", b, {}, h)
    BY <1>2, <1>3
<1>5. ChainLinked' /\ Grown /\ Len(log') = Len(log)
    BY <1>1, <1>3, CreateChains
<1>6. h <= Len(log') /\ st' = st
    BY <1>1, <1>2, <1>3, <1>5 DEF ChainLinked, disk
<1>7. alarm' = alarm /\ "created" # "verify" /\ "created" # "posted"
    BY <1>3
<1> QED BY <1>4, <1>5, <1>6, <1>7, ChainBegin

LEMMA ChainMerge ==
    ASSUME WsTypeOK, ChainSound, Merge
    PROVE  ChainSound'
<1>1. ServerTypeOK /\ ChainLinked
    BY DEF WsTypeOK, ChainSound
<1>2. UNCHANGED disk /\ alarm' = alarm /\ cfg \in Topics /\ ServerMerge(cfg)
      /\ cmd' = Command("merge", "merged", cfg, {}, 0)
    BY TypesMerge
<1>3. ChainLinked' /\ Grown
    BY <1>1, <1>2, MergeChains
<1>4. 0 <= Len(log') /\ st' = st
    BY <1>2, <1>3 DEF Grown, disk
<1> QED BY <1>2, <1>3, <1>4, ChainBegin

LEMMA ChainRebase ==
    ASSUME WsTypeOK, ChainSound, Rebase
    PROVE  ChainSound'
<1>1. ServerTypeOK /\ ChainLinked
    BY DEF WsTypeOK, ChainSound
<1>2. UNCHANGED disk /\ alarm' = alarm /\ cfg \in Topics /\ ServerRebase(cfg)
    BY TypesRebase
<1>3. PICK h \in Nat : h = topic'[cfg].head /\ cmd' = Command("rebase", "sequence", cfg, {}, h)
    BY TypesRebase
<1>4. ChainLinked' /\ Grown
    BY <1>1, <1>2, RebaseChains
<1>5. h <= Len(log') /\ st' = st
    BY <1>2, <1>3, <1>4 DEF ChainLinked, disk
<1> QED BY <1>2, <1>3, <1>4, <1>5, ChainBegin

LEMMA ChainRebaseConflict ==
    ASSUME WsTypeOK, ChainSound, RebaseConflict
    PROVE  ChainSound'
<1>1. UNCHANGED disk /\ alarm' = alarm /\ UNCHANGED server
      /\ \E S \in SUBSET Paths : cmd' = Command("rebase", "copies", cfg, S, 0)
    BY TypesRebaseConflict
<1>2. cmd'.pc = "copies" /\ cmd'.old = NewState /\ cmd'.seq = 0
    BY <1>1 DEF Command
<1>3. st' = st /\ SequencesKnown
    BY <1>1 DEF disk, ChainSound
<1> QED BY <1>1, <1>2, <1>3, KnownNow, ChainStep

LEMMA ChainSyncs ==
    ASSUME WsTypeOK, ChainSound,
           \/ InitWorkspace \/ (\E b \in Branches : Checkout(b)) \/ (\E v \in BOOLEAN : Pull(v))
           \/ MergeToMain
    PROVE  ChainSound'
<1>1. UNCHANGED server /\ st' = st /\ alarm' = alarm /\ \E op : cmd' = syncTree(op, cfg', st)
    BY TypesSync, TypesMergeToMain DEF history
<1>2. cmd'.old = st /\ cmd'.seq = 0 /\ cmd'.pc \in {"archive", "tree"}
    BY <1>1 DEF syncTree
<1>3. SequencesKnown
    BY DEF ChainSound
<1> QED BY <1>1, <1>2, <1>3, KnownNow, ChainStep

\* The steps that keep what the command knows and the state file.
LEMMA ChainGoesOn ==
    ASSUME WsTypeOK, ChainSound,
           \/ Archives \/ ArchiveListing \/ TreeListing \/ Downloads
           \/ RemoveDeleted \/ CheckoutNewConfig
    PROVE  ChainSound'
<1>1. UNCHANGED <<server, st, alarm>> /\ cmd'.old = cmd.old /\ cmd'.seq = cmd.seq
      /\ cmd'.pc \in {"listing", "head", "files", "sequence"}
    <2>1. CASE Archives
        BY <2>1, TypesArchive DEF Archives
    <2>2. CASE ArchiveListing
        BY <2>2, TypesArchiveListing DEF disk, history
    <2>3. CASE TreeListing
        BY <2>3, TypesTreeListing DEF disk, history
    <2>4. CASE Downloads
        BY <2>4, TypesDownload DEF Downloads
    <2>5. CASE RemoveDeleted
        BY <2>5, TypesRemoveDeleted
    <2>6. CASE CheckoutNewConfig
        BY <2>6, TypesCheckoutNewConfig DEF history
    <2> QED BY <2>1, <2>2, <2>3, <2>4, <2>5, <2>6
<1>2. SequencesKnown
    BY DEF ChainSound
<1> QED BY <1>1, <1>2, KnownNow, ChainStep

\* The steps that end a command, or leave it alone.
LEMMA ChainEnds ==
    ASSUME WsTypeOK, ChainSound, UNCHANGED server, alarm' = alarm,
           st'.seq \in {st.seq, cmd.seq},
           st'.hash = st.hash \/ (cmd.pc = "posted" /\ st'.hash = cmd.seq),
           cmd' = Idle \/ (cmd'.pc = "copies" /\ cmd'.seq = cmd.seq /\ cmd'.old = cmd.old)
    PROVE  ChainSound'
<1>1. SequencesKnown
    BY DEF ChainSound
<1>2. cmd.pc = "posted" => cmd.seq \in 1..Len(log)
    BY <1>1, KnownNow DEF SequencesKnown, At_pc
<1>3. st'.seq \in Nat /\ st'.seq <= Len(log) /\ st'.hash \in {NoHash} \cup 1..Len(log)
    BY <1>1, <1>2, KnownNow
<1>4. Idle.old = NewState /\ Idle.seq = 0 /\ Idle.pc = "idle"
    BY DEF Idle, Command
<1>5. cmd'.old \in {NewState, st, cmd.old} /\ cmd'.seq \in {0, cmd.seq}
      /\ cmd'.pc \in {"idle", "copies"}
    BY <1>4
<1> QED BY <1>3, <1>5, ChainStep

LEMMA ChainSaves ==
    ASSUME WsTypeOK, ChainSound,
           Interrupt \/ CommitSave \/ SequenceSave
           \/ (\E d \in Docs : writeRebaseConflictFiles(d) \/ ResolveSave(d))
    PROVE  ChainSound'
<1>1. CASE Interrupt
    <2>1. UNCHANGED server /\ alarm' = alarm /\ st' = st /\ cmd' = Idle
        BY <1>1 DEF Interrupt, disk, history
    <2> QED BY <2>1, ChainEnds
<1>2. CASE CommitSave
    <2>1. UNCHANGED server /\ alarm' = alarm /\ st'.seq = cmd.seq /\ st'.hash = cmd.seq
          /\ cmd' = Idle /\ cmd.pc = "posted"
        BY <1>2, TypesCommitSave
    <2> QED BY <2>1, ChainEnds
<1>3. CASE SequenceSave
    <2>1. UNCHANGED server /\ alarm' = alarm /\ st'.seq = cmd.seq /\ st'.hash = st.hash
          /\ cmd' = Idle
        BY <1>3, TypesSequenceSave DEF history
    <2> QED BY <2>1, ChainEnds
<1>4. CASE \E d \in Docs : writeRebaseConflictFiles(d)
    <2>1. UNCHANGED server /\ alarm' = alarm /\ st' = st
          /\ (cmd' = Idle \/ (cmd'.pc = "copies" /\ cmd'.seq = cmd.seq /\ cmd'.old = cmd.old))
        BY <1>4, TypesConflictFiles
    <2> QED BY <2>1, ChainEnds
<1>5. CASE \E d \in Docs : ResolveSave(d)
    <2>1. UNCHANGED server /\ alarm' = alarm /\ st'.seq = cmd.seq /\ st'.hash = st.hash
          /\ cmd' = Idle
        BY <1>5, TypesResolveSave
    <2> QED BY <2>1, ChainEnds
<1> QED BY <1>1, <1>2, <1>3, <1>4, <1>5

LEMMA ChainEdit ==
    ASSUME WsTypeOK, ChainSound, NEW d, NEW c, Edit(d, c)
    PROVE  ChainSound'
<1>1. UNCHANGED server /\ alarm' = alarm /\ st' = st /\ cmd' = cmd /\ cmd.pc = "idle"
    BY DEF Edit, At_pc
<1>2. SequencesKnown
    BY DEF ChainSound
<1> QED BY <1>1, <1>2, KnownNow, ChainStep

\* A pull of an anchored workspace moves its sequence forward.
LEMMA ChainSaveSynced ==
    ASSUME WsTypeOK, SyncGoesOn, ChainSound, SaveSynced
    PROVE  ChainSound'
<1>1. ServerTypeOK /\ ChainLinked /\ SequencesKnown
    BY DEF WsTypeOK, ChainSound
<1>2. /\ UNCHANGED server /\ cfg' = cfg /\ alarm' = alarm /\ cmd.pc = "head" /\ st'.hash = st.hash
      /\ st'.seq = IF Exists(cmd.branch) THEN BranchHead(cmd.branch) ELSE st.seq
      /\ \/ cmd' = Idle
         \/ cmd'.pc = "verify" /\ cmd'.old = cmd.old /\ cmd'.seq = cmd.seq
    BY TypesSaveSynced
<1>3. cfg = cmd.branch /\ cmd.old = st /\ cmd.branch \in Branches
    BY <1>2, Fields DEF SyncGoesOn, SyncSteps
<1>4. PICK hd \in Nat : hd = BranchHead(cmd.branch) /\ hd <= Len(log)
    BY <1>1, <1>3 DEF ChainLinked, BranchHead, Branches, ServerTypeOK
<1>5. st'.seq \in Nat /\ st'.seq <= Len(log) /\ st'.seq \in {hd, st.seq}
    BY <1>1, <1>2, <1>4, KnownNow
<1>6. CASE cmd' = Idle
    <2>1. Idle.old = NewState /\ Idle.seq = 0 /\ Idle.pc = "idle"
        BY DEF Idle, Command
    <2> QED BY <1>1, <1>2, <1>5, <1>6, <2>1, KnownNow, ChainStep
<1>7. CASE cmd'.pc = "verify" /\ cmd'.old = cmd.old /\ cmd'.seq = cmd.seq
    <2>1. log' = log /\ ChainLinked'
        BY <1>1, <1>2, ChainSame DEF server
    <2>2. ASSUME Anchored(cmd.old, cfg)'
          PROVE  cmd'.old.seq <= st'.seq
        <3>1. PICK h : h = st.hash
            OBVIOUS
        <3>2. cmd'.old = st
            BY <1>3, <1>7
        <3>3. h # NoHash /\ st.seq = h /\ log[h].branch = cfg
            BY <1>2, <2>1, <2>2, <3>1, <3>2 DEF Anchored
        <3>4. h \in 1..Len(log)
            BY <1>1, <3>1, <3>3, KnownNow
        <3>5. h <= BranchHead(cfg)
            BY <1>1, <3>3, <3>4 DEF ChainLinked
        <3>6. h <= hd
            BY <1>3, <1>4, <3>5
        <3>7. h <= st.seq
            BY <3>3, <3>4, KnownNow
        <3> QED BY <1>5, <3>2, <3>3, <3>6, <3>7
    <2>3. /\ st'.seq <= Len(log') /\ st'.hash \in {NoHash} \cup 1..Len(log')
          /\ cmd'.old.seq <= Len(log') /\ cmd'.old.hash \in {NoHash} \cup 1..Len(log')
          /\ cmd'.seq <= Len(log')
        BY <1>1, <1>2, <1>5, <1>7, <2>1, KnownNow
    <2>4. SequencesKnown'
        BY <1>7, <2>2, <2>3 DEF SequencesKnown, At_pc
    <2> QED BY <1>2, <2>1, <2>4 DEF ChainSound, HonestChainPasses
<1> QED BY <1>2, <1>6, <1>7

\* A pull of an anchored workspace passes.
LEMMA ChainVerifyPull ==
    ASSUME WsTypeOK, ChainSound, VerifyPull
    PROVE  ChainSound'
<1>1. /\ UNCHANGED server /\ cfg' = cfg /\ cmd.pc = "verify" /\ cmd' = Idle /\ st'.seq = st.seq
      /\ st'.hash \in {st.hash, cmd.old.hash} \/ st'.hash \in 1..st.seq
    BY TypesVerifyPull
<1>2. ~alarm'
    <2>1. ~alarm
        BY DEF ChainSound, HonestChainPasses
    <2>2. Anchored(cmd.old, cfg) =>
              /\ cmd.old.seq <= st.seq
              /\ MaxIn({1, cmd.old.seq}) = cmd.old.hash
              /\ Linked(cfg, MaxIn({1, cmd.old.seq}), st.seq, cmd.old.hash)
        BY <1>1, LinkedPull
    <2>3. alarm' = (alarm \/ (/\ Anchored(cmd.old, cfg) /\ cmd.old.seq # st.seq
              /\ ~(/\ cmd.old.seq <= st.seq
                   /\ MaxIn({1, cmd.old.seq}) = cmd.old.hash
                   /\ Linked(cfg, MaxIn({1, cmd.old.seq}), st.seq, cmd.old.hash))))
        BY Zenon DEF VerifyPull
    <2> QED BY <2>1, <2>2, <2>3
<1>3. ChainLinked' /\ log' = log
    BY <1>1, ChainSame DEF ChainSound, server
<1>4. SequencesKnown
    BY DEF ChainSound
<1>5. st'.hash \in {NoHash} \cup 1..Len(log)
    BY <1>1, <1>4, KnownNow
<1>6. Idle.old = NewState /\ Idle.seq = 0 /\ Idle.pc = "idle"
    BY DEF Idle, Command
<1>7. SequencesKnown'
    <2>1. /\ st'.seq <= Len(log') /\ st'.hash \in {NoHash} \cup 1..Len(log')
          /\ cmd'.old.seq <= Len(log') /\ cmd'.old.hash \in {NoHash} \cup 1..Len(log')
          /\ cmd'.seq <= Len(log') /\ cmd'.pc = "idle"
        BY <1>1, <1>3, <1>4, <1>5, <1>6, KnownNow
    <2> QED BY <2>1 DEF SequencesKnown, At_pc
<1> QED BY <1>2, <1>3, <1>7 DEF ChainSound, HonestChainPasses

LEMMA ChainVerify ==
    ASSUME WsTypeOK, ChainSound, Verify
    PROVE  ChainSound'
<1>1. ServerTypeOK /\ ChainLinked /\ SequencesKnown /\ cfg \in Branches
    BY TypesVerify DEF WsTypeOK, ChainSound
<1>2. UNCHANGED <<server, disk, cmd>>
    BY TypesVerify
<1>3. ~alarm'
    <2>1. PICK own : own = {s \in 1..BranchHead(cfg) : log[s].branch = cfg}
        OBVIOUS
    <2>2. PICK first : first = CHOOSE s \in own : \A t \in own : s <= t
        OBVIOUS
    <2>3. alarm' = (alarm \/ (own # {} /\ ~Linked(cfg, first, BranchHead(cfg), first)))
        BY <2>1, <2>2 DEF Verify
    <2>4. own # {} => Linked(cfg, first, BranchHead(cfg), first)
        BY <1>1, <2>1, <2>2, LinkedAll
    <2>5. ~alarm
        BY DEF ChainSound, HonestChainPasses
    <2> QED BY <2>3, <2>4, <2>5
<1>4. ChainLinked'
    BY <1>1, <1>2, ChainSame
<1>5. SequencesKnown'
    BY <1>1, <1>2 DEF SequencesKnown, At_pc, Anchored, server, disk
<1> QED BY <1>3, <1>4, <1>5 DEF ChainSound, HonestChainPasses

LEMMA ChainNext ==
    ASSUME WsTypeOK, SyncGoesOn, ChainSound, [WsNext]_wsVars
    PROVE  ChainSound'
<1>1. CASE \/ \E b \in Branches, d \in Docs, c \in Contents \cup {Gone} : OtherCommit(b, d, c)
           \/ \E b \in Topics : OtherMerge(b) \/ OtherRebase(b)
    BY <1>1, OtherSteps, ChainOther
<1>2. CASE \E d \in Docs, c \in Contents \cup {Gone} : Edit(d, c)
    BY <1>2, ChainEdit
<1>3. CASE \/ InitWorkspace \/ (\E b \in Branches : Checkout(b)) \/ (\E v \in BOOLEAN : Pull(v))
           \/ MergeToMain
    BY <1>3, ChainSyncs
<1>4. CASE \/ Archives \/ ArchiveListing \/ TreeListing \/ Downloads
           \/ RemoveDeleted \/ CheckoutNewConfig
    BY <1>4, ChainGoesOn
<1>5. CASE SaveSynced
    BY <1>5, ChainSaveSynced
<1>6. CASE VerifyPull \/ Verify
    BY <1>6, ChainVerifyPull, ChainVerify
<1>7. CASE CommitPost \/ (\E d \in Docs : Resolve(d))
    BY <1>7, ChainCommitPost
<1>8. CASE (\E b \in Topics : CheckoutNew(b)) \/ Merge \/ Rebase \/ RebaseConflict
    BY <1>8, ChainCheckoutNew, ChainMerge, ChainRebase, ChainRebaseConflict
<1>9. CASE Interrupt \/ CommitSave \/ SequenceSave
           \/ (\E d \in Docs : writeRebaseConflictFiles(d) \/ ResolveSave(d))
    BY <1>9, ChainSaves
<1>10. CASE UNCHANGED wsVars
    <2>1. UNCHANGED <<server, disk, cmd, alarm>>
        BY <1>10 DEF wsVars, history
    <2>2. ChainLinked'
        BY <2>1, ChainSame DEF ChainSound
    <2>3. SequencesKnown'
        BY <2>1 DEF ChainSound, SequencesKnown, At_pc, Anchored, server, disk
    <2> QED BY <2>1, <2>2, <2>3 DEF ChainSound, HonestChainPasses
<1> QED BY <1>1, <1>2, <1>3, <1>4, <1>5, <1>6, <1>7, <1>8, <1>9, <1>10
        DEF WsNext, Archives, Downloads

LEMMA PullsInit ==
    ASSUME WsInit
    PROVE  PullsSound
<1>1. /\ main.head = 1 /\ log = << [branch |-> "main", prev |-> 0] >> /\ cmd = Idle
      /\ settled = FALSE /\ alarm = FALSE
    BY DEF WsInit
<1>2. /\ Idle.pc = "idle" /\ Idle.old = NewState /\ Idle.seq = 0
      /\ NewState.seq = 0 /\ NewState.hash = NoHash
    BY DEF Idle, Command, NewState
<1>3. st.seq \in {0, 1} /\ st.hash = NoHash
    BY <1>2 DEF WsInit
<1>4. Len(log) = 1 /\ log[1].branch = "main" /\ log[1].prev = 0
    BY <1>1
<1>5. SyncSound
    BY <1>1, <1>2 DEF SyncSound, SyncGoesOn, SyncCatchesUp, SyncSteps, At_pc
<1>6. ChainLinked
    <2>1. \A b \in Topics : topic[b].head = 0 /\ topic[b].commits = 0
        BY DEF WsInit
    <2>2. 1..Len(log) = {1} /\ 1..(1 - 1) = {}
        BY <1>4
    <2>3. MaxIn({t \in 1..(1 - 1) : log[t].branch = "main"}) = 0
        BY <2>2 DEF MaxIn
    <2>4. "main" \notin Topics
        BY WorkspaceAssumption
    <2>5. \A s \in 1..Len(log) :
              /\ log[s].branch = "main" /\ s <= BranchHead("main")
              /\ log[s].prev = MaxIn({t \in 1..(s - 1) : log[t].branch = "main"})
        <3>1. BranchHead("main") = 1
            BY <1>1 DEF BranchHead
        <3> QED BY <1>4, <2>2, <2>3, <3>1
    <2>6. main.head <= Len(log) /\ \A b \in Topics : topic[b].head <= Len(log)
        BY <1>1, <1>4, <2>1
    <2> QED BY <2>1, <2>4, <2>5, <2>6 DEF ChainLinked
<1>7. SequencesKnown
    BY <1>1, <1>2, <1>3, <1>4 DEF SequencesKnown, At_pc
<1> QED BY <1>1, <1>5, <1>6, <1>7 DEF PullsSound, SyncSound, HonestChainPasses

LEMMA PullsStep ==
    ASSUME EditsKept, EditsKept', PullsSound, [WsNext]_wsVars
    PROVE  PullsSound'
<1>1. WsTypeOK /\ WsTypeOK' /\ SyncSound /\ ChainSound /\ SyncGoesOn
    BY DEF EditsKept, PullsSound, SyncSound, ChainSound
<1>2. SyncSound'
    BY <1>1, SyncStep
<1>3. ChainSound'
    BY <1>1, ChainNext
<1> QED BY <1>2, <1>3 DEF PullsSound, SyncSound, ChainSound

\* A pull or a checkout that nobody wrote under ends with state.json listing
\* the tree of its branch and the directory at that tree, but for the files
\* whose read failed, which are empty or missing; and the chain of the server
\* passes ds verify and the pull of an anchored workspace, whatever
\* other people commit, merge and rebase.
THEOREM PullsHold == WsSpec => []PullsSound
<1>1. WsInit => PullsSound
    BY PullsInit
<1>2. EditsKept /\ EditsKept' /\ PullsSound /\ [WsNext]_wsVars => PullsSound'
    BY PullsStep
<1> QED BY <1>1, <1>2, EditsHold, PTL DEF WsSpec

-----------------------------------------------------------------------------
(* The terminal interface.                                                 *)

\* The command that an Update returns joins the ones in the air.
LEMMA Started ==
    ASSUME NEW rest, NEW c, Start(rest, c)
    PROVE  \E m : air' = rest \cup {m} /\ m.kind = c.kind /\ m.arg = c.arg /\ forms' = forms
<1>1. PICK i : air' = rest \cup {[kind |-> c.kind, arg |-> c.arg, form |-> c.form, id |-> i]}
    BY DEF Start
<1>2. PICK m : m = [kind |-> c.kind, arg |-> c.arg, form |-> c.form, id |-> i]
    OBVIOUS
<1>3. air' = rest \cup {m} /\ m.kind = c.kind /\ m.arg = c.arg
    BY <1>1, <1>2
<1> QED BY <1>3 DEF Start

LEMMA ListRefreshKeeps ==
    ASSUME ScreensSound, ListRefresh
    PROVE  ScreensSound'
<1>1. /\ view = "branches" /\ view' = view /\ swallowed' = swallowed /\ UNCHANGED <<abandoned, doubled, mishit>>
      /\ list' = [list EXCEPT !.loading = TRUE] /\ UNCHANGED <<detail, issueList, issue>>
      /\ Start(air, Cmd("branches", None))
    BY DEF ListRefresh, SameScreen, NoGhost
<1>2. PICK m : air' = air \cup {m} /\ m.kind = "branches" /\ forms' = forms
    BY <1>1, Started DEF Cmd
<1>3. TuiTypeOK'
    BY <1>1, <1>2 DEF ScreensSound, TuiTypeOK, FormKinds, AirKinds
<1>4. FormsFit'
    BY <1>1, <1>2 DEF ScreensSound, FormsFit, ShownForm, FormKinds, TuiTypeOK
<1>5. NothingLeftWaiting'
    BY <1>1, <1>2 DEF ScreensSound, NothingLeftWaiting, InAir
<1> QED BY <1>1, <1>3, <1>4, <1>5 DEF ScreensSound, IssueActionOnShown, NoDoubleSubmit

LEMMA ListOpenKeeps ==
    ASSUME ScreensSound, NEW b \in TBranches, ListOpen(b)
    PROVE  ScreensSound'
<1>1. /\ view = "branches" /\ view' = "detail" /\ swallowed' = {} /\ UNCHANGED <<abandoned, doubled, mishit>>
      /\ detail' = newBranchDetailModel(b) /\ UNCHANGED <<list, issueList, issue>>
      /\ Start(air, LoadDetail(b))
    BY DEF ListOpen, Screen, NoGhost
<1>2. PICK m : air' = air \cup {m} /\ m.kind = "detail" /\ m.arg = b /\ forms' = forms
    BY <1>1, Started DEF LoadDetail, Cmd
<1>3. detail' = [branch |-> b, loading |-> TRUE, pending |-> FALSE, proposal |-> None,
                 merging |-> FALSE, confirm |-> FALSE, form |-> Closed]
    BY <1>1 DEF newBranchDetailModel, NoDetail
<1>4. Closed \in Forms({"review", "propose"}) /\ ~Closed.submitting
    BY DEF Closed, Forms
<1>5. TuiTypeOK'
    BY <1>1, <1>2, <1>3, <1>4 DEF ScreensSound, TuiTypeOK, FormKinds, AirKinds
<1>6. FormsFit'
    <2>1. abandoned \/ \A n \in air : n.kind \notin FormKinds
        BY <1>1, <1>4 DEF ScreensSound, FormsFit, ShownForm
    <2> QED BY <1>1, <1>2, <1>3, <1>4, <2>1 DEF ScreensSound, FormsFit, ShownForm, FormKinds
<1>7. NothingLeftWaiting'
    BY <1>1, <1>2, <1>3, <1>4 DEF NothingLeftWaiting, InAir
<1> QED BY <1>1, <1>5, <1>6, <1>7 DEF ScreensSound, IssueActionOnShown, NoDoubleSubmit

LEMMA ListIssuesKeeps ==
    ASSUME ScreensSound, ListIssues
    PROVE  ScreensSound'
<1>1. /\ view = "branches" /\ view' = "issues" /\ swallowed' = {} /\ UNCHANGED <<abandoned, doubled, mishit>>
      /\ issueList' = [loading |-> TRUE, rows |-> {}, filter |-> "open", form |-> Closed]
      /\ UNCHANGED <<list, detail, issue>> /\ Start(air, LoadIssueList("open"))
    BY DEF ListIssues, Screen, NoGhost, newIssueListModel
<1>2. PICK m : air' = air \cup {m} /\ m.kind = "issues" /\ forms' = forms
    BY <1>1, Started DEF LoadIssueList, Cmd
<1>4. Closed \in Forms({"create"}) /\ ~Closed.submitting
    BY DEF Closed, Forms
<1>5. TuiTypeOK'
    BY <1>1, <1>2, <1>4 DEF ScreensSound, TuiTypeOK, FormKinds, AirKinds, Filters
<1>6. FormsFit'
    <2>1. abandoned \/ \A n \in air : n.kind \notin FormKinds
        BY <1>1, <1>4 DEF ScreensSound, FormsFit, ShownForm
    <2> QED BY <1>1, <1>2, <1>4, <2>1 DEF ScreensSound, FormsFit, ShownForm, FormKinds
<1>7. NothingLeftWaiting'
    BY <1>1, <1>2, <1>4 DEF NothingLeftWaiting, InAir
<1> QED BY <1>1, <1>5, <1>6, <1>7 DEF ScreensSound, IssueActionOnShown, NoDoubleSubmit

\* No request of a form is out on a screen whose form is closed.
LEMMA NothingPosted ==
    ASSUME FormsFit, ShownForm = Closed \/ ~ShownForm.submitting, ~abandoned
    PROVE  \A n \in air : n.kind \notin FormKinds
BY DEF FormsFit, Closed

LEMMA DetailBackKeeps ==
    ASSUME ScreensSound, DetailBack
    PROVE  ScreensSound'
<1>1. /\ view = "detail" /\ detail.form = Closed
      /\ view' = "branches" /\ swallowed' = {} /\ UNCHANGED <<abandoned, doubled, mishit>>
      /\ detail' = [detail EXCEPT !.pending = FALSE] /\ UNCHANGED <<list, issueList, issue>>
      /\ Start(air, Cmd("branches", None))
    BY DEF DetailBack, DetailFree, Screen, NoGhost
<1>2. PICK m : air' = air \cup {m} /\ m.kind = "branches" /\ forms' = forms
    BY <1>1, Started DEF Cmd
<1>3. TuiTypeOK' /\ detail'.form = Closed
    BY <1>1, <1>2 DEF ScreensSound, TuiTypeOK, FormKinds, AirKinds
<1>4. FormsFit'
    <2>1. abandoned \/ \A n \in air : n.kind \notin FormKinds
        BY <1>1, NothingPosted DEF ScreensSound, ShownForm
    <2> QED BY <1>1, <1>2, <1>3, <2>1 DEF ScreensSound, FormsFit, ShownForm, FormKinds
<1>5. NothingLeftWaiting'
    BY <1>1, <1>2 DEF NothingLeftWaiting, InAir
<1> QED BY <1>1, <1>3, <1>4, <1>5 DEF ScreensSound, IssueActionOnShown, NoDoubleSubmit

DetailRecords ==
    [branch : TBranches \cup {None}, loading : BOOLEAN, pending : BOOLEAN,
     proposal : TBranches \cup {None}, merging : BOOLEAN, confirm : BOOLEAN,
     form : Forms({"review", "propose"})]

\* Keys on the branch screen that send a command and leave the form alone.
LEMMA DetailSends ==
    ASSUME ScreensSound, view = "detail", SameScreen, NoGhost, UNCHANGED <<list, issueList, issue>>,
           NEW c, Start(air, c), c.kind \in {"detail", "merge", "unpropose"},
           c.kind = "detail" => c.arg \in TBranches \cup {None},
           NEW d \in DetailRecords, detail' = d,
           d.form = detail.form, d.loading => detail.loading \/ c.kind = "detail",
           d.merging => detail.merging \/ c.kind = "merge", d.pending => detail.pending,
           d.confirm => d.form = Closed
    PROVE  ScreensSound'
<1>1. view' = view /\ swallowed' = swallowed /\ UNCHANGED <<abandoned, doubled, mishit>>
    BY DEF SameScreen, NoGhost
<1>2. PICK m : air' = air \cup {m} /\ m.kind = c.kind /\ m.arg = c.arg /\ forms' = forms
    BY Started
<1>3. TuiTypeOK'
    BY <1>1, <1>2 DEF ScreensSound, TuiTypeOK, FormKinds, AirKinds, DetailRecords
<1>4. FormsFit'
    BY <1>1, <1>2 DEF ScreensSound, FormsFit, ShownForm, FormKinds
<1>5. NothingLeftWaiting'
    BY <1>1, <1>2 DEF ScreensSound, NothingLeftWaiting, InAir, Took
<1> QED BY <1>1, <1>3, <1>4, <1>5 DEF ScreensSound, IssueActionOnShown, NoDoubleSubmit

LEMMA DetailRefreshKeeps ==
    ASSUME ScreensSound, DetailRefresh
    PROVE  ScreensSound'
<1>1. PICK d : d = [detail EXCEPT !.loading = TRUE]
    OBVIOUS
<1>2. detail \in DetailRecords
    BY DEF ScreensSound, TuiTypeOK, DetailRecords
<1>3. /\ d \in DetailRecords /\ d.form = detail.form /\ d.merging = detail.merging
      /\ d.pending = detail.pending /\ detail.branch \in TBranches \cup {None} /\ d.confirm = detail.confirm
    BY <1>1, <1>2 DEF DetailRecords
<1>4. PICK c : c = LoadDetail(detail.branch)
    OBVIOUS
<1>5. c.kind = "detail" /\ c.arg = detail.branch
    BY <1>4 DEF LoadDetail, Cmd
<1> QED BY <1>1, <1>3, <1>4, <1>5, DetailSends DEF DetailRefresh, DetailFree

LEMMA DetailCloseProposalKeeps ==
    ASSUME ScreensSound, DetailCloseProposal
    PROVE  ScreensSound'
<1>1. PICK c : c = Cmd("unpropose", detail.proposal)
    OBVIOUS
<1>2. c.kind = "unpropose" /\ detail \in DetailRecords
    BY <1>1 DEF Cmd, ScreensSound, TuiTypeOK, DetailRecords
<1> QED BY <1>1, <1>2, DetailSends DEF DetailCloseProposal, DetailFree

\* A step on the branch screen that sends nothing and leaves the form alone.
LEMMA DetailQuiet ==
    ASSUME ScreensSound, view = "detail", SameScreen, NoGhost, UNCHANGED <<list, issueList, issue>>,
           Quiet(air), NEW d \in DetailRecords, detail' = d,
           d.form = detail.form, d.loading = detail.loading,
           d.merging = detail.merging, d.pending = detail.pending,
           d.confirm => d.form = Closed
    PROVE  ScreensSound'
<1>1. /\ view' = view /\ swallowed' = swallowed /\ UNCHANGED <<abandoned, doubled, mishit>>
      /\ air' = air /\ forms' = forms
    BY DEF SameScreen, NoGhost, Quiet
<1>3. TuiTypeOK'
    BY <1>1 DEF ScreensSound, TuiTypeOK, DetailRecords
<1>4. FormsFit'
    BY <1>1 DEF ScreensSound, FormsFit, ShownForm
<1>5. NothingLeftWaiting'
    BY <1>1 DEF ScreensSound, NothingLeftWaiting, InAir, Took
<1> QED BY <1>1, <1>3, <1>4, <1>5 DEF ScreensSound, IssueActionOnShown, NoDoubleSubmit

LEMMA DetailMergeKeeps ==
    ASSUME ScreensSound, DetailMerge
    PROVE  ScreensSound'
<1>1. PICK d : d = [detail EXCEPT !.confirm = TRUE]
    OBVIOUS
<1>2. detail \in DetailRecords
    BY DEF ScreensSound, TuiTypeOK, DetailRecords
<1>3. /\ d \in DetailRecords /\ d.form = detail.form /\ d.merging = detail.merging
      /\ d.pending = detail.pending /\ d.loading = detail.loading
    BY <1>1, <1>2 DEF DetailRecords
<1> QED BY <1>1, <1>3, DetailQuiet DEF DetailMerge, DetailFree

LEMMA DetailConfirmKeeps ==
    ASSUME ScreensSound, NEW yes \in BOOLEAN, DetailConfirm(yes)
    PROVE  ScreensSound'
<1>1. PICK d : d = [detail EXCEPT !.confirm = FALSE, !.merging = yes \/ @]
    OBVIOUS
<1>2. detail \in DetailRecords
    BY DEF ScreensSound, TuiTypeOK, DetailRecords
<1>3. /\ d \in DetailRecords /\ d.form = detail.form /\ d.pending = detail.pending /\ ~d.confirm
      /\ d.loading = detail.loading /\ d.merging = (yes \/ detail.merging)
    BY <1>1, <1>2 DEF DetailRecords
<1>4. CASE yes
    <2>1. PICK c : c = Cmd("merge", detail.branch)
        OBVIOUS
    <2>2. c.kind = "merge"
        BY <2>1 DEF Cmd
    <2> QED BY <1>1, <1>3, <1>4, <2>1, <2>2, DetailSends DEF DetailConfirm
<1>5. CASE ~yes
    <2>1. d.merging = detail.merging
        BY <1>2, <1>3, <1>5 DEF DetailRecords
    <2> QED BY <1>1, <1>3, <1>5, <2>1, DetailQuiet DEF DetailConfirm
<1> QED BY <1>4, <1>5

LEMMA DetailFormKeeps ==
    ASSUME ScreensSound, NEW kind \in {"review", "propose"}, DetailForm(kind)
    PROVE  ScreensSound'
<1>1. PICK f : f = [kind |-> kind, id |-> forms + 1, submitting |-> FALSE, num |-> None]
    OBVIOUS
<1>2. PICK d : d = [detail EXCEPT !.form = f]
    OBVIOUS
<1>3. detail \in DetailRecords /\ f \in Forms({"review", "propose"}) /\ f.kind = kind /\ ~f.submitting
    BY <1>1 DEF ScreensSound, TuiTypeOK, DetailRecords, Forms
<1>4. /\ d \in DetailRecords /\ d.form = f /\ d.pending = detail.pending /\ d.confirm = detail.confirm
      /\ d.loading = detail.loading /\ d.merging = detail.merging
    BY <1>2, <1>3 DEF DetailRecords
<1>5. /\ view = "detail" /\ detail.form = Closed /\ ~detail.confirm /\ view' = view /\ swallowed' = swallowed
      /\ UNCHANGED <<abandoned, doubled, mishit>> /\ UNCHANGED <<list, issueList, issue>>
      /\ detail' = d /\ forms' = forms + 1 /\ air' = air
    BY <1>1, <1>2 DEF DetailForm, DetailFree, SameScreen, NoGhost, OpenForm, FormOpened
<1>6. TuiTypeOK'
    BY <1>4, <1>5 DEF ScreensSound, TuiTypeOK, DetailRecords
<1>7. FormsFit'
    <2>1. abandoned \/ \A n \in air : n.kind \notin FormKinds
        BY <1>5, NothingPosted DEF ScreensSound, ShownForm
    <2>2. f.kind # None
        BY <1>3, TuiAssumption DEF AirKinds, FormKinds
    <2> QED BY <1>4, <1>5, <2>1, <2>2 DEF ScreensSound, FormsFit
<1>8. NothingLeftWaiting'
    BY <1>3, <1>4, <1>5 DEF ScreensSound, NothingLeftWaiting, InAir, Took
<1> QED BY <1>5, <1>6, <1>7, <1>8 DEF ScreensSound, IssueActionOnShown, NoDoubleSubmit

IssueListRecords ==
    [loading : BOOLEAN, rows : SUBSET [num : TIssues, open : BOOLEAN],
     filter : Filters, form : Forms({"create"})]
IssueRecords ==
    [num : TIssues \cup {None}, open : BOOLEAN, loading : BOOLEAN, form : Forms({"comment", "close"})]

LEMMA IssueListFilterKeeps ==
    ASSUME ScreensSound, IssueListFilter
    PROVE  ScreensSound'
<1>1. PICK next : next = [f \in Filters |-> IF f = "open" THEN "closed" ELSE IF f = "closed" THEN "all" ELSE "open"]
    OBVIOUS
<1>2. issueList \in IssueListRecords
    BY DEF ScreensSound, TuiTypeOK, IssueListRecords
<1>3. PICK fl : fl = next[issueList.filter]
    OBVIOUS
<1>4. fl \in Filters
    BY <1>1, <1>2, <1>3 DEF Filters, IssueListRecords
<1>5. PICK l : l = [issueList EXCEPT !.filter = fl, !.loading = TRUE]
    OBVIOUS
<1>6. l \in IssueListRecords /\ l.form = issueList.form
    BY <1>2, <1>4, <1>5 DEF IssueListRecords
<1>7. /\ view = "issues" /\ view' = view /\ swallowed' = swallowed /\ UNCHANGED <<abandoned, doubled, mishit>>
      /\ issueList' = l /\ UNCHANGED <<list, detail, issue>> /\ Start(air, LoadIssueList(fl))
    BY <1>1, <1>3, <1>5 DEF IssueListFilter, IssueListFree, SameScreen, NoGhost, Filters
<1>8. PICK m : air' = air \cup {m} /\ m.kind = "issues" /\ forms' = forms
    BY <1>7, Started DEF LoadIssueList, Cmd
<1>9. TuiTypeOK'
    BY <1>6, <1>7, <1>8 DEF ScreensSound, TuiTypeOK, IssueListRecords, AirKinds
<1>10. FormsFit'
    BY <1>6, <1>7, <1>8 DEF ScreensSound, FormsFit, ShownForm, FormKinds
<1>11. NothingLeftWaiting'
    BY <1>6, <1>7, <1>8 DEF ScreensSound, NothingLeftWaiting, InAir, Took
<1> QED BY <1>7, <1>9, <1>10, <1>11 DEF ScreensSound, IssueActionOnShown, NoDoubleSubmit

LEMMA IssueListOpenKeeps ==
    ASSUME ScreensSound, NEW i \in issueList.rows, IssueListOpen(i)
    PROVE  ScreensSound'
<1>1. /\ view = "issues" /\ issueList.form = Closed /\ view' = "issue" /\ swallowed' = {}
      /\ UNCHANGED <<abandoned, doubled, mishit>> /\ UNCHANGED <<list, detail, issueList>>
      /\ issue' = [num |-> i.num, open |-> i.open, loading |-> TRUE, form |-> Closed]
      /\ Start(air, LoadIssue(i.num))
    BY DEF IssueListOpen, IssueListFree, Screen, NoGhost, newIssueDetailModel
<1>2. PICK m : air' = air \cup {m} /\ m.kind = "issue" /\ m.arg = i.num /\ forms' = forms
    BY <1>1, Started DEF LoadIssue, Cmd
<1>3. i \in [num : TIssues, open : BOOLEAN]
    BY DEF ScreensSound, TuiTypeOK
<1>4. Closed \in Forms({"comment", "close"}) /\ ~Closed.submitting /\ Closed.kind = None
    BY DEF Closed, Forms
<1>5. TuiTypeOK'
    BY <1>1, <1>2, <1>3, <1>4 DEF ScreensSound, TuiTypeOK, AirKinds
<1>6. FormsFit'
    <2>1. abandoned \/ \A n \in air : n.kind \notin FormKinds
        BY <1>1, NothingPosted DEF ScreensSound, ShownForm
    <2> QED BY <1>1, <1>2, <1>4, <2>1 DEF ScreensSound, FormsFit, ShownForm, FormKinds
<1>7. NothingLeftWaiting'
    BY <1>1, <1>2, <1>4 DEF NothingLeftWaiting, InAir
<1> QED BY <1>1, <1>5, <1>6, <1>7 DEF ScreensSound, IssueActionOnShown, NoDoubleSubmit

\* Back from a screen whose form is closed.
LEMMA BackKeeps ==
    ASSUME ScreensSound, IssueListBack \/ IssueBack
    PROVE  ScreensSound'
<1>1. /\ UNCHANGED <<abandoned, doubled, mishit>> /\ UNCHANGED <<list, detail, issueList, issue>> /\ swallowed' = {}
      /\ issueList.form = Closed /\ view \in {"issue", "issues"} /\ (view = "issue" => issue.form = Closed)
    BY DEF IssueListBack, IssueBack, IssueListFree, IssueFree, Screen, NoGhost, ScreensSound, FormsFit
<1>2. \E m : /\ air' = air \cup {m} /\ forms' = forms
             /\ \/ view = "issues" /\ view' = "branches" /\ m.kind = "branches"
                \/ view = "issue" /\ view' = "issues" /\ m.kind = "issues"
    <2>1. CASE IssueListBack
        <3>1. Start(air, Cmd("branches", None)) /\ view = "issues" /\ view' = "branches"
            BY <2>1 DEF IssueListBack, IssueListFree, Screen
        <3> QED BY <3>1, Started DEF Cmd
    <2>2. CASE IssueBack
        <3>1. Start(air, LoadIssueList(issueList.filter)) /\ view = "issue" /\ view' = "issues"
            BY <2>2 DEF IssueBack, IssueFree, Screen
        <3> QED BY <3>1, Started DEF Cmd, LoadIssueList
    <2> QED BY <2>1, <2>2
<1>3. PICK m : /\ air' = air \cup {m} /\ forms' = forms
               /\ \/ view = "issues" /\ view' = "branches" /\ m.kind = "branches"
                  \/ view = "issue" /\ view' = "issues" /\ m.kind = "issues"
    BY <1>2
<1>4. ~Closed.submitting
    BY DEF Closed
<1>5. TuiTypeOK'
    BY <1>1, <1>3 DEF ScreensSound, TuiTypeOK, AirKinds
<1>6. FormsFit'
    <2>1. ShownForm = Closed
        BY <1>1 DEF ShownForm
    <2>2. abandoned \/ \A n \in air : n.kind \notin FormKinds
        BY <2>1, NothingPosted DEF ScreensSound
    <2> QED BY <1>1, <1>3, <1>4, <2>2 DEF ScreensSound, FormsFit, FormKinds
<1>7. NothingLeftWaiting'
    BY <1>1, <1>3, <1>4 DEF NothingLeftWaiting, InAir
<1> QED BY <1>1, <1>5, <1>6, <1>7 DEF ScreensSound, IssueActionOnShown, NoDoubleSubmit

LEMMA IssueReopenKeeps ==
    ASSUME ScreensSound, IssueReopen
    PROVE  ScreensSound'
<1>1. /\ view = "issue" /\ view' = view /\ swallowed' = swallowed /\ UNCHANGED <<abandoned, doubled, mishit>>
      /\ UNCHANGED <<list, detail, issueList, issue>> /\ Start(air, Cmd("reopen", issue.num))
    BY DEF IssueReopen, IssueFree, SameScreen, NoGhost
<1>2. PICK m : air' = air \cup {m} /\ m.kind = "reopen" /\ forms' = forms
    BY <1>1, Started DEF Cmd
<1>3. TuiTypeOK'
    BY <1>1, <1>2 DEF ScreensSound, TuiTypeOK, AirKinds
<1>4. FormsFit'
    BY <1>1, <1>2 DEF ScreensSound, FormsFit, ShownForm, FormKinds
<1>5. NothingLeftWaiting'
    BY <1>1, <1>2 DEF ScreensSound, NothingLeftWaiting, InAir, Took
<1> QED BY <1>1, <1>3, <1>4, <1>5 DEF ScreensSound, IssueActionOnShown, NoDoubleSubmit

LEMMA IssueListNewKeeps ==
    ASSUME ScreensSound, IssueListNew
    PROVE  ScreensSound'
<1>1. PICK f : f = [kind |-> "create", id |-> forms + 1, submitting |-> FALSE, num |-> None]
    OBVIOUS
<1>2. PICK d : d = [issueList EXCEPT !.form = f]
    OBVIOUS
<1>3. issueList \in IssueListRecords /\ f \in Forms({"create"}) /\ f.kind = "create" /\ ~f.submitting
    BY <1>1 DEF ScreensSound, TuiTypeOK, IssueListRecords, Forms
<1>4. d \in IssueListRecords /\ d.form = f /\ d.loading = issueList.loading
    BY <1>2, <1>3 DEF IssueListRecords
<1>5. /\ view = "issues" /\ issueList.form = Closed /\ view' = view /\ swallowed' = swallowed
      /\ UNCHANGED <<abandoned, doubled, mishit>> /\ UNCHANGED <<list, detail, issue>>
      /\ issueList' = d /\ forms' = forms + 1 /\ air' = air
    BY <1>1, <1>2 DEF IssueListNew, IssueListFree, SameScreen, NoGhost, OpenForm, FormOpened
<1>6. TuiTypeOK'
    BY <1>4, <1>5 DEF ScreensSound, TuiTypeOK, IssueListRecords
<1>7. FormsFit'
    <2>1. abandoned \/ \A n \in air : n.kind \notin FormKinds
        BY <1>5, NothingPosted DEF ScreensSound, ShownForm
    <2>2. f.kind # None
        BY <1>3, TuiAssumption DEF AirKinds, FormKinds
    <2> QED BY <1>4, <1>5, <2>1, <2>2 DEF ScreensSound, FormsFit
<1>8. NothingLeftWaiting'
    BY <1>3, <1>4, <1>5 DEF ScreensSound, NothingLeftWaiting, InAir, Took
<1> QED BY <1>5, <1>6, <1>7, <1>8 DEF ScreensSound, IssueActionOnShown, NoDoubleSubmit

LEMMA IssueFormKeeps ==
    ASSUME ScreensSound, NEW kind \in {"comment", "close"}, IssueForm(kind)
    PROVE  ScreensSound'
<1>1. PICK f : f = [kind |-> kind, id |-> forms + 1, submitting |-> FALSE, num |-> issue.num]
    OBVIOUS
<1>2. PICK d : d = [issue EXCEPT !.form = f]
    OBVIOUS
<1>3. issue \in IssueRecords
    BY DEF ScreensSound, TuiTypeOK, IssueRecords
<1>4. f \in Forms({"comment", "close"}) /\ f.kind = kind /\ ~f.submitting /\ f.num = issue.num
    BY <1>1, <1>3 DEF ScreensSound, TuiTypeOK, IssueRecords, Forms
<1>5. d \in IssueRecords /\ d.form = f /\ d.loading = issue.loading /\ d.num = issue.num
    BY <1>2, <1>3, <1>4 DEF IssueRecords
<1>6. /\ view = "issue" /\ issue.form = Closed /\ view' = view /\ swallowed' = swallowed
      /\ UNCHANGED <<abandoned, doubled, mishit>> /\ UNCHANGED <<list, detail, issueList>>
      /\ issue' = d /\ forms' = forms + 1 /\ air' = air
    BY <1>1, <1>2 DEF IssueForm, IssueFree, SameScreen, NoGhost, OpenForm, FormOpened
<1>7. TuiTypeOK'
    BY <1>5, <1>6 DEF ScreensSound, TuiTypeOK, IssueRecords
<1>8. FormsFit'
    <2>1. abandoned \/ \A n \in air : n.kind \notin FormKinds
        BY <1>6, NothingPosted DEF ScreensSound, ShownForm
    <2>2. f.kind # None
        BY <1>4, TuiAssumption DEF AirKinds, FormKinds
    <2> QED BY <1>4, <1>5, <1>6, <2>1, <2>2 DEF ScreensSound, FormsFit
<1>9. NothingLeftWaiting'
    BY <1>4, <1>5, <1>6 DEF ScreensSound, NothingLeftWaiting, InAir, Took
<1> QED BY <1>6, <1>7, <1>8, <1>9 DEF ScreensSound, IssueActionOnShown, NoDoubleSubmit

\* Enter in the form shown: no earlier request of a form is out, unless one was
\* abandoned.
LEMMA Submitted ==
    ASSUME ScreensSound, NEW form, form = ShownForm, form.kind = None \/ form.kind \in FormKinds,
           NEW arg, Submit(form, arg)
    PROVE  /\ UNCHANGED <<view, swallowed, forms, abandoned>> /\ form.kind \in FormKinds
           /\ doubled' => abandoned'
           /\ \E m : air' = air \cup {m} /\ m.kind = form.kind
           /\ ~abandoned => \A n \in air : n.kind \notin FormKinds
<1>1. /\ form.kind # None /\ ~form.submitting /\ UNCHANGED <<view, swallowed, abandoned>>
      /\ Start(air, [kind |-> form.kind, arg |-> arg, form |-> form.id])
      /\ doubled' = (doubled \/ Posted(form))
    BY DEF Submit, MaySubmit, SameScreen
<1>2. \E m : air' = air \cup {m} /\ m.kind = form.kind /\ forms' = forms
    <2>1. PICK c : c = [kind |-> form.kind, arg |-> arg, form |-> form.id]
        OBVIOUS
    <2>2. c.kind = form.kind /\ Start(air, c)
        BY <1>1, <2>1
    <2> QED BY <2>2, Started
<1>3. ~abandoned => \A n \in air : n.kind \notin FormKinds
    BY <1>1, NothingPosted DEF ScreensSound
<1>4. Posted(form) => abandoned
    BY <1>1, <1>3 DEF Posted
<1>5. doubled' => abandoned'
    BY <1>1, <1>4, Zenon DEF ScreensSound, NoDoubleSubmit
<1> QED BY <1>1, <1>2, <1>3, <1>5

\* The form as Enter leaves it.
LEMMA FormSubmitting ==
    ASSUME NEW K, NEW f \in Forms(K), NEW g, g = [f EXCEPT !.submitting = TRUE]
    PROVE  g \in Forms(K) /\ g.kind = f.kind /\ g.num = f.num /\ g.submitting
BY DEF Forms

LEMMA DetailSubmitKeeps ==
    ASSUME ScreensSound, DetailSubmit
    PROVE  ScreensSound'
<1>1. detail \in DetailRecords /\ detail.form \in Forms({"review", "propose"})
    BY DEF ScreensSound, TuiTypeOK, DetailRecords
<1>2. detail.form.kind = None \/ detail.form.kind \in FormKinds
    BY <1>1 DEF Forms, FormKinds
<1>3. PICK f, g : f = detail.form /\ g = [f EXCEPT !.submitting = TRUE]
    OBVIOUS
<1>4. g \in Forms({"review", "propose"}) /\ g.kind = f.kind /\ g.submitting
    BY <1>1, <1>3, FormSubmitting
<1>5. PICK d : d = [detail EXCEPT !.form = g]
    OBVIOUS
<1>6. detail' = d /\ UNCHANGED <<mishit, list, issueList, issue>> /\ view = "detail" /\ Submit(f, detail.branch)
    BY <1>3, <1>5 DEF DetailSubmit
<1>7. f = ShownForm
    BY <1>3, <1>6 DEF ShownForm
<1>8. /\ UNCHANGED <<view, swallowed, forms, abandoned>> /\ f.kind \in FormKinds /\ (doubled' => abandoned')
      /\ \E m : air' = air \cup {m} /\ m.kind = f.kind
      /\ ~abandoned => \A n \in air : n.kind \notin FormKinds
    BY <1>2, <1>3, <1>6, <1>7, Submitted
<1>9. PICK m : air' = air \cup {m} /\ m.kind = f.kind
    BY <1>8
<1>10. /\ d \in DetailRecords /\ d.form = g /\ d.loading = detail.loading /\ d.confirm = detail.confirm
       /\ d.merging = detail.merging /\ d.pending = detail.pending
    BY <1>1, <1>4, <1>5 DEF DetailRecords
<1>11. m.kind \in {"review", "propose"} /\ g.kind # None
    BY <1>1, <1>3, <1>4, <1>8, <1>9, TuiAssumption DEF Forms, AirKinds
<1>12. TuiTypeOK'
    BY <1>6, <1>8, <1>9, <1>10, <1>11 DEF ScreensSound, TuiTypeOK, AirKinds, FormKinds, DetailRecords
<1>15. ~d.confirm
    BY <1>3, <1>4, <1>10, <1>11 DEF ScreensSound, FormsFit, Closed
<1>13. FormsFit'
    BY <1>4, <1>6, <1>8, <1>9, <1>10, <1>11, <1>15 DEF ScreensSound, FormsFit, ShownForm
<1>14. NothingLeftWaiting'
    BY <1>4, <1>6, <1>8, <1>9, <1>10 DEF ScreensSound, NothingLeftWaiting, InAir, Took
<1> QED BY <1>6, <1>8, <1>12, <1>13, <1>14 DEF ScreensSound, IssueActionOnShown, NoDoubleSubmit

LEMMA IssueListSubmitKeeps ==
    ASSUME ScreensSound, IssueListSubmit
    PROVE  ScreensSound'
<1>1. issueList \in IssueListRecords /\ issueList.form \in Forms({"create"})
    BY DEF ScreensSound, TuiTypeOK, IssueListRecords
<1>2. issueList.form.kind = None \/ issueList.form.kind \in FormKinds
    BY <1>1 DEF Forms, FormKinds
<1>3. PICK f, g : f = issueList.form /\ g = [f EXCEPT !.submitting = TRUE]
    OBVIOUS
<1>4. g \in Forms({"create"}) /\ g.kind = f.kind /\ g.submitting
    BY <1>1, <1>3, FormSubmitting
<1>5. PICK d : d = [issueList EXCEPT !.form = g]
    OBVIOUS
<1>6. issueList' = d /\ UNCHANGED <<mishit, list, detail, issue>> /\ view = "issues" /\ Submit(f, None)
    BY <1>3, <1>5 DEF IssueListSubmit
<1>7. f = ShownForm
    BY <1>3, <1>6 DEF ShownForm
<1>8. /\ UNCHANGED <<view, swallowed, forms, abandoned>> /\ f.kind \in FormKinds /\ (doubled' => abandoned')
      /\ \E m : air' = air \cup {m} /\ m.kind = f.kind
      /\ ~abandoned => \A n \in air : n.kind \notin FormKinds
    BY <1>2, <1>3, <1>6, <1>7, Submitted
<1>9. PICK m : air' = air \cup {m} /\ m.kind = f.kind
    BY <1>8
<1>10. d \in IssueListRecords /\ d.form = g /\ d.loading = issueList.loading
    BY <1>1, <1>4, <1>5 DEF IssueListRecords
<1>11. m.kind = "create" /\ g.kind # None
    BY <1>1, <1>3, <1>4, <1>8, <1>9, TuiAssumption DEF Forms, AirKinds
<1>12. TuiTypeOK'
    BY <1>6, <1>8, <1>9, <1>10, <1>11 DEF ScreensSound, TuiTypeOK, AirKinds, FormKinds, IssueListRecords
<1>13. FormsFit'
    BY <1>4, <1>6, <1>8, <1>9, <1>10, <1>11 DEF ScreensSound, FormsFit, ShownForm
<1>14. NothingLeftWaiting'
    BY <1>4, <1>6, <1>8, <1>9, <1>10 DEF ScreensSound, NothingLeftWaiting, InAir, Took
<1> QED BY <1>6, <1>8, <1>12, <1>13, <1>14 DEF ScreensSound, IssueActionOnShown, NoDoubleSubmit

LEMMA IssueSubmitKeeps ==
    ASSUME ScreensSound, IssueSubmit
    PROVE  ScreensSound'
<1>1. issue \in IssueRecords /\ issue.form \in Forms({"comment", "close"})
    BY DEF ScreensSound, TuiTypeOK, IssueRecords
<1>2. issue.form.kind = None \/ issue.form.kind \in FormKinds
    BY <1>1 DEF Forms, FormKinds
<1>3. PICK f, g : f = issue.form /\ g = [f EXCEPT !.submitting = TRUE]
    OBVIOUS
<1>4. g \in Forms({"comment", "close"}) /\ g.kind = f.kind /\ g.num = f.num /\ g.submitting
    BY <1>1, <1>3, FormSubmitting
<1>5. PICK d : d = [issue EXCEPT !.form = g]
    OBVIOUS
<1>6. /\ issue' = d /\ UNCHANGED <<list, detail, issueList>> /\ view = "issue" /\ Submit(f, issue.form.num)
      /\ mishit' = (mishit \/ issue.form.num # issue.num)
    BY <1>3, <1>5 DEF IssueSubmit
<1>7. f = ShownForm
    BY <1>3, <1>6 DEF ShownForm
<1>8. /\ UNCHANGED <<view, swallowed, forms, abandoned>> /\ f.kind \in FormKinds /\ (doubled' => abandoned')
      /\ \E m : air' = air \cup {m} /\ m.kind = f.kind
      /\ ~abandoned => \A n \in air : n.kind \notin FormKinds
    BY <1>2, <1>3, <1>6, <1>7, Submitted
<1>9. PICK m : air' = air \cup {m} /\ m.kind = f.kind
    BY <1>8
<1>10. d \in IssueRecords /\ d.form = g /\ d.loading = issue.loading /\ d.num = issue.num
    BY <1>1, <1>4, <1>5 DEF IssueRecords
<1>11. m.kind \in {"comment", "close"} /\ g.kind # None /\ f.kind # None
    BY <1>1, <1>3, <1>4, <1>8, <1>9, TuiAssumption DEF Forms, AirKinds
<1>12. TuiTypeOK'
    BY <1>6, <1>8, <1>9, <1>10, <1>11 DEF ScreensSound, TuiTypeOK, AirKinds, FormKinds, IssueRecords
<1>13. f.num = issue.num
    BY <1>3, <1>11 DEF ScreensSound, FormsFit
<1>14. FormsFit'
    BY <1>4, <1>6, <1>8, <1>9, <1>10, <1>11, <1>13 DEF ScreensSound, FormsFit, ShownForm
<1>15. NothingLeftWaiting'
    BY <1>4, <1>6, <1>8, <1>9, <1>10 DEF ScreensSound, NothingLeftWaiting, InAir, Took
<1>16. ~mishit'
    <2>1. issue.form.num = issue.num
        BY <1>3, <1>13
    <2> QED BY <1>6, <2>1, Zenon DEF ScreensSound, IssueActionOnShown
<1> QED BY <1>8, <1>12, <1>14, <1>15, <1>16 DEF ScreensSound, IssueActionOnShown, NoDoubleSubmit

\* Esc closes the form; a request that it had sent is abandoned.
LEMMA Escaped ==
    ASSUME ScreensSound, NEW form, form = ShownForm, Esc(form)
    PROVE  /\ UNCHANGED <<view, swallowed, forms, doubled, mishit, air>> /\ (abandoned => abandoned')
           /\ ~abandoned' => \A n \in air : n.kind \notin FormKinds
<1>1. /\ UNCHANGED <<view, swallowed, forms, doubled, mishit, air>>
      /\ abandoned' = (abandoned \/ form.submitting)
    BY DEF Esc, SameScreen, Quiet
<1>2. (abandoned => abandoned') /\ (~abandoned' => ~abandoned /\ ~form.submitting)
    BY <1>1, Zenon
<1>3. ~abandoned' => \A n \in air : n.kind \notin FormKinds
    BY <1>2, NothingPosted DEF ScreensSound
<1> QED BY <1>1, <1>2, <1>3

LEMMA EscKeeps ==
    ASSUME ScreensSound, DetailEsc \/ IssueListEsc \/ IssueEsc
    PROVE  ScreensSound'
<1>0. /\ \A K : Closed \in Forms(K)
      /\ Closed.kind = None /\ ~Closed.submitting
    BY DEF Closed, Forms
<1>1. CASE DetailEsc
    <2>1. detail \in DetailRecords
        BY DEF ScreensSound, TuiTypeOK, DetailRecords
    <2>2. PICK d : d = [detail EXCEPT !.form = Closed]
        OBVIOUS
    <2>3. d \in DetailRecords /\ d.form = Closed /\ d.loading = detail.loading
          /\ d.merging = detail.merging /\ d.pending = detail.pending
        BY <1>0, <2>1, <2>2 DEF DetailRecords
    <2>4. detail' = d /\ view = "detail" /\ UNCHANGED <<list, issueList, issue>> /\ Esc(detail.form)
        BY <1>1, <2>2 DEF DetailEsc
    <2>5. /\ UNCHANGED <<view, swallowed, forms, doubled, mishit, air>> /\ (abandoned => abandoned')
          /\ ~abandoned' => \A n \in air : n.kind \notin FormKinds
        BY <2>4, Escaped DEF ShownForm
    <2>6. TuiTypeOK'
        BY <2>3, <2>4, <2>5 DEF ScreensSound, TuiTypeOK, DetailRecords
    <2>7. FormsFit'
        BY <2>3, <2>4, <2>5 DEF ScreensSound, FormsFit
    <2>8. NothingLeftWaiting'
        BY <1>0, <2>3, <2>4, <2>5 DEF ScreensSound, NothingLeftWaiting, InAir, Took
    <2> QED BY <2>5, <2>6, <2>7, <2>8 DEF ScreensSound, IssueActionOnShown, NoDoubleSubmit
<1>2. CASE IssueListEsc
    <2>1. issueList \in IssueListRecords
        BY DEF ScreensSound, TuiTypeOK, IssueListRecords
    <2>2. PICK d : d = [issueList EXCEPT !.form = Closed]
        OBVIOUS
    <2>3. d \in IssueListRecords /\ d.form = Closed /\ d.loading = issueList.loading
        BY <1>0, <2>1, <2>2 DEF IssueListRecords
    <2>4. issueList' = d /\ view = "issues" /\ UNCHANGED <<list, detail, issue>> /\ Esc(issueList.form)
        BY <1>2, <2>2 DEF IssueListEsc
    <2>5. /\ UNCHANGED <<view, swallowed, forms, doubled, mishit, air>> /\ (abandoned => abandoned')
          /\ ~abandoned' => \A n \in air : n.kind \notin FormKinds
        BY <2>4, Escaped DEF ShownForm
    <2>6. TuiTypeOK'
        BY <2>3, <2>4, <2>5 DEF ScreensSound, TuiTypeOK, IssueListRecords
    <2>7. FormsFit'
        BY <2>3, <2>4, <2>5 DEF ScreensSound, FormsFit
    <2>8. NothingLeftWaiting'
        BY <1>0, <2>3, <2>4, <2>5 DEF ScreensSound, NothingLeftWaiting, InAir, Took
    <2> QED BY <2>5, <2>6, <2>7, <2>8 DEF ScreensSound, IssueActionOnShown, NoDoubleSubmit
<1>3. CASE IssueEsc
    <2>1. issue \in IssueRecords
        BY DEF ScreensSound, TuiTypeOK, IssueRecords
    <2>2. PICK d : d = [issue EXCEPT !.form = Closed]
        OBVIOUS
    <2>3. d \in IssueRecords /\ d.form = Closed /\ d.loading = issue.loading
        BY <1>0, <2>1, <2>2 DEF IssueRecords
    <2>4. issue' = d /\ view = "issue" /\ UNCHANGED <<list, detail, issueList>> /\ Esc(issue.form)
        BY <1>3, <2>2 DEF IssueEsc
    <2>5. /\ UNCHANGED <<view, swallowed, forms, doubled, mishit, air>> /\ (abandoned => abandoned')
          /\ ~abandoned' => \A n \in air : n.kind \notin FormKinds
        BY <2>4, Escaped DEF ShownForm
    <2>6. TuiTypeOK'
        BY <2>3, <2>4, <2>5 DEF ScreensSound, TuiTypeOK, IssueRecords
    <2>7. FormsFit'
        BY <1>0, <2>3, <2>4, <2>5 DEF ScreensSound, FormsFit
    <2>8. NothingLeftWaiting'
        BY <1>0, <2>3, <2>4, <2>5 DEF ScreensSound, NothingLeftWaiting, InAir, Took
    <2> QED BY <2>5, <2>6, <2>7, <2>8 DEF ScreensSound, IssueActionOnShown, NoDoubleSubmit
<1> QED BY <1>1, <1>2, <1>3

\* What a result says: the kind of its command, and data of that kind.
Answer(r) ==
    /\ r.kind \in AirKinds /\ r.err \in BOOLEAN
    /\ ~r.err =>
          /\ r.kind = "branches" => r.data \subseteq TBranches
          /\ r.kind = "detail" => r.data.pending \in BOOLEAN /\ r.data.proposal \in TBranches \cup {None}
          /\ r.kind = "issues" => r.data \subseteq [num : TIssues, open : BOOLEAN]
          /\ r.kind = "issue" => r.data.num \in TIssues \cup {None} /\ r.data.open \in BOOLEAN

LEMMA ResultsAnswer ==
    ASSUME TuiTypeOK, NEW m \in air, NEW r \in Results(m)
    PROVE  Answer(r) /\ r.kind = m.kind
<1>0. /\ m.kind \in AirKinds
      /\ m.kind = "detail" => m.arg \in TBranches \cup {None}
      /\ m.kind = "issue" => m.arg \in TIssues \cup {None}
    BY DEF TuiTypeOK
<1>1. CASE r = [kind |-> m.kind, err |-> TRUE, data |-> None]
    BY <1>0, <1>1 DEF Answer
<1>2. ASSUME r # [kind |-> m.kind, err |-> TRUE, data |-> None]
      PROVE  Answer(r) /\ r.kind = m.kind
    <2>1. CASE m.kind = "branches"
        <3>1. r = [kind |-> m.kind, err |-> FALSE, data |-> TBranches]
            BY <1>2, <2>1 DEF Results, loadBranches, Ok
        <3> QED BY <1>0, <2>1, <3>1 DEF Answer
    <2>2. CASE m.kind = "detail"
        <3>1. r \in loadBranchDetail(m)
            BY <1>2, <2>2 DEF Results
        <3>2. PICK p \in BOOLEAN, q \in {None, m.arg} : r = Ok(m, [pending |-> p, proposal |-> q])
            BY <3>1 DEF loadBranchDetail
        <3> QED BY <1>0, <2>2, <3>2 DEF Answer, Ok
    <2>3. CASE m.kind = "issues"
        <3>1. r \in loadIssues(m)
            BY <1>2, <2>3 DEF Results
        <3>2. PICK S \in SUBSET TIssues, o \in Listed(m.arg) : r = Ok(m, {[num |-> n, open |-> o] : n \in S})
            BY <3>1 DEF loadIssues
        <3>3. o \in BOOLEAN
            BY <3>2 DEF Listed
        <3>4. {[num |-> n, open |-> o] : n \in S} \subseteq [num : TIssues, open : BOOLEAN]
            BY <3>2, <3>3
        <3> QED BY <1>0, <2>3, <3>2, <3>4 DEF Answer, Ok
    <2>4. CASE m.kind = "issue"
        <3>1. r \in loadIssueDetail(m)
            BY <1>2, <2>4 DEF Results
        <3>2. PICK o \in BOOLEAN : r = Ok(m, [num |-> m.arg, open |-> o])
            BY <3>1 DEF loadIssueDetail
        <3> QED BY <1>0, <2>4, <3>2 DEF Answer, Ok
    <2>5. CASE m.kind \notin {"branches", "detail", "issues", "issue"}
        <3>1. r = Ok(m, None)
            BY <1>0, <1>2, <2>5 DEF Results, AirKinds, FormKinds, mergeBranch, submitReview, openProposal,
               closeProposal, createIssueCmd, closeIssueCmd, reopenIssueCmd, createIssueCommentCmd, checkRefreshTick
        <3> QED BY <1>0, <2>5, <3>1 DEF Answer, Ok
    <2> QED BY <2>1, <2>2, <2>3, <2>4, <2>5
<1> QED BY <1>1, <1>2

\* A result that the open form or the merge prompt takes.
LEMMA IgnoredKeeps ==
    ASSUME ScreensSound, NEW m \in air, NEW r, r.kind = m.kind, Ignored(r, air \ {m}),
           ShownForm.submitting => ShownForm.kind # m.kind, view # "branches",
           UNCHANGED <<abandoned, doubled, mishit>>
    PROVE  ScreensSound'
<1>1. /\ air' = air \ {m} /\ forms' = forms /\ swallowed' = swallowed \cup {m.kind}
      /\ UNCHANGED <<view, list, detail, issueList, issue>>
    BY DEF Ignored, Quiet, screens
<1>2. TuiTypeOK'
    BY <1>1 DEF ScreensSound, TuiTypeOK
<1>3. FormsFit'
    BY <1>1 DEF ScreensSound, FormsFit, ShownForm
<1>4. NothingLeftWaiting'
    BY <1>1 DEF ScreensSound, NothingLeftWaiting, InAir, Took, ShownForm
<1> QED BY <1>1, <1>2, <1>3, <1>4 DEF ScreensSound, IssueActionOnShown, NoDoubleSubmit

LEMMA BranchListResultKeeps ==
    ASSUME ScreensSound, NEW m \in air, NEW r, Answer(r), r.kind = m.kind, view = "branches",
           BranchListResult(r, air \ {m}), UNCHANGED <<abandoned, doubled, mishit>>
    PROVE  ScreensSound'
<1>1. /\ air' = air \ {m} /\ forms' = forms /\ swallowed' = swallowed
      /\ UNCHANGED <<view, detail, issueList, issue>>
      /\ list' = IF r.kind # "branches" THEN list ELSE [loading |-> FALSE, rows |-> IF r.err THEN {} ELSE r.data]
    BY DEF BranchListResult, Quiet
<1>2. TuiTypeOK'
    BY <1>1 DEF ScreensSound, TuiTypeOK, Answer
<1>3. FormsFit'
    BY <1>1 DEF ScreensSound, FormsFit, ShownForm
<1>4. NothingLeftWaiting'
    BY <1>1 DEF ScreensSound, NothingLeftWaiting, InAir
<1> QED BY <1>1, <1>2, <1>3, <1>4 DEF ScreensSound, IssueActionOnShown, NoDoubleSubmit

\* The request of a form that is answered was the only one out.
LEMMA AnsweredWasLast ==
    ASSUME FormsFit, NEW m \in air, m.kind \in FormKinds, ~abandoned
    PROVE  \A n \in air \ {m} : n.kind \notin FormKinds
BY DEF FormsFit

\* The branch screen after the answer m: it sends the commands of N.
LEMMA DetailAfter ==
    ASSUME ScreensSound, view = "detail", NEW m \in air, NEW N, air' = (air \ {m}) \cup N,
           \A n \in N : n.kind \in {"detail", "tick"} /\ n.arg \in TBranches \cup {None},
           UNCHANGED <<view, list, issueList, issue, swallowed, forms, abandoned, doubled, mishit>>,
           NEW d \in DetailRecords, detail' = d,
           d.form.kind = None => d.form = Closed, d.confirm => d.form = Closed,
           m.kind \notin FormKinds => d.form = detail.form,
           d.form.submitting => d.form = detail.form /\ m.kind # d.form.kind,
           d.loading => (\E n \in N : n.kind = "detail") \/ (detail.loading /\ m.kind # "detail"),
           d.merging => detail.merging /\ m.kind # "merge",
           d.pending => N # {} \/ (detail.pending /\ m.kind \notin {"tick", "detail"})
    PROVE  ScreensSound'
<1>1. TuiTypeOK'
    BY DEF ScreensSound, TuiTypeOK, DetailRecords, AirKinds
<1>2. ASSUME ~abandoned, NEW k \in air', k.kind \in FormKinds
      PROVE  d.form.submitting /\ \A n \in air' : n.kind \in FormKinds => n = k
    <2>1. k \in air \ {m} /\ \A n \in N : n.kind \notin FormKinds
        BY <1>2 DEF FormKinds
    <2>2. m.kind \notin FormKinds
        BY <1>2, <2>1, AnsweredWasLast DEF ScreensSound
    <2>3. detail.form.submitting /\ \A n \in air : n.kind \in FormKinds => n = k
        BY <1>2, <2>1 DEF ScreensSound, FormsFit, ShownForm
    <2> QED BY <2>1, <2>2, <2>3
<1>3. FormsFit'
    BY <1>2 DEF ScreensSound, FormsFit, ShownForm
<1>4. NothingLeftWaiting'
    <2>1. d.loading => InAir({"detail"})' \/ Took({"detail"})'
        BY DEF ScreensSound, NothingLeftWaiting, InAir, Took
    <2>2. d.merging => InAir({"merge"})' \/ Took({"merge"})'
        BY DEF ScreensSound, NothingLeftWaiting, InAir, Took
    <2>3. d.pending => InAir({"tick", "detail"})' \/ Took({"tick", "detail"})'
        BY DEF ScreensSound, NothingLeftWaiting, InAir, Took
    <2>4. d.form.submitting => \E n \in air' : n.kind = d.form.kind
        BY DEF ScreensSound, NothingLeftWaiting, InAir
    <2> QED BY <2>1, <2>2, <2>3, <2>4 DEF NothingLeftWaiting, InAir, Took
<1> QED BY <1>1, <1>3, <1>4 DEF ScreensSound, IssueActionOnShown, NoDoubleSubmit

\* The form after a failure is open for a retry.
LEMMA FormFailed ==
    ASSUME NEW K, NEW f \in Forms(K)
    PROVE  Failed(f) \in Forms(K) /\ Failed(f).kind = f.kind /\ Failed(f).num = f.num /\ ~Failed(f).submitting
<1>1. PICK g : g = [f EXCEPT !.submitting = FALSE]
    OBVIOUS
<1>2. g \in Forms(K) /\ g.kind = f.kind /\ g.num = f.num /\ ~g.submitting
    BY <1>1 DEF Forms
<1> QED BY <1>1, <1>2 DEF Failed

LEMMA DetailResultKeeps ==
    ASSUME ScreensSound, NEW m \in air, NEW r, Answer(r), r.kind = m.kind, view = "detail",
           DetailResult(r, air \ {m}), UNCHANGED <<abandoned, doubled, mishit>>
    PROVE  ScreensSound'
<1>0. detail \in DetailRecords /\ detail.form \in Forms({"review", "propose"}) /\ detail.branch \in TBranches \cup {None}
    BY DEF ScreensSound, TuiTypeOK, DetailRecords
<1>k. m.kind \in AirKinds /\ m.kind # None
    BY TuiAssumption DEF Answer
<1>c. Closed \in Forms({"review", "propose"}) /\ Closed.kind = None /\ ~Closed.submitting
    BY DEF Closed, Forms
<1>f. /\ detail.form.kind = None => detail.form = Closed
      /\ detail.confirm => detail.form = Closed
    BY DEF ScreensSound, FormsFit
<1>1. CASE Swallows(detail.form, r) \/ (detail.confirm /\ r.kind # "merge")
    <2>1. Ignored(r, air \ {m})
        BY <1>1 DEF DetailResult
    <2>2. ShownForm = detail.form
        BY DEF ShownForm
    <2>3. detail.form.submitting => detail.form.kind # m.kind
        BY <1>1, <1>c, <1>f DEF Swallows
    <2> QED BY <2>1, <2>2, <2>3, IgnoredKeeps
<1>2. CASE ~Swallows(detail.form, r) /\ ~(detail.confirm /\ r.kind # "merge")
    <2>0. /\ UNCHANGED <<view, list, issueList, issue, swallowed>>
          /\ detail.form.kind = None \/ detail.form.kind = m.kind
        BY <1>2 DEF DetailResult, Swallows
    <2>r. ASSUME detail' = [detail EXCEPT !.loading = TRUE, !.form = Closed],
                 Start(air \ {m}, LoadDetail(detail.branch)),
                 m.kind \in FormKinds \/ detail.form = Closed, m.kind # "merge"
          PROVE  ScreensSound'
        <3>1. PICK n : air' = (air \ {m}) \cup {n} /\ n.kind = "detail" /\ n.arg = detail.branch /\ forms' = forms
            BY <2>r, Started DEF LoadDetail, Cmd
        <3>2. PICK d : d = [detail EXCEPT !.loading = TRUE, !.form = Closed]
            OBVIOUS
        <3>3. d \in DetailRecords /\ d.form = Closed /\ d.merging = detail.merging
            BY <1>0, <1>c, <3>2 DEF DetailRecords
        <3>4. PICK N : N = {n}
            OBVIOUS
        <3>5. /\ air' = (air \ {m}) \cup N /\ detail' = d /\ \E k \in N : k.kind = "detail"
              /\ \A k \in N : k.kind \in {"detail", "tick"} /\ k.arg \in TBranches \cup {None}
            BY <1>0, <2>r, <3>1, <3>2, <3>4
        <3>6. m.kind \notin FormKinds => d.form = detail.form
            BY <2>r, <3>3
        <3> QED BY <1>c, <2>0, <2>r, <3>1, <3>3, <3>5, <3>6, DetailAfter
    <2>1. CASE r.kind = detail.form.kind
        <3>0. m.kind \in {"review", "propose"} /\ m.kind \in FormKinds
            BY <1>0, <1>k, <2>1 DEF Forms, FormKinds
        <3>1. CASE r.err
            <4>1. detail' = [detail EXCEPT !.form = Failed(detail.form)] /\ air' = air \ {m} /\ forms' = forms
                BY <1>2, <2>1, <3>1 DEF DetailResult, Quiet
            <4>2. PICK f : f = Failed(detail.form)
                OBVIOUS
            <4>3. f \in Forms({"review", "propose"}) /\ f.kind = detail.form.kind /\ ~f.submitting
                BY <1>0, <4>2, FormFailed
            <4>4. PICK d : d = [detail EXCEPT !.form = f]
                OBVIOUS
            <4>5. /\ d \in DetailRecords /\ d.form = f /\ d.merging = detail.merging /\ d.loading = detail.loading
                  /\ d.pending = detail.pending /\ d.confirm = detail.confirm
                BY <1>0, <4>3, <4>4 DEF DetailRecords
            <4>6. PICK N : N = {}
                OBVIOUS
            <4>7. ~d.confirm /\ d.form.kind # None
                BY <1>c, <1>f, <1>k, <2>1, <4>3, <4>5
            <4>8. air' = (air \ {m}) \cup N /\ detail' = d
                BY <4>1, <4>2, <4>4, <4>6
            <4> QED BY <2>0, <3>0, <4>1, <4>3, <4>5, <4>6, <4>7, <4>8, DetailAfter
        <3>2. CASE ~r.err
            BY <1>2, <2>1, <2>r, <3>0, <3>2 DEF DetailResult
        <3> QED BY <3>1, <3>2
    <2>2. CASE r.kind # detail.form.kind
        <3>0. detail.form = Closed
            BY <1>f, <2>0, <2>2
        <3>1. CASE r.kind = "tick" /\ detail.pending
            BY <1>2, <2>2, <2>r, <3>0, <3>1 DEF DetailResult
        <3>2. CASE r.kind = "unpropose" /\ ~r.err
            BY <1>2, <2>2, <2>r, <3>0, <3>2 DEF DetailResult
        <3>3. CASE r.kind = "detail"
            <4>1. PICK e : e = IF r.err THEN detail
                        ELSE [detail EXCEPT !.pending = r.data.pending, !.proposal = r.data.proposal]
                OBVIOUS
            <4>2. e \in DetailRecords /\ e.form = detail.form /\ e.merging = detail.merging /\ e.confirm = detail.confirm
                <5>1. CASE r.err
                    BY <1>0, <4>1, <5>1
                <5>2. CASE ~r.err
                    <6>1. r.data.pending \in BOOLEAN /\ r.data.proposal \in TBranches \cup {None}
                        BY <3>3, <5>2 DEF Answer
                    <6>2. e = [detail EXCEPT !.pending = r.data.pending, !.proposal = r.data.proposal]
                        BY <4>1, <5>2
                    <6> QED BY <1>0, <6>1, <6>2 DEF DetailRecords
                <5> QED BY <5>1, <5>2
            <4>3. detail' = [e EXCEPT !.loading = FALSE] /\ scheduleCheckRefresh(e, r, air \ {m})
                BY <1>2, <2>2, <3>3, <4>1 DEF DetailResult
            <4>4. PICK d : d = [e EXCEPT !.loading = FALSE]
                OBVIOUS
            <4>5. /\ d \in DetailRecords /\ d.form = e.form /\ d.merging = e.merging /\ ~d.loading
                  /\ d.pending = e.pending /\ d.confirm = e.confirm
                BY <4>2, <4>4 DEF DetailRecords
            <4>6. \E N : /\ air' = (air \ {m}) \cup N /\ forms' = forms /\ (e.pending => N # {})
                         /\ \A n \in N : n.kind \in {"detail", "tick"} /\ n.arg \in TBranches \cup {None}
                <5>1. CASE e.pending
                    <6>1. Start(air \ {m}, Cmd("tick", None))
                        BY <4>3, <5>1 DEF scheduleCheckRefresh
                    <6>2. PICK n : air' = (air \ {m}) \cup {n} /\ n.kind = "tick" /\ n.arg = None /\ forms' = forms
                        BY <6>1, Started DEF Cmd
                    <6> WITNESS {n}
                    <6> QED BY <6>2
                <5>2. CASE ~e.pending
                    <6>1. air' = air \ {m} /\ forms' = forms
                        BY <4>3, <5>2 DEF scheduleCheckRefresh, Quiet
                    <6>2. PICK N : N = {}
                        OBVIOUS
                    <6> QED BY <5>2, <6>1, <6>2
                <5> QED BY <5>1, <5>2
            <4>7. PICK N : /\ air' = (air \ {m}) \cup N /\ forms' = forms /\ (e.pending => N # {})
                           /\ \A n \in N : n.kind \in {"detail", "tick"} /\ n.arg \in TBranches \cup {None}
                BY <4>6
            <4>8. m.kind = "detail" /\ detail' = d
                BY <3>3, <4>3, <4>4
            <4>9. d.form = Closed
                BY <3>0, <4>2, <4>5
            <4>10. d.merging => detail.merging
                BY <4>2, <4>5
            <4> QED BY <1>c, <2>0, <3>0, <4>2, <4>5, <4>7, <4>8, <4>9, <4>10, DetailAfter
        <3>4. CASE /\ ~(r.kind = "tick" /\ detail.pending) /\ ~(r.kind = "unpropose" /\ ~r.err)
                   /\ r.kind # "detail"
            <4>1. /\ detail' = IF r.kind = "merge" THEN [detail EXCEPT !.merging = FALSE] ELSE detail
                  /\ air' = air \ {m} /\ forms' = forms
                BY <1>2, <2>2, <3>4 DEF DetailResult, Quiet
            <4>2. PICK d : d = IF r.kind = "merge" THEN [detail EXCEPT !.merging = FALSE] ELSE detail
                OBVIOUS
            <4>3. /\ d \in DetailRecords /\ d.form = detail.form /\ d.loading = detail.loading
                  /\ d.pending = detail.pending /\ d.confirm = detail.confirm
                  /\ d.merging => detail.merging /\ m.kind # "merge"
                <5>1. CASE r.kind = "merge"
                    BY <1>0, <4>2, <5>1 DEF DetailRecords
                <5>2. CASE r.kind # "merge"
                    BY <1>0, <4>2, <5>2
                <5> QED BY <5>1, <5>2
            <4>4. PICK N : N = {}
                OBVIOUS
            <4>5. air' = (air \ {m}) \cup N /\ detail' = d
                BY <4>1, <4>2, <4>4
            <4> QED BY <1>c, <2>0, <3>0, <3>4, <4>1, <4>3, <4>4, <4>5, DetailAfter
        <3> QED BY <3>1, <3>2, <3>3, <3>4
    <2> QED BY <2>1, <2>2
<1> QED BY <1>1, <1>2

\* The list of issues after the answer m: it sends the commands of N.
LEMMA IssueListAfter ==
    ASSUME ScreensSound, view = "issues", NEW m \in air, NEW N, air' = (air \ {m}) \cup N,
           \A n \in N : n.kind = "issues",
           UNCHANGED <<view, list, detail, issue, swallowed, forms, abandoned, doubled, mishit>>,
           NEW d \in IssueListRecords, issueList' = d,
           d.form.kind = None => d.form = Closed,
           m.kind \notin FormKinds => d.form = issueList.form,
           d.form.submitting => d.form = issueList.form /\ m.kind # d.form.kind,
           d.loading => N # {} \/ (issueList.loading /\ m.kind # "issues")
    PROVE  ScreensSound'
<1>1. TuiTypeOK'
    BY DEF ScreensSound, TuiTypeOK, IssueListRecords, AirKinds
<1>2. ASSUME ~abandoned, NEW k \in air', k.kind \in FormKinds
      PROVE  d.form.submitting /\ \A n \in air' : n.kind \in FormKinds => n = k
    <2>1. k \in air \ {m} /\ \A n \in N : n.kind \notin FormKinds
        BY <1>2 DEF FormKinds
    <2>2. m.kind \notin FormKinds
        BY <1>2, <2>1, AnsweredWasLast DEF ScreensSound
    <2>3. issueList.form.submitting /\ \A n \in air : n.kind \in FormKinds => n = k
        BY <1>2, <2>1 DEF ScreensSound, FormsFit, ShownForm
    <2> QED BY <2>1, <2>2, <2>3
<1>3. FormsFit'
    BY <1>2 DEF ScreensSound, FormsFit, ShownForm
<1>4. NothingLeftWaiting'
    <2>1. d.loading => InAir({"issues"})' \/ Took({"issues"})'
        BY DEF ScreensSound, NothingLeftWaiting, InAir, Took
    <2>2. d.form.submitting => \E n \in air' : n.kind = d.form.kind
        BY DEF ScreensSound, NothingLeftWaiting, InAir
    <2> QED BY <2>1, <2>2 DEF NothingLeftWaiting, InAir, Took
<1> QED BY <1>1, <1>3, <1>4 DEF ScreensSound, IssueActionOnShown, NoDoubleSubmit

LEMMA IssueListResultKeeps ==
    ASSUME ScreensSound, NEW m \in air, NEW r, Answer(r), r.kind = m.kind, view = "issues",
           IssueListResult(r, air \ {m}), UNCHANGED <<abandoned, doubled, mishit>>
    PROVE  ScreensSound'
<1>0. issueList \in IssueListRecords /\ issueList.form \in Forms({"create"})
    BY DEF ScreensSound, TuiTypeOK, IssueListRecords
<1>k. m.kind \in AirKinds /\ m.kind # None
    BY TuiAssumption DEF Answer
<1>c. Closed \in Forms({"create"}) /\ Closed.kind = None /\ ~Closed.submitting
    BY DEF Closed, Forms
<1>f. issueList.form.kind = None => issueList.form = Closed
    BY DEF ScreensSound, FormsFit
<1>1. CASE Swallows(issueList.form, r)
    <2>1. Ignored(r, air \ {m}) /\ ShownForm = issueList.form /\ issueList.form.kind # m.kind
        BY <1>1 DEF IssueListResult, ShownForm, Swallows
    <2> QED BY <2>1, IgnoredKeeps
<1>2. CASE ~Swallows(issueList.form, r)
    <2>0. /\ UNCHANGED <<view, list, detail, issue, swallowed>>
          /\ issueList.form.kind = None \/ issueList.form.kind = m.kind
        BY <1>2 DEF IssueListResult, Swallows
    <2>1. CASE r.kind = issueList.form.kind /\ r.err
        <3>0. m.kind \in FormKinds
            BY <1>0, <1>k, <2>1 DEF Forms, FormKinds
        <3>1. PICK f, d, N : f = Failed(issueList.form) /\ d = [issueList EXCEPT !.form = f] /\ N = {}
            OBVIOUS
        <3>2. f \in Forms({"create"}) /\ f.kind = issueList.form.kind /\ ~f.submitting
            BY <1>0, <3>1, FormFailed
        <3>3. d \in IssueListRecords /\ d.form = f /\ d.loading = issueList.loading
            BY <1>0, <3>1, <3>2 DEF IssueListRecords
        <3>4. issueList' = d /\ air' = (air \ {m}) \cup N /\ forms' = forms
            BY <1>2, <2>1, <3>1 DEF IssueListResult, Quiet
        <3>5. d.form.kind # None /\ m.kind # "issues"
            BY <1>k, <2>1, <3>0, <3>2, <3>3 DEF FormKinds
        <3>6. \A n \in N : n.kind = "issues"
            BY <3>1
        <3> QED BY <2>0, <3>0, <3>2, <3>3, <3>4, <3>5, <3>6, IssueListAfter
    <2>2. CASE r.kind = issueList.form.kind /\ ~r.err
        <3>0. m.kind \in FormKinds
            BY <1>0, <1>k, <2>2 DEF Forms, FormKinds
        <3>1. /\ issueList' = [issueList EXCEPT !.form = Closed, !.loading = TRUE]
              /\ Start(air \ {m}, LoadIssueList(issueList.filter))
            BY <1>2, <2>2 DEF IssueListResult
        <3>2. PICK n : air' = (air \ {m}) \cup {n} /\ n.kind = "issues" /\ forms' = forms
            BY <3>1, Started DEF LoadIssueList, Cmd
        <3>3. PICK d, N : d = [issueList EXCEPT !.form = Closed, !.loading = TRUE] /\ N = {n}
            OBVIOUS
        <3>4. d \in IssueListRecords /\ d.form = Closed
            BY <1>0, <1>c, <3>3 DEF IssueListRecords
        <3>5. issueList' = d /\ air' = (air \ {m}) \cup N /\ N # {} /\ \A x \in N : x.kind = "issues"
            BY <3>1, <3>2, <3>3
        <3> QED BY <1>c, <2>0, <3>0, <3>2, <3>4, <3>5, IssueListAfter
    <2>3. CASE r.kind # issueList.form.kind
        <3>0. issueList.form = Closed
            BY <1>f, <2>0, <2>3
        <3>1. PICK d, N : /\ d = IF r.kind # "issues" THEN issueList
                                 ELSE [issueList EXCEPT !.loading = FALSE, !.rows = IF r.err THEN {} ELSE r.data]
                          /\ N = {}
            OBVIOUS
        <3>2. issueList' = d /\ air' = (air \ {m}) \cup N /\ forms' = forms
            BY <1>2, <2>3, <3>1 DEF IssueListResult, Quiet
        <3>3. d \in IssueListRecords /\ d.form = issueList.form /\ (d.loading => issueList.loading /\ m.kind # "issues")
            <4>1. CASE r.kind # "issues"
                BY <1>0, <3>1, <4>1
            <4>2. CASE r.kind = "issues"
                <5>1. PICK R : R = IF r.err THEN {} ELSE r.data
                    OBVIOUS
                <5>2. R \subseteq [num : TIssues, open : BOOLEAN]
                    BY <4>2, <5>1 DEF Answer
                <5>3. d = [issueList EXCEPT !.loading = FALSE, !.rows = R]
                    BY <3>1, <4>2, <5>1
                <5> QED BY <1>0, <5>2, <5>3 DEF IssueListRecords
            <4> QED BY <4>1, <4>2
        <3>4. \A n \in N : n.kind = "issues"
            BY <3>1
        <3> QED BY <1>c, <2>0, <3>0, <3>2, <3>3, <3>4, IssueListAfter
    <2> QED BY <2>1, <2>2, <2>3
<1> QED BY <1>1, <1>2

\* The screen of an issue after the answer m: it sends the commands of N.
LEMMA IssueAfter ==
    ASSUME ScreensSound, view = "issue", NEW m \in air, NEW N, air' = (air \ {m}) \cup N,
           \A n \in N : n.kind = "issue" /\ n.arg \in TIssues \cup {None},
           UNCHANGED <<view, list, detail, issueList, swallowed, forms, abandoned, doubled, mishit>>,
           NEW d \in IssueRecords, issue' = d,
           d.form.kind = None => d.form = Closed, d.form.kind # None => d.form.num = d.num,
           m.kind \notin FormKinds => d.form = issue.form,
           d.form.submitting => d.form = issue.form /\ m.kind # d.form.kind,
           d.loading => N # {} \/ (issue.loading /\ m.kind # "issue")
    PROVE  ScreensSound'
<1>1. TuiTypeOK'
    BY DEF ScreensSound, TuiTypeOK, IssueRecords, AirKinds
<1>2. ASSUME ~abandoned, NEW k \in air', k.kind \in FormKinds
      PROVE  d.form.submitting /\ \A n \in air' : n.kind \in FormKinds => n = k
    <2>1. k \in air \ {m} /\ \A n \in N : n.kind \notin FormKinds
        BY <1>2 DEF FormKinds
    <2>2. m.kind \notin FormKinds
        BY <1>2, <2>1, AnsweredWasLast DEF ScreensSound
    <2>3. issue.form.submitting /\ \A n \in air : n.kind \in FormKinds => n = k
        BY <1>2, <2>1 DEF ScreensSound, FormsFit, ShownForm
    <2> QED BY <2>1, <2>2, <2>3
<1>3. FormsFit'
    BY <1>2 DEF ScreensSound, FormsFit, ShownForm
<1>4. NothingLeftWaiting'
    <2>1. d.loading => InAir({"issue"})' \/ Took({"issue"})'
        BY DEF ScreensSound, NothingLeftWaiting, InAir, Took
    <2>2. d.form.submitting => \E n \in air' : n.kind = d.form.kind
        BY DEF ScreensSound, NothingLeftWaiting, InAir
    <2> QED BY <2>1, <2>2 DEF NothingLeftWaiting, InAir, Took
<1> QED BY <1>1, <1>3, <1>4 DEF ScreensSound, IssueActionOnShown, NoDoubleSubmit

LEMMA IssueResultKeeps ==
    ASSUME ScreensSound, NEW m \in air, NEW r, Answer(r), r.kind = m.kind, view = "issue",
           IssueDetailResult(r, air \ {m}), UNCHANGED <<abandoned, doubled, mishit>>
    PROVE  ScreensSound'
<1>0. issue \in IssueRecords /\ issue.form \in Forms({"comment", "close"}) /\ issue.num \in TIssues \cup {None}
    BY DEF ScreensSound, TuiTypeOK, IssueRecords
<1>k. m.kind \in AirKinds /\ m.kind # None
    BY TuiAssumption DEF Answer
<1>c. Closed \in Forms({"comment", "close"}) /\ Closed.kind = None /\ ~Closed.submitting
    BY DEF Closed, Forms
<1>f. issue.form.kind = None => issue.form = Closed
    BY DEF ScreensSound, FormsFit
<1>1. CASE Swallows(issue.form, r)
    <2>1. Ignored(r, air \ {m}) /\ ShownForm = issue.form /\ issue.form.kind # m.kind
        BY <1>1 DEF IssueDetailResult, ShownForm, Swallows
    <2> QED BY <2>1, IgnoredKeeps
<1>2. CASE ~Swallows(issue.form, r)
    <2>0. /\ UNCHANGED <<view, list, detail, issueList, swallowed>>
          /\ issue.form.kind = None \/ issue.form.kind = m.kind
        BY <1>2 DEF IssueDetailResult, Swallows
    <2>r. ASSUME issue' = [issue EXCEPT !.loading = TRUE, !.form = Closed],
                 Start(air \ {m}, LoadIssue(issue.num)),
                 m.kind \in FormKinds \/ issue.form = Closed
          PROVE  ScreensSound'
        <3>2. PICK n : air' = (air \ {m}) \cup {n} /\ n.kind = "issue" /\ n.arg = issue.num /\ forms' = forms
            BY <2>r, Started DEF LoadIssue, Cmd
        <3>3. PICK d, N : d = [issue EXCEPT !.loading = TRUE, !.form = Closed] /\ N = {n}
            OBVIOUS
        <3>4. d \in IssueRecords /\ d.form = Closed
            BY <1>0, <1>c, <3>3 DEF IssueRecords
        <3>5. /\ issue' = d /\ air' = (air \ {m}) \cup N /\ N # {}
              /\ \A x \in N : x.kind = "issue" /\ x.arg \in TIssues \cup {None}
            BY <1>0, <2>r, <3>2, <3>3
        <3>6. m.kind \notin FormKinds => d.form = issue.form
            BY <2>r, <3>4
        <3> QED BY <1>c, <2>0, <3>2, <3>4, <3>5, <3>6, IssueAfter
    <2>1. CASE r.kind = issue.form.kind /\ r.err
        <3>0. m.kind \in FormKinds
            BY <1>0, <1>k, <2>1 DEF Forms, FormKinds
        <3>1. PICK f, d, N : f = Failed(issue.form) /\ d = [issue EXCEPT !.form = f] /\ N = {}
            OBVIOUS
        <3>2. f \in Forms({"comment", "close"}) /\ f.kind = issue.form.kind /\ f.num = issue.form.num /\ ~f.submitting
            BY <1>0, <3>1, FormFailed
        <3>3. d \in IssueRecords /\ d.form = f /\ d.loading = issue.loading /\ d.num = issue.num
            BY <1>0, <3>1, <3>2 DEF IssueRecords
        <3>4. issue' = d /\ air' = (air \ {m}) \cup N /\ forms' = forms
            BY <1>2, <2>1, <3>1 DEF IssueDetailResult, Quiet
        <3>5. d.form.kind # None /\ m.kind # "issue" /\ issue.form.kind # None
            BY <1>k, <2>1, <3>0, <3>2, <3>3 DEF FormKinds
        <3>6. d.form.num = d.num
            BY <3>2, <3>3, <3>5 DEF ScreensSound, FormsFit
        <3>7. \A n \in N : n.kind = "issue" /\ n.arg \in TIssues \cup {None}
            BY <3>1
        <3> QED BY <2>0, <3>0, <3>2, <3>3, <3>4, <3>5, <3>6, <3>7, IssueAfter
    <2>2. CASE r.kind = issue.form.kind /\ ~r.err
        <3>0. m.kind \in FormKinds
            BY <1>0, <1>k, <2>2 DEF Forms, FormKinds
        <3> QED BY <1>2, <2>2, <2>r, <3>0 DEF IssueDetailResult
    <2>3. CASE r.kind # issue.form.kind
        <3>0. issue.form = Closed
            BY <1>f, <2>0, <2>3
        <3>1. CASE r.kind \in {"close", "reopen"} /\ ~r.err
            BY <1>2, <2>3, <2>r, <3>0, <3>1 DEF IssueDetailResult
        <3>2. CASE ~(r.kind \in {"close", "reopen"} /\ ~r.err)
            <4>1. PICK d, N : /\ d = IF r.kind # "issue" THEN issue
                                     ELSE IF r.err THEN [issue EXCEPT !.loading = FALSE]
                                     ELSE [issue EXCEPT !.loading = FALSE, !.num = r.data.num, !.open = r.data.open]
                              /\ N = {}
                OBVIOUS
            <4>2. issue' = d /\ air' = (air \ {m}) \cup N /\ forms' = forms
                BY <1>2, <2>3, <3>2, <4>1 DEF IssueDetailResult, Quiet
            <4>3. d \in IssueRecords /\ d.form = issue.form /\ (d.loading => issue.loading /\ m.kind # "issue")
                <5>1. CASE r.kind # "issue"
                    BY <1>0, <4>1, <5>1
                <5>2. CASE r.kind = "issue" /\ r.err
                    <6>1. d = [issue EXCEPT !.loading = FALSE]
                        BY <4>1, <5>2
                    <6> QED BY <1>0, <6>1 DEF IssueRecords
                <5>3. CASE r.kind = "issue" /\ ~r.err
                    <6>1. d = [issue EXCEPT !.loading = FALSE, !.num = r.data.num, !.open = r.data.open]
                        BY <4>1, <5>3
                    <6>2. r.data.num \in TIssues \cup {None} /\ r.data.open \in BOOLEAN
                        BY <5>3 DEF Answer
                    <6> QED BY <1>0, <6>1, <6>2 DEF IssueRecords
                <5> QED BY <5>1, <5>2, <5>3
            <4>4. \A n \in N : n.kind = "issue" /\ n.arg \in TIssues \cup {None}
                BY <4>1
            <4> QED BY <1>c, <2>0, <3>0, <4>2, <4>3, <4>4, IssueAfter
        <3> QED BY <3>1, <3>2
    <2> QED BY <2>1, <2>2, <2>3
<1> QED BY <1>1, <1>2

LEMMA DeliverKeeps ==
    ASSUME ScreensSound, NEW m \in air, Deliver(m)
    PROVE  ScreensSound'
<1>1. UNCHANGED <<abandoned, doubled, mishit>>
    BY DEF Deliver
<1>2. PICK r \in Results(m) :
          \/ view = "branches" /\ BranchListResult(r, air \ {m})
          \/ view = "detail" /\ DetailResult(r, air \ {m})
          \/ view = "issues" /\ IssueListResult(r, air \ {m})
          \/ view = "issue" /\ IssueDetailResult(r, air \ {m})
    BY DEF Deliver
<1>3. Answer(r) /\ r.kind = m.kind
    BY ResultsAnswer DEF ScreensSound
<1>4. CASE view = "branches" /\ BranchListResult(r, air \ {m})
    BY <1>1, <1>3, <1>4, BranchListResultKeeps
<1>5. CASE view = "detail" /\ DetailResult(r, air \ {m})
    BY <1>1, <1>3, <1>5, DetailResultKeeps
<1>6. CASE view = "issues" /\ IssueListResult(r, air \ {m})
    BY <1>1, <1>3, <1>6, IssueListResultKeeps
<1>7. CASE view = "issue" /\ IssueDetailResult(r, air \ {m})
    BY <1>1, <1>3, <1>7, IssueResultKeeps
<1> QED BY <1>2, <1>4, <1>5, <1>6, <1>7

LEMMA ScreensStart ==
    ASSUME TuiInit
    PROVE  ScreensSound
<1>c. Closed.kind = None /\ ~Closed.submitting /\ \A K : Closed \in Forms(K)
    BY DEF Closed, Forms
<1>1. /\ list = [loading |-> FALSE, rows |-> TBranches] /\ air = {} /\ forms = 0 /\ ~doubled /\ ~mishit
      /\ detail = [branch |-> None, loading |-> FALSE, pending |-> FALSE, proposal |-> None,
                   merging |-> FALSE, confirm |-> FALSE, form |-> Closed]
      /\ issue = [num |-> None, open |-> FALSE, loading |-> TRUE, form |-> Closed]
    BY DEF TuiInit, NoDetail, newIssueDetailModel
<1>2. \/ view = "branches" /\ issueList = [loading |-> TRUE, rows |-> {}, filter |-> "open", form |-> Closed]
      \/ view = "issues" /\ issueList = [loading |-> FALSE, rows |-> {[num |-> n, open |-> TRUE] : n \in TIssues},
                                         filter |-> "open", form |-> Closed]
    BY DEF TuiInit, newIssueListModel
<1>3. issueList \in IssueListRecords /\ issueList.form = Closed /\ view \in {"branches", "issues"}
      /\ (view = "issues" => ~issueList.loading)
    <2>1. PICK o \in BOOLEAN : o = TRUE
        OBVIOUS
    <2>2. PICK R : R = {[num |-> n, open |-> o] : n \in TIssues}
        OBVIOUS
    <2>3. R \subseteq [num : TIssues, open : BOOLEAN]
        BY <2>2
    <2>4. CASE view = "branches" /\ issueList = [loading |-> TRUE, rows |-> {}, filter |-> "open", form |-> Closed]
        BY <1>c, <2>4 DEF IssueListRecords, Filters
    <2>5. CASE view = "issues" /\ issueList = [loading |-> FALSE, rows |-> R, filter |-> "open", form |-> Closed]
        BY <1>c, <2>3, <2>5 DEF IssueListRecords, Filters
    <2> QED BY <1>2, <2>1, <2>2, <2>4, <2>5
<1>4. detail \in DetailRecords /\ issue \in IssueRecords /\ detail.form = Closed /\ issue.form = Closed
      /\ ~detail.confirm /\ ~list.loading
    BY <1>c, <1>1 DEF DetailRecords, IssueRecords
<1>5. TuiTypeOK
    BY <1>1, <1>3, <1>4 DEF TuiTypeOK, DetailRecords, IssueRecords, IssueListRecords
<1>6. FormsFit
    BY <1>c, <1>1, <1>3, <1>4 DEF FormsFit
<1>7. NothingLeftWaiting
    BY <1>c, <1>3, <1>4 DEF NothingLeftWaiting
<1> QED BY <1>1, <1>5, <1>6, <1>7 DEF ScreensSound, IssueActionOnShown, NoDoubleSubmit

LEMMA ScreensKept ==
    ASSUME ScreensSound, [TuiNext]_tuiVars
    PROVE  ScreensSound'
<1>1. CASE \E m \in air : Deliver(m)
    BY <1>1, DeliverKeeps
<1>2. CASE \E b \in TBranches : ListOpen(b)
    BY <1>2, ListOpenKeeps
<1>3. CASE ListRefresh \/ ListIssues
    BY <1>3, ListRefreshKeeps, ListIssuesKeeps
<1>4. CASE DetailBack \/ DetailRefresh \/ DetailCloseProposal \/ DetailMerge
    BY <1>4, DetailBackKeeps, DetailRefreshKeeps, DetailCloseProposalKeeps, DetailMergeKeeps
<1>5. CASE \E kind \in {"review", "propose"} : DetailForm(kind)
    BY <1>5, DetailFormKeeps
<1>6. CASE \E yes \in BOOLEAN : DetailConfirm(yes)
    BY <1>6, DetailConfirmKeeps
<1>7. CASE IssueListFilter \/ IssueListBack \/ IssueListNew
    BY <1>7, IssueListFilterKeeps, BackKeeps, IssueListNewKeeps
<1>8. CASE \E i \in issueList.rows : IssueListOpen(i)
    BY <1>8, IssueListOpenKeeps
<1>9. CASE IssueBack \/ IssueReopen
    BY <1>9, BackKeeps, IssueReopenKeeps
<1>10. CASE \E kind \in {"comment", "close"} : IssueForm(kind)
    BY <1>10, IssueFormKeeps
<1>11. CASE DetailSubmit \/ IssueListSubmit \/ IssueSubmit
    BY <1>11, DetailSubmitKeeps, IssueListSubmitKeeps, IssueSubmitKeeps
<1>12. CASE DetailEsc \/ IssueListEsc \/ IssueEsc
    BY <1>12, EscKeeps
<1>13. CASE UNCHANGED tuiVars
    <2>1. UNCHANGED <<view, list, detail, issueList, issue, air, forms, swallowed, abandoned, doubled, mishit>>
        BY <1>13 DEF tuiVars, screens, tuiHistory
    <2>2. TuiTypeOK'
        BY <2>1 DEF ScreensSound, TuiTypeOK
    <2>3. FormsFit'
        BY <2>1 DEF ScreensSound, FormsFit, ShownForm
    <2>4. NothingLeftWaiting'
        BY <2>1 DEF ScreensSound, NothingLeftWaiting, InAir, Took
    <2> QED BY <2>1, <2>2, <2>3, <2>4 DEF ScreensSound, IssueActionOnShown, NoDoubleSubmit
<1> QED BY <1>1, <1>2, <1>3, <1>4, <1>5, <1>6, <1>7, <1>8, <1>9, <1>10, <1>11, <1>12, <1>13 DEF TuiNext

\* Whatever the order in which answers arrive and keys are pressed, no screen of
\* the terminal interface waits for an answer that will not come, unless an open
\* form or the merge prompt took it, a comment or a close goes to the issue shown,
\* and a form is posted once, unless one was closed while it was submitting.
THEOREM ScreensHold == TuiSpec => []ScreensSound
<1>1. TuiInit => ScreensSound
    BY ScreensStart
<1>2. ScreensSound /\ [TuiNext]_tuiVars => ScreensSound'
    BY ScreensKept
<1> QED BY <1>1, <1>2, PTL DEF TuiSpec
=============================================================================
