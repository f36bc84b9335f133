---------------------------- MODULE MergeGateProofs ----------------------------
(***************************************************************************)
(* Proofs about MergeGate, for any number of branches, requests, policies  *)
(* and commits, and with every fault the model knows.                      *)
(***************************************************************************)
EXTENDS MergeGate, TLAPS

USE MergeGateAssumption

\* Heads grow and reviews are not taken back: what a request has established
\* stays established.
Monotone ==
    /\ head' \in [Branches -> Heads]
    /\ \A b \in Branches : head[b] <= head'[b]
    /\ approvals \subseteq approvals'

-----------------------------------------------------------------------------
(* Requests.                                                               *)

\* The record of an actor at rest is a request, and says nothing.
LEMMA IdleSound == Idle \in RequestRecords /\ RequestSound(Idle, head, approvals)
BY DEF Idle, RequestRecords, RequestSound, Steps, Heads, Requirements

\* The record of a new request.
LEMMA NewRequestSound ==
    ASSUME TypeOK, NEW label \in {"load", "emit", "invalidate"},
           NEW for \in {"status", "merge", "commit", "review", "check"},
           NEW b \in Branches \cup {Worker},
           for \in {"merge", "review", "check"} => b \in Branches,
           label = "load" => for \in {"status", "check", "merge"},
           label = "invalidate" => for = "commit",
           label = "emit" => for = "review",
           NEW r, r = [Idle EXCEPT !.pc = label, !.for = for, !.b = b]
    PROVE  r \in RequestRecords /\ RequestSound(r, head, approvals)
<1>1. for = "merge" => 0 <= head[b]
    BY DEF TypeOK, Heads
<1>2. r \in RequestRecords
    BY IdleSound DEF RequestRecords, Steps
<1>3. /\ r.pc = label /\ r.for = for /\ r.b = b
      /\ r.engine = {} /\ r.head = 0 /\ r.met = {}
    BY DEF Idle
<1> QED BY <1>1, <1>2, <1>3 DEF RequestSound

\* Where only the request of a moves, to a record that is sound after the
\* step, all requests stay sound.
LEMMA OneMoves ==
    ASSUME TypeOK, RequestsSound, Monotone, NEW a \in Actors, NEW r \in RequestRecords,
           run' = [run EXCEPT ![a] = r],
           RequestSound(r, head', approvals')
    PROVE  RequestsSound' /\ run' \in [Actors -> RequestRecords]
<1>1. ASSUME NEW x \in Actors, x # a
      PROVE  RequestSound(run'[x], head', approvals')
    <2>1. run'[x] = run[x] /\ RequestSound(run[x], head, approvals) /\ run[x] \in RequestRecords
        BY <1>1 DEF TypeOK, RequestsSound
    <2>2. ASSUME NEW q \in RequestRecords, RequestSound(q, head, approvals) PROVE RequestSound(q, head', approvals')
        BY <2>2 DEF RequestSound, Monotone, TypeOK, RequestRecords, Heads
    <2> QED BY <2>1, <2>2
<1>2. run'[a] = r
    BY DEF TypeOK
<1> QED BY <1>1, <1>2 DEF RequestsSound, TypeOK

\* A step that moves no request.
LEMMA NoneMoves ==
    ASSUME TypeOK, RequestsSound, Monotone, run' = run
    PROVE  RequestsSound' /\ run' \in [Actors -> RequestRecords]
<1>1. ASSUME NEW q \in RequestRecords, RequestSound(q, head, approvals)
      PROVE  RequestSound(q, head', approvals')
    BY <1>1 DEF RequestSound, Monotone, TypeOK, RequestRecords, Heads
<1> QED BY <1>1 DEF RequestsSound, TypeOK

\* A request starts in a step that takes no review back and moves no head back.
LEMMA OneStarts ==
    ASSUME TypeOK, RequestsSound, Monotone, NEW a \in Actors,
           NEW label \in {"load", "emit", "invalidate"},
           NEW for \in {"status", "merge", "commit", "review", "check"},
           NEW b \in Branches \cup {Worker},
           for \in {"merge", "review", "check"} => b \in Branches,
           label = "load" => for \in {"status", "check", "merge"},
           label = "invalidate" => for = "commit",
           label = "emit" => for = "review",
           run' = [run EXCEPT ![a] = [Idle EXCEPT !.pc = label, !.for = for, !.b = b]]
    PROVE  RequestsSound' /\ run' \in [Actors -> RequestRecords]
<1>1. PICK r : r = [Idle EXCEPT !.pc = label, !.for = for, !.b = b]
    OBVIOUS
<1>2. r \in RequestRecords /\ RequestSound(r, head, approvals)
    BY <1>1, NewRequestSound
<1>3. RequestSound(r, head', approvals')
    BY <1>2 DEF RequestSound, Monotone, TypeOK, RequestRecords, Heads
<1> QED BY <1>1, <1>2, <1>3, OneMoves

\* A request ends.
LEMMA OneEnds ==
    ASSUME TypeOK, RequestsSound, Monotone, NEW a \in Actors, Done(a)
    PROVE  RequestsSound' /\ run' \in [Actors -> RequestRecords]
<1>1. RequestSound(Idle, head', approvals')
    BY DEF RequestSound, Idle
<1> QED BY <1>1, IdleSound, OneMoves DEF Done

\* A request goes on at a label where nothing more is expected of it.
LEMMA OneGoesOn ==
    ASSUME TypeOK, RequestsSound, Monotone, NEW a \in Actors,
           NEW label \in {"emit", "proposal", "invalidate", "disable"}, Goto(a, label),
           label = "emit" => run[a].for = "check",
           label # "emit" => run[a].for = "merge"
    PROVE  RequestsSound' /\ run' \in [Actors -> RequestRecords]
<1>1. PICK r : r = [run[a] EXCEPT !.pc = label]
    OBVIOUS
<1>2. run[a] \in RequestRecords /\ RequestSound(run[a], head, approvals)
    BY DEF TypeOK, RequestsSound
<1>3. r \in RequestRecords
    BY <1>1, <1>2 DEF RequestRecords, Steps
<1>4. /\ r.pc = label /\ r.for = run[a].for /\ r.b = run[a].b /\ r.engine = run[a].engine
      /\ r.head = run[a].head /\ r.met = run[a].met
    BY <1>1, <1>2 DEF RequestRecords
<1>5. RequestSound(r, head', approvals')
    BY <1>2, <1>4 DEF RequestSound, Monotone, TypeOK, RequestRecords, Heads
<1>6. run' = [run EXCEPT ![a] = r]
    BY <1>1 DEF Goto
<1> QED BY <1>3, <1>5, <1>6, OneMoves

\* What follows Load, with an engine that main had.
LEMMA OneLoaded ==
    ASSUME TypeOK, RequestsSound, Monotone, NEW a \in Actors,
           run[a].pc \in {"load", "store"}, NEW engine \in Policies, AfterLoad(a, engine)
    PROVE  RequestsSound' /\ run' \in [Actors -> RequestRecords]
<1>1. /\ run[a].for \in {"status", "check", "merge"}
      /\ run[a] \in RequestRecords /\ RequestSound(run[a], head, approvals)
    BY DEF RequestsSound, RequestSound, TypeOK
<1>2. CASE run[a].for = "status"
    BY <1>2, OneEnds DEF AfterLoad
<1>3. CASE run[a].for = "check"
    BY <1>3, OneGoesOn DEF AfterLoad
<1>4. CASE run[a].for = "merge"
    <2>1. PICK r : r = [run[a] EXCEPT !.engine = engine, !.pc = IF engine = {} THEN "merge" ELSE "branch"]
        OBVIOUS
    <2>2. r \in RequestRecords
        BY <1>1, <2>1 DEF RequestRecords, Steps
    <2>3. /\ r.pc = (IF engine = {} THEN "merge" ELSE "branch") /\ r.for = "merge" /\ r.b = run[a].b
          /\ r.engine = engine /\ r.head = run[a].head /\ r.met = run[a].met
        BY <1>1, <1>4, <2>1 DEF RequestRecords
    <2>4. RequestSound(r, head', approvals')
        BY <1>1, <1>4, <2>3 DEF RequestSound, Monotone, TypeOK, RequestRecords, Heads
    <2>5. run' = [run EXCEPT ![a] = r]
        BY <1>4, <2>1 DEF AfterLoad
    <2> QED BY <2>2, <2>4, <2>5, OneMoves
<1> QED BY <1>1, <1>2, <1>3, <1>4

-----------------------------------------------------------------------------
(* Every step keeps the types and what the requests have established.      *)

\* No step moves a head back or takes a review back.
LEMMA StepMonotone == TypeOK /\ [Next]_vars => Monotone
<1> SUFFICES ASSUME TypeOK, [Next]_vars PROVE Monotone
    OBVIOUS
<1> USE DEF TypeOK, Monotone, Heads, branchRows, evidence
<1>1. ASSUME NEW b \in Branches, NEW p \in Policies \cup {Keep}, CommitBranch(b, p)
      PROVE  Monotone
    BY <1>1 DEF CommitBranch
<1>2. ASSUME NEW c \in Clients, NEW b \in Branches, NEW approve \in BOOLEAN, CreateReview(c, b, approve)
      PROVE  Monotone
    BY <1>2 DEF CreateReview
<1>3. CASE UNCHANGED <<head, approvals>>
    BY <1>3
<1> HIDE DEF TypeOK, Monotone, Heads
<1>4. ASSUME NEW b \in Branches,
             \/ \E d \in BOOLEAN : UpdateBranchDraft(b, d) \/ SetBranchAutoMerge(b, d)
             \/ \E s \in Heads : RetryChecks(b, s)
             \/ CreateProposal(b) \/ CloseProposal(b) \/ DeleteBranch(b)
      PROVE  UNCHANGED <<head, approvals>>
    BY <1>4 DEF UpdateBranchDraft, SetBranchAutoMerge, RetryChecks, CreateProposal, CloseProposal, DeleteBranch
<1>5. ASSUME NEW c \in Clients,
             \/ \E p \in Policies : CommitMain(c, p)
             \/ \E b \in Branches : \/ MergeRequest(c, b)
                                    \/ \E s \in Heads, pass \in BOOLEAN : CreateCheckRun(c, b, s, pass)
             \/ StatusRequest(c)
      PROVE  UNCHANGED <<head, approvals>>
    BY <1>5 DEF CommitMain, MergeRequest, CreateCheckRun, StatusRequest
<1>6. TakeEvent => UNCHANGED <<head, approvals>>
    BY DEF TakeEvent
<1>7. ASSUME NEW a \in Actors, Advance(a)
      PROVE  UNCHANGED <<head, approvals>>
    BY <1>7 DEF Advance, Invalidate, LoadHit, LoadMiss, LoadStore, LoadFails, AssembleBranch, AssembleReviews,
                AssembleChecks, Evaluate, Merge, MergeRefused, MergeFails, MergeConflict, DisableAutoMerge,
                MergeProposal, Emit
<1>8. UNCHANGED vars => UNCHANGED <<head, approvals>>
    BY DEF vars
<1> QED
    BY <1>1, <1>2, <1>3, <1>4, <1>5, <1>6, <1>7, <1>8 DEF Next, Environment

\* Every step keeps the requests typed and sound.
LEMMA RequestsStep ==
    TypeOK /\ RequestsSound /\ [Next]_vars => RequestsSound' /\ run' \in [Actors -> RequestRecords]
<1> SUFFICES ASSUME TypeOK, RequestsSound, [Next]_vars
             PROVE  RequestsSound' /\ run' \in [Actors -> RequestRecords]
    OBVIOUS
<1> DEFINE Kept == RequestsSound' /\ run' \in [Actors -> RequestRecords]
<1>m. Monotone
    BY StepMonotone
<1>n. Clients \subseteq Actors /\ Worker \in Actors
    BY DEF Actors
<1>f. ASSUME NEW a \in Actors
      PROVE  run[a] \in RequestRecords /\ RequestSound(run[a], head, approvals)
    BY DEF TypeOK, RequestsSound
<1>1. CASE run' = run
    BY <1>1, <1>m, NoneMoves
<1>2. ASSUME NEW b \in Branches,
             \/ \E p \in Policies \cup {Keep} : CommitBranch(b, p)
             \/ \E d \in BOOLEAN : UpdateBranchDraft(b, d) \/ SetBranchAutoMerge(b, d)
             \/ \E s \in Heads : RetryChecks(b, s)
             \/ CreateProposal(b) \/ CloseProposal(b) \/ DeleteBranch(b)
      PROVE  run' = run
    BY <1>2 DEF CommitBranch, UpdateBranchDraft, SetBranchAutoMerge, RetryChecks, CreateProposal,
                CloseProposal, DeleteBranch
<1>3. ASSUME NEW c \in Clients, NEW p \in Policies, CommitMain(c, p)
      PROVE  Kept
    BY <1>3, <1>m, <1>n, OneStarts DEF CommitMain, Request
<1>4. ASSUME NEW c \in Clients, NEW b \in Branches, MergeRequest(c, b)
      PROVE  Kept
    BY <1>4, <1>m, <1>n, OneStarts DEF MergeRequest, Request
<1>5. ASSUME NEW c \in Clients, NEW b \in Branches, NEW approve \in BOOLEAN, CreateReview(c, b, approve)
      PROVE  Kept
    BY <1>5, <1>m, <1>n, OneStarts DEF CreateReview, Request
<1>6. ASSUME NEW c \in Clients, NEW b \in Branches, NEW s \in Heads, NEW pass \in BOOLEAN,
             CreateCheckRun(c, b, s, pass)
      PROVE  Kept
    BY <1>6, <1>m, <1>n, OneStarts DEF CreateCheckRun, Request
<1>7. ASSUME NEW c \in Clients, StatusRequest(c)
      PROVE  Kept
    BY <1>7, <1>m, <1>n, OneStarts DEF StatusRequest, Request
<1>8. CASE TakeEvent
    <2>1. Head(events) \in Branches
        BY <1>8 DEF TakeEvent, TypeOK
    <2>2. CASE run' = [run EXCEPT ![Worker] = [Idle EXCEPT !.pc = "load", !.for = "merge", !.b = Head(events)]]
        BY <2>1, <2>2, <1>m, <1>n, OneStarts
    <2> QED BY <1>8, <1>1, <2>2 DEF TakeEvent
<1>9. ASSUME NEW a \in Actors, Invalidate(a)
      PROVE  Kept
    BY <1>9, <1>f, <1>m, OneEnds, OneGoesOn DEF Invalidate, At, RequestSound
<1>10. ASSUME NEW a \in Actors, LoadHit(a)
      PROVE  Kept
    <2>1. cache \in Policies
        BY <1>10 DEF LoadHit, TypeOK
    <2> QED BY <1>10, <2>1, <1>m, OneLoaded DEF LoadHit, At
<1>11. ASSUME NEW a \in Actors, LoadMiss(a)
      PROVE  Kept
    <2>1. PICK r : r = [run[a] EXCEPT !.engine = policy, !.pc = "store"]
        OBVIOUS
    <2>2. policy \in Policies /\ run[a].pc = "load"
        BY <1>11 DEF TypeOK, LoadMiss, At
    <2>3. r \in RequestRecords
        BY <2>1, <2>2, <1>f DEF RequestRecords, Steps
    <2>4. /\ r.pc = "store" /\ r.for = run[a].for /\ r.b = run[a].b
          /\ r.engine = policy /\ r.head = run[a].head /\ r.met = run[a].met
        BY <2>1, <1>f DEF RequestRecords
    <2>5. RequestSound(r, head', approvals')
        BY <2>2, <2>4, <1>f, <1>m DEF RequestSound, Monotone, TypeOK, RequestRecords, Heads
    <2>6. run' = [run EXCEPT ![a] = r]
        BY <1>11, <2>1 DEF LoadMiss
    <2> QED BY <2>3, <2>5, <2>6, <1>m, OneMoves
<1>12. ASSUME NEW a \in Actors, LoadStore(a)
      PROVE  Kept
    <2>1. run[a].engine \in Policies /\ run[a].pc = "store"
        BY <1>12, <1>f DEF LoadStore, At, RequestSound
    <2> QED BY <1>12, <2>1, <1>m, OneLoaded DEF LoadStore
<1>13. ASSUME NEW a \in Actors, LoadFails(a)
      PROVE  Kept
    BY <1>13, <1>m, OneEnds, OneGoesOn DEF LoadFails
<1>14. ASSUME NEW a \in Actors, AssembleBranch(a)
      PROVE  Kept
    <2>1. PICK r : r = [run[a] EXCEPT !.head = head[run[a].b], !.pc = "reviews"]
        OBVIOUS
    <2>2. run[a].b \in Branches /\ run[a].pc = "branch" /\ run[a].for = "merge" /\ head[run[a].b] \in Heads
        BY <1>14, <1>f DEF TypeOK, AssembleBranch, At, RequestSound
    <2>3. r \in RequestRecords
        BY <2>1, <2>2, <1>f DEF RequestRecords, Steps
    <2>4. /\ r.pc = "reviews" /\ r.for = run[a].for /\ r.b = run[a].b
          /\ r.engine = run[a].engine /\ r.head = head[run[a].b] /\ r.met = run[a].met
        BY <2>1, <1>f DEF RequestRecords
    <2>5. RequestSound(r, head', approvals')
        BY <2>2, <2>4, <1>f, <1>m DEF RequestSound, Monotone, TypeOK, RequestRecords, Heads
    <2>6. run' = [run EXCEPT ![a] = r]
        BY <1>14, <2>1 DEF AssembleBranch
    <2> QED BY <2>3, <2>5, <2>6, <1>m, OneMoves
<1>15. ASSUME NEW a \in Actors, AssembleReviews(a)
      PROVE  Kept
    <2> DEFINE met == Met(a, "review", <<run[a].b, run[a].head>> \in approvals)
    <2>1. PICK r : r = [run[a] EXCEPT !.met = met, !.pc = "checks"]
        OBVIOUS
    <2>2. run[a].pc = "reviews" /\ run[a].for = "merge" /\ run[a].met = {}
        BY <1>15, <1>f DEF AssembleReviews, At, RequestSound
    <2>3. /\ met \in SUBSET Requirements
          /\ "review" \in met => <<run[a].b, run[a].head>> \in approvals
        BY <2>2 DEF Met, Requirements
    <2>4. run' = [run EXCEPT ![a] = r]
        BY <1>15, <2>1 DEF AssembleReviews
    <2> HIDE DEF met
    <2>5. r \in RequestRecords
        BY <2>1, <2>3, <1>f DEF RequestRecords, Steps
    <2>6. /\ r.pc = "checks" /\ r.for = run[a].for /\ r.b = run[a].b
          /\ r.engine = run[a].engine /\ r.head = run[a].head /\ r.met = met
        BY <2>1, <1>f DEF RequestRecords
    <2>7. RequestSound(r, head', approvals')
        BY <2>2, <2>3, <2>6, <1>f, <1>m DEF RequestSound, Monotone, TypeOK, RequestRecords, Heads
    <2> QED BY <2>4, <2>5, <2>7, <1>m, OneMoves
<1>16. ASSUME NEW a \in Actors, AssembleChecks(a)
      PROVE  Kept
    <2> DEFINE met == Met(a, "check", <<run[a].b, run[a].head>> \in checks)
    <2>1. PICK r : r = [run[a] EXCEPT !.met = met, !.pc = "proposals"]
        OBVIOUS
    <2>2. run[a].pc = "checks" /\ run[a].for = "merge"
        BY <1>16, <1>f DEF AssembleChecks, At, RequestSound
    <2>3. /\ met \in SUBSET Requirements
          /\ "review" \in met => "review" \in run[a].met
        BY <1>f DEF Met, Requirements, RequestRecords
    <2>4. run' = [run EXCEPT ![a] = r]
        BY <1>16, <2>1 DEF AssembleChecks
    <2> HIDE DEF met
    <2>5. r \in RequestRecords
        BY <2>1, <2>3, <1>f DEF RequestRecords, Steps
    <2>6. /\ r.pc = "proposals" /\ r.for = run[a].for /\ r.b = run[a].b
          /\ r.engine = run[a].engine /\ r.head = run[a].head /\ r.met = met
        BY <2>1, <1>f DEF RequestRecords
    <2>7. RequestSound(r, head', approvals')
        BY <2>2, <2>3, <2>6, <1>f, <1>m DEF RequestSound, Monotone, TypeOK, RequestRecords, Heads
    <2> QED BY <2>4, <2>5, <2>7, <1>m, OneMoves
<1>17. ASSUME NEW a \in Actors, Evaluate(a)
      PROVE  Kept
    <2> DEFINE met == Met(a, "proposal", proposal[run[a].b] = "open")
    <2>1. PICK r : r = [run[a] EXCEPT !.met = {}, !.pc = "merge"]
        OBVIOUS
    <2>2. run[a].pc = "proposals" /\ run[a].for = "merge"
        BY <1>17, <1>f DEF Evaluate, At, RequestSound
    <2>3. "review" \in met => "review" \in run[a].met
        BY DEF Met
    <2>4. CASE run[a].engine \subseteq met
        <3>1. run' = [run EXCEPT ![a] = r]
            BY <1>17, <2>1, <2>4 DEF Evaluate
        <3>2. r \in RequestRecords
            BY <2>1, <1>f DEF RequestRecords, Steps
        <3>3. /\ r.pc = "merge" /\ r.for = run[a].for /\ r.b = run[a].b
              /\ r.engine = run[a].engine /\ r.head = run[a].head /\ r.met = {}
            BY <2>1, <1>f DEF RequestRecords
        <3>4. "review" \in r.engine => "review" \in run[a].met
            BY <2>3, <2>4, <3>3
        <3>5. RequestSound(r, head', approvals')
            BY <2>2, <3>3, <3>4, <1>f, <1>m DEF RequestSound, Monotone, TypeOK, RequestRecords, Heads
        <3> QED BY <3>1, <3>2, <3>5, <1>m, OneMoves
    <2>5. CASE ~(run[a].engine \subseteq met)
        BY <1>17, <2>5, <1>m, OneEnds DEF Evaluate
    <2> QED BY <2>4, <2>5
<1>18. ASSUME NEW a \in Actors, Merge(a)
      PROVE  Kept
    BY <1>18, <1>f, <1>m, OneGoesOn DEF Merge, At, RequestSound
<1>19. ASSUME NEW a \in Actors, MergeRefused(a) \/ MergeFails(a) \/ DisableAutoMerge(a) \/ Emit(a)
      PROVE  Kept
    BY <1>19, <1>m, OneEnds DEF MergeRefused, MergeFails, DisableAutoMerge, Emit
<1>20. ASSUME NEW a \in Actors, MergeConflict(a)
      PROVE  Kept
    BY <1>20, <1>f, <1>m, OneGoesOn, OneEnds DEF MergeConflict, At, RequestSound
<1>21. ASSUME NEW a \in Actors, MergeProposal(a)
      PROVE  Kept
    <2>1. CASE a = Worker
        BY <1>21, <2>1, <1>m, OneEnds DEF MergeProposal
    <2>2. CASE a # Worker
        <3>1. PICK r : r = [Idle EXCEPT !.pc = "load", !.for = "status"]
            OBVIOUS
        <3>2. r \in RequestRecords
            BY <3>1, IdleSound DEF RequestRecords, Steps
        <3>3. r.pc = "load" /\ r.for = "status" /\ r.met = {}
            BY <3>1 DEF Idle
        <3>4. RequestSound(r, head', approvals')
            BY <3>3 DEF RequestSound
        <3>5. run' = [run EXCEPT ![a] = r]
            BY <1>21, <2>2, <3>1 DEF MergeProposal
        <3> QED BY <3>2, <3>4, <3>5, <1>m, OneMoves
    <2> QED BY <2>1, <2>2
<1>22. CASE UNCHANGED vars
    BY <1>1, <1>22 DEF vars
<1> QED
    BY <1>1, <1>2, <1>3, <1>4, <1>5, <1>6, <1>7, <1>8, <1>9, <1>10, <1>11, <1>12, <1>13, <1>14,
       <1>15, <1>16, <1>17, <1>18, <1>19, <1>20, <1>21, <1>22
    DEF Next, Environment, Advance

\* Every step keeps the types.
LEMMA TypeStep == TypeOK /\ RequestsSound /\ [Next]_vars => TypeOK'
<1> SUFFICES ASSUME TypeOK, RequestsSound, [Next]_vars PROVE TypeOK'
    OBVIOUS
<1>r. run' \in [Actors -> RequestRecords]
    BY RequestsStep
<1>h. head' \in [Branches -> Heads]
    BY StepMonotone DEF Monotone
<1> DEFINE tables == <<policy, cache, branchRows, evidence, events, merges, staleBy>>
<1>1. CASE UNCHANGED tables
    BY <1>1, <1>r DEF TypeOK, branchRows, evidence
<1>2. ASSUME NEW b \in Branches,
             \/ \E p \in Policies \cup {Keep} : CommitBranch(b, p)
             \/ \E d \in BOOLEAN : UpdateBranchDraft(b, d) \/ SetBranchAutoMerge(b, d)
             \/ DeleteBranch(b)
      PROVE  TypeOK'
    <2>1. CASE \E p \in Policies \cup {Keep} : CommitBranch(b, p)
        BY <2>1, <1>h DEF CommitBranch, TypeOK, evidence
    <2>2. CASE \E d \in BOOLEAN : UpdateBranchDraft(b, d)
        BY <2>2 DEF UpdateBranchDraft, TypeOK, evidence
    <2>3. CASE \E d \in BOOLEAN : SetBranchAutoMerge(b, d)
        BY <2>3 DEF SetBranchAutoMerge, TypeOK, evidence
    <2>4. CASE DeleteBranch(b)
        BY <2>4 DEF DeleteBranch, TypeOK, evidence
    <2> QED BY <1>2, <2>1, <2>2, <2>3, <2>4
<1>3. ASSUME NEW b \in Branches,
             (\E s \in Heads : RetryChecks(b, s)) \/ CreateProposal(b) \/ CloseProposal(b)
      PROVE  TypeOK'
    BY <1>3 DEF RetryChecks, CreateProposal, CloseProposal, TypeOK, branchRows
<1>4. ASSUME NEW c \in Clients, NEW p \in Policies, CommitMain(c, p)
      PROVE  TypeOK'
    BY <1>4, <1>r DEF CommitMain, TypeOK, branchRows, evidence
<1>5. ASSUME NEW c \in Clients, NEW b \in Branches, NEW approve \in BOOLEAN, CreateReview(c, b, approve)
      PROVE  TypeOK'
    BY <1>5, <1>r DEF CreateReview, TypeOK, branchRows
<1>6. ASSUME NEW c \in Clients, NEW b \in Branches, NEW s \in Heads, NEW pass \in BOOLEAN,
             CreateCheckRun(c, b, s, pass)
      PROVE  TypeOK'
    <2>1. checks' \subseteq Branches \X Heads
        BY <1>6 DEF CreateCheckRun, TypeOK
    <2> QED BY <1>6, <1>r, <2>1 DEF CreateCheckRun, TypeOK, branchRows
<1>7. ASSUME NEW c \in Clients, StatusRequest(c) \/ \E b \in Branches : MergeRequest(c, b)
      PROVE  UNCHANGED tables
    BY <1>7 DEF StatusRequest, MergeRequest
<1>8. CASE TakeEvent
    <2>1. Tail(events) \in Seq(Branches) /\ Len(Tail(events)) <= MaxEvents
        BY <1>8 DEF TakeEvent, TypeOK
    <2> QED BY <1>8, <1>r, <2>1 DEF TakeEvent, TypeOK, branchRows, evidence
<1>9. ASSUME NEW a \in Actors, Invalidate(a)
      PROVE  TypeOK'
    BY <1>9, <1>r DEF Invalidate, TypeOK, branchRows, evidence
<1>10. ASSUME NEW a \in Actors, LoadStore(a)
      PROVE  TypeOK'
    <2>1. run[a].engine \in Policies
        BY <1>10 DEF LoadStore, At, RequestsSound, RequestSound
    <2> QED BY <1>10, <1>r, <2>1 DEF LoadStore, TypeOK, branchRows, evidence
<1>11. ASSUME NEW a \in Actors,
              \/ LoadHit(a) \/ LoadMiss(a) \/ LoadFails(a) \/ AssembleBranch(a) \/ AssembleReviews(a)
              \/ AssembleChecks(a) \/ Evaluate(a) \/ MergeRefused(a) \/ MergeFails(a) \/ MergeConflict(a)
      PROVE  UNCHANGED tables
    BY <1>11 DEF LoadHit, LoadMiss, LoadFails, AssembleBranch, AssembleReviews, AssembleChecks, Evaluate,
                 MergeRefused, MergeFails, MergeConflict
<1>12. ASSUME NEW a \in Actors, Merge(a)
      PROVE  TypeOK'
    <2>1. run[a].b \in Branches /\ run[a].engine \in Policies /\ run[a].head \in Heads
        BY <1>12 DEF Merge, At, RequestsSound, RequestSound, TypeOK, RequestRecords
    <2>2. MergeRecord(a) \in MergeRecords
        BY <2>1 DEF MergeRecord, MergeRecords, TypeOK
    <2>3. policy' \in Policies
        BY <1>12, <2>1 DEF Merge, TypeOK
    <2> QED BY <1>12, <1>r, <2>1, <2>2, <2>3 DEF Merge, TypeOK, evidence
<1>13. ASSUME NEW a \in Actors, DisableAutoMerge(a)
      PROVE  TypeOK'
    BY <1>13, <1>r DEF DisableAutoMerge, TypeOK, evidence
<1>14. ASSUME NEW a \in Actors, MergeProposal(a)
      PROVE  TypeOK'
    BY <1>14, <1>r DEF MergeProposal, TypeOK, branchRows
<1>15. ASSUME NEW a \in Actors, Emit(a)
      PROVE  TypeOK'
    <2>1. run[a].b \in Branches
        BY <1>15 DEF Emit, At, RequestsSound, RequestSound
    <2>2. events' \in Seq(Branches) /\ Len(events') <= MaxEvents
        BY <1>15, <2>1 DEF Emit, TypeOK
    <2> QED BY <1>15, <1>r, <2>2 DEF Emit, TypeOK, branchRows, evidence
<1>16. CASE UNCHANGED vars
    BY <1>1, <1>16 DEF vars, branchRows, evidence
<1> QED
    BY <1>1, <1>2, <1>3, <1>4, <1>5, <1>6, <1>7, <1>8, <1>9, <1>10, <1>11, <1>12, <1>13, <1>14,
       <1>15, <1>16
    DEF Next, Environment, Advance

-----------------------------------------------------------------------------
(* Merges.                                                                 *)

\* Only Merge records a merge, and no other step revives a merged branch.
LEMMA MergesFrame ==
    ASSUME TypeOK, [Next]_vars, \A a \in Actors : ~Merge(a)
    PROVE  /\ merges' = merges
           /\ \A b \in Branches : status[b] = "merged" => status'[b] = "merged"
<1>1. ASSUME NEW b \in Branches,
             \/ \E p \in Policies \cup {Keep} : CommitBranch(b, p)
             \/ \E d \in BOOLEAN : UpdateBranchDraft(b, d) \/ SetBranchAutoMerge(b, d)
             \/ \E s \in Heads : RetryChecks(b, s)
             \/ CreateProposal(b) \/ CloseProposal(b)
      PROVE  UNCHANGED <<merges, status>>
    BY <1>1 DEF CommitBranch, UpdateBranchDraft, SetBranchAutoMerge, RetryChecks, CreateProposal,
                CloseProposal, branchRows
<1>2. ASSUME NEW b \in Branches, DeleteBranch(b)
      PROVE  merges' = merges /\ \A x \in Branches : status[x] = "merged" => status'[x] = "merged"
    BY <1>2 DEF DeleteBranch, TypeOK
<1>3. ASSUME NEW c \in Clients,
             \/ \E p \in Policies : CommitMain(c, p)
             \/ \E b \in Branches : \/ MergeRequest(c, b)
                                    \/ \E approve \in BOOLEAN : CreateReview(c, b, approve)
                                    \/ \E s \in Heads, pass \in BOOLEAN : CreateCheckRun(c, b, s, pass)
             \/ StatusRequest(c)
      PROVE  UNCHANGED <<merges, status>>
    BY <1>3 DEF CommitMain, MergeRequest, CreateReview, CreateCheckRun, StatusRequest, branchRows
<1>4. TakeEvent => UNCHANGED <<merges, status>>
    BY DEF TakeEvent, branchRows
<1>5. ASSUME NEW a \in Actors, Advance(a)
      PROVE  UNCHANGED <<merges, status>>
    BY <1>5 DEF Advance, Invalidate, LoadHit, LoadMiss, LoadStore, LoadFails, AssembleBranch, AssembleReviews,
                AssembleChecks, Evaluate, MergeRefused, MergeFails, MergeConflict, DisableAutoMerge,
                MergeProposal, Emit, branchRows
<1>6. UNCHANGED vars => UNCHANGED <<merges, status>>
    BY DEF vars
<1> QED
    BY <1>1, <1>2, <1>3, <1>4, <1>5, <1>6 DEF Next, Environment

\* Every step keeps merges single and gated.
LEMMA MergesStep == MergesGated /\ [Next]_vars => MergedOnce' /\ GateAtEvaluatedHead'
<1> SUFFICES ASSUME MergesGated, [Next]_vars PROVE MergedOnce' /\ GateAtEvaluatedHead'
    OBVIOUS
<1>t. TypeOK /\ RequestsSound /\ MergedOnce /\ GateAtEvaluatedHead
    BY DEF MergesGated
<1>m. Monotone
    BY <1>t, StepMonotone
<1>b. \A m \in merges : m.b \in Branches
    BY <1>t DEF TypeOK, MergeRecords
<1>1. CASE \A a \in Actors : ~Merge(a)
    <2>1. /\ merges' = merges
          /\ \A b \in Branches : status[b] = "merged" => status'[b] = "merged"
        BY <1>1, <1>t, MergesFrame
    <2>2. MergedOnce'
        BY <2>1, <1>t, <1>b DEF MergedOnce
    <2>3. GateAtEvaluatedHead'
        BY <2>1, <1>t, <1>m DEF GateAtEvaluatedHead, Monotone
    <2> QED BY <2>2, <2>3
<1>2. ASSUME NEW a \in Actors, Merge(a)
      PROVE  MergedOnce' /\ GateAtEvaluatedHead'
    <2>1. PICK n : n = MergeRecord(a)
        OBVIOUS
    <2>2. /\ n.b = run[a].b /\ n.head = head[run[a].b]
          /\ n.engine = run[a].engine /\ n.evaluated = run[a].head
        BY <2>1 DEF MergeRecord
    <2>3. /\ run[a].b \in Branches /\ status[run[a].b] = "active" /\ run[a].pc = "merge"
          /\ RequestSound(run[a], head, approvals)
        BY <1>2, <1>t DEF Merge, At, RequestsSound, RequestSound
    <2>4. merges' = merges \cup {n} /\ approvals' = approvals
        BY <1>2, <2>1 DEF Merge, evidence
    <2>5. status' = [status EXCEPT ![n.b] = "merged"]
        BY <1>2, <2>2 DEF Merge
    <2>6. \A m \in merges : m.b # n.b
        BY <2>2, <2>3, <1>t DEF MergedOnce
    <2>7. MergedOnce'
        <3>1. \A m, k \in merges' : m.b = k.b => m = k
            BY <2>4, <2>6, <1>t DEF MergedOnce
        <3>2. \A m \in merges' : status'[m.b] = "merged"
            BY <2>2, <2>3, <2>4, <2>5, <2>6, <1>t, <1>b DEF MergedOnce, TypeOK
        <3> QED BY <3>1, <3>2 DEF MergedOnce
    <2>8. "review" \in n.engine => <<n.b, n.evaluated>> \in approvals /\ n.evaluated <= n.head
        BY <2>2, <2>3 DEF RequestSound
    <2>9. GateAtEvaluatedHead'
        BY <2>4, <2>8, <1>t DEF GateAtEvaluatedHead
    <2> QED BY <2>7, <2>9
<1> QED BY <1>1, <1>2

\* MergesGated is an invariant: however many requests and the worker race for
\* a branch, whatever is committed, reviewed or deleted between the steps of an
\* evaluation and whatever fails, Store.Merge lets one merge through, and one
\* that needed a review had an approval of exactly the head that was evaluated.
THEOREM GateHolds == Spec => []MergesGated
<1>1. Init => MergesGated
    <2> SUFFICES ASSUME Init PROVE MergesGated
        OBVIOUS
    <2>1. TypeOK
        BY IdleSound DEF Init, TypeOK, Heads
    <2>2. RequestsSound
        BY IdleSound DEF Init, RequestsSound
    <2>3. MergedOnce /\ GateAtEvaluatedHead
        BY DEF Init, MergedOnce, GateAtEvaluatedHead
    <2> QED BY <2>1, <2>2, <2>3 DEF MergesGated
<1>2. MergesGated /\ [Next]_vars => MergesGated'
    BY TypeStep, RequestsStep, MergesStep DEF MergesGated
<1> QED BY <1>1, <1>2, PTL DEF Spec

-----------------------------------------------------------------------------
(* The policy cache.                                                       *)

\* A request that is about to invalidate the cache stays there until it does.
LEMMA InvalidatePending ==
    ASSUME TypeOK, RequestsSound, Next, NEW c \in Clients, At(c, "invalidate"), ~Invalidate(c)
    PROVE  run'[c].pc = "invalidate"
<1>n. Clients \subseteq Actors /\ Worker \in Actors /\ c # Worker
    BY DEF Actors
<1>1. CASE run' = run
    BY <1>1 DEF At
<1>2. ASSUME NEW a \in Actors, a # c, NEW r, run' = [run EXCEPT ![a] = r]
      PROVE  run'[c] = run[c]
    BY <1>2, <1>n DEF TypeOK
<1>3. ASSUME NEW b \in Branches,
             \/ \E p \in Policies \cup {Keep} : CommitBranch(b, p)
             \/ \E d \in BOOLEAN : UpdateBranchDraft(b, d) \/ SetBranchAutoMerge(b, d)
             \/ \E s \in Heads : RetryChecks(b, s)
             \/ CreateProposal(b) \/ CloseProposal(b) \/ DeleteBranch(b)
      PROVE  run' = run
    BY <1>3 DEF CommitBranch, UpdateBranchDraft, SetBranchAutoMerge, RetryChecks, CreateProposal,
                CloseProposal, DeleteBranch
<1>4. ASSUME NEW x \in Clients,
             \/ \E p \in Policies : CommitMain(x, p)
             \/ \E b \in Branches : \/ MergeRequest(x, b)
                                    \/ \E approve \in BOOLEAN : CreateReview(x, b, approve)
                                    \/ \E s \in Heads, pass \in BOOLEAN : CreateCheckRun(x, b, s, pass)
             \/ StatusRequest(x)
      PROVE  run'[c] = run[c]
    <2>1. \E label, for, b : Request(x, label, for, b)
        BY <1>4 DEF CommitMain, MergeRequest, CreateReview, CreateCheckRun, StatusRequest
    <2>2. x # c /\ x \in Actors
        BY <2>1, <1>n DEF Request, At
    <2> QED BY <2>1, <2>2, <1>2 DEF Request
<1>5. ASSUME TakeEvent
      PROVE  run'[c] = run[c]
    BY <1>5, <1>n DEF TakeEvent, TypeOK
<1>6. ASSUME NEW a \in Actors, Advance(a)
      PROVE  run'[c] = run[c]
    <2>1. a # c
        BY <1>6 DEF Advance, At, LoadHit, LoadMiss, LoadStore, LoadFails, AssembleBranch, AssembleReviews,
                    AssembleChecks, Evaluate, Merge, MergeRefused, MergeFails, MergeConflict,
                    DisableAutoMerge, MergeProposal, Emit
    <2>2. Done(a) \/ (\E label : Goto(a, label)) => run'[c] = run[c]
        BY <2>1, <1>n DEF Done, Goto, TypeOK
    <2>3. ASSUME NEW engine, AfterLoad(a, engine), run[a].pc \in {"load", "store"}
          PROVE  run'[c] = run[c]
        <3>1. run[a].for \in {"status", "check", "merge"}
            BY <2>3 DEF RequestsSound, RequestSound
        <3>2. CASE run[a].for = "merge"
            BY <2>1, <2>3, <3>2, <1>n DEF AfterLoad, TypeOK
        <3> QED BY <2>2, <2>3, <3>1, <3>2 DEF AfterLoad
    <2>4. CASE \/ Invalidate(a) \/ LoadFails(a) \/ Merge(a) \/ MergeRefused(a) \/ MergeFails(a)
               \/ MergeConflict(a) \/ DisableAutoMerge(a) \/ Emit(a)
        BY <2>2, <2>4 DEF Invalidate, LoadFails, Merge, MergeRefused, MergeFails, MergeConflict,
                          DisableAutoMerge, Emit
    <2>5. CASE LoadHit(a) \/ LoadStore(a)
        BY <2>3, <2>5 DEF LoadHit, LoadStore, At
    <2>6. CASE LoadMiss(a) \/ AssembleBranch(a) \/ AssembleReviews(a) \/ AssembleChecks(a)
        BY <2>1, <2>6, <1>n DEF LoadMiss, AssembleBranch, AssembleReviews, AssembleChecks, TypeOK
    <2>7. CASE Evaluate(a)
        BY <2>1, <2>2, <2>7, <1>n DEF Evaluate, TypeOK
    <2>8. CASE MergeProposal(a)
        BY <2>1, <2>2, <2>8, <1>n DEF MergeProposal, TypeOK
    <2> QED
        BY <1>6, <2>4, <2>5, <2>6, <2>7, <2>8 DEF Advance
<1> QED BY <1>1, <1>3, <1>4, <1>5, <1>6 DEF Next, Environment, At

\* A step that neither writes main, stores an entry nor invalidates leaves the
\* cache, main's policy and the history of the races alone.
LEMMA CacheFrame ==
    ASSUME [Next]_vars,
           \A c \in Clients, p \in Policies : ~CommitMain(c, p),
           \A a \in Actors : ~Invalidate(a) /\ ~LoadStore(a) /\ ~Merge(a)
    PROVE  UNCHANGED <<cache, policy, staleBy>>
<1>1. ASSUME NEW b \in Branches,
             \/ \E p \in Policies \cup {Keep} : CommitBranch(b, p)
             \/ \E d \in BOOLEAN : UpdateBranchDraft(b, d) \/ SetBranchAutoMerge(b, d)
             \/ \E s \in Heads : RetryChecks(b, s)
             \/ CreateProposal(b) \/ CloseProposal(b) \/ DeleteBranch(b)
      PROVE  UNCHANGED <<cache, policy, staleBy>>
    BY <1>1 DEF CommitBranch, UpdateBranchDraft, SetBranchAutoMerge, RetryChecks, CreateProposal,
                CloseProposal, DeleteBranch
<1>2. ASSUME NEW c \in Clients,
             \/ \E b \in Branches : \/ MergeRequest(c, b)
                                    \/ \E approve \in BOOLEAN : CreateReview(c, b, approve)
                                    \/ \E s \in Heads, pass \in BOOLEAN : CreateCheckRun(c, b, s, pass)
             \/ StatusRequest(c)
      PROVE  UNCHANGED <<cache, policy, staleBy>>
    BY <1>2 DEF MergeRequest, CreateReview, CreateCheckRun, StatusRequest
<1>3. TakeEvent => UNCHANGED <<cache, policy, staleBy>>
    BY DEF TakeEvent
<1>4. ASSUME NEW a \in Actors, Advance(a)
      PROVE  UNCHANGED <<cache, policy, staleBy>>
    BY <1>4 DEF Advance, LoadHit, LoadMiss, LoadFails, AssembleBranch, AssembleReviews,
                AssembleChecks, Evaluate, MergeRefused, MergeFails, MergeConflict,
                DisableAutoMerge, MergeProposal, Emit
<1>5. UNCHANGED vars => UNCHANGED <<cache, policy, staleBy>>
    BY DEF vars
<1> QED BY <1>1, <1>2, <1>3, <1>4, <1>5 DEF Next, Environment

\* StaleOnlyByRace is an invariant: the cache answers with main's policies, or
\* a request is about to invalidate it, or one of the two races the model
\* names has happened since the last Invalidate.
THEOREM CacheFresh == Spec => []StaleOnlyByRace
<1>1. Init => StaleOnlyByRace
    BY DEF Init, StaleOnlyByRace
<1>2. MergesGated /\ StaleOnlyByRace /\ [Next]_vars => StaleOnlyByRace'
    <2> SUFFICES ASSUME MergesGated, StaleOnlyByRace, [Next]_vars PROVE StaleOnlyByRace'
        OBVIOUS
    <2>t. TypeOK /\ RequestsSound
        BY DEF MergesGated
    <2>n. Clients \subseteq Actors
        BY DEF Actors
    <2>1. ASSUME NEW c \in Clients, NEW p \in Policies, CommitMain(c, p)
          PROVE  StaleOnlyByRace'
        <3>1. run'[c].pc = "invalidate"
            BY <2>1, <2>t, <2>n DEF CommitMain, Request, TypeOK, Idle
        <3> QED BY <3>1 DEF StaleOnlyByRace, At
    <2>2. ASSUME NEW a \in Actors, Invalidate(a)
          PROVE  StaleOnlyByRace'
        BY <2>2 DEF Invalidate, StaleOnlyByRace
    <2>3. ASSUME NEW a \in Actors, LoadStore(a)
          PROVE  StaleOnlyByRace'
        BY <2>3 DEF LoadStore, StaleOnlyByRace
    <2>4. CASE Next /\ UNCHANGED <<cache, policy, staleBy>>
        <3>1. CASE \E c \in Clients : At(c, "invalidate")
            <4>1. PICK c \in Clients : At(c, "invalidate")
                BY <3>1
            <4>2. CASE Invalidate(c)
                BY <2>2, <4>2, <2>n
            <4>3. CASE ~Invalidate(c)
                BY <2>4, <4>1, <4>3, <2>t, InvalidatePending DEF StaleOnlyByRace, At
            <4> QED BY <4>2, <4>3
        <3>2. CASE ~\E c \in Clients : At(c, "invalidate")
            BY <2>4, <3>2 DEF StaleOnlyByRace
        <3> QED BY <3>1, <3>2
    <2>5. ASSUME NEW a \in Actors, Merge(a)
          PROVE  StaleOnlyByRace'
        <3>1. CASE a = Worker
            <4>1. CASE policy' = policy
                <5>1. UNCHANGED <<cache, policy, staleBy>>
                    BY <2>5, <4>1 DEF Merge
                <5> QED BY <2>4, <2>5, <5>1 DEF Next, Advance
            <4>2. CASE policy' # policy
                BY <2>5, <3>1, <4>2 DEF Merge, StaleOnlyByRace
            <4> QED BY <4>1, <4>2
        <3>2. CASE a # Worker
            <4>1. a \in Clients /\ run'[a].pc = "invalidate"
                BY <2>5, <3>2, <2>t DEF Merge, Goto, Actors, TypeOK, RequestRecords
            <4> QED BY <4>1 DEF StaleOnlyByRace, At
        <3> QED BY <3>1, <3>2
    <2>6. CASE UNCHANGED vars
        BY <2>6 DEF vars, StaleOnlyByRace, At
    <2> QED
        BY <2>1, <2>2, <2>3, <2>4, <2>5, <2>6, CacheFrame
<1> QED BY <1>1, <1>2, GateHolds, PTL DEF Spec
=============================================================================
