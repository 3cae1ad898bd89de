--------------------------- MODULE ProposalsProofs ---------------------------
(***************************************************************************)
(* For every agent, registry and policy: what a call of the proposal       *)
(* service stores is what the policy allows, a merge loses nothing but to  *)
(* the agent that came first, and no warning is lost on the way.           *)
(***************************************************************************)
EXTENDS Proposals, SequenceTheorems, WellFoundedInduction, TLAPS

(* turns is whatever the selection made it                                    *)
CallPc == {"idle", "selected", "asking", "judged", "created", "ended"}
CallRecord(turns) ==
  [pc : CallPc, way : Ways, turns : {turns}, handled : SUBSET Files, succeeded : BOOLEAN,
   proposed : Seq(Patch), patches : Seq(Patch), store : SUBSET Files]
StoredSet == [patches : Seq(Patch)]
TypeOK ==
  /\ call \in CallRecord(call.turns)
  /\ policy \in [Files -> {"frozen", "secret", "dependency", "free"}]
  /\ sets \in Seq(StoredSet)

-----------------------------------------------------------------------------
(* The inductive invariant *)

Announced == {e \in events : e.type = "PROPOSAL_GENERATED"}
HasRow(f) == [set |-> Len(sets), file |-> f] \in violations

(* What is judged is what was proposed, merged where several agents were asked. *)
PatchesInHand ==
  /\ call.pc \in {"idle", "selected", "asking"} => call.patches = <<>>
  /\ ~ Alone(call) /\ call.patches # <<>> => call.patches = Merged(call.proposed)

(* The set that was created last is the one in hand, and what is not stored   *)
(* of its warnings is still to be stored.                                     *)
SetInHand ==
  call.pc = "created" =>
    /\ sets # <<>> /\ sets[Len(sets)].patches = call.patches
    /\ Alone(call) => \A f \in Warned(call.patches) : f \in call.store \/ HasRow(f)

(* A call announces one set, the last thing it does.                          *)
AnnouncedLast ==
  \A e \in Announced : call.pc = "ended" /\ e.set \in DOMAIN sets

ProposalsInvariant ==
  TypeOK /\ PatchesInHand /\ SetInHand /\ AnnouncedLast /\ ReadableDiffsAreClean /\ WarningsAreStored

-----------------------------------------------------------------------------
(* The least of some numbers *)

LEMMA LessIsWellFounded ==
  \E R : IsWellFoundedOn(R, Nat) /\ \A x, y \in Nat : <<y, x>> \in R <=> y < x
<1> DEFINE R == OpToRel(<, Nat)
<1>1. IsWellFoundedOn(R, Nat) BY NatLessThanWellFounded, Zenon
<1>2. \A x \in Nat, y \in Nat : <<y, x>> \in R <=> y < x BY DEF OpToRel
<1> HIDE DEF R
<1> QED BY <1>1, <1>2

LEMMA LeastNumber ==
  ASSUME NEW T, T \subseteq Nat, T # {}
  PROVE  \E x \in T : \A y \in T : x <= y
<1>1. PICK R : IsWellFoundedOn(R, Nat) /\ \A x, y \in Nat : <<y, x>> \in R <=> y < x
  BY LessIsWellFounded
<1>2. PICK x \in T : \A y \in T : ~ (<<y, x>> \in R) BY <1>1, WFMin
<1>3. \A y \in T : ~ (y < x) BY <1>1, <1>2
<1>4. \A y \in T : x <= y BY <1>3
<1> QED BY <1>4

LEMMA MinIsLeast ==
  ASSUME NEW T, T \subseteq Nat, T # {}
  PROVE  Min(T) \in T /\ \A y \in T : Min(T) <= y
<1>1. \E x \in T : \A y \in T : x <= y BY LeastNumber
<1> QED BY <1>1 DEF Min

-----------------------------------------------------------------------------
(* The merge *)

(* One patch more                                                             *)
MergeOne(done, p, conflicts) ==
  LET kept == Kept(p, done, conflicts)
  IN IF kept = {} \/ \E i \in DOMAIN done : done[i].task = p.task THEN done
     ELSE Append(done, [p EXCEPT !.files = kept])
Merges(m, patches, n) ==
  m = [k \in 0..n |-> IF k = 0 THEN <<>> ELSE MergeOne(m[k - 1], patches[k], Conflicts(patches))]

LEMMA MergeExists ==
  ASSUME NEW patches, NEW n \in Nat
  PROVE  \E m : Merges(m, patches, n)
<1> DEFINE T == {k \in Nat : ~ \E m : Merges(m, patches, k)}
<1>1. ASSUME T # {} PROVE FALSE
  <2>1. PICK k \in T : \A l \in T : k <= l BY <1>1, LeastNumber
  <2>2. CASE k = 0
    <3> DEFINE m == [l \in 0..0 |-> <<>>]
    <3>1. m = [l \in 0..0 |-> IF l = 0 THEN <<>> ELSE MergeOne(m[l - 1], patches[l], Conflicts(patches))]
      OBVIOUS
    <3> QED BY <2>1, <2>2, <3>1 DEF Merges
  <2>3. CASE k # 0
    <3>1. k - 1 \in Nat /\ k - 1 \notin T BY <2>1, <2>3
    <3>2. PICK m : Merges(m, patches, k - 1) BY <3>1
    <3> DEFINE next(d, l) == MergeOne(d, patches[l], Conflicts(patches))
               g == [l \in 0..k |-> IF l = k THEN next(m[k - 1], k) ELSE m[l]]
    <3>3. \A l \in 0..k - 1 : m[l] = IF l = 0 THEN <<>> ELSE next(m[l - 1], l) BY <3>2 DEF Merges
    <3> HIDE DEF next
    <3>4. ASSUME NEW l \in 0..k PROVE g[l] = IF l = 0 THEN <<>> ELSE next(g[l - 1], l)
      <4>1. CASE l = k
        <5>1. g[l] = next(m[k - 1], k) /\ l # 0 BY <4>1, <2>3
        <5>2. l - 1 \in 0..k /\ l - 1 # k /\ g[l - 1] = m[l - 1] BY <4>1, <3>1
        <5> QED BY <5>1, <5>2, <4>1
      <4>2. CASE l # k
        <5>1. l \in 0..k - 1 /\ g[l] = m[l] BY <4>2, <3>1
        <5>2. l # 0 => l - 1 \in 0..k /\ g[l - 1] = m[l - 1] BY <5>1, <3>1
        <5> QED BY <3>3, <5>1, <5>2
      <4> QED BY <4>1, <4>2
    <3>5. g = [l \in 0..k |-> g[l]] OBVIOUS
    <3> HIDE DEF g
    <3>6. Merges(g, patches, k) BY <3>4, <3>5 DEF Merges, next
    <3> QED BY <2>1, <3>6
  <2> QED BY <2>2, <2>3
<1> QED BY <1>1

LEMMA MergedStepwise ==
  ASSUME NEW patches, Len(patches) \in Nat
  PROVE  \E m : Merges(m, patches, Len(patches)) /\ Merged(patches) = m[Len(patches)]
<1> DEFINE merge[k \in 0..Len(patches)] ==
             IF k = 0 THEN <<>>
             ELSE LET done == merge[k - 1]
                      p == patches[k]
                      kept == Kept(p, done, Conflicts(patches))
                  IN IF kept = {} \/ \E i \in DOMAIN done : done[i].task = p.task THEN done
                     ELSE Append(done, [p EXCEPT !.files = kept])
<1>1. Merged(patches) = merge[Len(patches)] BY DEF Merged
<1>2. merge = CHOOSE h : h = [k \in 0..Len(patches) |->
                IF k = 0 THEN <<>> ELSE MergeOne(h[k - 1], patches[k], Conflicts(patches))]
  BY DEF MergeOne
<1>3. PICK m : Merges(m, patches, Len(patches)) BY MergeExists
<1> HIDE DEF merge
<1>4. Merges(merge, patches, Len(patches)) BY <1>2, <1>3 DEF Merges
<1> QED BY <1>1, <1>4

Own(patches) == \A i, j \in DOMAIN patches : patches[i].task = patches[j].task => i = j
FirstLists(patches, j, f) == f \in patches[j].files /\ \A h \in 1..j - 1 : f \notin patches[h].files

(* What has been merged comes from the patches so far and, where each is of a *)
(* task of its own, holds every file of theirs in the patch that listed it    *)
(* first.                                                                     *)
ComesFrom(done, patches, k) ==
  \A i \in DOMAIN done : \E j \in 1..k : done[i].task = patches[j].task /\ done[i].files \subseteq patches[j].files
HoldsFirst(done, patches, k) ==
  \A j \in 1..k : \A f \in Files : FirstLists(patches, j, f) =>
    \E i \in DOMAIN done : f \in done[i].files /\ done[i].task = patches[j].task

LEMMA MergeOneTyped ==
  ASSUME NEW patches \in Seq(Patch), NEW k \in 1..Len(patches), NEW done \in Seq(Patch),
         ComesFrom(done, patches, k - 1), NEW conflicts
  PROVE  LET next == MergeOne(done, patches[k], conflicts) IN
         next \in Seq(Patch) /\ ComesFrom(next, patches, k)
<1> DEFINE p == patches[k]
           kept == Kept(p, done, conflicts)
           new == [p EXCEPT !.files = kept]
           next == MergeOne(done, p, conflicts)
<1>1. p \in Patch OBVIOUS
<1>2. kept \subseteq p.files BY DEF Kept
<1>3. next = IF kept = {} \/ \E i \in DOMAIN done : done[i].task = p.task THEN done ELSE Append(done, new)
  BY DEF MergeOne
<1>4. k \in 1..k /\ 1..k - 1 \subseteq 1..k BY k \in Nat
<1> HIDE DEF p, kept
<1>5. new \in Patch /\ new.task = p.task /\ new.files = kept BY <1>1, <1>2 DEF Patch
<1> HIDE DEF new, next
<1>6. CASE next = done BY <1>4, <1>6 DEF ComesFrom, next, p
<1>7. CASE next = Append(done, new)
  <2>1. /\ next \in Seq(Patch) /\ DOMAIN next = 1..Len(done) + 1 /\ DOMAIN done = 1..Len(done)
        /\ Len(done) \in Nat /\ next[Len(done) + 1] = new /\ \A i \in DOMAIN done : next[i] = done[i]
    BY <1>5, <1>7
  <2>2. ASSUME NEW i \in DOMAIN next
        PROVE  \E j \in 1..k : next[i].task = patches[j].task /\ next[i].files \subseteq patches[j].files
    <3>1. CASE i \in DOMAIN done BY <1>4, <2>1, <3>1 DEF ComesFrom
    <3>2. CASE i = Len(done) + 1 BY <1>2, <1>4, <1>5, <2>1, <3>2 DEF p
    <3> QED BY <2>1, <3>1, <3>2
  <2> QED BY <2>1, <2>2 DEF ComesFrom, next, p
<1> QED BY <1>3, <1>6, <1>7

LEMMA MergeOneHolds ==
  ASSUME NEW patches \in Seq(Patch), Own(patches), NEW k \in 1..Len(patches), NEW done \in Seq(Patch),
         ComesFrom(done, patches, k - 1), HoldsFirst(done, patches, k - 1), NEW conflicts
  PROVE  HoldsFirst(MergeOne(done, patches[k], conflicts), patches, k)
<1> DEFINE p == patches[k]
           kept == Kept(p, done, conflicts)
           new == [p EXCEPT !.files = kept]
           next == MergeOne(done, p, conflicts)
<1>1. p \in Patch /\ DOMAIN patches = 1..Len(patches) OBVIOUS
<1>2. next = IF kept = {} \/ \E i \in DOMAIN done : done[i].task = p.task THEN done ELSE Append(done, new)
  BY DEF MergeOne
<1>3. ASSUME NEW f \in Files, FirstLists(patches, k, f) PROVE f \in kept
  <2>1. \A i \in DOMAIN done : f \notin done[i].files BY <1>3 DEF ComesFrom, FirstLists
  <2>2. Listing(done, f) = {} BY <2>1 DEF Listing
  <2> QED BY <1>3, <2>2 DEF Kept, FirstLists
<1>4. ~ \E i \in DOMAIN done : done[i].task = p.task
  <2> SUFFICES ASSUME NEW i \in DOMAIN done, done[i].task = p.task PROVE FALSE OBVIOUS
  <2>1. PICK j \in 1..k - 1 : done[i].task = patches[j].task BY DEF ComesFrom
  <2>2. j \in DOMAIN patches /\ j # k BY <1>1
  <2> QED BY <1>1, <2>1, <2>2 DEF Own
<1>5. \A i \in DOMAIN done : i \in DOMAIN next /\ next[i] = done[i]
  <2>1. CASE next = done BY <2>1
  <2>2. CASE next = Append(done, new)
    <3> HIDE DEF new, next
    <3> QED BY <2>2
  <2> QED BY <1>2, <2>1, <2>2
<1> HIDE DEF kept
<1>6. new.task = p.task /\ new.files = kept BY <1>1 DEF Patch
<1> HIDE DEF new, next, p
<1>7. ASSUME NEW j \in 1..k, NEW f \in Files, FirstLists(patches, j, f)
      PROVE  \E i \in DOMAIN next : f \in next[i].files /\ next[i].task = patches[j].task
  <2>1. CASE j \in 1..k - 1 BY <1>5, <1>7, <2>1 DEF HoldsFirst
  <2>2. CASE j = k
    <3>1. f \in kept BY <1>3, <1>7, <2>2
    <3>2. next = Append(done, new) BY <1>2, <1>4, <3>1
    <3>3. Len(done) + 1 \in DOMAIN next /\ next[Len(done) + 1] = new BY <3>2
    <3> QED BY <1>6, <2>2, <3>1, <3>3 DEF p
  <2>3. j \in 1..k - 1 \/ j = k OBVIOUS
  <2> QED BY <2>1, <2>2, <2>3
<1> QED BY <1>7 DEF HoldsFirst, next, p

LEMMA MergedFacts ==
  ASSUME NEW patches \in Seq(Patch)
  PROVE  /\ Merged(patches) \in Seq(Patch)
         /\ Own(patches) => HoldsFirst(Merged(patches), patches, Len(patches))
<1>1. Len(patches) \in Nat OBVIOUS
<1>2. PICK m : Merges(m, patches, Len(patches)) /\ Merged(patches) = m[Len(patches)] BY <1>1, MergedStepwise
<1>3. \A k \in 0..Len(patches) : m[k] = IF k = 0 THEN <<>> ELSE MergeOne(m[k - 1], patches[k], Conflicts(patches))
  BY <1>2 DEF Merges
<1> DEFINE Good(k) == /\ m[k] \in Seq(Patch) /\ ComesFrom(m[k], patches, k)
                      /\ Own(patches) => HoldsFirst(m[k], patches, k)
           T == {k \in 0..Len(patches) : ~ Good(k)}
<1>4. ASSUME T # {} PROVE FALSE
  <2>0. T \subseteq Nat OBVIOUS
  <2> HIDE DEF Good
  <2>1. PICK k \in T : \A l \in T : k <= l
    <3> HIDE DEF T
    <3> QED BY <1>4, <2>0, LeastNumber
  <2>2. k \in 0..Len(patches) /\ ~ Good(k) BY <2>1
  <2>3. CASE k = 0
    <3>1. m[k] = <<>> BY <1>1, <1>3, <2>3
    <3>2. <<>> \in Seq(Patch) /\ DOMAIN <<>> = {} /\ 1..0 = {} OBVIOUS
    <3>3. ComesFrom(m[k], patches, k) BY <3>1, <3>2 DEF ComesFrom
    <3>4. HoldsFirst(m[k], patches, k) BY <2>3, <3>2 DEF HoldsFirst
    <3> QED BY <2>2, <3>1, <3>2, <3>3, <3>4 DEF Good
  <2>4. CASE k # 0
    <3>1. k - 1 \in 0..Len(patches) /\ k \in 1..Len(patches) BY <1>1, <2>2, <2>4
    <3>2. Good(k - 1)
      <4>1. k - 1 \notin T BY <2>1, <2>2, <1>1
      <4> QED BY <3>1, <4>1
    <3>3. m[k] = MergeOne(m[k - 1], patches[k], Conflicts(patches)) BY <1>3, <2>2, <2>4
    <3>4. m[k] \in Seq(Patch) /\ ComesFrom(m[k], patches, k) BY <3>1, <3>2, <3>3, MergeOneTyped DEF Good
    <3>5. Own(patches) => HoldsFirst(m[k], patches, k) BY <3>1, <3>2, <3>3, MergeOneHolds DEF Good
    <3> QED BY <2>2, <3>4, <3>5 DEF Good
  <2> QED BY <2>3, <2>4
<1>5. Good(Len(patches))
  <2> HIDE DEF Good
  <2>1. Len(patches) \in 0..Len(patches) /\ Len(patches) \notin T BY <1>1, <1>4
  <2> QED BY <2>1
<1> HIDE DEF T
<1> QED BY <1>2, <1>5

-----------------------------------------------------------------------------
(* What a call holds *)

Fresh(c, pc) == c \in CallRecord(c.turns) /\ c.pc = pc /\ c.patches = <<>>

LEMMA IdleTyped == Idle \in CallRecord(Idle.turns) /\ Idle.pc = "idle" /\ Idle.patches = <<>>
<1>1. <<>> \in Seq(Patch) /\ "idle" \in CallPc /\ "agent" \in Ways BY DEF CallPc, Ways
<1> QED BY <1>1 DEF Idle, CallRecord

LEMMA IdleLeft ==
  ASSUME NEW pc \in CallPc, NEW way \in Ways, NEW c, c = [Idle EXCEPT !.pc = pc, !.way = way]
  PROVE  Fresh(c, pc)
  BY IdleTyped DEF CallRecord, Fresh

LEMMA TurnsTaken ==
  ASSUME NEW pc \in CallPc, NEW way \in Ways, NEW turns, NEW c,
         c = [Idle EXCEPT !.pc = pc, !.way = way, !.turns = turns]
  PROVE  Fresh(c, pc)
  BY IdleTyped DEF CallRecord, Fresh

LEMMA GotoTyped ==
  ASSUME TypeOK, NEW pc \in CallPc
  PROVE  /\ Goto(pc) \in CallRecord(Goto(pc).turns) /\ Goto(pc).pc = pc /\ Goto(pc).way = call.way
         /\ Goto(pc).proposed = call.proposed /\ Goto(pc).patches = call.patches /\ Goto(pc).store = call.store
  BY DEF TypeOK, CallRecord, Goto

LEMMA JudgedFiles ==
  ASSUME NEW patches \in Seq(Patch)
  PROVE  Judged(patches) \subseteq Files /\ ReadLines(patches) \subseteq Files
<1>1. ASSUME NEW i \in DOMAIN patches PROVE Range(patches[i].diff) \subseteq Files /\ patches[i].diff[1] \in Files
  <2>1. patches[i] \in Patch OBVIOUS
  <2>2. patches[i].diff \in Seq(Files) /\ patches[i].diff # <<>> BY <2>1 DEF Patch
  <2> QED BY <2>2 DEF Range
<1>2. Judged(patches) \subseteq Files BY <1>1 DEF Judged
<1>3. ReadLines(patches) \subseteq Files BY <1>1 DEF ReadLines
<1> QED BY <1>2, <1>3

LEMMA GivenFiles == Given \subseteq Range(Target)
  BY DEF Given, FilesOf

(* A step before the patches are judged, or one that gives them up            *)
LEMMA NothingInHand ==
  ASSUME ProposalsInvariant, call.pc # "ended", call' \in CallRecord(call'.turns),
         call'.pc # "created", call'.patches = <<>>, UNCHANGED <<policy, sets, violations, events>>
  PROVE  ProposalsInvariant'
<1>1. TypeOK' BY DEF ProposalsInvariant, TypeOK
<1>2. PatchesInHand' /\ SetInHand' BY DEF PatchesInHand, SetInHand
<1>3. Announced' = {} BY DEF ProposalsInvariant, AnnouncedLast, Announced
<1>4. AnnouncedLast' /\ WarningsAreStored' BY <1>3 DEF AnnouncedLast, WarningsAreStored, Announced
<1>5. ReadableDiffsAreClean' BY DEF ProposalsInvariant, ReadableDiffsAreClean
<1> QED BY <1>1, <1>2, <1>4, <1>5 DEF ProposalsInvariant

LEMMA BeginStep == ProposalsInvariant /\ Begin => ProposalsInvariant'
<1> SUFFICES ASSUME ProposalsInvariant, Begin PROVE ProposalsInvariant' OBVIOUS
<1>1. /\ "agent" \in Ways /\ "auto" \in Ways /\ "specialized" \in Ways
      /\ "ended" \in CallPc /\ "selected" \in CallPc /\ "asking" \in CallPc
  BY DEF Ways, CallPc
<1>2. ASSUME NEW a \in Agents, BeginWith(a) PROVE Fresh(call', "selected")
  <2>1. call' = [Idle EXCEPT !.pc = "selected", !.way = "agent", !.turns = <<a>>] BY <1>2 DEF BeginWith
  <2> QED BY <1>1, <2>1, TurnsTaken
<1>3. ASSUME BeginAuto PROVE Fresh(call', "ended") \/ Fresh(call', "selected")
  <2>1. CASE call' = [Idle EXCEPT !.pc = "ended", !.way = "auto"] BY <1>1, <2>1, IdleLeft
  <2>2. CASE call' = [Idle EXCEPT !.pc = "selected", !.way = "auto", !.turns = Selected(1)]
    BY <1>1, <2>2, TurnsTaken
  <2> QED BY <1>3, <2>1, <2>2 DEF BeginAuto
<1>4. ASSUME NEW way \in Ways, BeginTogether(way) PROVE Fresh(call', "asking")
  <2>1. PICK turns : call' = [Idle EXCEPT !.pc = "asking", !.way = way, !.turns = turns]
    BY <1>4 DEF BeginTogether
  <2> QED BY <1>1, <2>1, TurnsTaken
<1>5. ASSUME BeginSpecialized PROVE Fresh(call', "asking")
  <2>1. PICK turns : call' = [Idle EXCEPT !.pc = "asking", !.way = "specialized", !.turns = turns]
    BY <1>5 DEF BeginSpecialized
  <2> QED BY <1>1, <2>1, TurnsTaken
<1>6. call.pc # "ended" /\ UNCHANGED <<policy, sets, violations, events>> BY DEF Begin, At, Unstored
<1>7. Fresh(call', "ended") \/ Fresh(call', "selected") \/ Fresh(call', "asking")
  BY <1>2, <1>3, <1>4, <1>5 DEF Begin
<1>8. call' \in CallRecord(call'.turns) /\ call'.pc # "created" /\ call'.patches = <<>> BY <1>7 DEF Fresh
<1> QED BY <1>6, <1>8, NothingInHand

LEMMA AnswerStep ==
  ASSUME ProposalsInvariant, NEW success \in BOOLEAN, NEW patches \in Seq(Patch), At("asking"),
         Answered(success, patches)
  PROVE  ProposalsInvariant'
<1>t. call \in CallRecord(call.turns) BY DEF ProposalsInvariant, TypeOK
<1> DEFINE handled == call.handled \cup UNION {patches[i].files : i \in DOMAIN patches}
           proposed == call.proposed \o patches
<1>1. call' = [call EXCEPT !.turns = Tail(call.turns), !.succeeded = call.succeeded \/ success,
                           !.proposed = proposed, !.handled = handled]
  BY DEF Answered
<1>2. handled \in SUBSET Files
  <2>1. \A i \in DOMAIN patches : patches[i] \in Patch OBVIOUS
  <2>2. \A i \in DOMAIN patches : patches[i].files \in SUBSET Files BY <2>1 DEF Patch
  <2> QED BY <1>t, <2>2 DEF CallRecord
<1>3. proposed \in Seq(Patch) BY <1>t DEF CallRecord
<1>4. call.pc = "asking" /\ call.patches = <<>> BY DEF At, ProposalsInvariant, PatchesInHand
<1>5. (call.succeeded \/ success) \in BOOLEAN OBVIOUS
<1> HIDE DEF handled, proposed
<1>6. call' \in CallRecord(call'.turns) /\ call'.pc = "asking" /\ call'.patches = <<>>
  BY <1>t, <1>1, <1>2, <1>3, <1>4, <1>5 DEF CallRecord
<1>7. UNCHANGED <<policy, sets, violations, events>> BY DEF Answered, Unstored
<1> QED BY <1>4, <1>6, <1>7, NothingInHand

LEMMA AskStep == ProposalsInvariant /\ (FindAgent \/ Proposes \/ ProposesNothing \/ PassesOver) => ProposalsInvariant'
<1> SUFFICES ASSUME ProposalsInvariant, FindAgent \/ Proposes \/ ProposesNothing \/ PassesOver
             PROVE ProposalsInvariant'
  OBVIOUS
<1>t. TypeOK BY DEF ProposalsInvariant
<1>p. call.pc \in {"selected", "asking"} => call.patches = <<>> BY DEF ProposalsInvariant, PatchesInHand
<1>1. CASE FindAgent
  <2>1. /\ call.pc = "selected" /\ \E pc \in {"ended", "asking"} : call' = Goto(pc)
        /\ UNCHANGED <<policy, sets, violations, events>>
    BY <1>1 DEF FindAgent, At, Unstored
  <2>2. \A pc \in {"ended", "asking"} : pc \in CallPc BY DEF CallPc
  <2>3. call' \in CallRecord(call'.turns) /\ call'.pc \in {"ended", "asking"} /\ call'.patches = <<>>
    BY <1>t, <1>p, <2>1, <2>2, GotoTyped
  <2> QED BY <2>1, <2>3, NothingInHand
<1>2. CASE Proposes
  <2>1. PICK patches \in Offers(Given) : Answered(TRUE, patches) BY <1>2 DEF Proposes
  <2>2. patches \in Seq(Patch) BY GivenFiles, ProposalsAssumption
  <2>3. At("asking") BY <1>2 DEF Proposes, MayAsk
  <2> QED BY <2>1, <2>2, <2>3, AnswerStep
<1>3. CASE ProposesNothing
  <2>1. Answered(FALSE, <<>>) /\ At("asking") BY <1>3 DEF ProposesNothing, MayAsk
  <2>2. <<>> \in Seq(Patch) OBVIOUS
  <2> QED BY <2>1, <2>2, AnswerStep
<1>4. CASE PassesOver
  <2>1. call' = [call EXCEPT !.turns = Tail(call.turns)] /\ call.pc = "asking"
        /\ UNCHANGED <<policy, sets, violations, events>>
    BY <1>4 DEF PassesOver, MayAsk, At, Unstored
  <2>2. call' \in CallRecord(call'.turns) /\ call'.pc = "asking" /\ call'.patches = <<>>
    BY <1>t, <1>p, <2>1 DEF TypeOK, CallRecord
  <2> QED BY <2>1, <2>2, NothingInHand
<1> QED BY <1>1, <1>2, <1>3, <1>4

LEMMA ThrowStep == ProposalsInvariant /\ Throws => ProposalsInvariant'
<1> SUFFICES ASSUME ProposalsInvariant, Throws PROVE ProposalsInvariant' OBVIOUS
<1>1. call' = [Idle EXCEPT !.pc = "ended", !.way = call.way] BY DEF Throws
<1>2. call.pc # "ended" /\ UNCHANGED <<policy, sets, violations, events>> BY DEF Throws
<1>3. call.way \in Ways /\ "ended" \in CallPc BY DEF ProposalsInvariant, TypeOK, CallRecord, CallPc
<1>4. Fresh(call', "ended") BY <1>1, <1>3, IdleLeft
<1>5. call' \in CallRecord(call'.turns) /\ call'.pc = "ended" /\ call'.patches = <<>> BY <1>4 DEF Fresh
<1> QED BY <1>2, <1>5, NothingInHand

LEMMA FinalizeStep == ProposalsInvariant /\ Finalize => ProposalsInvariant'
<1> SUFFICES ASSUME ProposalsInvariant, Finalize PROVE ProposalsInvariant' OBVIOUS
<1>t. TypeOK /\ call.pc = "asking" /\ call.patches = <<>> /\ UNCHANGED <<policy, sets, violations, events>>
  BY DEF ProposalsInvariant, PatchesInHand, Finalize, At, Unstored
<1>p. "ended" \in CallPc /\ "judged" \in CallPc BY DEF CallPc
<1>1. CASE ~ call.succeeded
  <2>1. call' = Goto("ended") BY <1>1 DEF Finalize
  <2>2. call' \in CallRecord(call'.turns) /\ call'.pc = "ended" /\ call'.patches = <<>>
    BY <1>t, <1>p, <2>1, GotoTyped
  <2> QED BY <1>t, <2>2, NothingInHand
<1>2. CASE call.succeeded
  <2> DEFINE patches == IF Alone(call) THEN call.proposed ELSE Merged(call.proposed)
  <2>1. call' = [Goto("judged") EXCEPT !.patches = patches] BY <1>2 DEF Finalize
  <2>2. call.proposed \in Seq(Patch) BY <1>t DEF TypeOK, CallRecord
  <2>3. patches \in Seq(Patch) BY <2>2, MergedFacts
  <2>4. ~ Alone(call) => patches = Merged(call.proposed) OBVIOUS
  <2> HIDE DEF patches
  <2> DEFINE c == Goto("judged")
  <2>c. /\ c \in CallRecord(c.turns) /\ c.pc = "judged" /\ c.way = call.way
        /\ c.proposed = call.proposed
    BY <1>t, <1>p, GotoTyped
  <2>d. call' = [c EXCEPT !.patches = patches] BY <2>1
  <2> HIDE DEF c
  <2>5. /\  call' \in CallRecord(call'.turns) /\ call'.pc = "judged" /\ call'.way = call.way
        /\ call'.proposed = call.proposed /\ call'.patches = patches
    BY <2>c, <2>d, <2>3 DEF CallRecord
  <2>6. TypeOK' BY <1>t, <2>5 DEF TypeOK
  <2>7. PatchesInHand' BY <2>4, <2>5 DEF PatchesInHand, Alone
  <2>8. SetInHand' BY <2>5 DEF SetInHand
  <2>9. Announced' = {} BY <1>t DEF ProposalsInvariant, AnnouncedLast, Announced
  <2>10. AnnouncedLast' /\ WarningsAreStored' BY <2>9 DEF AnnouncedLast, WarningsAreStored, Announced
  <2>11. ReadableDiffsAreClean' BY <1>t DEF ProposalsInvariant, ReadableDiffsAreClean
  <2> QED BY <2>6, <2>7, <2>8, <2>10, <2>11 DEF ProposalsInvariant
<1> QED BY <1>1, <1>2

LEMMA RefuseStep == ProposalsInvariant /\ Refuse => ProposalsInvariant'
<1> SUFFICES ASSUME ProposalsInvariant, Refuse PROVE ProposalsInvariant' OBVIOUS
<1>t. TypeOK /\ call.pc = "judged" /\ call' = Goto("ended") /\ UNCHANGED <<policy, sets, violations>>
  BY DEF ProposalsInvariant, Refuse, At, Ends
<1>1. "ended" \in CallPc BY DEF CallPc
<1>2. /\ call' \in CallRecord(call'.turns) /\ call'.pc = "ended" /\ call'.way = call.way
      /\ call'.proposed = call.proposed /\ call'.patches = call.patches
  BY <1>t, <1>1, GotoTyped
<1>3. Announced' = {}
  <2>1. Announced = {} BY <1>t DEF ProposalsInvariant, AnnouncedLast
  <2>2. events' \subseteq events \cup {[type |-> "PROPOSAL_REJECTED", set |-> 0]} BY DEF Refuse
  <2> QED BY <2>1, <2>2 DEF Announced
<1>4. TypeOK' BY <1>t, <1>2 DEF TypeOK
<1>5. PatchesInHand' /\ SetInHand' BY <1>2 DEF ProposalsInvariant, PatchesInHand, SetInHand, Alone
<1>6. AnnouncedLast' /\ WarningsAreStored' BY <1>3 DEF AnnouncedLast, WarningsAreStored, Announced
<1>7. ReadableDiffsAreClean' BY <1>t DEF ProposalsInvariant, ReadableDiffsAreClean
<1> QED BY <1>4, <1>5, <1>6, <1>7 DEF ProposalsInvariant

LEMMA CleanPatches ==
  ASSUME NEW patches \in Seq(Patch), Blocked(patches) = {}, NEW i \in DOMAIN patches
  PROVE  /\ patches[i].headed => \A f \in Range(patches[i].diff) : policy[f] \notin {"frozen", "secret"}
         /\ i = 1 => policy[patches[i].diff[1]] # "frozen"
<1>1. ASSUME patches[i].headed, NEW f \in Range(patches[i].diff) PROVE policy[f] \notin {"frozen", "secret"}
  <2>1. f \in Judged(patches) /\ f \in ReadLines(patches) BY <1>1 DEF Judged, ReadLines
  <2> QED BY <2>1 DEF Blocked
<1>2. ASSUME i = 1 PROVE policy[patches[i].diff[1]] # "frozen"
  <2>1. patches[i] \in Patch OBVIOUS
  <2>2. patches[i].diff \in Seq(Files) /\ patches[i].diff # <<>> BY <2>1 DEF Patch
  <2>3. patches[i].diff[1] \in Range(patches[i].diff) BY <2>2 DEF Range
  <2>4. patches[i].diff[1] \in Judged(patches) BY <1>2, <2>3 DEF Judged
  <2> QED BY <2>4 DEF Blocked
<1> QED BY <1>1, <1>2

LEMMA CreateStep == ProposalsInvariant /\ Create => ProposalsInvariant'
<1> SUFFICES ASSUME ProposalsInvariant, Create PROVE ProposalsInvariant' OBVIOUS
<1> DEFINE row == [patches |-> call.patches]
           store == IF Alone(call) THEN Warned(call.patches) ELSE {}
<1>t. /\ TypeOK /\ call.pc = "judged" /\ Blocked(call.patches) = {} /\ sets' = Append(sets, row)
      /\ call' = [Goto("created") EXCEPT !.store = store] /\ UNCHANGED <<policy, violations, events>>
  BY DEF ProposalsInvariant, Create, At
<1>1. call.patches \in Seq(Patch) /\ sets \in Seq(StoredSet) BY <1>t DEF TypeOK, CallRecord
<1>2. store \in SUBSET Files BY <1>1, JudgedFiles DEF Warned
<1>3. Alone(call) => store = Warned(call.patches) OBVIOUS
<1>4. row \in StoredSet /\ row.patches = call.patches BY <1>1 DEF StoredSet
<1>5. "created" \in CallPc BY DEF CallPc
<1> HIDE DEF row, store
<1> DEFINE c == Goto("created")
<1>c. /\ c \in CallRecord(c.turns) /\ c.pc = "created" /\ c.way = call.way
      /\ c.proposed = call.proposed /\ c.patches = call.patches
  BY <1>t, <1>5, GotoTyped
<1>d. call' = [c EXCEPT !.store = store] BY <1>t
<1> HIDE DEF c
<1>6. /\ call' \in CallRecord(call'.turns) /\ call'.pc = "created" /\ call'.way = call.way
      /\ call'.proposed = call.proposed /\ call'.patches = call.patches /\ call'.store = store
  BY <1>c, <1>d, <1>2 DEF CallRecord
<1>7. /\ sets' \in Seq(StoredSet) /\ sets' # <<>> /\ sets'[Len(sets')] = row
      /\ \A s \in DOMAIN sets' : (s \in DOMAIN sets /\ sets'[s] = sets[s]) \/ sets'[s] = row
  BY <1>t, <1>1, <1>4
<1>8. TypeOK' BY <1>t, <1>6, <1>7 DEF TypeOK
<1>9. PatchesInHand' BY <1>6 DEF ProposalsInvariant, PatchesInHand, Alone
<1>10. SetInHand'
  <2>1. Warned(call.patches)' = Warned(call.patches) BY <1>t, <1>6 DEF Warned, Judged
  <2> QED BY <1>3, <1>4, <1>6, <1>7, <2>1 DEF SetInHand, Alone
<1>11. Announced' = {} BY <1>t DEF ProposalsInvariant, AnnouncedLast, Announced
<1>12. AnnouncedLast' /\ WarningsAreStored' BY <1>11 DEF AnnouncedLast, WarningsAreStored, Announced
<1>13. ReadableDiffsAreClean'
  <2>1. \A i \in DOMAIN row.patches :
          /\ row.patches[i].headed => \A f \in Range(row.patches[i].diff) : policy[f] \notin {"frozen", "secret"}
          /\ i = 1 => policy[row.patches[i].diff[1]] # "frozen"
    BY <1>t, <1>1, <1>4, CleanPatches
  <2> QED BY <1>t, <1>7, <2>1 DEF ProposalsInvariant, ReadableDiffsAreClean
<1> QED BY <1>8, <1>9, <1>10, <1>12, <1>13 DEF ProposalsInvariant

LEMMA StoreStep == ProposalsInvariant /\ StoreViolation => ProposalsInvariant'
<1> SUFFICES ASSUME ProposalsInvariant, StoreViolation PROVE ProposalsInvariant' OBVIOUS
<1>t. TypeOK /\ call.pc = "created" /\ UNCHANGED <<policy, sets, events>>
  BY DEF ProposalsInvariant, StoreViolation, At
<1>1. PICK f \in call.store : /\ violations' = violations \cup {[set |-> Len(sets), file |-> f]}
                              /\ call' = [call EXCEPT !.store = call.store \ {f}]
  BY DEF StoreViolation
<1>2. /\ call' \in CallRecord(call'.turns) /\ call'.pc = "created" /\ call'.way = call.way
      /\ call'.proposed = call.proposed /\ call'.patches = call.patches /\ call'.store = call.store \ {f}
  BY <1>t, <1>1 DEF TypeOK, CallRecord
<1>3. TypeOK' BY <1>t, <1>2 DEF TypeOK
<1>4. PatchesInHand' BY <1>2 DEF ProposalsInvariant, PatchesInHand, Alone
<1>5. SetInHand'
  <2>1. Warned(call.patches)' = Warned(call.patches) BY <1>t, <1>2 DEF Warned, Judged
  <2>2. HasRow(f)' /\ \A g : HasRow(g) => HasRow(g)' BY <1>t, <1>1 DEF HasRow
  <2> QED BY <1>t, <1>2, <2>1, <2>2 DEF ProposalsInvariant, SetInHand, Alone
<1>6. Announced' = {} BY <1>t DEF ProposalsInvariant, AnnouncedLast, Announced
<1>7. AnnouncedLast' /\ WarningsAreStored' BY <1>6 DEF AnnouncedLast, WarningsAreStored, Announced
<1>8. ReadableDiffsAreClean' BY <1>t DEF ProposalsInvariant, ReadableDiffsAreClean
<1> QED BY <1>3, <1>4, <1>5, <1>7, <1>8 DEF ProposalsInvariant

LEMMA RecordStep == ProposalsInvariant /\ RecordProposal => ProposalsInvariant'
<1> SUFFICES ASSUME ProposalsInvariant, RecordProposal PROVE ProposalsInvariant' OBVIOUS
<1> DEFINE event == [type |-> "PROPOSAL_GENERATED", set |-> Len(sets)]
<1>t. /\ TypeOK /\ call.pc = "created" /\ call.store = {} /\ call' = Goto("ended")
      /\ events' = events \cup {event} /\ UNCHANGED <<policy, sets, violations>>
  BY DEF ProposalsInvariant, RecordProposal, AllStored, At, Ends
<1>1. "ended" \in CallPc BY DEF CallPc
<1>2. /\ call' \in CallRecord(call'.turns) /\ call'.pc = "ended" /\ call'.way = call.way
      /\ call'.proposed = call.proposed /\ call'.patches = call.patches
  BY <1>t, <1>1, GotoTyped
<1>3. sets # <<>> /\ sets[Len(sets)].patches = call.patches
      /\ (Alone(call) => \A f \in Warned(call.patches) : HasRow(f))
  BY <1>t DEF ProposalsInvariant, SetInHand
<1>4. Announced = {} BY <1>t DEF ProposalsInvariant, AnnouncedLast
<1>5. Announced' = {event} BY <1>t, <1>4 DEF Announced
<1>6. event.set = Len(sets) /\ Len(sets) \in DOMAIN sets BY <1>t, <1>3 DEF TypeOK
<1> HIDE DEF event
<1>7. TypeOK' BY <1>t, <1>2 DEF TypeOK
<1>8. PatchesInHand' /\ SetInHand' BY <1>2 DEF ProposalsInvariant, PatchesInHand, SetInHand, Alone
<1>9. AnnouncedLast' BY <1>t, <1>2, <1>5, <1>6 DEF AnnouncedLast
<1>10. WarningsAreStored'
  <2>1. Warned(sets[Len(sets)].patches)' = Warned(call.patches) BY <1>t, <1>3 DEF Warned, Judged
  <2>2. Alone(call)' = Alone(call) BY <1>2 DEF Alone
  <2> QED BY <1>t, <1>3, <1>5, <1>6, <2>1, <2>2 DEF WarningsAreStored, Announced, HasRow
<1>11. ReadableDiffsAreClean' BY <1>t DEF ProposalsInvariant, ReadableDiffsAreClean
<1> QED BY <1>7, <1>8, <1>9, <1>10, <1>11 DEF ProposalsInvariant

LEMMA StillStep ==
  ProposalsInvariant /\ UNCHANGED <<policy, call, sets, violations, events>> => ProposalsInvariant'
<1> SUFFICES ASSUME ProposalsInvariant, UNCHANGED <<policy, call, sets, violations, events>> PROVE ProposalsInvariant'
  OBVIOUS
<1>1. TypeOK' BY DEF ProposalsInvariant, TypeOK
<1>2. PatchesInHand' BY DEF ProposalsInvariant, PatchesInHand
<1>3. SetInHand' BY DEF ProposalsInvariant, SetInHand, Warned, Judged, HasRow
<1>4. AnnouncedLast' BY DEF ProposalsInvariant, AnnouncedLast, Announced
<1>5. ReadableDiffsAreClean' BY DEF ProposalsInvariant, ReadableDiffsAreClean
<1>6. WarningsAreStored' BY DEF ProposalsInvariant, WarningsAreStored, Warned, Judged
<1> QED BY <1>1, <1>2, <1>3, <1>4, <1>5, <1>6 DEF ProposalsInvariant

LEMMA ProposalsStep == ProposalsInvariant /\ [Next]_vars => ProposalsInvariant'
<1>1. Admin => UNCHANGED <<policy, call, sets, violations, events>>
  BY DEF Admin, SetEnabled, SetPriority, Unregister, Administer
<1>2. UNCHANGED vars => UNCHANGED <<policy, call, sets, violations, events>> BY DEF vars
<1> QED BY <1>1, <1>2, BeginStep, AskStep, ThrowStep, FinalizeStep, RefuseStep, CreateStep, StoreStep,
           RecordStep, StillStep DEF Next

LEMMA ProposalsInit == Init => ProposalsInvariant
<1> SUFFICES ASSUME Init PROVE ProposalsInvariant OBVIOUS
<1>1. call = Idle /\ policy \in Policies /\ sets = <<>> /\ events = {} BY DEF Init
<1>4. call \in CallRecord(call.turns) /\ call.pc = "idle" /\ call.patches = <<>> BY <1>1, IdleTyped
<1>5. TypeOK BY <1>1, <1>4, ProposalsAssumption DEF TypeOK
<1>6. PatchesInHand /\ SetInHand BY <1>4 DEF PatchesInHand, SetInHand
<1>7. AnnouncedLast /\ WarningsAreStored BY <1>1 DEF AnnouncedLast, WarningsAreStored, Announced
<1>8. ReadableDiffsAreClean BY <1>1 DEF ReadableDiffsAreClean
<1> QED BY <1>5, <1>6, <1>7, <1>8 DEF ProposalsInvariant

LEMMA ProposalsInvariantHolds == Spec => []ProposalsInvariant
  BY ProposalsInit, ProposalsStep, PTL DEF Spec

-----------------------------------------------------------------------------
(* Whichever agents, strategy and merge a stored set came from: what of its   *)
(* diffs the gate can read changes no frozen file and adds no secret          *)
(* (persistPatchSet after evaluateProposalGate2).                             *)
THEOREM ReadableDiffsAreCleanHolds == Spec => []ReadableDiffsAreClean
<1>1. ProposalsInvariant => ReadableDiffsAreClean BY DEF ProposalsInvariant
<1> QED BY <1>1, ProposalsInvariantHolds, PTL

(* Where no two proposed patches share a task, each proposed file is in the   *)
(* merged set, in the patch that listed it first                              *)
(* (mergePatchSetsWithResolution).                                            *)
THEOREM ConflictsGoToFirstHolds == Spec => []ConflictsGoToFirst
<1>1. ProposalsInvariant => ConflictsGoToFirst
  <2> SUFFICES ASSUME ProposalsInvariant, ~ Alone(call), call.patches # <<>>, Own(call.proposed),
                      NEW f \in Files, Listing(call.proposed, f) # {}
               PROVE  \E i \in DOMAIN call.patches :
                        /\ f \in call.patches[i].files
                        /\ call.patches[i].task = call.proposed[Min(Listing(call.proposed, f))].task
    BY DEF ConflictsGoToFirst, Own
  <2> DEFINE first == Min(Listing(call.proposed, f))
  <2>1. call.proposed \in Seq(Patch) BY DEF ProposalsInvariant, TypeOK, CallRecord
  <2>2. DOMAIN call.proposed = 1..Len(call.proposed) /\ Len(call.proposed) \in Nat BY <2>1
  <2>3. Listing(call.proposed, f) \subseteq 1..Len(call.proposed) BY <2>2 DEF Listing
  <2>4. Listing(call.proposed, f) \subseteq Nat BY <2>3
  <2>5. first \in Listing(call.proposed, f) /\ \A j \in Listing(call.proposed, f) : first <= j
    BY <2>4, MinIsLeast
  <2> HIDE DEF first
  <2>6. first \in 1..Len(call.proposed) /\ f \in call.proposed[first].files BY <2>3, <2>5 DEF Listing
  <2>7. ASSUME NEW h \in 1..first - 1 PROVE f \notin call.proposed[h].files
    <3>1. h \in DOMAIN call.proposed /\ ~ (first <= h) BY <2>2, <2>6
    <3> QED BY <2>5, <3>1 DEF Listing
  <2>8. FirstLists(call.proposed, first, f) BY <2>6, <2>7 DEF FirstLists
  <2>9. call.patches = Merged(call.proposed) BY DEF ProposalsInvariant, PatchesInHand
  <2>10. HoldsFirst(call.patches, call.proposed, Len(call.proposed)) BY <2>1, <2>9, MergedFacts
  <2> QED BY <2>6, <2>8, <2>10 DEF HoldsFirst, first
<1> QED BY <1>1, ProposalsInvariantHolds, PTL

(* An agent's own proposal that was announced has a row for every warning of  *)
(* the gate (evaluateAndPersist before recordProposalEvent).                  *)
THEOREM WarningsAreStoredHolds == Spec => []WarningsAreStored
<1>1. ProposalsInvariant => WarningsAreStored BY DEF ProposalsInvariant
<1> QED BY <1>1, ProposalsInvariantHolds, PTL
===============================================================================
