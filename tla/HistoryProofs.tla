----------------------------- MODULE HistoryProofs -----------------------------
(***************************************************************************)
(* What holds of checkpoints, diagnosis and webhooks for every value of    *)
(* the constants: the invariants and the action properties of History.     *)
(*                                                                         *)
(* Rows are told apart by time, and a call works on what it read earlier:  *)
(* TimesInvariant says that whatever a call or a checkpoint lists is older *)
(* than what is inserted next, PruningInvariant what may still be said of  *)
(* the checkpoints a caller is about to delete, ApprovalInvariant and      *)
(* DeliveryInvariant how far the calls got that approve a fix or process a *)
(* delivery.                                                               *)
(***************************************************************************)
EXTENDS History, FiniteSetTheorems, SequenceTheorems, WellFoundedInduction, TLAPS

(* Where a call of each service may be.                                       *)
ListingPc == {"listArtifacts", "listSets", "listEvents", "listRuns"}
CreatingPc == {"state", "snapshot"} \cup ListingPc \cup {"create", "created", "prune", "delete"}
RestoringPc == RowKind \cup {"update"}
CheckpointPc == CreatingPc \cup RestoringPc \cup {"restored"}
DiagnosisPc == {"diagnosis", "diagnosed", "fix", "fixSet", "proposed",
                "approve", "reject", "approval", "decided"}
RecordingPc == {"ciEvent", "merge", "mergeEvent"}
DeliveryPc == {"match"} \cup RecordingPc \cup {"markProcessed", "store", "ciEvidence", "ciArtifact"}

(* The empty string, which stands for no value.                               *)
None == ""

RowStatus == {"none", "proposed", "approved", "rejected", "failed", "success", "failure",
              "cancelled", "merged", "passed", "not passed"}
RowRecord == [at : Nat, kind : RowKind, status : RowStatus, about : Deliveries \cup Commits \cup {None}]
Snapshot == [at : Nat, auto : BOOLEAN, state : States, base : Commits, lists : SUBSET Nat]
CallPc == {"idle"} \cup CheckpointPc \cup DiagnosisPc \cup DeliveryPc
CallRecord ==
  [pc : CallPc, auto : BOOLEAN,
   state : States \cup {None}, base : Commits \cup {None}, listed : SUBSET Nat,
   target : Snapshot \cup {NoCheckpoint}, preserve : SUBSET RowKind,
   fixes : Nat, set : Nat, delivery : Deliveries \cup {None}]

(* What a call has read by the time it uses it.                               *)
HasRead(call) ==
  /\ call.pc \in {"snapshot", "create"} \cup ListingPc => call.state \in States
  /\ call.pc \in {"create", "fixSet"} \cup ListingPc => call.base \in Commits
  /\ call.pc \in {"fixSet", "proposed"} => call.fixes > 0
  /\ call.pc \in RestoringPc => call.target \in Snapshot
  /\ call.pc \in DeliveryPc => call.delivery \in Deliveries

(* Rows are typed, and none is newer than the clock.                          *)
RowsTyped == rows \subseteq RowRecord /\ clock \in Nat /\ \A r \in rows : r.at <= clock

TypeOK ==
  /\ workflow \in [state : States, base : Commits]
  /\ RowsTyped /\ checkpoints \subseteq Snapshot
  /\ pullRequest \in {"none", "open", "closed", "merged"}
  /\ approvals \subseteq Nat /\ proposals \subseteq Nat
  /\ hooks \in [Deliveries -> {"absent", "stored", "processed"}]
  /\ calls \in [Callers -> CallRecord] /\ \A c \in Callers : HasRead(calls[c])
  /\ begun \in Nat /\ work \in Nat /\ faults \in Nat
  /\ marked \subseteq Nat /\ matched \subseteq Deliveries
  /\ recorded \subseteq Deliveries /\ dropped \in BOOLEAN

(* What is in the tables, in a checkpoint or in a call is not newer than the  *)
(* clock, and what a checkpoint lists was there before it.                    *)
ListsEarlier(k) == \A t \in k.lists : t < k.at
TimesInvariant ==
  /\ \A k \in checkpoints : k.at <= clock /\ ListsEarlier(k)
  /\ \A j, k \in checkpoints : j.at = k.at => j = k
  /\ \A c \in Callers : calls[c].pc \in CreatingPc => \A t \in calls[c].listed : t <= clock
  /\ \A c \in Callers : calls[c].pc \in RestoringPc => ListsEarlier(calls[c].target)

(* What a caller listed to prune is still not the oldest when it deletes it.  *)
MayGo(k) == k.auto /\ (dropped \/ Older(k) # {})
PruningInvariant ==
  \A c \in Callers : At(c, "delete") =>
    \A k \in checkpoints : k.at \in calls[c].listed => MayGo(k)

ApprovalInvariant ==
  /\ FixApprovalsAgree
  /\ \A c \in Callers : At(c, "approval") => calls[c].set \in marked

(* Once it was matched, a delivery is recorded or a call is about to do it.    *)
DeliveryInvariant ==
  \A d \in matched : d \in recorded \/ faults > 0 \/ \E c \in Callers : Recording(c, d)

-----------------------------------------------------------------------------
(* Numbers and sequences *)

LEMMA LessIsWellFounded ==
  \E R : IsWellFoundedOn(R, Nat) /\ \A x, y \in Nat : <<y, x>> \in R <=> y < x
<1> DEFINE R == OpToRel(<, Nat)
<1>1. IsWellFoundedOn(R, Nat) BY NatLessThanWellFounded, Zenon
<1>2. \A x \in Nat, y \in Nat : <<y, x>> \in R <=> y < x BY DEF OpToRel
<1> HIDE DEF R
<1> QED BY <1>1, <1>2

LEMMA LeastNumber ==
  ASSUME NEW T, T \subseteq Nat, T # {}
  PROVE  \E x \in T : \A y \in T : x <= y
<1>1. PICK R : IsWellFoundedOn(R, Nat) /\ \A x, y \in Nat : <<y, x>> \in R <=> y < x
  BY LessIsWellFounded
<1>2. PICK x \in T : \A y \in T : ~ (<<y, x>> \in R) BY <1>1, WFMin
<1>3. \A y \in T : ~ (y < x) BY <1>1, <1>2
<1>4. \A y \in T : x <= y BY <1>3
<1> QED BY <1>4

LEMMA GreatestNumber ==
  ASSUME NEW T, T \subseteq Nat, T # {}, NEW n \in Nat, \A t \in T : t <= n
  PROVE  \E x \in T : \A y \in T : x >= y
<1> DEFINE U == {n - t : t \in T}
<1>1. \A t \in T : n - t \in Nat OBVIOUS
<1>2. U \subseteq Nat /\ U # {} BY <1>1
<1>3. PICK u \in U : \A y \in U : u <= y BY <1>2, LeastNumber
<1>4. PICK x \in T : u = n - x BY <1>3
<1>5. \A y \in T : n - x <= n - y BY <1>3, <1>4
<1>6. \A y \in T : x >= y BY <1>5
<1> QED BY <1>6

(* Finitely many fixes are tried, whatever the cause.                         *)
LEMMA FixesCounted ==
  ASSUME NEW v \in Violations, NEW cause \in RootCauses(v)
  PROVE  Cardinality(Generated(PotentialFixes(cause, v))) \in Nat
<1> DEFINE Fixes == [confidence : Nat, canAutoPatch : BOOLEAN]
           fixes == PotentialFixes(cause, v)
<1>1. \A n \in Nat, auto \in BOOLEAN : Fix(n, auto) \in Fixes BY DEF Fix
<1>2. v.secrets \in Nat /\ v.others \in Nat BY DiagnosisAssumption
<1>3. cause \in Causes BY DEF RootCauses, Causes
<1>4. fixes \in Seq(Fixes)
  <2> HIDE DEF Fixes
  <2>1. CASE cause = "policy_violation"
    <3> DEFINE n == v.secrets + v.others
               f == [i \in 1..n |-> Fix(80, i > v.secrets)]
    <3>1. n \in Nat BY <1>2
    <3>2. \A i \in 1..n : Fix(80, i > v.secrets) \in Fixes BY DEF Fix, Fixes
    <3>3. f \in [1..n -> Fixes] BY <3>2
    <3>4. fixes = f BY <2>1 DEF PotentialFixes
    <3> HIDE DEF n, f
    <3> QED BY <3>1, <3>3, <3>4, SeqDef
  <2>2. RetryFix \in Seq(Fixes)
    <3> DEFINE fix == Fix(40, FALSE)
    <3>1. fix \in Fixes /\ RetryFix = <<fix>> BY <1>1 DEF RetryFix
    <3> HIDE DEF fix
    <3> QED BY <3>1
  <2>3. \A a, b \in Nat, s, t \in BOOLEAN :
          <<Fix(a, s)>> \in Seq(Fixes) /\ <<Fix(a, s), Fix(b, t)>> \in Seq(Fixes)
    BY <1>1
  <2>4. \A s \in Seq(Fixes) : s \o RetryFix \in Seq(Fixes) BY <2>2, ConcatProperties
  <2>5. CASE cause \in {"resource_limit", "network_error", "external_service"}
    BY <2>3, <2>4, <2>5 DEF PotentialFixes
  <2>6. CASE cause \in {"test_failure", "build_error", "dependency_issue", "configuration_error",
                        "data_issue", "permission_denied", "code_error", "unknown"}
    BY <2>3, <2>6, ZenonT(40) DEF PotentialFixes
  <2> QED BY <1>3, <2>1, <2>5, <2>6 DEF Causes
<1> HIDE DEF fixes, Fixes
<1>5. DOMAIN fixes = 1..Len(fixes) /\ Len(fixes) \in Nat BY <1>4, LenProperties
<1>6. IsFiniteSet(DOMAIN fixes) BY <1>5, FS_Interval
<1>7. Generated(fixes) \subseteq DOMAIN fixes BY DEF Generated
<1> QED BY <1>6, <1>7, FS_Subset, FS_CardinalityType DEF fixes

-----------------------------------------------------------------------------
(* Calls *)

LEMMA MovesOne ==
  ASSUME TypeOK, NEW c \in Callers, NEW call, Moves(c, call)
  PROVE  /\ calls'[c] = call
         /\ \A b \in Callers : b # c => calls'[b] = calls[b]
BY DEF TypeOK, Moves

LEMMA MovesTyped ==
  ASSUME TypeOK, NEW c \in Callers, NEW call, Moves(c, call), call \in CallRecord, HasRead(call)
  PROVE  calls' \in [Callers -> CallRecord] /\ \A b \in Callers : HasRead(calls'[b])
<1>1. calls' \in [Callers -> CallRecord] BY DEF TypeOK, Moves
<1>2. \A b \in Callers : HasRead(calls'[b]) BY MovesOne DEF TypeOK
<1> QED BY <1>1, <1>2

LEMMA IdleTyped == Idle \in CallRecord /\ HasRead(Idle) /\ Idle.pc = "idle"
BY DEF None, Idle, CallRecord, CallPc, HasRead, RestoringPc, RowKind, ListingPc, DeliveryPc, RecordingPc

LEMMA GotoTyped ==
  ASSUME TypeOK, NEW c \in Callers, NEW pc \in CallPc
  PROVE  /\ Goto(c, pc) \in CallRecord /\ Goto(c, pc).pc = pc
         /\ Goto(c, pc).state = calls[c].state /\ Goto(c, pc).base = calls[c].base
<1>1. calls[c] \in CallRecord BY DEF TypeOK
<1> QED BY <1>1 DEF CallRecord, Goto

LEMMA ListTyped ==
  ASSUME NEW call \in CallRecord, NEW new \in SUBSET Nat
  PROVE  LET next == [call EXCEPT !.listed = @ \cup new] IN
         /\ next \in CallRecord /\ next.listed = call.listed \cup new
         /\ next.pc = call.pc /\ next.state = call.state /\ next.base = call.base
         /\ next.target = call.target /\ next.delivery = call.delivery
<1> DEFINE listed == call.listed \cup new
<1>1. listed \in SUBSET Nat /\ [call EXCEPT !.listed = @ \cup new] = [call EXCEPT !.listed = listed]
  BY DEF CallRecord
<1> HIDE DEF listed
<1>2. /\ [call EXCEPT !.listed = listed] \in CallRecord
      /\ [call EXCEPT !.listed = listed].listed = listed
  BY <1>1 DEF CallRecord
<1>3. call.listed \cup new = listed BY DEF listed
<1> QED BY <1>1, <1>2, <1>3 DEF CallRecord

(* Each service moves its own calls only.                                     *)
Within(c, pcs) ==
  /\ calls[c].pc \in pcs \cup {"idle"} /\ calls'[c].pc \in pcs \cup {"idle"}
  /\ \A b \in Callers : b # c => calls'[b] = calls[b]

LEMMA ClockTicks ==
  ASSUME TypeOK
  PROVE  /\ clock \in Nat /\ clock + 1 \in Nat
         /\ \A n \in Nat : n <= clock => n <= clock + 1
         /\ \A r \in RowRecord : r.at <= clock \/ r.at = clock + 1 => r.at <= clock + 1
<1>1. clock \in Nat BY DEF TypeOK, RowsTyped
<1>2. \A r \in RowRecord : r.at \in Nat BY DEF RowRecord
<1> QED BY <1>1, <1>2

LEMMA InsertTyped ==
  ASSUME TypeOK, NEW kind \in RowKind, NEW status \in RowStatus,
         NEW about \in Deliveries \cup Commits \cup {None}, Insert(kind, status, about)
  PROVE  RowsTyped'
<1> DEFINE new == Row(clock + 1, kind, status, about)
<1>1. new \in RowRecord /\ new.at = clock + 1 BY ClockTicks DEF Row, RowRecord
<1>2. RowsTyped BY DEF TypeOK
<1>3. rows' = rows \cup {new} /\ clock' = clock + 1 BY DEF Insert
<1> HIDE DEF new
<1>4. rows' \subseteq RowRecord /\ clock' \in Nat BY <1>1, <1>2, <1>3, ClockTicks DEF RowsTyped
<1>5. ASSUME NEW r \in rows' PROVE r.at <= clock'
  <2>1. CASE r = new BY <1>1, <1>3, <2>1, ClockTicks
  <2>2. CASE r \in rows BY <1>2, <1>3, <2>2, ClockTicks DEF RowsTyped
  <2> QED BY <1>3, <2>1, <2>2
<1> QED BY <1>4, <1>5 DEF RowsTyped

LEMMA NextKinds ==
  /\ NextKind("event") = "artifact" /\ NextKind("artifact") = "patchSet"
  /\ NextKind("patchSet") = "run" /\ NextKind("run") = "update"
<1>1. 1..4 = {1, 2, 3, 4} OBVIOUS
<1>2. (CHOOSE i \in 1..4 : CleanupOrder[i] = "event") = 1 BY <1>1 DEF CleanupOrder
<1>3. (CHOOSE i \in 1..4 : CleanupOrder[i] = "artifact") = 2 BY <1>1 DEF CleanupOrder
<1>4. (CHOOSE i \in 1..4 : CleanupOrder[i] = "patchSet") = 3 BY <1>1 DEF CleanupOrder
<1>5. (CHOOSE i \in 1..4 : CleanupOrder[i] = "run") = 4 BY <1>1 DEF CleanupOrder
<1> QED BY <1>2, <1>3, <1>4, <1>5 DEF NextKind, CleanupOrder

LEMMA ListingsOrder ==
  ASSUME NEW i \in 1..4
  PROVE  /\ Listings[i].pc \in ListingPc /\ Listings[i].kind \in RowKind
         /\ Listings[i + 1].pc \in ListingPc \cup {"create"}
<1>1. CASE i = 1 /\ i + 1 = 2 BY <1>1 DEF Listings, ListingPc, RowKind
<1>2. CASE i = 2 /\ i + 1 = 3 BY <1>2 DEF Listings, ListingPc, RowKind
<1>3. CASE i = 3 /\ i + 1 = 4 BY <1>3 DEF Listings, ListingPc, RowKind
<1>4. CASE i = 4
  <2>1. Listings[4].pc = "listRuns" /\ Listings[4].kind = "run" BY DEF Listings
  <2>2. Listings[5] = [pc |-> "create", kind |-> None] BY Zenon DEF Listings, None
  <2>3. Listings[5].pc = "create" BY <2>2
  <2>4. i + 1 = 5 BY <1>4
  <2> QED BY <1>4, <2>1, <2>3, <2>4 DEF ListingPc, RowKind
<1> QED BY <1>1, <1>2, <1>3, <1>4

LEMMA ListingKnown ==
  ASSUME TypeOK, NEW kind
  PROVE  Listing(kind) \in SUBSET Nat /\ \A t \in Listing(kind) : t <= clock
<1>1. \A t \in IdsOf(kind) : t \in Nat /\ t <= clock BY DEF TypeOK, RowsTyped, RowRecord, IdsOf
<1>2. ASSUME IdsOf(kind) # {} PROVE Max(IdsOf(kind)) \in IdsOf(kind)
  <2>1. \E x \in IdsOf(kind) : \A y \in IdsOf(kind) : x >= y BY <1>1, <1>2, ClockTicks, GreatestNumber
  <2> QED BY <2>1 DEF Max
<1>3. Listing(kind) \subseteq IdsOf(kind) BY <1>2 DEF Listing
<1> QED BY <1>1, <1>3
-----------------------------------------------------------------------------
(* Types *)

LEMMA Moved ==
  ASSUME TypeOK, NEW c \in Callers, NEW pcs, calls[c].pc \in pcs \cup {"idle"},
         NEW call \in CallRecord, HasRead(call), call.pc \in pcs \cup {"idle"}, Moves(c, call)
  PROVE  calls' \in [Callers -> CallRecord] /\ (\A b \in Callers : HasRead(calls'[b])) /\ Within(c, pcs)
BY MovesOne, MovesTyped DEF Within

LEMMA CheckpointTyped ==
  ASSUME TypeOK, NEW c \in Callers, CheckpointStep(c)
  PROVE  TypeOK' /\ Within(c, CheckpointPc)
<1> DEFINE Good(call) == call \in CallRecord /\ HasRead(call) /\ call.pc \in CheckpointPc \cup {"idle"}
<1> USE DEF CallPc, CheckpointPc, CreatingPc, RestoringPc, ListingPc, RowKind
<1>c. calls[c] \in CallRecord /\ HasRead(calls[c]) BY DEF TypeOK
<1>i. Good(Idle) BY IdleTyped
<1>k. clock \in Nat /\ clock + 1 \in Nat BY ClockTicks
<1>e. Insert("event", "none", "") => RowsTyped'
  BY InsertTyped, Zenon DEF RowStatus, None
<1>s. SameRows => RowsTyped' BY DEF SameRows, TypeOK, RowsTyped
<1>w. workflow \in [state : States, base : Commits] /\ checkpoints \subseteq Snapshot BY DEF TypeOK
<1>f. ASSUME workflow' \in [state : States, base : Commits], checkpoints' \subseteq Snapshot,
             RowsTyped',
             calls[c].pc \in CheckpointPc \cup {"idle"},
             UNCHANGED calls \/ \E call : Good(call) /\ Moves(c, call)
      PROVE  TypeOK' /\ Within(c, CheckpointPc)
  <2>1. /\ calls' \in [Callers -> CallRecord] /\ (\A b \in Callers : HasRead(calls'[b]))
        /\ Within(c, CheckpointPc)
    <3>1. CASE UNCHANGED calls BY <1>f, <3>1 DEF TypeOK, Within
    <3>2. CASE \E call : Good(call) /\ Moves(c, call) BY <1>f, <3>2, Moved
    <3> QED BY <1>f, <3>1, <3>2
  <2>2. begun' \in Nat /\ dropped' \in BOOLEAN
    <3>1. begun' \in {begun, begun + 1}
      <4>1. Called(c) => begun' = begun + 1 BY DEF Called
      <4> QED BY <4>1, Zenon DEF CheckpointStep, BeginCheckpoint, BeginRestore, DeleteCheckpoint
    <3>2. dropped' \in {dropped, TRUE} BY Zenon DEF CheckpointStep, DeleteCheckpoint
    <3>3. begun \in Nat /\ begun + 1 \in Nat BY DEF TypeOK
    <3>4. dropped \in BOOLEAN BY DEF TypeOK
    <3>5. begun' \in Nat BY <3>1, <3>3
    <3>6. dropped' \in BOOLEAN BY <3>2, <3>4, Zenon
    <3> QED BY <3>5, <3>6
  <2>3. UNCHANGED <<pullRequest, approvals, proposals, hooks, work, faults, marked, matched, recorded>>
    BY DEF CheckpointStep
  <2> QED BY <1>f, <2>1, <2>2, <2>3 DEF TypeOK
<1> HIDE DEF Good
<1>1. CASE BeginCheckpoint(c)
  <2>1. \A auto \in BOOLEAN : Good([Idle EXCEPT !.pc = "state", !.auto = auto])
    BY IdleTyped, ZenonT(40) DEF Good, CallRecord, HasRead, DeliveryPc, RecordingPc
  <2> QED BY <1>f, <1>s, <1>w, <1>1, <2>1 DEF BeginCheckpoint, Called, At
<1>2. CASE ReadState(c)
  <2> DEFINE call == [Goto(c, "snapshot") EXCEPT !.state = workflow.state]
  <2>1. workflow.state \in States BY <1>w
  <2>2. call \in CallRecord /\ call.pc = "snapshot" /\ call.state = workflow.state
    BY <1>c, <2>1 DEF Goto, CallRecord
  <2> HIDE DEF call
  <2>3. HasRead(call) BY <2>1, <2>2 DEF HasRead, DeliveryPc, RecordingPc
  <2>4. Good([Goto(c, "snapshot") EXCEPT !.state = workflow.state]) BY <2>2, <2>3 DEF Good, call
  <2> QED BY <1>f, <1>s, <1>w, <1>2, <2>4 DEF ReadState, At
<1>3. CASE CaptureSnapshot(c)
  <2>1. At(c, "snapshot") => Good([Goto(c, "listArtifacts") EXCEPT !.base = workflow.base])
    BY <1>c, <1>w DEF Good, Goto, At, CallRecord, HasRead, DeliveryPc, RecordingPc
  <2> QED BY <1>f, <1>s, <1>w, <1>3, <2>1 DEF CaptureSnapshot, At
<1>4. CASE ListRows(c)
  <2>1. \A kind \in RowKind : Listing(kind) \in SUBSET Nat BY ListingKnown
  <2>2. ASSUME NEW pc \in ListingPc \cup {"create"}, NEW new \in SUBSET Nat, calls[c].pc \in ListingPc
        PROVE  Good([Goto(c, pc) EXCEPT !.listed = @ \cup new])
    <3> DEFINE old == Goto(c, pc)
               call == [old EXCEPT !.listed = @ \cup new]
    <3>1. old \in CallRecord /\ old.pc = pc /\ old.state = calls[c].state /\ old.base = calls[c].base
      <4>1. pc \in CallPc OBVIOUS
      <4> HIDE DEF CallPc
      <4> QED BY <4>1, GotoTyped
    <3> HIDE DEF old
    <3>2. /\ call \in CallRecord /\ call.pc = pc
          /\ call.state = calls[c].state /\ call.base = calls[c].base
      BY <3>1, ListTyped
    <3>3. calls[c].state \in States /\ calls[c].base \in Commits BY <1>c, <2>2 DEF HasRead
    <3> HIDE DEF call
    <3>4. HasRead(call) /\ pc \in CheckpointPc
      BY <3>2, <3>3 DEF HasRead, DeliveryPc, RecordingPc
    <3> QED BY <3>2, <3>4 DEF Good, call, old
  <2>3. PICK i \in 1..4 :
          /\ At(c, Listings[i].pc)
          /\ Moves(c, [Goto(c, Listings[i + 1].pc) EXCEPT !.listed = @ \cup Listing(Listings[i].kind)])
    BY <1>4 DEF ListRows
  <2>4. /\ Listings[i].pc \in ListingPc /\ Listings[i].kind \in RowKind
        /\ Listings[i + 1].pc \in ListingPc \cup {"create"}
    BY ListingsOrder
  <2> QED BY <1>f, <1>s, <1>w, <1>4, <2>1, <2>2, <2>3, <2>4 DEF ListRows, At
<1>5. CASE CreateCheckpoint(c)
  <2> DEFINE k == [at |-> clock + 1, auto |-> calls[c].auto, state |-> calls[c].state,
                   base |-> calls[c].base, lists |-> calls[c].listed]
  <2>1. At(c, "create") => Good([Goto(c, "created") EXCEPT !.listed = {}])
    BY <1>c DEF Good, Goto, At, CallRecord, HasRead, DeliveryPc, RecordingPc
  <2>2. k \in Snapshot
    BY <1>c, <1>k, <1>5 DEF CreateCheckpoint, At, HasRead, CallRecord, Snapshot
  <2>3. checkpoints' = checkpoints \cup {k} /\ rows' = rows /\ clock' = clock + 1
    BY <1>5 DEF CreateCheckpoint
  <2> HIDE DEF k
  <2>4. RowsTyped'
    <3>1. RowsTyped /\ \A r \in RowRecord : r.at \in Nat BY DEF TypeOK, RowRecord
    <3> QED BY <1>k, <2>3, <3>1 DEF RowsTyped
  <2> QED BY <1>f, <1>k, <1>w, <1>5, <2>1, <2>2, <2>3, <2>4 DEF CreateCheckpoint, At
<1>6. CASE CheckpointCreated(c)
  <2>1. Good(Goto(c, "prune"))
    BY <1>c DEF Good, Goto, CallRecord, HasRead, DeliveryPc, RecordingPc
  <2> QED BY <1>f, <1>e, <1>w, <1>6, <2>1 DEF CheckpointCreated, At
<1>7. CASE ListCheckpoints(c)
  <2>1. \A listed \in SUBSET Nat : Good([Goto(c, "delete") EXCEPT !.listed = listed])
    BY <1>c DEF Good, Goto, CallRecord, HasRead, DeliveryPc, RecordingPc
  <2>2. \A cutoff : {k.at : k \in {j \in checkpoints : Prunable(j, j.at <= cutoff)}} \subseteq Nat
    BY <1>w DEF Snapshot
  <2>3. \E listed \in SUBSET Nat : Moves(c, [Goto(c, "delete") EXCEPT !.listed = listed])
    BY <1>7, <2>2 DEF ListCheckpoints
  <2> QED BY <1>f, <1>s, <1>w, <1>7, <2>1, <2>3 DEF ListCheckpoints, At
<1>8. CASE DeletePruned(c)
  BY <1>f, <1>i, <1>s, <1>w, <1>8 DEF DeletePruned, Ends, At
<1>9. CASE DeleteCheckpoint(c)
  BY <1>f, <1>s, <1>w, <1>9 DEF DeleteCheckpoint, Called, At
<1>10. CASE BeginRestore(c)
  <2>1. PICK k \in checkpoints, preserve \in RestoreOptions :
          Moves(c, [Idle EXCEPT !.pc = "event", !.target = k, !.preserve = preserve])
    BY <1>10 DEF BeginRestore
  <2>2. k \in Snapshot /\ preserve \in SUBSET RowKind BY <1>w, CheckpointsAssumption
  <2>3. Good([Idle EXCEPT !.pc = "event", !.target = k, !.preserve = preserve])
    BY <2>2, IdleTyped DEF Good, CallRecord, HasRead, DeliveryPc, RecordingPc
  <2> QED BY <1>f, <1>s, <1>w, <1>10, <2>1, <2>3 DEF BeginRestore, Called, At
<1>11. CASE CleanupAfterCheckpoint(c)
  <2>1. ASSUME NEW pc \in RestoringPc, calls[c].pc \in RestoringPc PROVE Good(Goto(c, pc))
    <3>1. calls[c].target \in Snapshot BY <1>c, <2>1 DEF HasRead
    <3>2. Goto(c, pc) \in CallRecord /\ Goto(c, pc).pc = pc /\ Goto(c, pc).target = calls[c].target
      BY <1>c, <2>1 DEF Goto, CallRecord
    <3> QED BY <3>1, <3>2 DEF Good, HasRead, DeliveryPc, RecordingPc
  <2>2. \A kind \in RowKind : NextKind(kind) \in RestoringPc BY NextKinds
  <2>3. Good(Goto(c, NextKind(calls[c].pc))) BY <1>11, <2>1, <2>2 DEF CleanupAfterCheckpoint
  <2>4. RowsTyped' BY <1>11 DEF CleanupAfterCheckpoint, TypeOK, RowsTyped
  <2> QED BY <1>f, <1>k, <1>w, <1>11, <2>3, <2>4 DEF CleanupAfterCheckpoint
<1>12. CASE RestoreWorkflow(c)
  <2>1. Good(Goto(c, "restored"))
    BY <1>c DEF Good, Goto, CallRecord, HasRead, DeliveryPc, RecordingPc
  <2>2. calls[c].target \in Snapshot BY <1>c, <1>12 DEF RestoreWorkflow, At, HasRead
  <2>3. workflow' \in [state : States, base : Commits] BY <1>12, <2>2 DEF RestoreWorkflow, Snapshot
  <2> QED BY <1>f, <1>s, <1>w, <1>12, <2>1, <2>3 DEF RestoreWorkflow, At
<1>13. CASE CheckpointRestored(c)
  BY <1>f, <1>e, <1>i, <1>w, <1>13 DEF CheckpointRestored, Ends, At
<1> QED
  BY <1>1, <1>2, <1>3, <1>4, <1>5, <1>6, <1>7, <1>8, <1>9, <1>10, <1>11, <1>12, <1>13 DEF CheckpointStep

LEMMA DiagnosisTyped ==
  ASSUME TypeOK, NEW c \in Callers, DiagnosisStep(c)
  PROVE  TypeOK' /\ Within(c, DiagnosisPc)
<1> DEFINE Good(call) == call \in CallRecord /\ HasRead(call) /\ call.pc \in DiagnosisPc \cup {"idle"}
<1> USE DEF CallPc, DiagnosisPc
<1>c. calls[c] \in CallRecord /\ HasRead(calls[c]) BY DEF TypeOK
<1>i. Good(Idle) BY IdleTyped
<1>k. clock \in Nat /\ clock + 1 \in Nat BY ClockTicks
<1>e. \A kind \in {"event", "artifact"} : Insert(kind, "none", "") => RowsTyped'
  BY InsertTyped, Zenon DEF RowStatus, RowKind, None
<1>s. SameRows => RowsTyped' BY DEF SameRows, TypeOK, RowsTyped
<1>d. approvals \subseteq Nat /\ proposals \subseteq Nat /\ marked \subseteq Nat BY DEF TypeOK
<1>g. ASSUME NEW pc \in DiagnosisPc \ {"fixSet", "proposed"} PROVE Good(Goto(c, pc))
  <2>1. Goto(c, pc) \in CallRecord /\ Goto(c, pc).pc = pc BY GotoTyped
  <2> QED BY <2>1 DEF Good, HasRead, ListingPc, RestoringPc, RowKind, DeliveryPc, RecordingPc
<1>f. ASSUME RowsTyped', approvals' \subseteq Nat, proposals' \subseteq Nat, marked' \subseteq Nat,
             calls[c].pc \in DiagnosisPc \cup {"idle"}, NEW call, Good(call), Moves(c, call)
      PROVE  TypeOK' /\ Within(c, DiagnosisPc)
  <2>1. /\ calls' \in [Callers -> CallRecord] /\ (\A b \in Callers : HasRead(calls'[b]))
        /\ Within(c, DiagnosisPc)
    BY <1>f, Moved
  <2>2. begun' \in Nat
    <3>1. begun' \in {begun, begun + 1}
      <4>1. Called(c) => begun' = begun + 1 BY DEF Called
      <4> QED BY <4>1, Zenon DEF DiagnosisStep, Diagnose, Decide
    <3>2. begun \in Nat /\ begun + 1 \in Nat BY DEF TypeOK
    <3> QED BY <3>1, <3>2
  <2>3. UNCHANGED <<workflow, checkpoints, pullRequest, hooks, work, faults, matched, recorded, dropped>>
    BY DEF DiagnosisStep
  <2> QED BY <1>f, <2>1, <2>2, <2>3 DEF TypeOK
<1> HIDE DEF Good
<1>m. ASSUME NEW status \in {"approved", "rejected"}, NEW then \in {"approval", "decided"},
             Mark(c, status, then), clock' = clock
      PROVE  RowsTyped' /\ \E call : Good(call) /\ Moves(c, call)
  <2>1. \A r \in RowRecord : [r EXCEPT !.status = status] \in RowRecord
                             /\ [r EXCEPT !.status = status].at = r.at
    BY DEF RowRecord, RowStatus
  <2>2. RowsTyped BY DEF TypeOK
  <2>3. \A r \in rows' : r \in RowRecord /\ r.at <= clock
    BY <1>m, <2>1, <2>2 DEF Mark, WithStatus, RowsTyped
  <2>4. RowsTyped' BY <1>k, <1>m, <2>3 DEF RowsTyped
  <2> QED BY <1>g, <1>i, <1>m, <2>4 DEF Mark, Ends
<1>1. CASE Diagnose(c)
  <2>1. PICK fixes \in Nat : Moves(c, [Idle EXCEPT !.pc = "diagnosis", !.fixes = fixes])
    BY <1>1, FixesCounted DEF Diagnose
  <2>2. Good([Idle EXCEPT !.pc = "diagnosis", !.fixes = fixes])
    BY IdleTyped DEF Good, CallRecord, HasRead, ListingPc, RestoringPc, RowKind, DeliveryPc, RecordingPc
  <2> QED BY <1>d, <1>f, <1>s, <1>1, <2>1, <2>2 DEF Diagnose, Called, At
<1>2. CASE PersistDiagnosis(c)
  BY <1>d, <1>e, <1>f, <1>g, <1>2 DEF PersistDiagnosis, At
<1>3. CASE RecordDiagnosis(c)
  BY <1>d, <1>e, <1>f, <1>g, <1>3 DEF RecordDiagnosis, At
<1>4. CASE ReadBase(c)
  <2>1. workflow.base \in Commits BY DEF TypeOK
  <2>2. Good([Goto(c, "fixSet") EXCEPT !.base = workflow.base])
    BY <1>c, <1>4, <2>1, ZenonT(40) DEF ReadBase, Good, Goto, CallRecord, HasRead, ListingPc, RestoringPc, RowKind, DeliveryPc, RecordingPc
  <2> QED BY <1>d, <1>f, <1>s, <1>4, <2>2 DEF ReadBase, At
<1>5. CASE CreateFixSet(c)
  <2>1. calls[c].base \in Commits BY <1>c, <1>5 DEF CreateFixSet, At, HasRead
  <2>2. RowsTyped' BY <1>5, <2>1, InsertTyped DEF CreateFixSet, RowKind, RowStatus
  <2>3. \A set \in Nat : Good([Goto(c, "proposed") EXCEPT !.set = set])
    <3>1. calls[c].fixes > 0 BY <1>c, <1>5 DEF CreateFixSet, At, HasRead
    <3> QED BY <1>c, <3>1 DEF Good, Goto, CallRecord, HasRead, ListingPc, RestoringPc, RowKind,
                              DeliveryPc, RecordingPc
  <2> QED BY <1>d, <1>f, <1>k, <1>5, <2>2, <2>3 DEF CreateFixSet, At
<1>6. CASE FixProposed(c)
  <2> DEFINE listed == calls[c].listed \cup {calls[c].set}
             fixes == calls[c].fixes - 1
             call == [calls[c] EXCEPT !.pc = "fix", !.fixes = fixes, !.listed = listed, !.set = 0]
  <2>1. listed \in SUBSET Nat BY <1>c DEF CallRecord
  <2>2. fixes \in Nat
    <3>1. calls[c].fixes > 0 /\ calls[c].fixes \in Nat
      BY <1>c, <1>6 DEF FixProposed, At, HasRead, CallRecord
    <3> QED BY <3>1
  <2>3. [Goto(c, "fix") EXCEPT !.fixes = @ - 1, !.listed = @ \cup {calls[c].set}, !.set = 0] = call
    BY <1>c DEF Goto, CallRecord
  <2> HIDE DEF listed, fixes
  <2>4. call \in CallRecord /\ call.pc = "fix" BY <1>c, <2>1, <2>2 DEF CallRecord
  <2> HIDE DEF call
  <2>5. Good(call)
    BY <2>4 DEF Good, HasRead, ListingPc, RestoringPc, RowKind, DeliveryPc, RecordingPc
  <2> QED BY <1>d, <1>e, <1>f, <1>6, <2>3, <2>5 DEF FixProposed, At
<1>7. CASE ReturnProposals(c)
  <2>1. proposals' \subseteq Nat BY <1>c, <1>d, <1>7 DEF ReturnProposals, CallRecord
  <2> QED BY <1>d, <1>f, <1>i, <1>s, <1>7, <2>1 DEF ReturnProposals, Ends, At
<1>8. CASE Decide(c)
  <2>1. PICK set \in proposals, pc \in {"approve", "reject"} : Moves(c, [Idle EXCEPT !.pc = pc, !.set = set])
    BY <1>8 DEF Decide
  <2>2. set \in Nat BY <1>d
  <2>3. Good([Idle EXCEPT !.pc = pc, !.set = set])
    BY <2>2, IdleTyped DEF Good, CallRecord, HasRead, ListingPc, RestoringPc, RowKind, DeliveryPc, RecordingPc
  <2> QED BY <1>d, <1>f, <1>s, <1>8, <2>1, <2>3 DEF Decide, Called, At
<1>9. CASE ApproveSet(c)
  <2>1. marked' \subseteq Nat BY <1>c, <1>d, <1>9 DEF ApproveSet, CallRecord
  <2>2. RowsTyped' /\ \E call : Good(call) /\ Moves(c, call) BY <1>m, <1>9 DEF ApproveSet
  <2> QED BY <1>d, <1>f, <1>9, <2>1, <2>2 DEF ApproveSet, At
<1>10. CASE RejectSet(c)
  <2>1. RowsTyped' /\ \E call : Good(call) /\ Moves(c, call) BY <1>m, <1>10 DEF RejectSet
  <2> QED BY <1>d, <1>f, <1>10, <2>1 DEF RejectSet, At
<1>11. CASE CreateApproval(c)
  <2>1. approvals' \subseteq Nat BY <1>c, <1>d, <1>11 DEF CreateApproval, CallRecord
  <2> QED BY <1>d, <1>f, <1>g, <1>s, <1>11, <2>1 DEF CreateApproval, At
<1>12. CASE RecordDecision(c)
  BY <1>d, <1>e, <1>f, <1>i, <1>12 DEF RecordDecision, Ends, At
<1> QED
  BY <1>1, <1>2, <1>3, <1>4, <1>5, <1>6, <1>7, <1>8, <1>9, <1>10, <1>11, <1>12 DEF DiagnosisStep

LEMMA DeliveryTyped ==
  ASSUME TypeOK, NEW c \in Callers, DeliveryStep(c)
  PROVE  TypeOK' /\ Within(c, DeliveryPc)
<1> DEFINE Good(call) == call \in CallRecord /\ HasRead(call) /\ call.pc \in DeliveryPc \cup {"idle"}
           d == calls[c].delivery
<1> USE DEF CallPc, DeliveryPc, RecordingPc
<1>c. calls[c] \in CallRecord /\ HasRead(calls[c]) BY DEF TypeOK
<1>d. calls[c].pc \in DeliveryPc => d \in Deliveries BY <1>c DEF HasRead
<1>i. Good(Idle) BY IdleTyped
<1>r. RowsTyped BY DEF TypeOK
<1>e. ASSUME calls[c].pc \in DeliveryPc, NEW kind \in {"event", "artifact"}, NEW status \in RowStatus,
             Insert(kind, status, d)
      PROVE  RowsTyped'
  BY <1>d, <1>e, InsertTyped DEF RowKind
<1>s. UNCHANGED <<rows, clock>> => RowsTyped' BY <1>r DEF RowsTyped
<1>h. /\ pullRequest \in {"none", "open", "closed", "merged"}
      /\ hooks \in [Deliveries -> {"absent", "stored", "processed"}]
      /\ matched \subseteq Deliveries /\ recorded \subseteq Deliveries
  BY DEF TypeOK
<1>g. ASSUME NEW pc \in DeliveryPc, calls[c].pc \in DeliveryPc PROVE Good(Goto(c, pc))
  <2>1. Goto(c, pc) \in CallRecord /\ Goto(c, pc).pc = pc BY GotoTyped
  <2>2. Goto(c, pc).delivery = d BY <1>c DEF Goto, CallRecord
  <2> QED BY <1>d, <1>g, <2>1, <2>2 DEF Good, HasRead, ListingPc, RestoringPc, RowKind
<1>b. ASSUME NEW e \in Deliveries, NEW pc \in DeliveryPc
      PROVE  Good([Idle EXCEPT !.pc = pc, !.delivery = e])
  <2> DEFINE call == [Idle EXCEPT !.pc = pc, !.delivery = e]
  <2>1. call \in CallRecord /\ call.pc = pc /\ call.delivery = e BY IdleTyped, ZenonT(40) DEF CallRecord
  <2> HIDE DEF call
  <2>2. Good(call) BY <2>1 DEF Good, HasRead, ListingPc, RestoringPc, RowKind
  <2> QED BY <2>2 DEF call
<1>f. ASSUME RowsTyped', pullRequest' \in {"none", "open", "closed", "merged"},
             hooks' \in [Deliveries -> {"absent", "stored", "processed"}],
             matched' \subseteq Deliveries, recorded' \subseteq Deliveries,
             calls[c].pc \in DeliveryPc \cup {"idle"},
             UNCHANGED calls \/ \E call : Good(call) /\ Moves(c, call)
      PROVE  TypeOK' /\ Within(c, DeliveryPc)
  <2>1. /\ calls' \in [Callers -> CallRecord] /\ (\A b \in Callers : HasRead(calls'[b]))
        /\ Within(c, DeliveryPc)
    <3>1. CASE UNCHANGED calls BY <1>f, <3>1 DEF TypeOK, Within
    <3>2. CASE \E call : Good(call) /\ Moves(c, call) BY <1>f, <3>2, Moved
    <3> QED BY <1>f, <3>1, <3>2
  <2>2. begun' \in Nat
    <3>1. begun' \in {begun, begun + 1}
      <4>1. Called(c) => begun' = begun + 1 BY DEF Called
      <4> QED BY <4>1, Zenon DEF DeliveryStep, Ingest, Process, ProcessCIEvent
    <3>2. begun \in Nat /\ begun + 1 \in Nat BY DEF TypeOK
    <3> QED BY <3>1, <3>2
  <2>3. UNCHANGED <<workflow, checkpoints, approvals, proposals, work, faults, marked, dropped>>
    BY DEF DeliveryStep
  <2> QED BY <1>f, <2>1, <2>2, <2>3 DEF TypeOK
<1> HIDE DEF Good
<1>1. ASSUME NEW e \in Deliveries, Ingest(c, e) \/ Process(c, e) \/ ProcessCIEvent(c, e)
      PROVE  TypeOK' /\ Within(c, DeliveryPc)
  BY <1>b, <1>f, <1>h, <1>s, <1>1 DEF Ingest, Process, ProcessCIEvent, NothingElse, Called, At
<1>2. CASE Store(c)
  <2>1. hooks' \in [Deliveries -> {"absent", "stored", "processed"}] BY <1>h, <1>2 DEF Store, Stored
  <2> QED BY <1>f, <1>h, <1>i, <1>s, <1>2, <2>1 DEF Store, Ends, At
<1>3. CASE MatchDelivery(c)
  <2>1. MatchedStep(d) \in DeliveryPc BY DEF MatchedStep
  <2>2. matched' \subseteq Deliveries BY <1>d, <1>h, <1>3 DEF MatchDelivery, At
  <2> QED BY <1>f, <1>g, <1>h, <1>s, <1>3, <2>1, <2>2 DEF MatchDelivery, At
<1>n. ASSUME Records(d), calls[c].pc \in DeliveryPc PROVE recorded' \subseteq Deliveries
  BY <1>d, <1>h, <1>n DEF Records
<1>4. CASE RecordCompletion(c)
  <2>1. ExtractedConclusion(d) \in RowStatus BY DEF ExtractedConclusion, RowStatus
  <2> QED BY <1>e, <1>f, <1>g, <1>h, <1>n, <1>4, <2>1 DEF RecordCompletion, At
<1>5. CASE ClosePullRequest(c)
  BY <1>f, <1>g, <1>h, <1>n, <1>s, <1>5 DEF ClosePullRequest, At
<1>6. CASE RecordMerge(c)
  BY <1>e, <1>f, <1>g, <1>h, <1>n, <1>6 DEF RecordMerge, At, RowStatus
<1>7. CASE MarkProcessed(c)
  BY <1>f, <1>h, <1>i, <1>s, <1>7 DEF MarkProcessed, Ends, At
<1>8. CASE RecordEvidence(c)
  BY <1>e, <1>f, <1>g, <1>h, <1>8 DEF RecordEvidence, At, RowStatus
<1>9. CASE StoreEvidence(c)
  BY <1>e, <1>f, <1>h, <1>i, <1>9 DEF StoreEvidence, Ends, At, RowStatus
<1> QED
  BY <1>1, <1>2, <1>3, <1>4, <1>5, <1>6, <1>7, <1>8, <1>9 DEF DeliveryStep

LEMMA AdvanceTyped ==
  ASSUME TypeOK, Advance
  PROVE  TypeOK'
<1>k. clock \in Nat /\ clock + 1 \in Nat BY ClockTicks
<1>w. workflow \in [state : States, base : Commits] BY DEF TypeOK
<1>s. SameRows => RowsTyped' BY DEF SameRows, TypeOK, RowsTyped
<1>1. /\ RowsTyped' /\ workflow' \in [state : States, base : Commits]
      /\ pullRequest' \in {"none", "open", "closed", "merged"}
  <2>1. ASSUME NEW kind \in RowKind, NEW status \in RowStatus, NEW about,
               about \in Deliveries \cup Commits \cup {None}, Insert(kind, status, about)
        PROVE  RowsTyped'
    BY <2>1, InsertTyped
  <2>2. Insert("artifact", "none", "") \/ Insert("run", "failed", "") => RowsTyped'
    BY <2>1, Zenon DEF RowKind, RowStatus, None
  <2>3. Insert("patchSet", "proposed", workflow.base) => RowsTyped' BY <1>w, <2>1 DEF RowKind, RowStatus
  <2>4. \A s \in States : [workflow EXCEPT !.state = s] \in [state : States, base : Commits] BY <1>w
  <2>5. \A b \in Commits : [workflow EXCEPT !.base = b] \in [state : States, base : Commits] BY <1>w
  <2>6. pullRequest \in {"none", "open", "closed", "merged"} BY DEF TypeOK
  <2> DEFINE Done == /\ RowsTyped' /\ workflow' \in [state : States, base : Commits]
                     /\ pullRequest' \in {"none", "open", "closed", "merged"}
  <2>7. CASE \E s \in States : workflow' = [workflow EXCEPT !.state = s] /\ SameRows /\ UNCHANGED pullRequest
    BY <1>s, <2>4, <2>6, <2>7
  <2>8. CASE \E b \in Commits : workflow' = [workflow EXCEPT !.base = b] /\ SameRows /\ UNCHANGED pullRequest
    BY <1>s, <2>5, <2>6, <2>8
  <2>9. CASE RowsTyped' /\ UNCHANGED <<workflow, pullRequest>> BY <1>w, <2>6, <2>9
  <2>10. CASE pullRequest' = "open" /\ SameRows /\ UNCHANGED workflow BY <1>s, <1>w, <2>10
  <2> HIDE DEF Done
  <2> QED BY <2>2, <2>3, <2>7, <2>8, <2>9, <2>10, Zenon DEF Advance, Done
<1>2. work' \in Nat
  <2>1. work' = work + 1 BY DEF Advance
  <2>2. work \in Nat BY DEF TypeOK
  <2> QED BY <2>1, <2>2
<1>3. UNCHANGED <<checkpoints, approvals, proposals, hooks, calls, begun, faults, marked, matched, recorded, dropped>>
  BY DEF Advance
<1> QED BY <1>1, <1>2, <1>3 DEF TypeOK

LEMMA CallFailsTyped ==
  ASSUME TypeOK, NEW c \in Callers, CallFails(c)
  PROVE  TypeOK' /\ calls'[c] = Idle /\ \A b \in Callers : b # c => calls'[b] = calls[b]
<1>1. /\ calls' \in [Callers -> CallRecord] /\ (\A b \in Callers : HasRead(calls'[b]))
  BY IdleTyped, MovesTyped DEF CallFails, Ends
<1>2. calls'[c] = Idle /\ \A b \in Callers : b # c => calls'[b] = calls[b] BY MovesOne DEF CallFails, Ends
<1>3. faults' \in Nat BY DEF CallFails, TypeOK
<1>4. UNCHANGED <<workflow, rows, checkpoints, pullRequest, approvals, proposals, hooks, clock, begun, work,
                  marked, matched, recorded, dropped>>
  BY DEF CallFails
<1>5. RowsTyped' BY <1>4 DEF RowsTyped, TypeOK
<1> QED BY <1>1, <1>2, <1>3, <1>4, <1>5 DEF TypeOK

LEMMA NextTyped ==
  ASSUME TypeOK, [Next]_vars
  PROVE  TypeOK'
<1>1. CASE UNCHANGED vars BY <1>1 DEF vars, TypeOK, RowsTyped
<1> QED BY <1>1, AdvanceTyped, CallFailsTyped, CheckpointTyped, DiagnosisTyped, DeliveryTyped DEF Next

LEMMA InitTyped ==
  ASSUME Init
  PROVE  TypeOK
<1>w. workflow \in [state : States, base : Commits] BY RecordsAssumption DEF Init
<1>1. ASSUME NEW at \in 0..7, NEW kind \in RowKind, NEW status \in RowStatus, NEW about,
             about \in Deliveries \cup Commits \cup {None}
      PROVE  Row(at, kind, status, about) \in RowRecord /\ Row(at, kind, status, about).at <= 7
  <2>1. Row(at, kind, status, about).at = at BY DEF Row
  <2>2. at \in Nat /\ at <= 7 OBVIOUS
  <2> QED BY <1>1, <2>1, <2>2 DEF Row, RowRecord
<1>2. \A r \in EarlierRows(workflow.base) : r \in RowRecord /\ r.at <= 7
  <2>1. "" \in Deliveries \cup Commits \cup {None} BY Zenon DEF None
  <2>2. workflow.base \in Deliveries \cup Commits \cup {None} BY <1>w
  <2>3. 1 \in 0..7 /\ 4 \in 0..7 /\ 5 \in 0..7 /\ 6 \in 0..7 /\ 7 \in 0..7 OBVIOUS
  <2> DEFINE Ok(r) == r \in RowRecord /\ r.at <= 7
  <2>4. Ok(Row(1, "run", "failed", "")) /\ Ok(Row(4, "artifact", "none", "")) /\ Ok(Row(5, "event", "none", ""))
        /\ Ok(Row(6, "patchSet", "proposed", workflow.base)) /\ Ok(Row(7, "event", "none", ""))
    BY <1>1, <2>1, <2>2, <2>3, ZenonT(30) DEF RowKind, RowStatus
  <2> HIDE DEF Ok
  <2>5. \A r \in EarlierRows(workflow.base) : Ok(r) BY <2>4, Zenon DEF EarlierRows
  <2> QED BY <2>5 DEF Ok
<1>3. Row(3, "event", "none", "") \in RowRecord /\ Row(3, "event", "none", "").at <= 7
  <2>1. "" \in Deliveries \cup Commits \cup {None} BY Zenon DEF None
  <2>2. 3 \in 0..7 OBVIOUS
  <2> QED BY <1>1, <2>1, <2>2, Zenon DEF RowKind, RowStatus
<1>4. rows = EarlierRows(workflow.base) \cup {Row(3, "event", "none", "") : k \in checkpoints} /\ clock = 7
  BY DEF Init
<1>5. RowsTyped
  <2>1. \A r \in rows : r \in EarlierRows(workflow.base) \/ r = Row(3, "event", "none", "")
    BY <1>4, Zenon
  <2>2. \A r \in rows : r \in RowRecord /\ r.at <= 7 BY <1>2, <1>3, <2>1, Zenon
  <2> QED BY <1>4, <2>2 DEF RowsTyped
<1>6. checkpoints \subseteq Snapshot
  <2>1. \A auto \in BOOLEAN : CheckpointOf(workflow, auto) \in Snapshot BY <1>w DEF CheckpointOf, Snapshot
  <2> QED BY <2>1 DEF Init
<1>7. calls \in [Callers -> CallRecord] /\ \A c \in Callers : HasRead(calls[c])
  BY IdleTyped DEF Init
<1>8. /\ pullRequest \in {"none", "open", "closed", "merged"}
      /\ hooks \in [Deliveries -> {"absent", "stored", "processed"}]
  BY DEF Init
<1>9. begun = 0 /\ work = 0 /\ faults = 0 /\ proposals = {6} /\ approvals = {} /\ marked = {} /\ matched = {}
      /\ recorded = {} /\ dropped = FALSE
  BY DEF Init
<1>10. begun \in Nat /\ work \in Nat /\ faults \in Nat BY <1>9
<1>11. proposals \subseteq Nat /\ approvals \subseteq Nat /\ marked \subseteq Nat /\ matched \subseteq Deliveries
  BY <1>9
<1>12. recorded \subseteq Deliveries /\ dropped \in BOOLEAN BY <1>9
<1> QED BY <1>w, <1>5, <1>6, <1>7, <1>8, <1>10, <1>11, <1>12, Zenon DEF TypeOK

(* Rows, checkpoints, deliveries and calls keep their types: a restored       *)
(* workflow gets a state and a base it may have, and a call that restores or  *)
(* works on a delivery has one.                                              *)
THEOREM TypeCorrect == Spec => []TypeOK
<1>1. Init => TypeOK BY InitTyped
<1>2. TypeOK /\ [Next]_vars => TypeOK' BY NextTyped
<1> QED BY <1>1, <1>2, PTL DEF Spec

-----------------------------------------------------------------------------
(* Fixes and their approvals *)

(* A call that is, or gets, outside a service is no call of that service.     *)
LEMMA Elsewhere ==
  ASSUME NEW c \in Callers, NEW pcs, Within(c, pcs), NEW b \in Callers,
         calls[b].pc \notin pcs \cup {"idle"} \/ calls'[b].pc \notin pcs \cup {"idle"}
  PROVE  calls'[b] = calls[b]
BY DEF Within

LEMMA NextApproves ==
  ASSUME TypeOK, ApprovalInvariant, [Next]_vars
  PROVE  ApprovalInvariant'
<1> DEFINE Approving(b) == calls[b].pc = "approval"
<1>a. /\ approvals \subseteq marked /\ faults \in Nat
      /\ \A set \in marked \ approvals : faults > 0 \/ \E c \in Callers : Approving(c) /\ calls[c].set = set
      /\ \A c \in Callers : Approving(c) => calls[c].set \in marked
  BY DEF ApprovalInvariant, FixApprovalsAgree, At, TypeOK
<1>b. ASSUME approvals' \subseteq marked',
             \A set \in marked' \ approvals' :
               faults' > 0 \/ \E c \in Callers : Approving(c)' /\ calls'[c].set = set,
             \A c \in Callers : Approving(c)' => calls'[c].set \in marked'
      PROVE  ApprovalInvariant'
  BY <1>b DEF ApprovalInvariant, FixApprovalsAgree, At
<1>c. ASSUME UNCHANGED <<approvals, marked, faults>>,
             \A c \in Callers : Approving(c) \/ Approving(c)' => calls'[c] = calls[c]
      PROVE  ApprovalInvariant'
  BY <1>a, <1>b, <1>c
<1>1. CASE UNCHANGED vars \/ Advance BY <1>1, <1>c DEF vars, Advance
<1>2. ASSUME NEW c \in Callers, CheckpointStep(c) PROVE ApprovalInvariant'
  <2>1. UNCHANGED <<approvals, marked, faults>> BY <1>2 DEF CheckpointStep
  <2>2. "approval" \notin CheckpointPc \cup {"idle"}
    BY DEF CheckpointPc, CreatingPc, RestoringPc, ListingPc, RowKind
  <2> QED BY <1>2, <1>c, <2>1, <2>2, CheckpointTyped, Elsewhere
<1>3. ASSUME NEW c \in Callers, DeliveryStep(c) PROVE ApprovalInvariant'
  <2>1. UNCHANGED <<approvals, marked, faults>> BY <1>3 DEF DeliveryStep
  <2>2. "approval" \notin DeliveryPc \cup {"idle"} BY DEF DeliveryPc, RecordingPc
  <2> QED BY <1>3, <1>c, <2>1, <2>2, DeliveryTyped, Elsewhere
<1>4. ASSUME NEW c \in Callers, DiagnosisStep(c) PROVE ApprovalInvariant'
  <2>1. UNCHANGED faults /\ \A b \in Callers : b # c => calls'[b] = calls[b]
    BY <1>4, DiagnosisTyped DEF DiagnosisStep, Within
  <2>g. ASSUME NEW pc, Moves(c, Goto(c, pc)) PROVE calls'[c].pc = pc /\ calls'[c].set = calls[c].set
    BY <2>g, MovesOne DEF Goto, TypeOK, CallRecord
  <2>e. Ends(c) => calls'[c].pc = "idle" BY MovesOne, IdleTyped DEF Ends
  <2>2. CASE ApproveSet(c)
    <3>1. CASE calls[c].set \in IdsOf("patchSet")
      <4>1. calls'[c].pc = "approval" /\ calls'[c].set = calls[c].set
        BY <2>2, <2>g, <3>1 DEF ApproveSet, Mark
      <4>2. marked' = marked \cup {calls[c].set} /\ approvals' = approvals /\ calls[c].pc = "approve"
        BY <2>2, <3>1 DEF ApproveSet, At
      <4> QED BY <1>a, <1>b, <2>1, <4>1, <4>2
    <3>2. CASE calls[c].set \notin IdsOf("patchSet")
      <4>1. calls'[c].pc = "idle" BY <2>2, <2>e, <3>2 DEF ApproveSet, Mark
      <4>2. marked' = marked /\ approvals' = approvals /\ calls[c].pc = "approve"
        BY <2>2, <3>2 DEF ApproveSet, At
      <4> QED BY <1>c, <2>1, <4>1, <4>2
    <3> QED BY <3>1, <3>2
  <2>3. CASE CreateApproval(c)
    <3>1. approvals' = approvals \cup {calls[c].set} /\ marked' = marked /\ calls[c].pc = "approval"
      BY <2>3 DEF CreateApproval, At
    <3>2. calls'[c].pc = "decided" BY <2>3, <2>g DEF CreateApproval
    <3> QED BY <1>a, <1>b, <2>1, <3>1, <3>2
  <2>4. CASE ~ ApproveSet(c) /\ ~ CreateApproval(c)
    <3>1. UNCHANGED <<approvals, marked>> /\ calls[c].pc # "approval"
      BY <1>4, <2>4, Zenon
      DEF DiagnosisStep, Diagnose, Decide, PersistDiagnosis, RecordDiagnosis, ReadBase, CreateFixSet,
          FixProposed, ReturnProposals, RejectSet, RecordDecision, Called, At
    <3>2. calls'[c].pc # "approval"
      <4>c. calls[c] \in CallRecord /\ Idle \in CallRecord BY IdleTyped DEF TypeOK
      <4>m. \A call : Moves(c, call) => calls'[c] = call BY MovesOne
      <4>1. CASE Diagnose(c)
        <5>1. \A n : [Idle EXCEPT !.pc = "diagnosis", !.fixes = n].pc = "diagnosis" BY <4>c DEF CallRecord
        <5> QED BY <4>1, <4>m, <5>1 DEF Diagnose
      <4>2. CASE Decide(c)
        <5>1. PICK n \in proposals, pc \in {"approve", "reject"} : Moves(c, [Idle EXCEPT !.pc = pc, !.set = n])
          BY <4>2 DEF Decide
        <5>2. [Idle EXCEPT !.pc = pc, !.set = n].pc = pc BY <4>c DEF CallRecord
        <5>3. calls'[c].pc = pc BY <4>m, <5>1, <5>2
        <5> QED BY <5>3
      <4>3. CASE PersistDiagnosis(c) \/ RecordDiagnosis(c)
        <5>1. Moves(c, Goto(c, "diagnosed")) \/ Moves(c, Goto(c, "fix"))
          BY <4>3, Zenon DEF PersistDiagnosis, RecordDiagnosis
        <5> QED BY <2>g, <5>1
      <4>4. CASE ReadBase(c)
        <5>1. \A b : [Goto(c, "fixSet") EXCEPT !.base = b].pc = "fixSet" BY <4>c DEF Goto, CallRecord
        <5> QED BY <4>4, <4>m, <5>1 DEF ReadBase
      <4>5. CASE CreateFixSet(c)
        <5>1. \A n : [Goto(c, "proposed") EXCEPT !.set = n].pc = "proposed" BY <4>c DEF Goto, CallRecord
        <5> QED BY <4>5, <4>m, <5>1 DEF CreateFixSet
      <4>6. CASE FixProposed(c)
        <5> DEFINE call == [Goto(c, "fix") EXCEPT !.fixes = @ - 1, !.listed = @ \cup {calls[c].set}, !.set = 0]
        <5>1. \A n, m : [calls[c] EXCEPT !.pc = "fix", !.fixes = n, !.listed = m, !.set = 0].pc = "fix"
          BY <4>c DEF CallRecord
        <5>2. call = [calls[c] EXCEPT !.pc = "fix", !.fixes = calls[c].fixes - 1,
                                      !.listed = calls[c].listed \cup {calls[c].set}, !.set = 0]
          BY <4>c DEF Goto, CallRecord
        <5>3. call.pc = "fix" BY <5>1, <5>2, ZenonT(40)
        <5>4. calls'[c] = call BY <4>6, <4>m, Zenon DEF FixProposed
        <5> HIDE DEF call
        <5> QED BY <5>3, <5>4
      <4>7. CASE RejectSet(c)
        <5>1. Moves(c, Goto(c, "decided")) \/ Ends(c) BY <4>7 DEF RejectSet, Mark
        <5> QED BY <2>e, <2>g, <5>1
      <4>8. CASE ReturnProposals(c) \/ RecordDecision(c)
        <5>1. Ends(c) BY <4>8, Zenon DEF ReturnProposals, RecordDecision
        <5> QED BY <2>e, <5>1
      <4> QED BY <1>4, <2>4, <4>1, <4>2, <4>3, <4>4, <4>5, <4>6, <4>7, <4>8 DEF DiagnosisStep
    <3> QED BY <1>c, <2>1, <3>1, <3>2
  <2> QED BY <2>2, <2>3, <2>4
<1>5. ASSUME NEW c \in Callers, CallFails(c) PROVE ApprovalInvariant'
  <2>1. /\ calls'[c].pc = "idle" /\ \A b \in Callers : b # c => calls'[b] = calls[b]
        /\ faults' = faults + 1 /\ UNCHANGED <<approvals, marked>>
    BY <1>5, CallFailsTyped, IdleTyped DEF CallFails
  <2>2. faults' > 0 BY <1>a, <2>1
  <2> QED BY <1>a, <1>b, <2>1, <2>2
<1> QED BY <1>1, <1>2, <1>3, <1>4, <1>5 DEF Next

(* An approval is of a set that was approved, and a set that was approved has *)
(* its approval but for a failed call.                                       *)
THEOREM FixApprovalsHold == Spec => []FixApprovalsAgree
<1>1. Init => ApprovalInvariant
  <2>1. Init => approvals = {} /\ marked = {} /\ \A c \in Callers : calls[c] = Idle BY DEF Init
  <2> QED BY <2>1, IdleTyped DEF ApprovalInvariant, FixApprovalsAgree, At
<1>2. TypeOK /\ ApprovalInvariant /\ [Next]_vars => ApprovalInvariant' BY NextApproves
<1>3. ApprovalInvariant => FixApprovalsAgree BY DEF ApprovalInvariant
<1> QED BY <1>1, <1>2, <1>3, TypeCorrect, PTL DEF Spec
-----------------------------------------------------------------------------
(* Deliveries *)

LEMMA NextDelivers ==
  ASSUME TypeOK, DeliveryInvariant, [Next]_vars
  PROVE  DeliveryInvariant'
<1> DEFINE Recorder(b, d) == calls[b].delivery = d /\ calls[b].pc \in RecordingPc
           RecorderNext(b, d) == calls'[b].delivery = d /\ calls'[b].pc \in RecordingPc
<1>p. /\ \A x \in matched : x \in recorded \/ faults > 0 \/ \E b \in Callers : Recorder(b, x)
      /\ (\A x \in matched' : x \in recorded' \/ faults' > 0 \/ \E b \in Callers : RecorderNext(b, x))
            => DeliveryInvariant'
  BY DEF DeliveryInvariant, Recording, RecordingPc
<1>t. faults \in Nat /\ calls \in [Callers -> CallRecord] BY DEF TypeOK
<1>f. UNCHANGED faults \/ faults' > 0
  <2>1. \A c \in Callers : CallFails(c) => faults' > 0 BY <1>t DEF CallFails
  <2>2. UNCHANGED vars \/ Advance => UNCHANGED faults BY Zenon DEF vars, Advance
  <2>3. \A c \in Callers : CheckpointStep(c) \/ DiagnosisStep(c) \/ DeliveryStep(c) => UNCHANGED faults
    BY Zenon DEF CheckpointStep, DiagnosisStep, DeliveryStep
  <2> QED BY <2>1, <2>2, <2>3, Zenon DEF Next
<1>c. ASSUME recorded \subseteq recorded',
             \A x \in matched' : x \in matched \/ \E b \in Callers : RecorderNext(b, x),
             \A b \in Callers, x \in matched :
               Recorder(b, x) => RecorderNext(b, x) \/ x \in recorded' \/ faults' > 0
      PROVE  DeliveryInvariant'
  <2> HIDE DEF Recorder, RecorderNext
  <2>1. \A x \in matched' : x \in recorded' \/ faults' > 0 \/ \E b \in Callers : RecorderNext(b, x)
    BY <1>c, <1>f, <1>p
  <2> QED BY <1>p, <2>1
<1>d. ASSUME UNCHANGED <<matched, recorded>>,
             \A b \in Callers : calls'[b] = calls[b] \/ calls[b].pc \notin RecordingPc
      PROVE  DeliveryInvariant'
  <2>1. \A b \in Callers, x \in matched : Recorder(b, x) => RecorderNext(b, x) BY <1>d
  <2> QED BY <1>c, <1>d, <2>1
<1>1. CASE UNCHANGED vars BY <1>1, <1>d DEF vars
<1>6. CASE Advance
  <2>1. UNCHANGED <<calls, matched, recorded>> BY <1>6, Zenon DEF Advance
  <2> QED BY <1>d, <2>1
<1>2. ASSUME NEW c \in Callers, CheckpointStep(c) PROVE DeliveryInvariant'
  <2>1. UNCHANGED <<matched, recorded>> BY <1>2 DEF CheckpointStep
  <2>2. \A pc \in RecordingPc : pc \notin CheckpointPc \cup {"idle"}
    BY DEF CheckpointPc, CreatingPc, RestoringPc, ListingPc, RowKind, RecordingPc
  <2>3. Within(c, CheckpointPc) BY <1>2, CheckpointTyped
  <2> QED BY <1>d, <2>1, <2>2, <2>3 DEF Within
<1>3. ASSUME NEW c \in Callers, DiagnosisStep(c) PROVE DeliveryInvariant'
  <2>1. UNCHANGED <<matched, recorded>> BY <1>3 DEF DiagnosisStep
  <2>2. \A pc \in RecordingPc : pc \notin DiagnosisPc \cup {"idle"} BY DEF DiagnosisPc, RecordingPc
  <2>3. Within(c, DiagnosisPc) BY <1>3, DiagnosisTyped
  <2> QED BY <1>d, <2>1, <2>2, <2>3 DEF Within
<1>4. ASSUME NEW c \in Callers, CallFails(c) PROVE DeliveryInvariant'
  <2>1. faults' > 0 /\ UNCHANGED <<matched, recorded>> BY <1>4, <1>t DEF CallFails
  <2> QED BY <1>c, <2>1
<1>5. ASSUME NEW c \in Callers, DeliveryStep(c) PROVE DeliveryInvariant'
  <2>1. \A b \in Callers : b # c => calls'[b] = calls[b]
    BY <1>5, DeliveryTyped DEF DeliveryStep, Within
  <2>m. \A call : Moves(c, call) => calls'[c] = call BY MovesOne
  <2>g. ASSUME NEW pc, Moves(c, Goto(c, pc)) PROVE calls'[c].pc = pc /\ calls'[c].delivery = calls[c].delivery
    BY <1>t, <2>g, <2>m DEF Goto, CallRecord
  <2> DEFINE d == calls[c].delivery
  <2>r. ASSUME Records(d), UNCHANGED matched PROVE DeliveryInvariant'
    <3>1. recorded' = recorded \cup {d} BY <2>r DEF Records
    <3>2. \A b \in Callers, x \in matched : Recorder(b, x) => RecorderNext(b, x) \/ x \in recorded'
      BY <2>1, <3>1
    <3> QED BY <1>c, <2>r, <3>1, <3>2
  <2>2. ASSUME NEW e \in Deliveries, Ingest(c, e) \/ Process(c, e) \/ ProcessCIEvent(c, e)
        PROVE  DeliveryInvariant'
    <3>1. UNCHANGED <<matched, recorded>> /\ calls[c].pc = "idle"
      BY <2>2 DEF Ingest, Process, ProcessCIEvent, NothingElse, Called, At
    <3> QED BY <1>d, <2>1, <3>1 DEF RecordingPc
  <2>3. CASE Store(c) \/ RecordEvidence(c) \/ StoreEvidence(c) \/ MarkProcessed(c)
    <3>1. UNCHANGED <<matched, recorded>> /\ calls[c].pc \in {"store", "ciEvidence", "ciArtifact", "markProcessed"}
      BY <2>3 DEF Store, RecordEvidence, StoreEvidence, MarkProcessed, At
    <3> QED BY <1>d, <2>1, <3>1 DEF RecordingPc
  <2>4. CASE MatchDelivery(c)
    <3>1. /\ calls[c].pc = "match" /\ calls'[c].pc = MatchedStep(d) /\ calls'[c].delivery = d
          /\ UNCHANGED recorded
          /\ matched' = IF MatchedStep(d) = "markProcessed" THEN matched ELSE matched \cup {d}
      BY <2>4, <2>g DEF MatchDelivery, At
    <3>2. MatchedStep(d) \in RecordingPc \cup {"markProcessed"} BY DEF MatchedStep, RecordingPc
    <3>3. \A x \in matched' : x \in matched \/ RecorderNext(c, x) BY <3>1, <3>2
    <3>4. \A b \in Callers, x \in matched : Recorder(b, x) => RecorderNext(b, x)
      BY <2>1, <3>1 DEF RecordingPc
    <3> QED BY <1>c, <3>1, <3>3, <3>4
  <2>5. CASE RecordCompletion(c) \/ RecordMerge(c)
    <3>1. Records(d) /\ UNCHANGED matched BY <2>5 DEF RecordCompletion, RecordMerge
    <3> QED BY <2>r, <3>1
  <2>6. CASE ClosePullRequest(c)
    <3>1. UNCHANGED matched BY <2>6 DEF ClosePullRequest
    <3>2. CASE IsMerge(d)
      <4>1. calls'[c].pc = "mergeEvent" /\ calls'[c].delivery = d /\ UNCHANGED recorded
        BY <2>6, <2>g, <3>2 DEF ClosePullRequest
      <4>2. \A b \in Callers, x \in matched : Recorder(b, x) => RecorderNext(b, x)
        BY <2>1, <4>1 DEF RecordingPc
      <4> QED BY <1>c, <3>1, <4>1, <4>2
    <3>3. CASE ~ IsMerge(d)
      <4>1. Records(d) BY <2>6, <3>3 DEF ClosePullRequest
      <4> QED BY <2>r, <3>1, <4>1
    <3> QED BY <3>2, <3>3
  <2> QED BY <1>5, <2>2, <2>3, <2>4, <2>5, <2>6 DEF DeliveryStep
<1> QED BY <1>1, <1>2, <1>3, <1>4, <1>5, <1>6 DEF Next

LEMMA DeliveriesAgree == Spec => []DeliveryInvariant
<1>1. Init => DeliveryInvariant BY DEF Init, DeliveryInvariant
<1>2. TypeOK /\ DeliveryInvariant /\ [Next]_vars => DeliveryInvariant' BY NextDelivers
<1> QED BY <1>1, <1>2, TypeCorrect, PTL DEF Spec

(* However many calls process one delivery at a time: one that concerned the  *)
(* workflow and is marked processed is recorded, unless a call is about to    *)
(* record it or a call failed.                                                *)
THEOREM ProcessedIsRecordedHolds == Spec => []ProcessedIsRecorded
<1>1. DeliveryInvariant => ProcessedIsRecorded BY DEF DeliveryInvariant, ProcessedIsRecorded
<1> QED BY <1>1, DeliveriesAgree, PTL
-----------------------------------------------------------------------------
(* Times *)

LEMMA ClockGrows ==
  ASSUME TypeOK, [Next]_vars
  PROVE  clock' \in Nat /\ clock <= clock' /\ \A n \in Nat : n <= clock => n <= clock'
<1> DEFINE Grows == clock' \in {clock, clock + 1}
<1>i. \A kind, status, about : Insert(kind, status, about) => Grows BY DEF Insert
<1>s. SameRows => Grows BY DEF SameRows
<1>u. UNCHANGED clock => Grows OBVIOUS
<1>v. UNCHANGED vars => Grows BY DEF vars
<1> HIDE DEF Grows
<1>1. ASSUME Advance PROVE Grows
  <2>1. \/ SameRows \/ Insert("artifact", "none", "") \/ Insert("patchSet", "proposed", workflow.base)
        \/ Insert("run", "failed", "")
    BY <1>1, Zenon DEF Advance
  <2>2. Insert("artifact", "none", "") => Grows BY <1>i, Zenon
  <2>3. Insert("patchSet", "proposed", workflow.base) => Grows BY <1>i, Zenon
  <2>4. Insert("run", "failed", "") => Grows BY <1>i, Zenon
  <2> QED BY <1>s, <2>1, <2>2, <2>3, <2>4, Zenon
<1>2. ASSUME NEW c \in Callers, CheckpointStep(c) PROVE Grows
  <2>1. CASE CreateCheckpoint(c) BY <2>1 DEF CreateCheckpoint, Grows
  <2>2. CASE CleanupAfterCheckpoint(c) BY <1>u, <2>2, Zenon DEF CleanupAfterCheckpoint
  <2> QED
    BY <1>2, <1>i, <1>s, <2>1, <2>2, Zenon
       DEF CheckpointStep, BeginCheckpoint, ReadState, CaptureSnapshot, ListRows, CheckpointCreated,
           ListCheckpoints, DeletePruned, DeleteCheckpoint, BeginRestore, RestoreWorkflow, CheckpointRestored
<1>3. ASSUME NEW c \in Callers, DiagnosisStep(c) PROVE Grows
  BY <1>3, <1>i, <1>s, <1>u, Zenon
     DEF DiagnosisStep, Diagnose, Decide, PersistDiagnosis, RecordDiagnosis, ReadBase, CreateFixSet,
         FixProposed, ReturnProposals, ApproveSet, RejectSet, CreateApproval, RecordDecision
<1>4. ASSUME NEW c \in Callers, DeliveryStep(c) PROVE Grows
  <2>1. NothingElse => Grows BY <1>u DEF NothingElse
  <2>2. ASSUME NEW d \in Deliveries, Ingest(c, d) \/ Process(c, d) \/ ProcessCIEvent(c, d) PROVE Grows
    BY <2>1, <2>2 DEF Ingest, Process, ProcessCIEvent
  <2>3. CASE Store(c) \/ MatchDelivery(c) \/ ClosePullRequest(c) \/ MarkProcessed(c)
    BY <1>u, <2>3, Zenon DEF Store, MatchDelivery, ClosePullRequest, MarkProcessed
  <2>4. CASE RecordCompletion(c) \/ RecordMerge(c) \/ RecordEvidence(c) \/ StoreEvidence(c)
    BY <1>i, <2>4, Zenon DEF RecordCompletion, RecordMerge, RecordEvidence, StoreEvidence
  <2> QED BY <1>4, <2>2, <2>3, <2>4 DEF DeliveryStep
<1>5. ASSUME NEW c \in Callers, CallFails(c) PROVE Grows BY <1>5, <1>u, Zenon DEF CallFails
<1>6. Grows BY <1>1, <1>2, <1>3, <1>4, <1>5, <1>v DEF Next
<1>7. clock' = clock \/ clock' = clock + 1 BY <1>6 DEF Grows
<1>8. clock \in Nat BY ClockTicks
<1> QED BY <1>7, <1>8

(* What is asked of the locals of one call.                                   *)
Timely(call, now) ==
  /\ call.pc \in CreatingPc => \A t \in call.listed : t <= now
  /\ call.pc \in RestoringPc => ListsEarlier(call.target)

LEMMA TimesAfter ==
  ASSUME TypeOK, TimesInvariant, [Next]_vars, UNCHANGED checkpoints,
         \A b \in Callers : calls'[b] = calls[b] \/ Timely(calls'[b], clock')
  PROVE  TimesInvariant'
<1>1. \A k \in checkpoints : k.at \in Nat BY DEF TypeOK, Snapshot
<1>2. \A k \in checkpoints' : k.at <= clock' /\ ListsEarlier(k) BY <1>1, ClockGrows DEF TimesInvariant
<1>3. \A j, k \in checkpoints' : j.at = k.at => j = k BY DEF TimesInvariant
<1>4. ASSUME NEW b \in Callers PROVE Timely(calls'[b], clock')
  <2>1. \A t \in calls[b].listed : t \in Nat BY DEF TypeOK, CallRecord
  <2>2. Timely(calls[b], clock') BY <2>1, ClockGrows DEF TimesInvariant, Timely
  <2> QED BY <2>2
<1>5. /\ \A b \in Callers : calls'[b].pc \in CreatingPc => \A t \in calls'[b].listed : t <= clock'
      /\ \A b \in Callers : calls'[b].pc \in RestoringPc => ListsEarlier(calls'[b].target)
  BY <1>4 DEF Timely
<1> QED BY <1>2, <1>3, <1>5 DEF TimesInvariant, ListsEarlier

(* A call that has not begun one, or that fails, lists nothing.               *)
LEMMA ElsewhereTimely ==
  ASSUME NEW call, NEW now, call.pc \notin CreatingPc \cup RestoringPc
  PROVE  Timely(call, now)
BY DEF Timely

LEMMA CheckpointTimes ==
  ASSUME TypeOK, TimesInvariant, [Next]_vars, NEW c \in Callers, CheckpointStep(c)
  PROVE  TimesInvariant'
<1> DEFINE Good(call) == Timely(call, clock')
<1>c. calls[c] \in CallRecord /\ \A t \in calls[c].listed : t \in Nat BY DEF TypeOK, CallRecord
<1>t. Timely(calls[c], clock) BY DEF TimesInvariant, Timely
<1>n. Timely(calls[c], clock') BY <1>c, <1>t, ClockGrows DEF Timely
<1>o. \A b \in Callers : b # c => calls'[b] = calls[b] BY CheckpointTyped DEF Within
<1>m. \A call : Moves(c, call) => calls'[c] = call BY MovesOne
<1>p. /\ "idle" \notin CreatingPc \cup RestoringPc /\ "restored" \notin CreatingPc \cup RestoringPc
      /\ CreatingPc \cap RestoringPc = {}
      /\ ListingPc \cup {"state", "snapshot", "create", "created", "prune", "delete"} = CreatingPc
      /\ RowKind \subseteq RestoringPc
  BY DEF CreatingPc, RestoringPc, ListingPc, RowKind
<1>k. \A k \in checkpoints : k.at <= clock' /\ k.at \in Nat
  BY ClockGrows DEF TimesInvariant, TypeOK, Snapshot
<1>f. ASSUME UNCHANGED checkpoints, UNCHANGED calls \/ \E call : Moves(c, call) /\ Good(call)
      PROVE  TimesInvariant'
  <2>1. calls'[c] = calls[c] \/ Timely(calls'[c], clock') BY <1>f, <1>m
  <2> QED BY <1>f, <1>o, <2>1, TimesAfter
<1>i. Good(Idle) BY <1>p, IdleTyped, ElsewhereTimely
<1>g. ASSUME NEW pc \in CreatingPc, calls[c].pc \in CreatingPc PROVE Good(Goto(c, pc))
  <2>1. Goto(c, pc).pc = pc /\ Goto(c, pc).listed = calls[c].listed BY <1>c DEF Goto, CallRecord
  <2> QED BY <1>n, <1>g, <1>p, <2>1 DEF Timely
<1>l. ASSUME NEW pc \in CreatingPc, NEW new, \A t \in new : t <= clock'
      PROVE  Good([Goto(c, pc) EXCEPT !.listed = new])
  <2> DEFINE call == [Goto(c, pc) EXCEPT !.listed = new]
  <2>1. call.pc = pc /\ call.listed = new BY <1>c DEF Goto, CallRecord
  <2> HIDE DEF call
  <2>2. Good(call) BY <1>l, <1>p, <2>1 DEF Timely
  <2> QED BY <2>2 DEF call
<1> HIDE DEF Good
<1>1. CASE BeginCheckpoint(c)
  <2>1. PICK auto : Moves(c, [Idle EXCEPT !.pc = "state", !.auto = auto]) BY <1>1 DEF BeginCheckpoint
  <2> DEFINE call == [Idle EXCEPT !.pc = "state", !.auto = auto]
  <2>2. call.pc = "state" /\ call.listed = {} BY Zenon DEF Idle
  <2>3. Moves(c, call) BY <2>1
  <2> HIDE DEF call
  <2>4. Good(call) BY <1>p, <2>2 DEF Good, Timely
  <2> QED BY <1>f, <1>1, <2>3, <2>4 DEF BeginCheckpoint
<1>2. CASE ReadState(c)
  <2>1. calls[c].pc \in CreatingPc BY <1>2, <1>p DEF ReadState, At
  <2> DEFINE call == [Goto(c, "snapshot") EXCEPT !.state = workflow.state]
  <2>2. call.pc = "snapshot" /\ call.listed = calls[c].listed BY <1>c DEF Goto, CallRecord
  <2>3. Moves(c, call) /\ UNCHANGED checkpoints BY <1>2 DEF ReadState
  <2> HIDE DEF call
  <2>4. Good(call) BY <1>n, <1>p, <2>1, <2>2 DEF Good, Timely
  <2> QED BY <1>f, <2>3, <2>4
<1>3. CASE CaptureSnapshot(c)
  <2>1. calls[c].pc \in CreatingPc BY <1>3, <1>p DEF CaptureSnapshot, At
  <2> DEFINE call == [Goto(c, "listArtifacts") EXCEPT !.base = workflow.base]
  <2>2. call.pc = "listArtifacts" /\ call.listed = calls[c].listed BY <1>c DEF Goto, CallRecord
  <2>3. Moves(c, call) /\ UNCHANGED checkpoints BY <1>3 DEF CaptureSnapshot
  <2> HIDE DEF call
  <2>4. Good(call) BY <1>n, <1>p, <2>1, <2>2 DEF Good, Timely, ListingPc
  <2> QED BY <1>f, <2>3, <2>4
<1>4. CASE ListRows(c)
  <2>1. \A kind : \A t \in Listing(kind) : t <= clock' BY ListingKnown, ClockGrows
  <2>2. PICK i \in 1..4 :
          /\ At(c, Listings[i].pc)
          /\ Moves(c, [Goto(c, Listings[i + 1].pc) EXCEPT !.listed = @ \cup Listing(Listings[i].kind)])
    BY <1>4 DEF ListRows
  <2>3. Listings[i].pc \in CreatingPc /\ Listings[i + 1].pc \in CreatingPc BY <1>p, ListingsOrder
  <2> DEFINE pc == Listings[i + 1].pc
             new == calls[c].listed \cup Listing(Listings[i].kind)
  <2>4. \A t \in new : t <= clock' BY <1>n, <2>1, <2>2, <2>3 DEF Timely, At
  <2>5. Goto(c, pc).listed = calls[c].listed BY <1>c DEF Goto, CallRecord
  <2>6. [Goto(c, pc) EXCEPT !.listed = @ \cup Listing(Listings[i].kind)] = [Goto(c, pc) EXCEPT !.listed = new]
    BY <2>5
  <2>7. Good([Goto(c, pc) EXCEPT !.listed = new])
    <3> HIDE DEF pc, new
    <3> QED BY <1>l, <2>3, <2>4 DEF pc
  <2> QED BY <1>f, <1>4, <2>2, <2>6, <2>7 DEF ListRows
<1>5. CASE CreateCheckpoint(c)
  <2> DEFINE k == [at |-> clock + 1, auto |-> calls[c].auto, state |-> calls[c].state,
                   base |-> calls[c].base, lists |-> calls[c].listed]
             call == [Goto(c, "created") EXCEPT !.listed = {}]
  <2>1. k.at = clock + 1 /\ k.lists = calls[c].listed OBVIOUS
  <2>2. checkpoints' = checkpoints \cup {k} /\ clock' = clock + 1 /\ Moves(c, call) /\ At(c, "create")
    BY <1>5 DEF CreateCheckpoint
  <2>3. Good(call) BY <1>l, <1>p
  <2> HIDE DEF k, call
  <2>4. clock \in Nat BY ClockTicks
  <2>5. \A t \in calls[c].listed : t <= clock BY <1>p, <1>t, <2>2 DEF Timely, At
  <2>6. k.at <= clock' /\ ListsEarlier(k) BY <1>c, <2>1, <2>2, <2>4, <2>5 DEF ListsEarlier
  <2>7. \A j \in checkpoints : j.at # k.at
    <3>1. \A j \in checkpoints : j.at <= clock BY DEF TimesInvariant
    <3> QED BY <1>k, <2>1, <2>4, <3>1
  <2>8. \A j \in checkpoints' : j.at <= clock' /\ ListsEarlier(j)
    BY <1>k, <2>2, <2>6 DEF TimesInvariant
  <2>9. \A i, j \in checkpoints' : i.at = j.at => i = j BY <2>2, <2>7 DEF TimesInvariant
  <2>10. ASSUME NEW b \in Callers PROVE Timely(calls'[b], clock')
    <3>1. CASE b = c BY <1>m, <2>2, <2>3, <3>1 DEF Good
    <3>2. CASE b # c
      <4>1. calls'[b] = calls[b] /\ \A t \in calls[b].listed : t \in Nat BY <1>o, <3>2 DEF TypeOK, CallRecord
      <4>2. Timely(calls[b], clock) BY DEF TimesInvariant, Timely
      <4> QED BY <4>1, <4>2, ClockGrows DEF Timely
    <3> QED BY <3>1, <3>2
  <2>11. /\ \A b \in Callers : calls'[b].pc \in CreatingPc => \A t \in calls'[b].listed : t <= clock'
         /\ \A b \in Callers : calls'[b].pc \in RestoringPc => ListsEarlier(calls'[b].target)
    BY <2>10 DEF Timely
  <2> QED BY <2>8, <2>9, <2>11 DEF TimesInvariant, ListsEarlier
<1>6. CASE CheckpointCreated(c)
  BY <1>f, <1>g, <1>p, <1>6, Zenon DEF CheckpointCreated, At
<1>7. CASE ListCheckpoints(c)
  <2>1. PICK cutoff :
          Moves(c, [Goto(c, "delete") EXCEPT !.listed = {k.at : k \in {j \in checkpoints : Prunable(j, j.at <= cutoff)}}])
    BY <1>7 DEF ListCheckpoints
  <2> DEFINE new == {k.at : k \in {j \in checkpoints : Prunable(j, j.at <= cutoff)}}
  <2>2. \A t \in new : t <= clock' BY <1>k
  <2>3. Moves(c, [Goto(c, "delete") EXCEPT !.listed = new]) BY <2>1
  <2> HIDE DEF new
  <2>4. Good([Goto(c, "delete") EXCEPT !.listed = new]) BY <1>l, <1>p, <2>2
  <2> QED BY <1>f, <1>7, <2>3, <2>4 DEF ListCheckpoints
<1>8. CASE DeletePruned(c) \/ DeleteCheckpoint(c)
  <2>1. checkpoints' \subseteq checkpoints BY <1>8 DEF DeletePruned, DeleteCheckpoint
  <2>2. calls'[c] = Idle \/ UNCHANGED calls BY <1>8, <1>m DEF DeletePruned, DeleteCheckpoint, Ends
  <2>3. \A k \in checkpoints' : k.at <= clock' /\ ListsEarlier(k) BY <1>k, <2>1 DEF TimesInvariant
  <2>4. \A j, k \in checkpoints' : j.at = k.at => j = k BY <2>1 DEF TimesInvariant
  <2>5. ASSUME NEW b \in Callers PROVE Timely(calls'[b], clock')
    <3>1. \A t \in calls[b].listed : t \in Nat BY DEF TypeOK, CallRecord
    <3>2. Timely(calls[b], clock) BY DEF TimesInvariant, Timely
    <3>3. Timely(calls[b], clock') BY <3>1, <3>2, ClockGrows DEF Timely
    <3> QED BY <1>i, <1>o, <2>2, <3>3 DEF Good
  <2>6. /\ \A b \in Callers : calls'[b].pc \in CreatingPc => \A t \in calls'[b].listed : t <= clock'
        /\ \A b \in Callers : calls'[b].pc \in RestoringPc => ListsEarlier(calls'[b].target)
    BY <2>5 DEF Timely
  <2> QED BY <2>3, <2>4, <2>6 DEF TimesInvariant, ListsEarlier
<1>9. CASE BeginRestore(c)
  <2>1. PICK k \in checkpoints, preserve \in RestoreOptions :
          Moves(c, [Idle EXCEPT !.pc = "event", !.target = k, !.preserve = preserve])
    BY <1>9 DEF BeginRestore
  <2> DEFINE call == [Idle EXCEPT !.pc = "event", !.target = k, !.preserve = preserve]
  <2>2. call.pc = "event" /\ call.target = k BY Zenon DEF Idle
  <2>3. Moves(c, call) BY <2>1
  <2> HIDE DEF call
  <2>4. ListsEarlier(k) BY DEF TimesInvariant
  <2>5. "event" \in RestoringPc BY DEF RestoringPc, RowKind
  <2>6. Good(call) BY <1>p, <2>2, <2>4, <2>5 DEF Good, Timely
  <2> QED BY <1>f, <1>9, <2>3, <2>6 DEF BeginRestore
<1>10. CASE CleanupAfterCheckpoint(c)
  <2> DEFINE pc == NextKind(calls[c].pc)
  <2>1. calls[c].pc \in RestoringPc /\ pc \in RestoringPc
    BY <1>10, NextKinds DEF CleanupAfterCheckpoint, RestoringPc, RowKind
  <2>2. Moves(c, Goto(c, pc)) /\ UNCHANGED checkpoints BY <1>10 DEF CleanupAfterCheckpoint
  <2> HIDE DEF pc
  <2>3. Goto(c, pc).pc = pc /\ Goto(c, pc).target = calls[c].target BY <1>c DEF Goto, CallRecord
  <2>4. Good(Goto(c, pc)) BY <1>n, <1>p, <2>1, <2>3 DEF Good, Timely
  <2> QED BY <1>f, <2>2, <2>4
<1>11. CASE RestoreWorkflow(c)
  <2>1. Goto(c, "restored").pc = "restored" BY <1>c DEF Goto, CallRecord
  <2>2. Good(Goto(c, "restored")) BY <1>p, <2>1 DEF Good, Timely
  <2> QED BY <1>f, <1>11, <2>2 DEF RestoreWorkflow
<1>12. CASE CheckpointRestored(c)
  BY <1>f, <1>i, <1>12, Zenon DEF CheckpointRestored, Ends
<1> QED
  BY <1>1, <1>2, <1>3, <1>4, <1>5, <1>6, <1>7, <1>8, <1>9, <1>10, <1>11, <1>12 DEF CheckpointStep

LEMMA NextTimes ==
  ASSUME TypeOK, TimesInvariant, [Next]_vars
  PROVE  TimesInvariant'
<1>p. /\ "idle" \notin CreatingPc \cup RestoringPc
      /\ (DiagnosisPc \cup DeliveryPc) \cap (CreatingPc \cup RestoringPc) = {}
  BY DEF CreatingPc, RestoringPc, ListingPc, RowKind, DiagnosisPc, DeliveryPc, RecordingPc
<1>1. CASE UNCHANGED vars BY <1>1, TimesAfter DEF vars
<1>2. CASE Advance
  <2>1. UNCHANGED <<calls, checkpoints>> BY <1>2, Zenon DEF Advance
  <2> QED BY <2>1, TimesAfter
<1>3. ASSUME NEW c \in Callers, CheckpointStep(c) PROVE TimesInvariant' BY <1>3, CheckpointTimes
<1>4. ASSUME NEW c \in Callers, DiagnosisStep(c) \/ DeliveryStep(c) PROVE TimesInvariant'
  <2>1. UNCHANGED checkpoints BY <1>4 DEF DiagnosisStep, DeliveryStep
  <2>2. Within(c, DiagnosisPc) \/ Within(c, DeliveryPc) BY <1>4, DiagnosisTyped, DeliveryTyped
  <2>3. \A b \in Callers : calls'[b] = calls[b] \/ calls'[b].pc \notin CreatingPc \cup RestoringPc
    BY <1>p, <2>2 DEF Within
  <2>4. \A b \in Callers : calls'[b] = calls[b] \/ Timely(calls'[b], clock') BY <2>3, ElsewhereTimely
  <2> QED BY <2>1, <2>4, TimesAfter
<1>5. ASSUME NEW c \in Callers, CallFails(c) PROVE TimesInvariant'
  <2>1. UNCHANGED checkpoints BY <1>5 DEF CallFails
  <2>2. /\ calls'[c].pc = "idle" /\ \A b \in Callers : b # c => calls'[b] = calls[b]
    BY <1>5, CallFailsTyped, IdleTyped DEF CallFails
  <2>3. \A b \in Callers : calls'[b] = calls[b] \/ Timely(calls'[b], clock')
    BY <1>p, <2>2, ElsewhereTimely
  <2> QED BY <2>1, <2>3, TimesAfter
<1> QED BY <1>1, <1>2, <1>3, <1>4, <1>5 DEF Next

LEMMA InitTimes ==
  ASSUME Init
  PROVE  TimesInvariant
<1>1. \A auto : CheckpointOf(workflow, auto).at = 2 /\ CheckpointOf(workflow, auto).lists = {1}
  BY DEF CheckpointOf
<1>2. clock = 7 /\ \A k \in checkpoints : k.at = 2 /\ k.lists = {1}
  <2>1. checkpoints = {} \/ \E auto \in BOOLEAN : checkpoints = {CheckpointOf(workflow, auto)}
    BY Zenon DEF Init
  <2>2. clock = 7 BY Zenon DEF Init
  <2> QED BY <1>1, <2>1, <2>2
<1>3. \A k \in checkpoints : k.at <= clock /\ ListsEarlier(k) BY <1>2 DEF ListsEarlier
<1>4. \A j, k \in checkpoints : j = k BY DEF Init
<1>5. \A c \in Callers : calls[c].pc = "idle" BY IdleTyped DEF Init
<1>6. "idle" \notin CreatingPc \cup RestoringPc BY DEF CreatingPc, RestoringPc, ListingPc, RowKind
<1> QED BY <1>3, <1>4, <1>5, <1>6 DEF TimesInvariant

LEMMA TimesAgree == Spec => []TimesInvariant
<1>1. Init => TimesInvariant BY InitTimes
<1>2. TypeOK /\ TimesInvariant /\ [Next]_vars => TimesInvariant' BY NextTimes
<1> QED BY <1>1, <1>2, TypeCorrect, PTL DEF Spec

(* Of the steps of a checkpoint's call, one deletes rows and one prunes.      *)
LEMMA CheckpointStepAt ==
  ASSUME NEW c \in Callers, CheckpointStep(c)
  PROVE  /\ calls[c].pc \in RowKind => CleanupAfterCheckpoint(c)
         /\ calls[c].pc = "delete" => DeletePruned(c)
<1>1. CASE ListRows(c)
  <2>1. PICK i \in 1..4 : At(c, Listings[i].pc) BY <1>1 DEF ListRows
  <2> QED BY <2>1, ListingsOrder DEF At, ListingPc, RowKind
<1>2. CASE BeginCheckpoint(c) \/ BeginRestore(c) \/ DeleteCheckpoint(c)
  BY <1>2 DEF BeginCheckpoint, BeginRestore, DeleteCheckpoint, Called, At, RowKind
<1>3. CASE ReadState(c) \/ CaptureSnapshot(c) \/ CreateCheckpoint(c) \/ CheckpointCreated(c) \/ ListCheckpoints(c)
  BY <1>3 DEF ReadState, CaptureSnapshot, CreateCheckpoint, CheckpointCreated, ListCheckpoints, At, RowKind
<1>4. CASE RestoreWorkflow(c) \/ CheckpointRestored(c)
  BY <1>4 DEF RestoreWorkflow, CheckpointRestored, At, RowKind
<1>5. CASE CleanupAfterCheckpoint(c) BY <1>5 DEF CleanupAfterCheckpoint, RowKind
<1>6. CASE DeletePruned(c) BY <1>6 DEF DeletePruned, At, RowKind
<1> QED BY <1>1, <1>2, <1>3, <1>4, <1>5, <1>6 DEF CheckpointStep

(* Who moves a call of a checkpoint: its own step, or a failure.              *)
LEMMA CheckpointMoves ==
  ASSUME TypeOK, Next, NEW c \in Callers, calls'[c] # calls[c], calls[c].pc \in CheckpointPc
  PROVE  CheckpointStep(c) \/ UNCHANGED <<rows, checkpoints>>
<1>p. "idle" \notin CheckpointPc /\ CheckpointPc \cap (DiagnosisPc \cup DeliveryPc) = {}
  BY DEF CheckpointPc, CreatingPc, RestoringPc, ListingPc, RowKind, DiagnosisPc, DeliveryPc, RecordingPc
<1>1. ~ Advance
  <2>1. Advance => UNCHANGED calls BY Zenon DEF Advance
  <2> QED BY <2>1
<1>2. ASSUME NEW b \in Callers, CheckpointStep(b) PROVE b = c BY <1>2, CheckpointTyped DEF Within
<1>3. ASSUME NEW b \in Callers, DiagnosisStep(b) \/ DeliveryStep(b) PROVE FALSE
  <2>1. Within(b, DiagnosisPc) \/ Within(b, DeliveryPc) BY <1>3, DiagnosisTyped, DeliveryTyped
  <2> QED BY <1>p, <2>1 DEF Within
<1>4. ASSUME NEW b \in Callers, CallFails(b) PROVE UNCHANGED <<rows, checkpoints>> BY <1>4 DEF CallFails
<1> QED BY <1>1, <1>2, <1>3, <1>4 DEF Next

(* A restore deletes none of the rows its checkpoint lists, although they are *)
(* told apart by time and were listed while others were inserted.             *)
THEOREM RestoreKeepsSnapshotHolds == Spec => RestoreKeepsSnapshot
<1> DEFINE Kept == \A c \in Callers : calls'[c] # calls[c] /\ calls[c].pc \in RowKind =>
                     \A r \in rows \ rows' : r.at \notin calls[c].target.lists
<1>1. ASSUME TypeOK, TimesInvariant, Next PROVE Kept
  <2> SUFFICES ASSUME NEW c \in Callers, calls'[c] # calls[c], calls[c].pc \in RowKind,
                      NEW r \in rows \ rows'
               PROVE  r.at \notin calls[c].target.lists
    OBVIOUS
  <2>1. calls[c].pc \in CheckpointPc /\ calls[c].pc \in RestoringPc BY DEF CheckpointPc, RestoringPc
  <2>2. CleanupAfterCheckpoint(c) BY <1>1, <2>1, CheckpointMoves, CheckpointStepAt
  <2>3. r.at > calls[c].target.at BY <2>2 DEF CleanupAfterCheckpoint, DeletedBy
  <2>4. ListsEarlier(calls[c].target) BY <1>1, <2>1 DEF TimesInvariant
  <2>5. r.at \in Nat /\ calls[c].target.at \in Nat /\ calls[c].target.lists \subseteq Nat
    BY <1>1, <2>1 DEF TypeOK, RowsTyped, RowRecord, HasRead, Snapshot
  <2> QED BY <2>3, <2>4, <2>5 DEF ListsEarlier
<1>2. TypeOK /\ TimesInvariant /\ [Next]_vars => [Kept]_vars BY <1>1
<1>3. Spec => [][Kept]_vars BY <1>2, TypeCorrect, TimesAgree, PTL DEF Spec
<1> QED BY <1>3 DEF RestoreKeepsSnapshot

-----------------------------------------------------------------------------
(* Pruning *)

(* The oldest checkpoint stays when what is listed to be pruned goes.         *)
LEMMA OldestStays ==
  ASSUME TypeOK, PruningInvariant, NEW c \in Callers, At(c, "delete"), ~ dropped,
         NEW k \in checkpoints, Older(k) # {}
  PROVE  \E j \in checkpoints : j.at < k.at /\ j.at \notin calls[c].listed
<1> DEFINE times == {j.at : j \in checkpoints}
<1>1. \A j \in checkpoints : j.at \in Nat BY DEF TypeOK, Snapshot
<1>2. times \subseteq Nat /\ times # {} BY <1>1
<1>3. \A j \in checkpoints : j.at \in times OBVIOUS
<1>4. \A t \in times : \E j \in checkpoints : t = j.at OBVIOUS
<1> HIDE DEF times
<1>5. PICK t \in times : \A u \in times : t <= u BY <1>2, LeastNumber
<1>6. PICK m \in checkpoints : t = m.at BY <1>4
<1>7. \A j \in checkpoints : m.at <= j.at BY <1>3, <1>5, <1>6
<1>8. Older(m) = {} BY <1>1, <1>7 DEF Older
<1>9. m.at \notin calls[c].listed BY <1>8 DEF PruningInvariant, MayGo
<1>10. PICK j \in checkpoints : j.at < k.at BY DEF Older
<1>11. m.at < k.at BY <1>1, <1>7, <1>10
<1> QED BY <1>9, <1>11

LEMMA NextPrunes ==
  ASSUME TypeOK, TimesInvariant, PruningInvariant, [Next]_vars
  PROVE  PruningInvariant'
<1> DEFINE OlderNext(k) == {j \in checkpoints' : j.at < k.at}
           Lists(b, k) == calls'[b].pc = "delete" /\ k.at \in calls'[b].listed
<1>d. "delete" # "idle" /\ "delete" \in CreatingPc /\ "delete" \in CheckpointPc
      /\ "delete" \notin DiagnosisPc \cup DeliveryPc
  BY DEF CheckpointPc, CreatingPc, DiagnosisPc, DeliveryPc, RecordingPc
<1>b. (\A b \in Callers, k \in checkpoints' : Lists(b, k) => k.auto /\ (dropped' \/ OlderNext(k) # {}))
      => PruningInvariant'
  BY DEF PruningInvariant, MayGo, Older, At
<1>a. \A b \in Callers, k \in checkpoints :
        calls[b].pc = "delete" /\ k.at \in calls[b].listed => k.auto /\ (dropped \/ Older(k) # {})
  BY DEF PruningInvariant, MayGo, At
<1>f. ASSUME UNCHANGED <<checkpoints, dropped>>,
             \A b \in Callers : calls'[b] = calls[b] \/ calls'[b].pc # "delete"
      PROVE  PruningInvariant'
  <2>1. \A k : OlderNext(k) = Older(k) BY <1>f DEF Older
  <2> HIDE DEF OlderNext
  <2> QED BY <1>a, <1>b, <1>f, <2>1
<1>1. CASE UNCHANGED vars BY <1>1, <1>f DEF vars
<1>2. CASE Advance
  <2>1. UNCHANGED <<calls, checkpoints, dropped>> BY <1>2, Zenon DEF Advance
  <2> QED BY <1>f, <2>1
<1>3. ASSUME NEW c \in Callers, DiagnosisStep(c) \/ DeliveryStep(c) PROVE PruningInvariant'
  <2>1. UNCHANGED <<checkpoints, dropped>> BY <1>3 DEF DiagnosisStep, DeliveryStep
  <2>2. Within(c, DiagnosisPc) \/ Within(c, DeliveryPc) BY <1>3, DiagnosisTyped, DeliveryTyped
  <2> QED BY <1>d, <1>f, <2>1, <2>2 DEF Within
<1>4. ASSUME NEW c \in Callers, CallFails(c) PROVE PruningInvariant'
  <2>1. UNCHANGED <<checkpoints, dropped>> BY <1>4 DEF CallFails
  <2>2. /\ calls'[c].pc = "idle" /\ \A b \in Callers : b # c => calls'[b] = calls[b]
    BY <1>4, CallFailsTyped, IdleTyped DEF CallFails
  <2> QED BY <1>d, <1>f, <2>1, <2>2
<1>5. ASSUME NEW c \in Callers, CheckpointStep(c) PROVE PruningInvariant'
  <2>o. \A b \in Callers : b # c => calls'[b] = calls[b] BY <1>5, CheckpointTyped DEF Within
  <2>m. \A call : Moves(c, call) => calls'[c] = call BY MovesOne
  <2>c. calls[c] \in CallRecord BY DEF TypeOK
  <2>g. \A pc : Goto(c, pc).pc = pc BY <2>c DEF Goto, CallRecord
  <2>i. Idle.pc # "delete" BY IdleTyped
  <2>1. CASE ListCheckpoints(c)
    <3>1. PICK cutoff :
            Moves(c, [Goto(c, "delete") EXCEPT !.listed = {k.at : k \in {j \in checkpoints : Prunable(j, j.at <= cutoff)}}])
      BY <2>1 DEF ListCheckpoints
    <3>2. calls'[c].listed = {k.at : k \in {j \in checkpoints : Prunable(j, j.at <= cutoff)}}
      BY <2>c, <2>m, <3>1 DEF Goto, CallRecord
    <3>3. UNCHANGED <<checkpoints, dropped>>
      BY <1>5, <2>1, <2>m DEF CheckpointStep, ListCheckpoints, BeginCheckpoint, BeginRestore, DeleteCheckpoint, Called, At
    <3>4. ASSUME NEW k \in checkpoints, k.at \in calls'[c].listed PROVE k.auto /\ Older(k) # {}
      <4>1. PICK j \in checkpoints : k.at = j.at /\ Prunable(j, j.at <= cutoff) BY <3>2, <3>4
      <4>2. j = k BY <4>1 DEF TimesInvariant
      <4> QED BY <4>1, <4>2 DEF Prunable
    <3>5. \A k : OlderNext(k) = Older(k) BY <3>3 DEF Older
    <3> HIDE DEF OlderNext
    <3> QED BY <1>a, <1>b, <2>o, <3>3, <3>4, <3>5
  <2>2. CASE DeletePruned(c)
    <3>1. /\ checkpoints' = {k \in checkpoints : k.at \notin calls[c].listed}
          /\ calls'[c] = Idle /\ At(c, "delete")
      BY <2>2, <2>m DEF DeletePruned, Ends
    <3>2. dropped' = dropped \/ dropped'
      BY <1>5, Zenon DEF CheckpointStep, DeleteCheckpoint
    <3>3. ASSUME NEW b \in Callers, NEW k \in checkpoints', Lists(b, k)
          PROVE  k.auto /\ (dropped' \/ OlderNext(k) # {})
      <4>1. k \in checkpoints /\ calls'[b] = calls[b] BY <2>i, <2>o, <3>1, <3>3
      <4>2. k.auto /\ (dropped \/ Older(k) # {}) BY <1>a, <3>3, <4>1
      <4>3. CASE dropped BY <3>2, <4>2, <4>3
      <4>4. CASE ~ dropped
        <5>1. PICK j \in checkpoints : j.at < k.at /\ j.at \notin calls[c].listed
          BY <3>1, <4>1, <4>2, <4>4, OldestStays
        <5>2. j \in OlderNext(k) BY <3>1, <5>1
        <5> QED BY <4>2, <5>2
      <4> QED BY <4>3, <4>4
    <3> HIDE DEF Lists, OlderNext
    <3> QED BY <1>b, <3>3
  <2>3. CASE DeleteCheckpoint(c)
    <3>1. checkpoints' \subseteq checkpoints /\ dropped' /\ UNCHANGED calls BY <2>3 DEF DeleteCheckpoint
    <3> QED BY <1>a, <1>b, <3>1
  <2>4. CASE CreateCheckpoint(c)
    <3> DEFINE new == [at |-> clock + 1, auto |-> calls[c].auto, state |-> calls[c].state,
                       base |-> calls[c].base, lists |-> calls[c].listed]
    <3>1. checkpoints' = checkpoints \cup {new} /\ new.at = clock + 1 BY <2>4 DEF CreateCheckpoint
    <3>2. calls'[c].pc # "delete"
      <4>1. [Goto(c, "created") EXCEPT !.listed = {}].pc = "created" BY <2>c DEF Goto, CallRecord
      <4> QED BY <2>4, <2>m, <4>1 DEF CreateCheckpoint
    <3> HIDE DEF new
    <3>3. dropped' = dropped \/ dropped' BY <1>5, Zenon DEF CheckpointStep, DeleteCheckpoint
    <3>4. clock \in Nat BY ClockTicks
    <3>5. ASSUME NEW b \in Callers, NEW k \in checkpoints', Lists(b, k)
          PROVE  k.auto /\ (dropped' \/ OlderNext(k) # {})
      <4>1. calls'[b] = calls[b] BY <2>o, <3>2, <3>5
      <4>2. k.at \in Nat /\ k.at <= clock
        <5>1. k.at \in calls[b].listed /\ calls[b].pc \in CreatingPc BY <1>d, <3>5, <4>1
        <5>2. calls[b].listed \subseteq Nat BY DEF TypeOK, CallRecord
        <5> QED BY <5>1, <5>2 DEF TimesInvariant
      <4>3. k \in checkpoints BY <3>1, <3>4, <4>2
      <4>4. k.auto /\ (dropped \/ Older(k) # {}) BY <1>a, <3>5, <4>1, <4>3
      <4>5. Older(k) \subseteq OlderNext(k) BY <3>1 DEF Older
      <4> QED BY <3>3, <4>4, <4>5
    <3> HIDE DEF Lists, OlderNext
    <3> QED BY <1>b, <3>5
  <2>5. CASE (BeginCheckpoint(c) \/ BeginRestore(c)) /\ UNCHANGED dropped
    <3>1. UNCHANGED checkpoints BY <2>5 DEF BeginCheckpoint, BeginRestore
    <3>2. \A auto : [Idle EXCEPT !.pc = "state", !.auto = auto].pc = "state" BY Zenon DEF Idle
    <3>3. \A k, preserve : [Idle EXCEPT !.pc = "event", !.target = k, !.preserve = preserve].pc = "event"
      BY Zenon DEF Idle
    <3>4. \/ \E auto : Moves(c, [Idle EXCEPT !.pc = "state", !.auto = auto])
          \/ \E k, preserve : Moves(c, [Idle EXCEPT !.pc = "event", !.target = k, !.preserve = preserve])
      BY <2>5 DEF BeginCheckpoint, BeginRestore
    <3>5. ASSUME NEW auto, Moves(c, [Idle EXCEPT !.pc = "state", !.auto = auto])
          PROVE  calls'[c].pc # "delete"
      <4>1. calls'[c].pc = "state" BY <2>m, <3>2, <3>5, Zenon
      <4> QED BY <4>1
    <3>6. ASSUME NEW k, NEW preserve,
                 Moves(c, [Idle EXCEPT !.pc = "event", !.target = k, !.preserve = preserve])
          PROVE  calls'[c].pc # "delete"
      <4>1. calls'[c].pc = "event" BY <2>m, <3>3, <3>6, ZenonT(30)
      <4> QED BY <4>1
    <3>7. calls'[c].pc # "delete" BY <3>4, <3>5, <3>6
    <3> QED BY <1>f, <2>5, <2>o, <3>1, <3>7
  <2>6. CASE (ReadState(c) \/ CaptureSnapshot(c) \/ ListRows(c)) /\ UNCHANGED dropped
    <3>1. UNCHANGED checkpoints BY <2>6 DEF ReadState, CaptureSnapshot, ListRows
    <3>2. /\ [Goto(c, "snapshot") EXCEPT !.state = workflow.state].pc = "snapshot"
          /\ [Goto(c, "listArtifacts") EXCEPT !.base = workflow.base].pc = "listArtifacts"
      BY <2>c DEF Goto, CallRecord
    <3>3. ASSUME ListRows(c) PROVE calls'[c].pc # "delete"
      <4>1. PICK i \in 1..4 :
              Moves(c, [Goto(c, Listings[i + 1].pc) EXCEPT !.listed = @ \cup Listing(Listings[i].kind)])
        BY <3>3 DEF ListRows
      <4> DEFINE pc == Listings[i + 1].pc
      <4>2. [Goto(c, pc) EXCEPT !.listed = @ \cup Listing(Listings[i].kind)].pc = pc
        BY <2>c DEF Goto, CallRecord
      <4>3. pc # "delete" BY ListingsOrder DEF ListingPc
      <4> QED BY <2>m, <4>1, <4>2, <4>3
    <3>4. ASSUME ReadState(c) \/ CaptureSnapshot(c) PROVE calls'[c].pc # "delete"
      BY <2>m, <3>2, <3>4 DEF ReadState, CaptureSnapshot
    <3> QED BY <1>f, <2>6, <2>o, <3>1, <3>3, <3>4
  <2>7. CASE (CheckpointCreated(c) \/ RestoreWorkflow(c) \/ CheckpointRestored(c)) /\ UNCHANGED dropped
    <3>1. UNCHANGED checkpoints BY <2>7 DEF CheckpointCreated, RestoreWorkflow, CheckpointRestored
    <3>2. Moves(c, Goto(c, "prune")) \/ Moves(c, Goto(c, "restored")) \/ Moves(c, Idle)
      BY <2>7, Zenon DEF CheckpointCreated, RestoreWorkflow, CheckpointRestored, Ends
    <3>3. calls'[c].pc # "delete" BY <2>g, <2>i, <2>m, <3>2
    <3> QED BY <1>f, <2>7, <2>o, <3>1, <3>3
  <2>8. CASE CleanupAfterCheckpoint(c) /\ UNCHANGED dropped
    <3>1. UNCHANGED checkpoints BY <2>8 DEF CleanupAfterCheckpoint
    <3>2. NextKind(calls[c].pc) # "delete" BY <2>8, NextKinds DEF CleanupAfterCheckpoint, RowKind
    <3>3. calls'[c].pc # "delete" BY <2>8, <2>g, <2>m, <3>2 DEF CleanupAfterCheckpoint
    <3> QED BY <1>f, <2>8, <2>o, <3>1, <3>3
  <2> QED BY <1>5, <2>1, <2>2, <2>3, <2>4, <2>5, <2>6, <2>7, <2>8 DEF CheckpointStep
<1> QED BY <1>1, <1>2, <1>3, <1>4, <1>5 DEF Next

LEMMA PruningAgrees == Spec => []PruningInvariant
<1>1. Init => PruningInvariant
  <2>1. Init => \A c \in Callers : calls[c].pc = "idle" BY IdleTyped DEF Init
  <2> QED BY <2>1 DEF PruningInvariant, At
<1>2. TypeOK /\ TimesInvariant /\ PruningInvariant /\ [Next]_vars => PruningInvariant' BY NextPrunes
<1> QED BY <1>1, <1>2, TypeCorrect, TimesAgree, PTL DEF Spec

(* Pruning deletes what was made automatically and is not the oldest, whoever *)
(* creates or prunes between the listing and the deletion, unless a caller    *)
(* deletes checkpoints himself.                                              *)
THEOREM FirstAndManualKeptHolds == Spec => FirstAndManualKept
<1> DEFINE Kept == \A c \in Callers : calls'[c] # calls[c] /\ At(c, "delete") =>
                     \A k \in checkpoints \ checkpoints' : k.auto /\ (dropped \/ Older(k) # {})
<1>1. ASSUME TypeOK, PruningInvariant, Next PROVE Kept
  <2> SUFFICES ASSUME NEW c \in Callers, calls'[c] # calls[c], At(c, "delete"),
                      NEW k \in checkpoints \ checkpoints'
               PROVE  k.auto /\ (dropped \/ Older(k) # {})
    OBVIOUS
  <2>1. calls[c].pc = "delete" /\ calls[c].pc \in CheckpointPc BY DEF At, CheckpointPc, CreatingPc
  <2>2. DeletePruned(c) BY <1>1, <2>1, CheckpointMoves, CheckpointStepAt
  <2>3. k.at \in calls[c].listed BY <2>2 DEF DeletePruned
  <2> QED BY <1>1, <2>3 DEF PruningInvariant, MayGo
<1>2. TypeOK /\ PruningInvariant /\ [Next]_vars => [Kept]_vars BY <1>1
<1>3. Spec => [][Kept]_vars BY <1>2, TypeCorrect, PruningAgrees, PTL DEF Spec
<1> QED BY <1>3 DEF FirstAndManualKept
===============================================================================
