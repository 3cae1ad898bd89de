--------------------------- MODULE GenerationProofs ---------------------------
(***************************************************************************)
(* For every list of repositories, every number of pushes, requests,       *)
(* failures and crashes, and whatever the providers answer: a stored       *)
(* context speaks of the commit it names and is never taken back to an     *)
(* older one, and a patch set names what it was made of.                   *)
(***************************************************************************)
EXTENDS Generation, TLAPS

Job == [id : Nat, repo : RepoSet, stalls : Nat, seen : Nat]
Call == [pc : {"running", "returned"}, attempt : Nat, success : BOOLEAN, text : Text]
ContextRow ==
  [sha : Nat, path : {"none", "default", "file", "generated"}, content : Nat, summary : Nat, stale : BOOLEAN]
RefreshLocals ==
  [pc : {"idle", "branch", "file", "tree", "document", "summary", "upsert", "event", "caught"},
   job : Job, sha : Nat, path : {"none", "file", "generated"}, content : Nat, summary : Nat, call : Call]
IngestLocals ==
  [pc : {"waiting", "branch", "context", "base", "plan", "planAgain", "fetch", "change", "changeAgain",
         "set", "patch", "event", "primary", "completed", "caught", "failed"},
   left : Nat, stalls : Nat, repo : 1..Len(Repos), sha : Nat, contextSha : Nat, guide : Nat, files : Nat,
   diff : {"none", "changes", "stub"}, call : Call]
SetRow ==
  [repo : RepoSet, baseSha : Nat, contextSha : Nat, guide : Nat, files : Nat,
   diff : {"none", "changes", "stub"}, patch : BOOLEAN]

RefreshTyped == context \in [RepoSet -> ContextRow] /\ jobs \subseteq Job /\ refresh \in RefreshLocals
IngestTyped == ingest \in IngestLocals /\ sets \in Seq(SetRow) /\ workflowBase \in Nat
CountersTyped == requests \in Nat /\ heads \in [RepoSet -> Nat]
TypeOK == RefreshTyped /\ IngestTyped /\ CountersTyped

-----------------------------------------------------------------------------
(* Repositories and replies *)

LEMMA RepoFacts == \A i \in 1..Len(Repos) : Repos[i] \in RepoSet
  BY GenerationAssumption DEF RepoSet, Range

LEMMA FirstRepo == 1 \in 1..Len(Repos) /\ Repos[1] \in RepoSet
<1>1. 1 \in 1..Len(Repos) BY GenerationAssumption
<1> QED BY <1>1, RepoFacts

(* Whatever is answered, a call stays a call.                                 *)
LEMMA CallTyped ==
  NewCall \in Call /\ \A call \in Call : Answered(call) \subseteq Call
<1>1. NewCall \in Call BY DEF NewCall, Call, Text
<1>2. ASSUME NEW call \in Call, NEW condition PROVE RetryOrFail(call, condition) \in Call
  <2>1. [call EXCEPT !.attempt = @ + 1] \in Call BY DEF Call
  <2>2. ErrorResponse(call) \in Call BY DEF ErrorResponse, Returned, Call, Text
  <2> QED BY <2>1, <2>2 DEF RetryOrFail
<1>3. ASSUME NEW call \in Call, NEW reply \in Replies PROVE Attempted(call, reply) \in Call
  <2>1. reply \in Reply BY GenerationAssumption
  <2>2. CASE reply.kind = "refusal" BY <2>2, <1>2 DEF Attempted
  <2>3. CASE reply.kind = "throw" BY <2>3, <1>2 DEF Attempted
  <2>4. CASE reply.kind = "answer"
    <3>1. reply.text \in Text BY <2>1, <2>4 DEF Reply
    <3>2. Returned(call, TRUE, reply.text) \in Call BY <3>1 DEF Returned, Call
    <3>3. ErrorResponse(call) \in Call BY DEF ErrorResponse, Returned, Call, Text
    <3> QED BY <2>4, <3>2, <3>3 DEF Attempted
  <2> QED BY <2>1, <2>2, <2>3, <2>4 DEF Reply
<1>4. ASSUME NEW call \in Call PROVE Answered(call) \subseteq Call BY <1>3 DEF Answered
<1> QED BY <1>1, <1>4

LEMMA Rests ==
  /\ NoRow \in ContextRow /\ NoJob \in Job /\ IdleRefresh \in RefreshLocals
  /\ \A left, stalls \in Nat : NewIngest(left, stalls) \in IngestLocals
<1>1. NoRow \in ContextRow BY DEF NoRow, ContextRow, None
<1>2. NoJob \in Job BY FirstRepo DEF NoJob, Job, None
<1>3. IdleRefresh \in RefreshLocals BY <1>2, CallTyped DEF IdleRefresh, RefreshLocals, None
<1>4. \A left, stalls \in Nat : NewIngest(left, stalls) \in IngestLocals
  BY FirstRepo, CallTyped DEF NewIngest, IngestLocals, None
<1> QED BY <1>1, <1>2, <1>3, <1>4

-----------------------------------------------------------------------------
(* The inductive invariant.  Only the refresh processor writes contexts, one *)
(* job at a time: from the branch to the upsert its commit lies between the  *)
(* stored one and the head, which is what keeps a context from going back    *)
(* (ReadBranch comes after TakeRefresh, however old the job is); and what it *)
(* holds for the row is from that commit.                                    *)
ContextBehind == \A r \in RepoSet : context[r].sha <= heads[r]
Fetching == refresh.pc \in {"file", "tree", "document", "summary", "upsert"}
RefreshBetween ==
  Fetching => context[refresh.job.repo].sha <= refresh.sha /\ refresh.sha <= heads[refresh.job.repo]
RefreshHoldsCommit ==
  /\ refresh.pc \in {"branch", "file", "tree", "document"} => refresh.content = None
  /\ refresh.pc \in {"branch", "file", "tree", "document", "summary"} => refresh.summary = None
  /\ refresh.pc = "summary" => refresh.content = refresh.sha
  /\ refresh.pc = "upsert" =>
       refresh.content \in {None, refresh.sha} /\ refresh.summary \in {None, refresh.content}

(* The same of what the ingest processor holds for the set it is making.     *)
IngestHoldsSources ==
  /\ ingest.pc \in {"branch"} => ingest.files = None
  /\ ingest.files \in {None, ingest.sha} /\ ingest.guide \in {None, ingest.contextSha}

ContextInvariant == ContextIsOfItsCommit /\ ContextBehind /\ RefreshBetween /\ RefreshHoldsCommit
SourcesInvariant == SetNamesItsSources /\ IngestHoldsSources
GenerationInvariant == TypeOK /\ ContextInvariant /\ SourcesInvariant

-----------------------------------------------------------------------------
(* The steps of the refresh processor *)

RefreshPc == {"idle", "branch", "file", "tree", "document", "summary", "upsert", "event", "caught"}

LEMMA RefreshGoes ==
  ASSUME RefreshTyped, NEW pc \in RefreshPc
  PROVE  /\ RefreshGoto(pc) \in RefreshLocals /\ RefreshGoto(pc).pc = pc
         /\ RefreshGoto(pc).job = refresh.job /\ RefreshGoto(pc).sha = refresh.sha
         /\ RefreshGoto(pc).content = refresh.content /\ RefreshGoto(pc).summary = refresh.summary
  BY CallTyped DEF RefreshTyped, RefreshLocals, RefreshGoto, RefreshPc

(* A step that stores nothing and keeps its job has only its locals to show. *)
RefreshKeeps == UNCHANGED <<heads, context, ingest, sets, workflowBase, requests>>

LEMMA LocalStep ==
  ASSUME TypeOK, ContextInvariant, RefreshKeeps, jobs' \subseteq Job,
         refresh' \in RefreshLocals, RefreshBetween', RefreshHoldsCommit'
  PROVE  TypeOK' /\ ContextInvariant'
<1>1. TypeOK' BY DEF TypeOK, RefreshTyped, IngestTyped, CountersTyped, RefreshKeeps
<1>2. ContextIsOfItsCommit' /\ ContextBehind'
  BY DEF ContextInvariant, ContextIsOfItsCommit, ContextBehind, RefreshKeeps
<1> QED BY <1>1, <1>2 DEF ContextInvariant

(* At rest, with an event to record or failed, nothing is asked of them.     *)
LEMMA PausedStep ==
  ASSUME TypeOK, ContextInvariant, RefreshKeeps, jobs' \subseteq Job,
         refresh' \in RefreshLocals, refresh'.pc \in {"idle", "event", "caught"}
  PROVE  TypeOK' /\ ContextInvariant'
<1>1. RefreshBetween' BY DEF RefreshBetween, Fetching
<1>2. RefreshHoldsCommit' BY DEF RefreshHoldsCommit
<1> QED BY <1>1, <1>2, LocalStep

LEMMA CaughtLocally ==
  ASSUME TypeOK, ContextInvariant, RefreshKeeps, Locals(RefreshGoto("caught"))
  PROVE  TypeOK' /\ ContextInvariant'
<1>1. refresh' \in RefreshLocals /\ refresh'.pc = "caught" /\ jobs' \subseteq Job
  BY RefreshGoes DEF Locals, RefreshPc, TypeOK, RefreshTyped
<1> QED BY <1>1, PausedStep

(* A row that is stored and the locals that store it.                        *)
LEMMA StoringStep ==
  ASSUME TypeOK, ContextInvariant, UNCHANGED <<heads, ingest, sets, workflowBase, requests>>,
         refresh' \in RefreshLocals, refresh'.pc \in {"idle", "event"}, jobs' \subseteq Job,
         NEW row \in ContextRow, context' = [context EXCEPT ![RefreshRepo] = row],
         row.sha <= heads[RefreshRepo],
         row.content \in {None, row.sha}, row.summary \in {None, row.content}
  PROVE  TypeOK' /\ ContextInvariant'
<1>1. RefreshRepo \in RepoSet BY DEF TypeOK, RefreshTyped, RefreshLocals, Job, RefreshRepo
<1>2. context' \in [RepoSet -> ContextRow] BY DEF TypeOK, RefreshTyped
<1>3. TypeOK' BY <1>2 DEF TypeOK, RefreshTyped, IngestTyped, CountersTyped
<1>4. \A r \in RepoSet : context'[r] = IF r = RefreshRepo THEN row ELSE context[r]
  BY <1>1 DEF TypeOK, RefreshTyped
<1>5. ContextIsOfItsCommit' BY <1>4 DEF ContextInvariant, ContextIsOfItsCommit
<1>6. ContextBehind' BY <1>4 DEF ContextInvariant, ContextBehind
<1>7. RefreshBetween' /\ RefreshHoldsCommit' BY DEF RefreshBetween, Fetching, RefreshHoldsCommit
<1> QED BY <1>3, <1>5, <1>6, <1>7 DEF ContextInvariant

LEMMA RefreshStep ==
  ASSUME TypeOK, ContextInvariant, RefreshContext
  PROVE  TypeOK' /\ ContextInvariant'
<1> DEFINE Repo == refresh.job.repo
<1>a. /\ context \in [RepoSet -> ContextRow] /\ jobs \subseteq Job /\ refresh \in RefreshLocals
      /\ heads \in [RepoSet -> Nat] /\ refresh.job \in Job /\ Repo \in RepoSet /\ refresh.sha \in Nat
  BY DEF TypeOK, RefreshTyped, CountersTyped, RefreshLocals, Job
<1>b. /\ UNCHANGED <<heads, ingest, sets, workflowBase, requests>>
      /\ UNCHANGED context => RefreshKeeps
  BY DEF RefreshContext, RefreshKeeps
<1>c. RefreshBetween /\ RefreshHoldsCommit /\ ContextBehind /\ ContextIsOfItsCommit BY DEF ContextInvariant
<1>d. ASSUME NEW pc \in RefreshPc
      PROVE  /\ RefreshGoto(pc) \in RefreshLocals /\ RefreshGoto(pc).pc = pc
             /\ RefreshGoto(pc).job = refresh.job /\ RefreshGoto(pc).sha = refresh.sha
             /\ RefreshGoto(pc).content = refresh.content /\ RefreshGoto(pc).summary = refresh.summary
  BY RefreshGoes DEF TypeOK
<1>1. CASE TakeRefresh
  <2>1. PICK j \in jobs : refresh' = [IdleRefresh EXCEPT !.pc = "branch", !.job = j] /\ jobs' = jobs \ {j}
    BY <1>1 DEF TakeRefresh
  <2>2. refresh' \in RefreshLocals BY <2>1, <1>a, Rests DEF RefreshLocals
  <2>3. refresh'.pc = "branch" /\ refresh'.content = None /\ refresh'.summary = None
    BY <2>1 DEF IdleRefresh
  <2>4. RefreshBetween' /\ RefreshHoldsCommit' BY <2>3 DEF RefreshBetween, Fetching, RefreshHoldsCommit
  <2>5. RefreshKeeps BY <1>1, <1>b DEF TakeRefresh
  <2> QED BY <2>1, <2>2, <2>4, <2>5, <1>a, LocalStep
<1>2. CASE ReadBranch
  <2>1. RefreshKeeps BY <1>2, <1>b DEF ReadBranch, Locals
  <2>2. CASE Locals(RefreshGoto("caught")) BY <2>1, <2>2, CaughtLocally
  <2>3. CASE Locals([RefreshGoto("file") EXCEPT !.sha = heads[RefreshRepo]])
    <3>1. refresh' = [RefreshGoto("file") EXCEPT !.sha = heads[Repo]] /\ UNCHANGED <<context, jobs, heads>>
      BY <2>3, <1>b DEF Locals, RefreshRepo
    <3>2. "file" \in RefreshPc BY DEF RefreshPc
    <3>3. /\ refresh' \in RefreshLocals /\ refresh'.pc = "file" /\ refresh'.sha = heads[Repo]
          /\ refresh'.job = refresh.job /\ refresh'.content = refresh.content /\ refresh'.summary = refresh.summary
      BY <3>1, <3>2, <1>a, <1>d DEF RefreshLocals
    <3>4. RefreshBetween' BY <3>1, <3>3, <1>a, <1>c DEF RefreshBetween, ContextBehind, ContextRow
    <3>5. RefreshHoldsCommit' BY <3>3, <1>2, <1>c DEF RefreshHoldsCommit, ReadBranch
    <3> QED BY <3>1, <3>3, <3>4, <3>5, <2>1, <1>a, LocalStep
  <2> QED BY <1>2, <2>2, <2>3 DEF ReadBranch
<1>3. CASE ReadContextFile
  <2>1. RefreshKeeps BY <1>3, <1>b DEF ReadContextFile, Locals
  <2>2. CASE Locals([RefreshGoto("summary") EXCEPT !.content = refresh.sha, !.path = "file"])
    <3>1. "summary" \in RefreshPc BY DEF RefreshPc
    <3>2. /\ refresh' \in RefreshLocals /\ refresh'.pc = "summary" /\ refresh'.sha = refresh.sha
          /\ refresh'.job = refresh.job /\ refresh'.content = refresh.sha /\ refresh'.summary = refresh.summary
      BY <2>2, <3>1, <1>a, <1>d, ZenonT(40) DEF RefreshLocals, Locals
    <3>3. UNCHANGED <<context, jobs, heads>> BY <2>2, <1>b DEF Locals
    <3>4. RefreshBetween' BY <3>2, <3>3, <1>3, <1>c DEF RefreshBetween, Fetching, ReadContextFile
    <3>5. RefreshHoldsCommit' BY <3>2, <1>3, <1>c DEF RefreshHoldsCommit, ReadContextFile
    <3> QED BY <3>2, <3>3, <3>4, <3>5, <2>1, <1>a, LocalStep
  <2>3. CASE Locals(RefreshGoto("tree"))
    <3>1. "tree" \in RefreshPc BY DEF RefreshPc
    <3>2. /\ refresh' \in RefreshLocals /\ refresh'.pc = "tree" /\ refresh'.sha = refresh.sha
          /\ refresh'.job = refresh.job /\ refresh'.content = refresh.content /\ refresh'.summary = refresh.summary
      BY <2>3, <3>1, <1>d DEF Locals
    <3>3. UNCHANGED <<context, jobs, heads>> BY <2>3, <1>b DEF Locals
    <3>4. RefreshBetween' BY <3>2, <3>3, <1>3, <1>c DEF RefreshBetween, Fetching, ReadContextFile
    <3>5. RefreshHoldsCommit' BY <3>2, <1>3, <1>c DEF RefreshHoldsCommit, ReadContextFile
    <3> QED BY <3>2, <3>3, <3>4, <3>5, <2>1, <1>a, LocalStep
  <2> QED BY <1>3, <2>2, <2>3 DEF ReadContextFile
<1>4. CASE ReadTree
  <2>1. RefreshKeeps BY <1>4, <1>b DEF ReadTree, Locals
  <2>2. ASSUME NEW pc \in {"document", "upsert"}, Locals(RefreshGoto(pc)) PROVE TypeOK' /\ ContextInvariant'
    <3>1. pc \in RefreshPc BY DEF RefreshPc
    <3>2. /\ refresh' \in RefreshLocals /\ refresh'.pc = pc /\ refresh'.sha = refresh.sha
          /\ refresh'.job = refresh.job /\ refresh'.content = refresh.content /\ refresh'.summary = refresh.summary
      BY <2>2, <3>1, <1>d DEF Locals
    <3>3. UNCHANGED <<context, jobs, heads>> BY <2>2, <1>b DEF Locals
    <3>4. RefreshBetween' BY <3>2, <3>3, <1>4, <1>c DEF RefreshBetween, Fetching, ReadTree
    <3>5. RefreshHoldsCommit' BY <3>2, <1>4, <1>c DEF RefreshHoldsCommit, ReadTree
    <3> QED BY <3>2, <3>3, <3>4, <3>5, <2>1, <1>a, LocalStep
  <2> QED BY <1>4, <2>2 DEF ReadTree
<1>5. CASE WriteDocument \/ Summarize
  <2>1. RefreshKeeps BY <1>5, <1>b DEF WriteDocument, Summarize, Locals
  <2>2. refresh.pc \in {"document", "summary"} BY <1>5 DEF WriteDocument, Summarize
  <2>3. PICK call \in Answered(refresh.call) :
          /\ UNCHANGED <<context, jobs>>
          /\ \/ refresh' = [refresh EXCEPT !.call = call]
             \/ refresh' = AfterDocument(call) /\ refresh.pc = "document"
             \/ refresh' = AfterSummary(call) /\ refresh.pc = "summary"
    BY <1>5 DEF WriteDocument, Summarize, Locals
  <2>4. call \in Call BY <1>a, CallTyped DEF RefreshLocals
  <2>5. UNCHANGED <<context, jobs, heads>> BY <2>3, <1>b
  <2>6. CASE refresh' = [refresh EXCEPT !.call = call]
    <3>1. /\ refresh' \in RefreshLocals /\ refresh'.pc = refresh.pc /\ refresh'.sha = refresh.sha
          /\ refresh'.job = refresh.job /\ refresh'.content = refresh.content /\ refresh'.summary = refresh.summary
      BY <2>6, <2>4, <1>a DEF RefreshLocals
    <3>2. RefreshBetween' BY <3>1, <2>5, <2>2, <1>c DEF RefreshBetween, Fetching
    <3>3. RefreshHoldsCommit' BY <3>1, <2>2, <1>c DEF RefreshHoldsCommit
    <3> QED BY <3>1, <3>2, <3>3, <2>1, <2>5, <1>a, LocalStep
  <2>7. CASE refresh' = AfterDocument(call) /\ refresh.pc = "document"
    <3>1. "summary" \in RefreshPc /\ "upsert" \in RefreshPc BY DEF RefreshPc
    <3>2. /\ refresh' \in RefreshLocals /\ refresh'.sha = refresh.sha
          /\ refresh'.job = refresh.job /\ refresh'.summary = refresh.summary
          /\ \/ refresh'.pc = "summary" /\ refresh'.content = refresh.sha
             \/ refresh'.pc = "upsert" /\ refresh'.content = refresh.content
      <4>1. CASE HasContent(call)
        <5>1. refresh' = [RefreshGoto("summary") EXCEPT !.content = refresh.sha, !.path = "generated"]
          BY <2>7, <4>1 DEF AfterDocument
        <5>2. /\ refresh' \in RefreshLocals /\ refresh'.pc = "summary" /\ refresh'.content = refresh.sha
              /\ refresh'.job = refresh.job /\ refresh'.sha = refresh.sha
              /\ refresh'.summary = refresh.summary
          BY <5>1, <3>1, <1>a, <1>d, ZenonT(40) DEF RefreshLocals
        <5> QED BY <5>2
      <4>2. CASE ~ HasContent(call)
        <5>1. refresh' = RefreshGoto("upsert") BY <2>7, <4>2 DEF AfterDocument
        <5> QED BY <5>1, <3>1, <1>d
      <4> QED BY <4>1, <4>2
    <3>3. RefreshBetween' BY <3>2, <2>5, <2>2, <1>c DEF RefreshBetween, Fetching
    <3>4. RefreshHoldsCommit' BY <3>2, <2>7, <1>c DEF RefreshHoldsCommit
    <3> QED BY <3>2, <3>3, <3>4, <2>1, <2>5, <1>a, LocalStep
  <2>8. CASE refresh' = AfterSummary(call) /\ refresh.pc = "summary"
    <3>1. "upsert" \in RefreshPc BY DEF RefreshPc
    <3>2. /\ refresh' \in RefreshLocals /\ refresh'.sha = refresh.sha /\ refresh'.pc = "upsert"
          /\ refresh'.job = refresh.job /\ refresh'.content = refresh.content
          /\ refresh'.summary \in {None, refresh.sha}
      BY <2>8, <3>1, <1>a, <1>d DEF RefreshLocals, AfterSummary, None
    <3>3. RefreshBetween' BY <3>2, <2>5, <2>2, <1>c DEF RefreshBetween, Fetching
    <3>4. RefreshHoldsCommit' BY <3>2, <2>8, <1>c DEF RefreshHoldsCommit
    <3> QED BY <3>2, <3>3, <3>4, <2>1, <2>5, <1>a, LocalStep
  <2> QED BY <2>3, <2>6, <2>7, <2>8
<1>6. CASE UpsertContext
  <2>1. CASE Locals(RefreshGoto("caught"))
    <3>1. RefreshKeeps BY <2>1, <1>b DEF Locals
    <3> QED BY <2>1, <3>1, CaughtLocally
  <2>2. CASE /\ context' = [context EXCEPT ![RefreshRepo] = Upserted(@)]
             /\ refresh' = RefreshGoto("event") /\ UNCHANGED jobs
    <3> DEFINE row == Upserted(context[RefreshRepo])
    <3>1. row \in ContextRow BY <1>a DEF Upserted, RefreshRepo, ContextRow, RefreshLocals
    <3>2. row.sha = refresh.sha /\ row.content = refresh.content /\ row.summary = refresh.summary BY DEF Upserted
    <3>3. row.sha <= heads[RefreshRepo] BY <3>2, <1>6, <1>c DEF UpsertContext, RefreshBetween, Fetching, RefreshRepo
    <3>4. row.content \in {None, row.sha} /\ row.summary \in {None, row.content}
      BY <3>2, <1>6, <1>c DEF UpsertContext, RefreshHoldsCommit
    <3>5. refresh' \in RefreshLocals /\ refresh'.pc = "event" BY <2>2, <1>d DEF RefreshPc
    <3>6. context' = [context EXCEPT ![RefreshRepo] = row] BY <2>2
    <3> HIDE DEF row
    <3> QED BY <3>1, <3>3, <3>4, <3>5, <3>6, <2>2, <1>a, <1>b, StoringStep
  <2> QED BY <1>6, <2>1, <2>2 DEF UpsertContext
<1>7. CASE RefreshedEvent
  <2>1. RefreshKeeps BY <1>7, <1>b DEF RefreshedEvent, Locals
  <2>2. CASE Locals(RefreshGoto("caught")) BY <2>1, <2>2, CaughtLocally
  <2>3. CASE Locals(IdleRefresh)
    <3>1. refresh' \in RefreshLocals /\ refresh'.pc = "idle" /\ jobs' \subseteq Job
      BY <2>3, <1>a, Rests DEF Locals, IdleRefresh
    <3> QED BY <3>1, <2>1, PausedStep
  <2> QED BY <1>7, <2>2, <2>3 DEF RefreshedEvent
<1>8. CASE RefreshCaught
  <2>1. refresh' \in RefreshLocals /\ refresh'.pc = "idle" BY <1>8, Rests DEF RefreshCaught, IdleRefresh
  <2>2. jobs' \subseteq Job BY <1>8, <1>a DEF RefreshCaught
  <2>3. CASE UNCHANGED context
    <3>1. RefreshKeeps BY <2>3, <1>b
    <3> QED BY <3>1, <2>1, <2>2, PausedStep
  <2>4. CASE context' = [context EXCEPT ![RefreshRepo].stale = TRUE]
    <3> DEFINE row == [context[RefreshRepo] EXCEPT !.stale = TRUE]
    <3>1. context[RefreshRepo] \in ContextRow BY <1>a DEF RefreshRepo
    <3>2. /\ row \in ContextRow /\ row.sha = context[RefreshRepo].sha
          /\ row.content = context[RefreshRepo].content /\ row.summary = context[RefreshRepo].summary
      BY <3>1 DEF ContextRow
    <3>3. row.sha <= heads[RefreshRepo] BY <3>2, <1>a, <1>c DEF ContextBehind, RefreshRepo
    <3>4. row.content \in {None, row.sha} /\ row.summary \in {None, row.content}
      BY <3>2, <1>a, <1>c DEF ContextIsOfItsCommit, RefreshRepo
    <3>5. context' = [context EXCEPT ![RefreshRepo] = row] BY <2>4
    <3> HIDE DEF row
    <3> QED BY <3>2, <3>3, <3>4, <3>5, <2>1, <2>2, <1>b, StoringStep
  <2> QED BY <1>8, <2>3, <2>4 DEF RefreshCaught
<1> QED BY <1>1, <1>2, <1>3, <1>4, <1>5, <1>6, <1>7, <1>8 DEF RefreshContext

-----------------------------------------------------------------------------
(* The steps of the ingest processor *)

(* Most of them leave what the processor holds of its sources alone.         *)
IngestPc ==
  {"context", "base", "plan", "planAgain", "fetch", "change", "changeAgain", "set", "patch", "event",
   "primary", "completed", "caught", "failed"}
HoldsTheSame ==
  {held \in IngestLocals :
     /\ held.pc # "branch" /\ held.sha = ingest.sha /\ held.files = ingest.files
     /\ held.contextSha = ingest.contextSha /\ held.guide = ingest.guide}
IngestKeeps == UNCHANGED <<heads, context, jobs, refresh, requests>>

LEMMA IngestGoes ==
  ASSUME IngestTyped
  PROVE  /\ \A pc \in IngestPc : IngestGoto(pc) \in HoldsTheSame /\ IngestGoto(pc).diff = ingest.diff
         /\ \A diff \in {"changes", "none"} : Finish(diff) \in HoldsTheSame
         /\ NoFallback \in HoldsTheSame
<1>1. \A pc \in IngestPc : IngestGoto(pc) \in HoldsTheSame /\ IngestGoto(pc).diff = ingest.diff
  BY CallTyped, ZenonT(40) DEF IngestTyped, IngestLocals, IngestGoto, IngestPc, HoldsTheSame
<1>2. IngestGoto("set") \in HoldsTheSame /\ IngestGoto("caught") \in HoldsTheSame BY <1>1 DEF IngestPc
<1>3. \A diff \in {"changes", "stub"} : [IngestGoto("set") EXCEPT !.diff = diff] \in HoldsTheSame
  BY <1>2 DEF HoldsTheSame, IngestLocals
<1>4. \A diff \in {"changes", "none"} : Finish(diff) \in HoldsTheSame BY <1>2, <1>3 DEF Finish
<1>5. NoFallback \in HoldsTheSame BY <1>2, <1>4 DEF NoFallback
<1> QED BY <1>1, <1>4, <1>5

LEMMA HoldingStep ==
  ASSUME TypeOK, SourcesInvariant, IngestKeeps, UNCHANGED sets, workflowBase' \in Nat, ingest' \in HoldsTheSame
  PROVE  TypeOK' /\ SourcesInvariant'
<1>1. TypeOK' BY DEF TypeOK, RefreshTyped, IngestTyped, CountersTyped, IngestKeeps, HoldsTheSame
<1>2. IngestHoldsSources' BY DEF SourcesInvariant, IngestHoldsSources, HoldsTheSame
<1>3. SetNamesItsSources' BY DEF SourcesInvariant, SetNamesItsSources
<1> QED BY <1>1, <1>2, <1>3 DEF SourcesInvariant

(* A job, or its next repository, begins with nothing in hand.               *)
LEMMA BeginningStep ==
  ASSUME TypeOK, SourcesInvariant, IngestKeeps, UNCHANGED sets, workflowBase' \in Nat,
         ingest' \in IngestLocals, ingest'.files = None, ingest'.guide = None
  PROVE  TypeOK' /\ SourcesInvariant'
<1>1. TypeOK' BY DEF TypeOK, RefreshTyped, IngestTyped, CountersTyped, IngestKeeps
<1>2. IngestHoldsSources' BY DEF IngestHoldsSources
<1>3. SetNamesItsSources' BY DEF SourcesInvariant, SetNamesItsSources
<1> QED BY <1>1, <1>2, <1>3 DEF SourcesInvariant

(* A row is written that names what it was made of.                          *)
LEMMA SetStep ==
  ASSUME TypeOK, SourcesInvariant, IngestKeeps, UNCHANGED workflowBase, ingest' \in HoldsTheSame,
         sets' \in Seq(SetRow), SetNamesItsSources'
  PROVE  TypeOK' /\ SourcesInvariant'
<1>1. TypeOK' BY DEF TypeOK, RefreshTyped, IngestTyped, CountersTyped, IngestKeeps, HoldsTheSame
<1>2. IngestHoldsSources' BY DEF SourcesInvariant, IngestHoldsSources, HoldsTheSame
<1> QED BY <1>1, <1>2 DEF SourcesInvariant

(* What is made of a reply by the passes.                                    *)
LEMMA PassesHold ==
  ASSUME IngestTyped, NEW call \in Call
  PROVE  /\ ingest.pc # "branch" => Asking(call) \in HoldsTheSame
         /\ AfterPlan(call) \in HoldsTheSame /\ AfterSecondPlan(call) \in HoldsTheSame
         /\ AfterChanges(call) \subseteq HoldsTheSame /\ AfterSecondChanges(call) \subseteq HoldsTheSame
<1>1. ingest.pc # "branch" => Asking(call) \in HoldsTheSame
  BY DEF IngestTyped, IngestLocals, HoldsTheSame, Asking
<1>2. /\ IngestGoto("fetch") \in HoldsTheSame /\ IngestGoto("planAgain") \in HoldsTheSame
      /\ IngestGoto("changeAgain") \in HoldsTheSame
  BY IngestGoes DEF IngestPc
<1>3. Finish("none") \in HoldsTheSame /\ Finish("changes") \in HoldsTheSame /\ NoFallback \in HoldsTheSame
  BY IngestGoes
<1>4. AfterPlan(call) \in HoldsTheSame /\ AfterSecondPlan(call) \in HoldsTheSame
  BY <1>2, <1>3 DEF AfterPlan, AfterSecondPlan
<1>5. AfterChanges(call) \subseteq HoldsTheSame /\ AfterSecondChanges(call) \subseteq HoldsTheSame
  BY <1>2, <1>3 DEF AfterChanges, AfterSecondChanges, Diffed
<1> QED BY <1>1, <1>4, <1>5

LEMMA Restarts ==
  ASSUME ingest \in IngestLocals
  PROVE  Restarted \in IngestLocals /\ Restarted.files = None /\ Restarted.guide = None
<1>1. ingest.left \in Nat /\ ingest.stalls \in Nat BY DEF IngestLocals
<1>2. Restarted \in IngestLocals BY <1>1, Rests DEF Restarted
<1> QED BY <1>2 DEF Restarted, NewIngest

LEMMA IngestStep ==
  ASSUME TypeOK, SourcesInvariant, ContextIsOfItsCommit, IngestContext
  PROVE  TypeOK' /\ SourcesInvariant'
<1>a. /\ ingest \in IngestLocals /\ sets \in Seq(SetRow) /\ heads \in [RepoSet -> Nat] /\ workflowBase \in Nat
      /\ context \in [RepoSet -> ContextRow] /\ IngestTyped
      /\ IngestRepo \in RepoSet
  BY RepoFacts DEF TypeOK, RefreshTyped, IngestTyped, CountersTyped, IngestLocals, IngestRepo
<1>b. IngestKeeps BY DEF IngestContext, IngestKeeps
<1>c. IngestHoldsSources /\ SetNamesItsSources BY DEF SourcesInvariant
<1>d. ASSUME NEW pc \in IngestPc, Becomes(IngestGoto(pc)) PROVE TypeOK' /\ SourcesInvariant'
  BY <1>d, <1>a, <1>b, IngestGoes, HoldingStep DEF Becomes
<1>e. Becomes(IngestGoto("caught")) => TypeOK' /\ SourcesInvariant' BY <1>d DEF IngestPc
<1>r. Restarted \in IngestLocals /\ Restarted.files = None /\ Restarted.guide = None BY <1>a, Restarts
<1>1. CASE TakeIngest
  <2>1. ingest' = [Restarted EXCEPT !.pc = "branch"] /\ UNCHANGED <<sets, workflowBase>>
    BY <1>1 DEF TakeIngest, Becomes
  <2>2. ingest' \in IngestLocals /\ ingest'.files = None /\ ingest'.guide = None
    BY <2>1, <1>r, SMTT(30) DEF IngestLocals
  <2> QED BY <2>1, <2>2, <1>a, <1>b, BeginningStep
<1>2. CASE IngestReadBranch
  <2>1. CASE Becomes([IngestGoto("context") EXCEPT !.sha = heads[IngestRepo]])
    <3>1. ingest' = [IngestGoto("context") EXCEPT !.sha = heads[IngestRepo]] /\ UNCHANGED <<sets, workflowBase>>
      BY <2>1 DEF Becomes
    <3>2. IngestGoto("context") \in HoldsTheSame BY <1>a, IngestGoes DEF IngestPc
    <3>3. ingest' \in IngestLocals BY <3>1, <3>2, <1>a DEF HoldsTheSame, IngestLocals
    <3>4. ingest'.files = None /\ ingest'.guide \in {None, ingest'.contextSha}
      BY <3>1, <3>2, <1>2, <1>c DEF HoldsTheSame, IngestLocals, IngestReadBranch, IngestHoldsSources
    <3>5. TypeOK' BY <3>1, <3>3, <1>b DEF TypeOK, RefreshTyped, IngestTyped, CountersTyped, IngestKeeps
    <3>6. SourcesInvariant' BY <3>1, <3>4, <1>c DEF SourcesInvariant, IngestHoldsSources, SetNamesItsSources
    <3> QED BY <3>5, <3>6
  <2> QED BY <1>2, <1>e, <2>1 DEF IngestReadBranch, OrCaught
<1>3. CASE IngestReadContext
  <2> DEFINE row == context[IngestRepo]
  <2>1. "base" \in IngestPc BY DEF IngestPc
  <2>2. CASE Becomes([IngestGoto("base") EXCEPT !.contextSha = row.sha, !.guide = row.summary])
    <3>1. /\ ingest' = [IngestGoto("base") EXCEPT !.contextSha = row.sha, !.guide = row.summary]
          /\ UNCHANGED <<sets, workflowBase>>
      BY <2>2 DEF Becomes
    <3>2. row \in ContextRow BY <1>a
    <3>3. row.summary \in {None, row.sha} BY <3>2, <1>a DEF ContextIsOfItsCommit
    <3>4. IngestGoto("base") \in HoldsTheSame BY <2>1, <1>a, IngestGoes
    <3> HIDE DEF row
    <3>5. /\ ingest' \in IngestLocals /\ ingest'.pc # "branch" /\ ingest'.files = ingest.files /\ ingest'.sha = ingest.sha
          /\ ingest'.contextSha = row.sha /\ ingest'.guide = row.summary
      BY <3>1, <3>2, <3>4 DEF HoldsTheSame, IngestLocals, ContextRow
    <3>6. IngestHoldsSources' BY <3>3, <3>5, <1>c DEF IngestHoldsSources
    <3>7. TypeOK' BY <3>1, <3>5, <1>b DEF TypeOK, RefreshTyped, IngestTyped, CountersTyped, IngestKeeps
    <3>8. SetNamesItsSources' BY <3>1, <1>c DEF SetNamesItsSources
    <3> QED BY <3>6, <3>7, <3>8 DEF SourcesInvariant
  <2>3. CASE Becomes(IngestGoto("base")) BY <2>1, <2>3, <1>d
  <2> QED BY <1>3, <2>2, <2>3 DEF IngestReadContext
<1>4. CASE IngestRecordBase
  <2>1. "plan" \in IngestPc BY DEF IngestPc
  <2> QED BY <2>1, <1>4, <1>d, <1>e DEF IngestRecordBase, OrCaught
<1>5. CASE PlanFiles \/ PlanFilesAgain \/ MakeChanges \/ MakeChangesAgain
  <2>1. ingest.pc # "branch" BY <1>5 DEF PlanFiles, PlanFilesAgain, MakeChanges, MakeChangesAgain
  <2>2. PICK call \in Answered(ingest.call) :
          \E next \in {Asking(call), AfterPlan(call), AfterSecondPlan(call)}
                        \cup AfterChanges(call) \cup AfterSecondChanges(call) : Becomes(next)
    BY <1>5 DEF PlanFiles, PlanFilesAgain, MakeChanges, MakeChangesAgain
  <2>3. call \in Call BY <1>a, CallTyped DEF IngestLocals
  <2>4. ingest' \in HoldsTheSame /\ UNCHANGED <<sets, workflowBase>>
    BY <2>1, <2>2, <2>3, <1>a, PassesHold DEF Becomes
  <2> QED BY <2>4, <1>a, <1>b, HoldingStep
<1>6. CASE FetchFiles
  <2>1. "change" \in IngestPc BY DEF IngestPc
  <2>2. CASE Becomes([IngestGoto("change") EXCEPT !.files = ingest.sha])
    <3>1. ingest' = [IngestGoto("change") EXCEPT !.files = ingest.sha] /\ UNCHANGED <<sets, workflowBase>>
      BY <2>2 DEF Becomes
    <3>2. IngestGoto("change") \in HoldsTheSame BY <2>1, <1>a, IngestGoes
    <3>3. /\ ingest' \in IngestLocals /\ ingest'.pc # "branch" /\ ingest'.files = ingest.sha /\ ingest'.sha = ingest.sha
          /\ ingest'.contextSha = ingest.contextSha /\ ingest'.guide = ingest.guide
      BY <3>1, <3>2, <1>a DEF HoldsTheSame, IngestLocals
    <3>4. IngestHoldsSources' BY <3>3, <1>c DEF IngestHoldsSources
    <3>5. TypeOK' BY <3>1, <3>3, <1>b DEF TypeOK, RefreshTyped, IngestTyped, CountersTyped, IngestKeeps
    <3>6. SetNamesItsSources' BY <3>1, <1>c DEF SetNamesItsSources
    <3> QED BY <3>4, <3>5, <3>6 DEF SourcesInvariant
  <2>3. CASE Becomes(IngestGoto("change")) BY <2>1, <2>3, <1>d
  <2> QED BY <1>6, <2>2, <2>3 DEF FetchFiles
<1>7. CASE CreatePatchSet
  <2>1. CASE /\ sets' = Append(sets, PatchSetRow(ingest.contextSha))
             /\ ingest' = IngestGoto("patch") /\ UNCHANGED workflowBase
    <3> DEFINE new == PatchSetRow(ingest.contextSha)
    <3>1. ingest' \in HoldsTheSame BY <2>1, <1>a, IngestGoes DEF IngestPc
    <3>2. new \in SetRow BY <1>a DEF PatchSetRow, SetRow, IngestLocals
    <3>3. new.files \in {None, new.baseSha} /\ new.guide \in {None, new.contextSha}
      BY <1>c DEF PatchSetRow, IngestHoldsSources
    <3> HIDE DEF new
    <3>4. sets' = Append(sets, new) BY <2>1 DEF new
    <3>5. sets' \in Seq(SetRow) BY <3>2, <3>4, <1>a
    <3>6. \A i \in DOMAIN sets' : (i \in DOMAIN sets /\ sets'[i] = sets[i]) \/ sets'[i] = new
      BY <3>2, <3>4, <1>a
    <3>7. SetNamesItsSources' BY <3>3, <3>6, <1>c DEF SetNamesItsSources
    <3> QED BY <2>1, <3>1, <3>5, <3>7, <1>b, SetStep
  <2> QED BY <1>7, <1>e, <2>1 DEF CreatePatchSet, OrCaught
<1>8. CASE CreatePatch
  <2>1. CASE sets' = [sets EXCEPT ![Len(sets)].patch = TRUE] /\ ingest' = IngestGoto("event") /\ UNCHANGED workflowBase
    <3> DEFINE new == [sets[Len(sets)] EXCEPT !.patch = TRUE]
    <3>1. ingest' \in HoldsTheSame BY <2>1, <1>a, IngestGoes DEF IngestPc
    <3>2. sets' = [sets EXCEPT ![Len(sets)] = new] BY <2>1
    <3>3. Len(sets) \in DOMAIN sets =>
            new \in SetRow /\ new.files \in {None, new.baseSha} /\ new.guide \in {None, new.contextSha}
      <4>1. SUFFICES ASSUME Len(sets) \in DOMAIN sets
            PROVE  new \in SetRow /\ new.files \in {None, new.baseSha} /\ new.guide \in {None, new.contextSha}
        OBVIOUS
      <4>2. sets[Len(sets)] \in SetRow BY <4>1, <1>a
      <4>3. /\ new \in SetRow /\ new.files = sets[Len(sets)].files /\ new.guide = sets[Len(sets)].guide
            /\ new.baseSha = sets[Len(sets)].baseSha /\ new.contextSha = sets[Len(sets)].contextSha
        BY <4>2 DEF SetRow
      <4> QED BY <4>1, <4>3, <1>c DEF SetNamesItsSources
    <3> HIDE DEF new
    <3>4. sets' \in Seq(SetRow)
      <4>1. sets \in [1..Len(sets) -> SetRow] /\ Len(sets) \in Nat BY <1>a
      <4>2. sets' \in [1..Len(sets) -> SetRow] BY <3>2, <3>3, <4>1
      <4> QED BY <4>1, <4>2
    <3>5. DOMAIN sets' = DOMAIN sets /\ \A i \in DOMAIN sets : sets'[i] = IF i = Len(sets) THEN new ELSE sets[i]
      BY <3>2, <1>a
    <3>6. SetNamesItsSources' BY <3>3, <3>5, <1>c DEF SetNamesItsSources
    <3> QED BY <2>1, <3>1, <3>4, <3>6, <1>b, SetStep
  <2> QED BY <1>8, <1>e, <2>1 DEF CreatePatch, OrCaught
<1>9. CASE RepoCompleted
  <2>1. "primary" \in IngestPc BY DEF IngestPc
  <2>2. ASSUME ingest.repo # Len(Repos), Becomes([Restarted EXCEPT !.pc = "branch", !.repo = ingest.repo + 1])
        PROVE  TypeOK' /\ SourcesInvariant'
    <3>1. /\ ingest' = [Restarted EXCEPT !.pc = "branch", !.repo = ingest.repo + 1]
          /\ UNCHANGED <<sets, workflowBase>>
      BY <2>2 DEF Becomes
    <3>2. ingest.repo + 1 \in 1..Len(Repos) BY <2>2, <1>a, GenerationAssumption, SMTT(30) DEF IngestLocals
    <3> DEFINE next == [Restarted EXCEPT !.pc = "branch"]
    <3>a. next \in IngestLocals /\ ingest' = [next EXCEPT !.repo = ingest.repo + 1]
      BY <3>1, <1>r, SMTT(30) DEF IngestLocals
    <3> HIDE DEF next
    <3>3. ingest' \in IngestLocals BY <3>a, <3>2, SMTT(30) DEF IngestLocals
    <3>4. ingest'.files = None /\ ingest'.guide = None BY <3>1, <1>r DEF IngestLocals
    <3> QED BY <3>1, <3>3, <3>4, <1>a, <1>b, BeginningStep
  <2> QED BY <2>1, <2>2, <1>9, <1>d, <1>e DEF RepoCompleted, OrCaught
<1>10. CASE IngestCompleted
  <2>1. CASE /\ workflowBase' = heads[Repos[1]]
             /\ ingest' = [Restarted EXCEPT !.pc = "completed"] /\ UNCHANGED sets
    <3>1. ingest' \in IngestLocals /\ ingest'.files = None /\ ingest'.guide = None
      BY <2>1, <1>r, SMTT(30) DEF IngestLocals
    <3>2. workflowBase' \in Nat BY <2>1, <1>a, FirstRepo
    <3> QED BY <2>1, <3>1, <3>2, <1>b, BeginningStep
  <2> QED BY <1>10, <1>e, <2>1 DEF IngestCompleted, OrCaught
<1>11. CASE IngestCaught
  <2>1. CASE ingest.left > 1 /\ Becomes(NewIngest(ingest.left - 1, ingest.stalls))
    <3>1. ingest' = NewIngest(ingest.left - 1, ingest.stalls) /\ UNCHANGED <<sets, workflowBase>> BY <2>1 DEF Becomes
    <3>2. ingest.left - 1 \in Nat /\ ingest.stalls \in Nat BY <2>1, <1>a DEF IngestLocals
    <3>3. ingest' \in IngestLocals BY <3>1, <3>2, Rests
    <3>4. ingest'.files = None /\ ingest'.guide = None BY <3>1 DEF NewIngest
    <3> QED BY <3>1, <3>3, <3>4, <1>a, <1>b, BeginningStep
  <2>2. "failed" \in IngestPc BY DEF IngestPc
  <2> QED BY <1>11, <2>1, <2>2, <1>d DEF IngestCaught
<1> QED BY <1>1, <1>2, <1>3, <1>4, <1>5, <1>6, <1>7, <1>8, <1>9, <1>10, <1>11 DEF IngestContext

-----------------------------------------------------------------------------
LEMMA GenerationInit == Init => GenerationInvariant
<1> SUFFICES ASSUME Init PROVE GenerationInvariant OBVIOUS
<1>1. /\ heads \in [RepoSet -> Nat] /\ context \in [RepoSet -> ContextRow]
      /\ \A r \in RepoSet : context[r] = NoRow /\ heads[r] = 1
  BY Rests DEF Init
<1>2. jobs \subseteq Job /\ refresh \in RefreshLocals /\ ingest \in IngestLocals
  BY Rests, GenerationAssumption DEF Init
<1>3. TypeOK BY <1>1, <1>2 DEF Init, TypeOK, RefreshTyped, IngestTyped, CountersTyped, None
<1>4. refresh.pc = "idle" /\ ingest.files = None /\ ingest.guide = None
  BY DEF Init, IdleRefresh, NewIngest
<1>5. ContextInvariant
  BY <1>1, <1>4 DEF ContextInvariant, ContextIsOfItsCommit, ContextBehind, RefreshBetween, Fetching,
                    RefreshHoldsCommit, NoRow, None
<1>6. SourcesInvariant BY <1>4 DEF Init, SourcesInvariant, SetNamesItsSources, IngestHoldsSources
<1> QED BY <1>3, <1>5, <1>6 DEF GenerationInvariant

(* One case per disjunct of Next.                                             *)
LEMMA GenerationStep == GenerationInvariant /\ [Next]_vars => GenerationInvariant'
<1> SUFFICES ASSUME GenerationInvariant, [Next]_vars PROVE GenerationInvariant' OBVIOUS
<1>a. TypeOK /\ ContextInvariant /\ SourcesInvariant BY DEF GenerationInvariant
<1>b. /\ refresh \in RefreshLocals /\ ingest \in IngestLocals /\ refresh.job \in Job /\ refresh.job.repo \in RepoSet
      /\ heads \in [RepoSet -> Nat] /\ jobs \subseteq Job /\ requests \in Nat /\ refresh.sha \in Nat
      /\ context \in [RepoSet -> ContextRow]
  BY <1>a DEF TypeOK, RefreshTyped, IngestTyped, CountersTyped, RefreshLocals, Job
<1>1. ASSUME NEW r \in RepoSet, Push(r) PROVE GenerationInvariant'
  <2>1. heads' \in [RepoSet -> Nat] /\ \A q \in RepoSet : heads'[q] >= heads[q] BY <1>1, <1>b DEF Push
  <2>2. TypeOK' BY <1>1, <1>a, <2>1 DEF Push, TypeOK, RefreshTyped, IngestTyped, CountersTyped
  <2>3. ContextBehind'
    <3>1. \A q \in RepoSet : context[q].sha \in Nat /\ heads[q] \in Nat /\ heads'[q] \in Nat
      BY <1>b, <2>1 DEF ContextRow
    <3> QED BY <1>1, <1>a, <2>1, <3>1 DEF Push, ContextInvariant, ContextBehind
  <2>4. RefreshBetween'
    <3>1. heads[refresh.job.repo] \in Nat /\ heads'[refresh.job.repo] \in Nat BY <1>b, <2>1
    <3> QED BY <1>1, <1>a, <1>b, <2>1, <3>1 DEF Push, ContextInvariant, RefreshBetween, Fetching
  <2>5. ContextIsOfItsCommit' /\ RefreshHoldsCommit'
    BY <1>1, <1>a DEF Push, ContextInvariant, ContextIsOfItsCommit, RefreshHoldsCommit
  <2>6. SourcesInvariant' BY <1>1, <1>a DEF Push, SourcesInvariant, SetNamesItsSources, IngestHoldsSources
  <2> QED BY <2>2, <2>3, <2>4, <2>5, <2>6 DEF GenerationInvariant, ContextInvariant
<1>2. ASSUME NEW r \in RepoSet, RequestRefresh(r) PROVE GenerationInvariant'
  <2>1. requests' \in Nat BY <1>2, <1>b DEF RequestRefresh
  <2>2. [id |-> requests', repo |-> r, stalls |-> 0, seen |-> heads[r]] \in Job
    BY <2>1, <1>b, GenerationAssumption DEF Job
  <2>3. jobs' \subseteq Job BY <1>2, <1>b, <2>2 DEF RequestRefresh
  <2>4. TypeOK' BY <1>2, <1>a, <2>1, <2>3 DEF RequestRefresh, TypeOK, RefreshTyped, IngestTyped, CountersTyped
  <2>5. ContextInvariant'
    BY <1>2, <1>a DEF RequestRefresh, ContextInvariant, ContextIsOfItsCommit, ContextBehind, RefreshBetween,
                      Fetching, RefreshHoldsCommit
  <2>6. SourcesInvariant' BY <1>2, <1>a DEF RequestRefresh, SourcesInvariant, SetNamesItsSources, IngestHoldsSources
  <2> QED BY <2>4, <2>5, <2>6 DEF GenerationInvariant
<1>3. CASE RefreshContext
  <2>1. TypeOK' /\ ContextInvariant' BY <1>3, <1>a, RefreshStep
  <2>2. SourcesInvariant' BY <1>3, <1>a DEF RefreshContext, SourcesInvariant, SetNamesItsSources, IngestHoldsSources
  <2> QED BY <2>1, <2>2 DEF GenerationInvariant
<1>4. CASE RefreshCrash
  <2>0. [refresh.job EXCEPT !.stalls = @ + 1] \in Job BY <1>b DEF Job
  <2>1. RefreshKeeps /\ jobs' \subseteq Job /\ refresh' = IdleRefresh
    BY <1>4, <1>b, <2>0 DEF RefreshCrash, RefreshKeeps
  <2>2. refresh' \in RefreshLocals /\ refresh'.pc = "idle" BY <2>1, Rests DEF IdleRefresh
  <2>3. TypeOK' /\ ContextInvariant' BY <2>1, <2>2, <1>a, PausedStep
  <2>4. SourcesInvariant' BY <2>1, <1>a DEF RefreshKeeps, SourcesInvariant, SetNamesItsSources, IngestHoldsSources
  <2> QED BY <2>3, <2>4 DEF GenerationInvariant
<1>5. CASE IngestContext
  <2>1. TypeOK' /\ SourcesInvariant' BY <1>5, <1>a, IngestStep DEF ContextInvariant
  <2>2. ContextInvariant'
    BY <1>5, <1>a DEF IngestContext, ContextInvariant, ContextIsOfItsCommit, ContextBehind, RefreshBetween,
                      Fetching, RefreshHoldsCommit
  <2> QED BY <2>1, <2>2 DEF GenerationInvariant
<1>6. CASE IngestCrash
  <2>1. IngestKeeps /\ UNCHANGED <<sets, workflowBase>> BY <1>6 DEF IngestCrash, IngestKeeps
  <2>2. workflowBase' \in Nat BY <2>1, <1>a DEF TypeOK, IngestTyped
  <2>3. TypeOK' /\ SourcesInvariant'
    <3>1. CASE ingest.stalls < MaxStalledCount
      <4>1. ingest' = NewIngest(ingest.left, ingest.stalls + 1) BY <1>6, <3>1 DEF IngestCrash
      <4>2. ingest.left \in Nat /\ ingest.stalls + 1 \in Nat BY <1>b DEF IngestLocals
      <4>3. ingest' \in IngestLocals BY <4>1, <4>2, Rests
      <4>4. ingest'.files = None /\ ingest'.guide = None BY <4>1 DEF NewIngest
      <4> QED BY <2>1, <2>2, <4>3, <4>4, <1>a, BeginningStep
    <3>2. CASE ~ ingest.stalls < MaxStalledCount
      <4>1. ingest' = IngestGoto("failed") BY <1>6, <3>2 DEF IngestCrash
      <4>2. "failed" \in IngestPc /\ IngestTyped BY <1>a DEF IngestPc, TypeOK
      <4>3. ingest' \in HoldsTheSame BY <4>1, <4>2, IngestGoes
      <4> QED BY <2>1, <2>2, <4>3, <1>a, HoldingStep
    <3> QED BY <3>1, <3>2
  <2>4. ContextInvariant'
    BY <2>1, <1>a DEF IngestKeeps, ContextInvariant, ContextIsOfItsCommit, ContextBehind, RefreshBetween,
                      Fetching, RefreshHoldsCommit
  <2> QED BY <2>3, <2>4 DEF GenerationInvariant
<1>7. CASE UNCHANGED vars
  <2>1. TypeOK' BY <1>7, <1>a DEF vars, TypeOK, RefreshTyped, IngestTyped, CountersTyped
  <2>2. ContextInvariant'
    BY <1>7, <1>a DEF vars, ContextInvariant, ContextIsOfItsCommit, ContextBehind, RefreshBetween,
                      Fetching, RefreshHoldsCommit
  <2>3. SourcesInvariant' BY <1>7, <1>a DEF vars, SourcesInvariant, SetNamesItsSources, IngestHoldsSources
  <2> QED BY <2>1, <2>2, <2>3 DEF GenerationInvariant
<1> QED BY <1>1, <1>2, <1>3, <1>4, <1>5, <1>6, <1>7 DEF Next

LEMMA GenerationInvariance == Spec => []GenerationInvariant
  BY GenerationInit, GenerationStep, PTL DEF Spec

(* What a stored context says of its repository is from the commit it names, *)
(* whatever is pushed, fails, crashes or is run again while it is made.      *)
THEOREM ContextsAreOfTheirCommits == Spec => []ContextIsOfItsCommit
<1>1. GenerationInvariant => ContextIsOfItsCommit BY DEF GenerationInvariant, ContextInvariant
<1> QED BY <1>1, GenerationInvariance, PTL

(* A patch set's files are those of its base commit and its guide is the     *)
(* context it names, however the two processors interleave.                  *)
THEOREM SetsNameTheirSources == Spec => []SetNamesItsSources
<1>1. GenerationInvariant => SetNamesItsSources BY DEF GenerationInvariant, SourcesInvariant
<1> QED BY <1>1, GenerationInvariance, PTL

(* No step stores a context older than the one it replaces, in whatever      *)
(* order requests, retries and redeliveries run.                             *)
THEOREM ContextsNeverGoBack == Spec => ContextNeverOlder
<1>1. ASSUME GenerationInvariant, [Next]_vars, NEW r \in RepoSet
      PROVE  context'[r].sha >= context[r].sha
  <2>a. context \in [RepoSet -> ContextRow] /\ refresh \in RefreshLocals /\ context[r].sha \in Nat
    BY <1>1 DEF GenerationInvariant, TypeOK, RefreshTyped, ContextRow
  <2>1. CASE UNCHANGED context BY <2>1, <2>a
  <2>2. CASE context' = [context EXCEPT ![RefreshRepo] = Upserted(@)] /\ refresh.pc = "upsert"
    <3>1. context'[r].sha = IF r = RefreshRepo THEN refresh.sha ELSE context[r].sha BY <2>2, <2>a DEF Upserted
    <3>2. r = RefreshRepo => context[r].sha <= refresh.sha
      BY <2>2, <1>1 DEF GenerationInvariant, ContextInvariant, RefreshBetween, Fetching, RefreshRepo
    <3>3. refresh.sha \in Nat BY <2>a DEF RefreshLocals
    <3> QED BY <3>1, <3>2, <3>3, <2>a
  <2>3. CASE context' = [context EXCEPT ![RefreshRepo].stale = TRUE]
    <3>1. context[r] \in ContextRow BY <2>a
    <3>2. context'[r].sha = context[r].sha BY <2>3, <2>a, <3>1 DEF ContextRow
    <3> QED BY <3>2, <2>a
  <2>4. UNCHANGED context \/ UpsertContext \/ RefreshCaught
    BY <1>1 DEF Next, vars, Push, RequestRefresh, RefreshContext, TakeRefresh, ReadBranch, ReadContextFile, ReadTree,
                WriteDocument, Summarize, RefreshedEvent, RefreshCrash, IngestContext, IngestCrash, Locals
  <2>5. UpsertContext => UNCHANGED context \/ (context' = [context EXCEPT ![RefreshRepo] = Upserted(@)] /\ refresh.pc = "upsert")
    BY DEF UpsertContext, Locals
  <2>6. RefreshCaught => UNCHANGED context \/ context' = [context EXCEPT ![RefreshRepo].stale = TRUE]
    BY DEF RefreshCaught
  <2> QED BY <2>1, <2>2, <2>3, <2>4, <2>5, <2>6
<1>2. GenerationInvariant /\ [Next]_vars => [\A r \in RepoSet : context'[r].sha >= context[r].sha]_vars
  BY <1>1
<1> QED BY <1>2, GenerationInvariance, PTL DEF Spec, ContextNeverOlder
===============================================================================
