---------------------------- MODULE ConsoleProofs ----------------------------
(***************************************************************************)
(* For every set of rows, every number of clicks and moves, and every       *)
(* number of polling chains: a page that watches a workflow keeps a chain   *)
(* alive, and what it offers on the current row is accepted.                *)
(***************************************************************************)
EXTENDS Console, TLAPS

Fetch == [at : {"off", "armed", "asked", "answered"}, answer : Row]
Chained == chain \in [Chains -> Fetch]
Rowed == row \in Row /\ (row = Deleted \/ Sound(row))

(* What both invariants need to know of the row and of the chains.           *)
ConsoleTypes == Chained /\ Rowed

LEMMA RowFacts ==
  /\ Blank \in Row /\ Deleted \in Row /\ Error \in Row
<1>1. Blank \in Row BY DEF Blank, Row
<1>2. Deleted \in Row BY <1>1 DEF Deleted, Blank, Row
<1>3. Error \in Row BY <1>1 DEF Error, Blank, Row
<1> QED BY <1>1, <1>2, <1>3

LEMMA FetchFacts ==
  /\ Off \in Fetch /\ Armed \in Fetch /\ Asked \in Fetch
  /\ Armed.at # "off" /\ Asked.at # "off"
  /\ \A f \in Fetch, a \in Row : Answer(f, a) \in Fetch /\ Answer(f, a).at # "off"
<1>1. Off \in Fetch BY RowFacts DEF Off, Fetch
<1>2. Armed \in Fetch /\ Armed.at # "off" BY <1>1 DEF Armed, Fetch
<1>3. Asked \in Fetch /\ Asked.at # "off" BY <1>1 DEF Asked, Fetch
<1>4. \A f \in Fetch, a \in Row : Answer(f, a) \in Fetch /\ Answer(f, a).at # "off" BY DEF Answer, Fetch
<1> QED BY <1>1, <1>2, <1>3, <1>4

-----------------------------------------------------------------------------
(* A render of a page with a chain alive, or with nothing to poll, leaves it *)
(* so: when the effect runs, it begins a chain if there is one to begin, and *)
(* when it does not run, whether to poll has not changed.                    *)
Alive(c) == \E n \in Chains : c[n].at # "off"

LEMMA ClearedTyped ==
  ASSUME NEW c \in [Chains -> Fetch], NEW t PROVE Cleared(c, t) \in [Chains -> Fetch]
  PROOF BY FetchFacts DEF Cleared

LEMMA BegunAlive ==
  ASSUME NEW c \in [Chains -> Fetch], Begun(c)
  PROVE  Chained' /\ Alive(chain')
<1> DEFINE n == CHOOSE k \in Chains : c[k].at = "off"
<1>1. chain' = [c EXCEPT ![n] = Armed] BY DEF Begun
<1>2. Chained' BY <1>1, FetchFacts DEF Chained
<1>3. CASE n \in Chains
  <2>1. chain'[n].at # "off" BY <1>1, <1>3, FetchFacts
  <2> QED BY <2>1, <1>3, <1>2 DEF Alive
<1>4. CASE n \notin Chains
  <2>1. chain' = c BY <1>1, <1>4
  <2>2. \A k \in Chains : c[k].at # "off" BY <1>4
  <2>3. 1 \in Chains BY ConsoleAssumption DEF Chains
  <2> QED BY <2>1, <2>2, <2>3, <1>2 DEF Alive
<1> QED BY <1>3, <1>4

LEMMA EffectKeepsAlive ==
  ASSUME NEW c \in [Chains -> Fetch], NEW t, NEW w, NEW err,
         PollingEffect(c, t, w, err),
         Polls(shown, failed) => Alive(c)
  PROVE  Chained' /\ (Polls(w, err) => Alive(chain'))
<1> DEFINE polled == Polls(shown, failed)
           c1 == IF polled THEN Cleared(c, t) ELSE c
<1>1. c1 \in [Chains -> Fetch] BY ClearedTyped
<1>2. CASE Dependencies(w, err) = Dependencies(shown, failed)
  <2>1. chain' = c BY <1>2, Zenon DEF PollingEffect
  <2>2. w.state = shown.state /\ err = failed BY <1>2 DEF Dependencies
  <2>3. Polls(w, err) => polled BY <2>2 DEF Polls
  <2> QED BY <2>1, <2>3 DEF Chained
<1>3. CASE Dependencies(w, err) # Dependencies(shown, failed) /\ Polls(w, err)
  <2>1. Begun(c1) BY <1>3, Zenon DEF PollingEffect
  <2> QED BY <2>1, <1>1, BegunAlive
<1>4. CASE Dependencies(w, err) # Dependencies(shown, failed) /\ ~ Polls(w, err)
  <2>1. chain' = c1 BY <1>4, Zenon DEF PollingEffect
  <2> QED BY <2>1, <1>1, <1>4 DEF Chained
<1> QED BY <1>2, <1>3, <1>4

LEMMA RenderKeepsAlive ==
  ASSUME NEW c \in [Chains -> Fetch], NEW t, NEW w, NEW l, NEW err, NEW up, NEW m,
         Renders(c, t, w, l, err, up, m), open' = open,
         open /\ Polls(shown, failed) => Alive(c)
  PROVE  Chained' /\ PollingGoesOn'
<1>1. CASE open
  <2>1. PollingEffect(c, t, w, err) /\ shown' = w /\ failed' = err BY <1>1 DEF Renders
  <2>2. Chained' /\ (Polls(w, err) => Alive(chain')) BY <2>1, <1>1, EffectKeepsAlive
  <2> QED BY <2>1, <2>2 DEF PollingGoesOn, Alive, Polls
<1>2. CASE ~ open
  <2>1. chain' = c BY <1>2 DEF Renders
  <2> QED BY <2>1, <1>2 DEF PollingGoesOn, Chained
<1> QED BY <1>1, <1>2

-----------------------------------------------------------------------------
(* What the API writes on an accepted request is a row it may serve.         *)

LEMMA WrittenSound ==
  ASSUME NEW w \in Row, Sound(w), NEW k, NEW s, Accepts(w, k, s)
  PROVE  Written(w, k) \in Row /\ (Written(w, k) = Deleted \/ Sound(Written(w, k)))
<1> USE DEF Sound
<1>1. CASE k = "approve"
  <2>1. w.stage \in ValidStages BY <1>1 DEF Accepts
  <2>2. CASE w.stage = "pr"
    <3>1. Written(w, k) = Stands(w, "DONE", "done", "approved") BY <1>1, <2>2 DEF Written
    <3> QED BY <3>1 DEF Stands, Row, WorkflowState, GatedStage, StageStatus
  <2>3. CASE w.stage # "pr"
    <3>1. Written(w, k) = Stands(w, w.state, NextStage[w.stage], "pending") BY <1>1, <2>3 DEF Written
    <3>2. NextStage[w.stage] \in ValidStages /\ NextStage[w.stage] # "done"
      BY <2>1, <2>3 DEF NextStage, ValidStages
    <3> QED BY <3>1, <3>2 DEF Stands, Row, GatedStage, StageStatus
  <2> QED BY <2>2, <2>3
<1>2. CASE k = "reject"
  <2>1. w.stage \in ValidStages /\ w.stage # "done" BY <1>2 DEF Accepts, ValidStages
  <2>2. Written(w, k) = Stands(w, "REJECTED", w.stage, "rejected") BY <1>2 DEF Written
  <2> QED BY <2>1, <2>2 DEF Stands, Row, WorkflowState, StageStatus
<1>3. CASE k = "changes"
  <2>1. w.stage \in ValidStages /\ w.stage # "done" BY <1>3 DEF Accepts, ValidStages
  <2>2. Written(w, k) = Stands(w, w.state, w.stage, "needs_changes") BY <1>3 DEF Written
  <2> QED BY <2>1, <2>2 DEF Stands, Row, StageStatus
<1>4. CASE k \in {"retry", "tabRetry"}
  <2>1. w.stage \in ValidStages /\ w.stage # "done" BY <1>4 DEF Accepts, ValidStages
  <2>2. Written(w, k) = Stands(w, w.state, w.stage, "pending") BY <1>4 DEF Written
  <2> QED BY <2>1, <2>2 DEF Stands, Row, StageStatus
<1>5. CASE k = "regenerate"
  <2>1. Written(w, k) = [Stands(w, w.state, "patches", "pending") EXCEPT !.proposed = FALSE] BY <1>5 DEF Written
  <2> QED BY <2>1 DEF Stands, Row, GatedStage, ValidStages, StageStatus
<1>6. CASE k = "cancel"
  <2>1. Written(w, k) = [w EXCEPT !.state = "CANCELLED"] BY <1>6 DEF Written
  <2> QED BY <2>1 DEF Row, WorkflowState
<1>7. CASE k = "delete"
  BY <1>7, RowFacts DEF Written
<1>8. CASE k \in {"approveSet", "rejectSet"}
  <2>1. Written(w, k) = [w EXCEPT !.proposed = FALSE] BY <1>8 DEF Written
  <2> QED BY <2>1 DEF Row
<1>9. CASE k \notin {"approve", "reject", "changes", "retry", "tabRetry", "regenerate", "cancel",
                     "delete", "approveSet", "rejectSet"}
  <2>1. Written(w, k) = w BY <1>9 DEF Written
  <2> QED BY <2>1
<1> QED BY <1>1, <1>2, <1>3, <1>4, <1>5, <1>6, <1>7, <1>8, <1>9

LEMMA DeletedIsRefused ==
  ASSUME NEW k, NEW s PROVE ~ Accepts(Deleted, k, s)
  PROOF BY DEF Accepts, Deleted, Blank, ValidStages, Cancellable

-----------------------------------------------------------------------------
(* The invariant of both theorems, and its preservation.                     *)
ConsoleInv == Chained /\ Rowed /\ PollingGoesOn

LEMMA InitInv == Init => ConsoleInv
<1> SUFFICES ASSUME Init PROVE ConsoleInv OBVIOUS
<1>1. Chained BY FetchFacts DEF Init, Chained
<1>2. Rowed BY ConsoleAssumption DEF Init, Rowed
<1>3. PollingGoesOn BY DEF Init, PollingGoesOn, Polls, Blank
<1> QED BY <1>1, <1>2, <1>3 DEF ConsoleInv

(* The steps that leave the chains to a render.                              *)
LEMMA RenderStep ==
  ASSUME ConsoleInv, NEW c \in [Chains -> Fetch], NEW t, NEW w, NEW l, NEW err, NEW up, NEW m,
         Renders(c, t, w, l, err, up, m), UNCHANGED <<row, open>>,
         c = chain \/ \E n \in Chains : c[n].at # "off"
  PROVE  ConsoleInv'
<1>1. open /\ Polls(shown, failed) => Alive(c) BY DEF ConsoleInv, PollingGoesOn, Alive
<1>2. Chained' /\ PollingGoesOn' BY <1>1, RenderKeepsAlive
<1> QED BY <1>2 DEF ConsoleInv, Rowed

LEMMA ChainInv == ASSUME ConsoleInv, NEW n \in Chains, ChainStep(n) PROVE ConsoleInv'
<1> USE DEF ConsoleInv, Chained
<1>1. CASE Fires(n)
  <2> DEFINE c == [chain EXCEPT ![n] = Asked]
  <2>1. c \in [Chains -> Fetch] /\ c[n].at # "off" BY FetchFacts
  <2> QED BY <1>1, <2>1, RenderStep DEF Fires
<1>2. ASSUME NEW a \in Row, chain' = [chain EXCEPT ![n] = Answer(@, a)], UNCHANGED <<row, shown, failed, open>>
      PROVE  ConsoleInv'
  <2>1. Chained' /\ chain'[n].at # "off" BY <1>2, FetchFacts
  <2> QED BY <1>2, <2>1 DEF PollingGoesOn, Polls, Rowed
<1>3. CASE PollAnswered(n) BY <1>2, <1>3 DEF PollAnswered, Rowed
<1>4. CASE PollTimesOut(n) BY <1>2, <1>4, RowFacts DEF PollTimesOut
<1>5. CASE Polled(n)
  <2> DEFINE c == [chain EXCEPT ![n] = Armed]
  <2>1. c \in [Chains -> Fetch] /\ c[n].at # "off" BY FetchFacts
  <2> QED BY <1>5, <2>1, RenderStep DEF Polled
<1> QED BY <1>1, <1>3, <1>4, <1>5 DEF ChainStep

LEMMA UnmountsInv ==
  ASSUME ConsoleInv, Unmounts, UNCHANGED row PROVE ConsoleInv'
<1>1. Chained' BY ClearedTyped DEF Unmounts, ConsoleInv, Chained
<1>2. PollingGoesOn' BY DEF Unmounts, PollingGoesOn
<1> QED BY <1>1, <1>2 DEF ConsoleInv, Rowed

LEMMA HookUnchanged ==
  ASSUME ConsoleInv, UNCHANGED <<hookVars, open>>, Rowed' PROVE ConsoleInv'
  PROOF BY DEF ConsoleInv, hookVars, Chained, PollingGoesOn, Polls

LEMMA HandInv == ASSUME ConsoleInv, NEW h \in Hands, HandStep(h) PROVE ConsoleInv'
<1>0. chain \in [Chains -> Fetch] /\ Rowed BY DEF ConsoleInv, Chained
<1>1. CASE Handled(h)
  <2>1. CASE Accepts(row, hand[h].kind, hand[h].stage)
    <3>1. Sound(row) BY <1>0, <2>1, DeletedIsRefused DEF Rowed
    <3>2. row' = Written(row, hand[h].kind) BY <1>1, <2>1 DEF Handled
    <3>3. Rowed' BY <1>0, <2>1, <3>1, <3>2, WrittenSound DEF Rowed
    <3> QED BY <1>1, <3>3, HookUnchanged DEF Handled
  <2>2. CASE ~ Accepts(row, hand[h].kind, hand[h].stage)
    <3>1. Rowed' BY <1>0, <1>1, <2>2 DEF Handled, Rowed
    <3> QED BY <1>1, <3>1, HookUnchanged DEF Handled
  <2> QED BY <2>1, <2>2
<1>2. CASE \/ ActionTimesOut(h) \/ ActionFailed(h) \/ LoadAnswered(h) \/ LoadTimesOut(h)
  <2>1. UNCHANGED <<row, hookVars, open>> BY <1>2 DEF ActionTimesOut, ActionFailed, LoadAnswered, LoadTimesOut
  <2> QED BY <2>1, <1>0, HookUnchanged DEF Rowed
<1>3. CASE Refetches(h)
  BY <1>0, <1>3, RenderStep DEF Refetches
<1>4. CASE Navigates(h)
  BY <1>0, <1>4, UnmountsInv, HookUnchanged DEF Navigates, Rowed
<1>5. CASE Loaded(h)
  BY <1>0, <1>5, RenderStep DEF Loaded
<1> QED BY <1>1, <1>2, <1>3, <1>4, <1>5 DEF HandStep

LEMMA PersonInv == ASSUME ConsoleInv, Person PROVE ConsoleInv'
<1>0. chain \in [Chains -> Fetch] /\ Rowed BY DEF ConsoleInv, Chained
<1>1. ASSUME NEW h \in Hands, Refresh(h) PROVE ConsoleInv'
  BY <1>0, <1>1, RenderStep DEF Refresh
<1>2. CASE \/ \E h \in Hands : Submit(h) \/ \E k \in Kinds : Click(h, k)
           \/ (\E k \in Kinds : OpenModal(k)) \/ CloseModal \/ LeaveTab
  <2>1. UNCHANGED <<row, hookVars, open>> BY <1>2 DEF Submit, Click, Send, OpenModal, CloseModal, LeaveTab
  <2> QED BY <2>1, <1>0, HookUnchanged DEF Rowed
<1>3. CASE Leave
  BY <1>3, UnmountsInv DEF Leave
<1> QED BY <1>1, <1>2, <1>3 DEF Person

LEMMA NextInv == ConsoleInv /\ [Next]_vars => ConsoleInv'
<1> SUFFICES ASSUME ConsoleInv, [Next]_vars PROVE ConsoleInv' OBVIOUS
<1>1. ASSUME NEW n \in Chains, ChainStep(n) PROVE ConsoleInv' BY <1>1, ChainInv
<1>2. ASSUME NEW h \in Hands, HandStep(h) PROVE ConsoleInv' BY <1>2, HandInv
<1>3. CASE Person BY <1>3, PersonInv
<1>4. CASE Elsewhere
  <2>1. Rowed' BY <1>4, ConsoleAssumption DEF Elsewhere, Rowed
  <2> QED BY <1>4, <2>1, HookUnchanged DEF Elsewhere
<1>5. CASE UNCHANGED vars
  BY <1>5, HookUnchanged DEF vars, ConsoleInv, Rowed
<1> QED BY <1>1, <1>2, <1>3, <1>4, <1>5 DEF Next

-----------------------------------------------------------------------------
(* The hook never loses its last polling chain while there is something to   *)
(* poll, for any number of overlapping refetches, failures and stale answers.*)
THEOREM PollingGoesOnHolds == Spec => []PollingGoesOn
<1>1. ConsoleInv => PollingGoesOn BY DEF ConsoleInv
<1> QED BY InitInv, NextInv, <1>1, PTL DEF Spec

LEMMA OffersAreAccepted ==
  ASSUME NEW w \in Row, Sound(w), NEW k \in Offered(w)
  PROVE  Accepts(w, k, w.stage) \/ (k = "retry" /\ w.status = "processing")
<1> USE DEF Accepts
<1>1. CASE k \in HeaderOffers(w)
  BY <1>1 DEF HeaderOffers, Sound, WorkflowState
<1>2. CASE k \in SetOffers(w)
  BY <1>2 DEF SetOffers, SetKinds
<1>3. CASE w.stage # "none" /\ k \in PipelineOffers(w)
  <2>1. w.stage \in ValidStages \/ w.stage = "done" BY <1>3 DEF Row, GatedStage
  <2> QED BY <2>1, <1>3 DEF PipelineOffers, Unsettled, Retryable, Sound
<1>4. CASE w.stage # "none" /\ k \in SandboxOffers(w)
  BY <1>4 DEF SandboxOffers, Unsettled, Retryable, ValidStages
<1> QED BY <1>1, <1>2, <1>3, <1>4 DEF Offered

(* Wherever requests and other people have brought the row: what the console *)
(* offers on it and what the service accepts agree.                          *)
THEOREM OfferedIsAcceptedHolds == Spec => []OfferedIsAccepted
<1>1. ConsoleInv => OfferedIsAccepted
  BY OffersAreAccepted DEF ConsoleInv, Rowed, OfferedIsAccepted
<1> QED BY InitInv, NextInv, <1>1, PTL DEF Spec
=============================================================================
