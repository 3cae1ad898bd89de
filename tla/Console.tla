------------------------------- MODULE Console -------------------------------
(***************************************************************************)
(* The workflow page of the web console: the polling hook (use-workflow.ts),*)
(* the page's buttons, modals and handlers (WorkflowDetailPage.tsx) and the *)
(* requests they make (client.ts), against a workflow row that the page     *)
(* shares with the workers and with other people.  JavaScript runs one      *)
(* handler at a time, so a step is what runs between two awaits, with the   *)
(* render and the effects it causes.                                        *)
(***************************************************************************)
EXTENDS Transition

CONSTANTS
  Rows,        \* rows the workflow may be in when the page is opened
  Turns,       \* rows others may turn it into
  Kinds,       \* actions the person at the page takes
  MaxChains,   \* polling chains alive at once (the instances never need more)
  MaxHands,    \* clicks whose handlers have not returned
  MaxClicks, MaxMoves   \* bounds: requests made by hand, moves of the row by others

VARIABLES
  row,       \* the Workflow row, with what the page reads of its relations
  shown,     \* workflow: the last response the hook kept
  loading, failed,   \* isLoading, and error
  open,      \* the page is mounted
  chain,     \* polling chains: each arms its timer, asks, and arms again
  tracked,   \* the chain whose timer pollTimeoutRef names, 0: none
  hand,      \* the page's handlers that await an answer
  busy,      \* stageActionLoading, actionLoading, actionInProgress
  modal,     \* the modal that covers the page
  clicks, moves

hookVars == <<shown, loading, failed, chain, tracked>>
vars == <<row, hookVars, open, hand, busy, modal, clicks, moves>>

Chains == 1..MaxChains
Hands == 1..MaxHands

-----------------------------------------------------------------------------
(* Rows.  "undefined" is the state of the {} that fetchJson makes of the     *)
(* empty body the API answers with when there is no such workflow.           *)

Blank == [state |-> "none", stage |-> "none", status |-> "none",
          violations |-> FALSE, proposed |-> FALSE, aged |-> FALSE]
Deleted == [Blank EXCEPT !.state = "undefined"]
Error == [Blank EXCEPT !.state = "error"]   \* what a request that failed answers

TerminalStates == {"DONE", "FAILED", "NEEDS_HUMAN", "BLOCKED_POLICY"}
Cancellable == {"INGESTED", "PATCHES_PROPOSED", "WAITING_USER_APPROVAL",
                "APPLYING_PATCHES", "PR_OPEN", "VERIFYING_CI"}

StageKinds == {"approve", "reject", "changes", "retry", "tabRetry", "regenerate"}
SetKinds == {"approveSet", "rejectSet", "changeSet"}

Row == [state : WorkflowState \cup {"none", "undefined", "error"},
        stage : GatedStage \cup {"none"}, status : StageStatus \cup {"none"},
        violations : BOOLEAN, proposed : BOOLEAN, aged : BOOLEAN]
(* A row the API serves; approveStage, which alone writes "done", writes      *)
(* "approved" too.                                                            *)
Sound(w) == w.state \in WorkflowState /\ (w.stage = "done" => w.status = "approved")

ASSUME ConsoleAssumption ==
  /\ MaxChains \in Nat \ {0} /\ MaxHands \in Nat \ {0} /\ MaxClicks \in Nat /\ MaxMoves \in Nat
  /\ Rows \cup Turns \subseteq {w \in Row : Sound(w)}
  /\ Kinds \subseteq StageKinds \cup SetKinds \cup {"cancel", "delete"}

-----------------------------------------------------------------------------
(* What the page offers for the row it shows.                                *)

AtOnce == {"approve", "retry", "tabRetry", "approveSet"}   \* the others open a modal first

Flag(k) == CASE k \in StageKinds -> "stage"
             [] k \in SetKinds -> "set"
             [] OTHER -> "action"

Unsettled == {"ready", "needs_changes", "blocked"}

(* StagePipeline, and Retry Stage in the header.  A stage that has been      *)
(* processing for STUCK_THRESHOLD_MS is aged.                                *)
PipelineOffers(w) ==
  (IF w.stage = "done" \/ w.status # "ready" THEN {}
   ELSE {"reject", "changes"} \cup (IF w.stage = "policy" /\ w.violations THEN {} ELSE {"approve"}))
  \cup (IF w.status \in Unsettled \/ (w.stage # "done" /\ w.status = "processing" /\ w.aged)
        THEN {"retry"} ELSE {})

SandboxOffers(w) ==
  IF w.stage # "sandbox" THEN {}
  ELSE {k \in {"tabRetry", "regenerate"} :
          IF k = "tabRetry" THEN w.status \in Unsettled ELSE w.status = "blocked"}

SetOffers(w) == IF w.state = "WAITING_USER_APPROVAL" /\ w.proposed THEN SetKinds ELSE {}

HeaderOffers(w) == {"delete"} \cup (IF w.state \in Cancellable THEN {"cancel"} ELSE {})

Offered(w) ==
  HeaderOffers(w) \cup SetOffers(w)
    \cup (IF w.stage = "none" THEN {} ELSE PipelineOffers(w) \cup SandboxOffers(w))

(* A button whose flag is up is disabled.  The links of the sandbox tab and  *)
(* the header's two buttons, which open a modal, look at no flag.            *)
Enabled(k) == Flag(k) \notin busy \/ k \in {"tabRetry", "regenerate", "cancel", "delete"}

-----------------------------------------------------------------------------
(* What the API makes of a request, given the row and the stage it names.    *)

\* Mutant: a blocked stage waits for somebody to unblock it.
RetryableUnblocked == {"ready", "needs_changes", "approved"}
Retryable == {"ready", "needs_changes", "blocked", "approved"}

Accepts(w, k, s) ==
  CASE k = "approve" -> w.stage = s /\ s \in ValidStages /\ w.status = "ready" /\ ~ (s = "policy" /\ w.violations)
    [] k \in {"reject", "changes"} -> w.stage = s /\ s \in ValidStages
    [] k \in {"retry", "tabRetry"} -> w.stage = s /\ s \in ValidStages /\ w.status \in Retryable
    [] k = "regenerate" -> w.stage = "sandbox" /\ w.status = "blocked"
    [] k = "cancel" -> w.state \in Cancellable
    [] OTHER -> w.state # "undefined"

Stands(w, st, sg, ss) ==
  [w EXCEPT !.state = st, !.stage = sg, !.status = ss, !.aged = FALSE]

Written(w, k) ==
  CASE k = "approve" -> IF w.stage = "pr" THEN Stands(w, "DONE", "done", "approved")
                                          ELSE Stands(w, w.state, NextStage[w.stage], "pending")
    [] k = "reject" -> Stands(w, "REJECTED", w.stage, "rejected")
    [] k = "changes" -> Stands(w, w.state, w.stage, "needs_changes")
    [] k \in {"retry", "tabRetry"} -> Stands(w, w.state, w.stage, "pending")
    [] k = "regenerate" -> [Stands(w, w.state, "patches", "pending") EXCEPT !.proposed = FALSE]
    [] k = "cancel" -> [w EXCEPT !.state = "CANCELLED"]
    [] k = "delete" -> Deleted
    [] k \in {"approveSet", "rejectSet"} -> [w EXCEPT !.proposed = FALSE]
    [] OTHER -> w

-----------------------------------------------------------------------------
(* The hook.  A render runs the polling effect again when one of its         *)
(* dependencies changed: the cleanup clears the timer the ref names, if that *)
(* has not fired, and a chain begins unless the workflow is terminal, missing*)
(* or failed to load.                                                        *)

Off == [at |-> "off", answer |-> Blank]
Armed == [Off EXCEPT !.at = "armed"]
Asked == [Off EXCEPT !.at = "asked"]

Polls(w, err) == w.state \notin TerminalStates \cup {"none"} /\ ~ err
Dependencies(w, err) == <<w.state, err>>

Begun(c) ==
  LET n == CHOOSE k \in Chains : c[k].at = "off"
  IN chain' = [c EXCEPT ![n] = Armed] /\ tracked' = n

Cleared(c, t) == IF t # 0 /\ c[t].at = "armed" THEN [c EXCEPT ![t] = Off] ELSE c

\* Mutant: the effect sees isPolling of the render before, and begins nothing.
PollingEffectOnce(c, t, w, err) ==
  LET polled == Polls(shown, failed)
      c1 == IF polled THEN Cleared(c, t) ELSE c
  IN CASE Dependencies(w, err) = Dependencies(shown, failed) -> chain' = c /\ tracked' = t
       [] OTHER -> IF Polls(w, err) /\ ~ polled THEN Begun(c1)
                   ELSE chain' = c1 /\ tracked' = (IF polled THEN 0 ELSE t)

PollingEffect(c, t, w, err) ==
  LET polled == Polls(shown, failed)
      c1 == IF polled THEN Cleared(c, t) ELSE c
  IN CASE Dependencies(w, err) = Dependencies(shown, failed) -> chain' = c /\ tracked' = t
       [] OTHER -> IF Polls(w, err) THEN Begun(c1)
                   ELSE chain' = c1 /\ tracked' = (IF polled THEN 0 ELSE t)

(* State updates of a mounted page and the render they cause, with chains c  *)
(* and the ref at t; up are the flags that are up.  The spinner *)
(* and the error panel replace the page, and the tab's own state with it.    *)
Renders(c, t, w, l, err, up, m) ==
  IF open
  THEN /\ shown' = w /\ loading' = l /\ failed' = err
       /\ PollingEffect(c, t, w, err)
       /\ busy' = (IF l \/ err THEN up \ {"set"} ELSE up)
       /\ modal' = (IF (l \/ err) /\ Flag(m) = "set" THEN "none" ELSE m)
  ELSE /\ chain' = c /\ tracked' = t
       /\ UNCHANGED <<shown, loading, failed, busy, modal>>

(* A finished fetchWorkflow: setError is called before the request only.     *)
AnswerKept(answer) == IF answer = Error THEN shown ELSE answer
HasFailed(answer) == failed \/ answer = Error

(* fetchJson: what a request may be answered with.  It fails with the        *)
(* network, with an error status, or at its timeout, which runs until the    *)
(* headers arrive.                                                           *)
Answer(f, a) == [f EXCEPT !.at = "answered", !.answer = a]

-----------------------------------------------------------------------------
(* A polling chain                                                           *)

Fires(n) ==
  /\ chain[n].at = "armed"
  /\ Renders([chain EXCEPT ![n] = Asked], tracked, shown, loading, FALSE, busy, modal)
  /\ UNCHANGED <<row, open, hand, clicks, moves>>

PollAnswered(n) ==
  /\ chain[n].at = "asked"
  /\ chain' = [chain EXCEPT ![n] = Answer(@, row)]
  /\ UNCHANGED <<row, shown, loading, failed, open, tracked, hand, busy, modal, clicks, moves>>

PollTimesOut(n) ==
  /\ chain[n].at = "asked"
  /\ chain' = [chain EXCEPT ![n] = Answer(@, Error)]
  /\ UNCHANGED <<row, shown, loading, failed, open, tracked, hand, busy, modal, clicks, moves>>

\* Mutant: the chain arms again only when it brought a new state.
PolledOrStopped(n) ==
  /\ chain[n].at = "answered"
  /\ LET a == chain[n].answer
         c == [chain EXCEPT ![n] = IF a.state = shown.state THEN Off ELSE Armed]
     IN Renders(c, IF c[n] = Armed THEN n ELSE tracked, AnswerKept(a), FALSE, HasFailed(a), busy, modal)
  /\ UNCHANGED <<row, open, hand, clicks, moves>>

(* The continuation after the await arms the next timer before the render.   *)
Polled(n) ==
  /\ chain[n].at = "answered"
  /\ LET a == chain[n].answer
     IN Renders([chain EXCEPT ![n] = Armed], n, AnswerKept(a), FALSE, HasFailed(a), busy, modal)
  /\ UNCHANGED <<row, open, hand, clicks, moves>>

-----------------------------------------------------------------------------
(* What the person at the page does                                          *)

Resting == [kind |-> "load", stage |-> "none", at |-> "off", answer |-> Blank]

Rendered == open /\ ~ loading /\ ~ failed /\ shown # Blank
FreeHand(h) == hand[h].at = "off" /\ clicks < MaxClicks /\ clicks' = clicks + 1

(* A request names the stage the page shows when its button is clicked.      *)
Send(h, k) ==
  /\ FreeHand(h)
  /\ hand' = [hand EXCEPT ![h] = [Resting EXCEPT !.kind = k, !.stage = shown.stage, !.at = "sent"]]
  /\ busy' = busy \cup {Flag(k)}
  /\ UNCHANGED <<row, hookVars, open, modal, moves>>

Click(h, k) ==
  /\ Rendered /\ modal = "none" /\ k \in Offered(shown) \cap AtOnce /\ Enabled(k)
  /\ Send(h, k)

OpenModal(k) ==
  /\ Rendered /\ modal = "none" /\ k \in Offered(shown) \ AtOnce /\ Enabled(k)
  /\ modal' = k
  /\ UNCHANGED <<row, hookVars, open, hand, busy, clicks, moves>>

CloseModal ==
  /\ Rendered /\ modal # "none"
  /\ modal' = "none"
  /\ UNCHANGED <<row, hookVars, open, hand, busy, clicks, moves>>

(* The modal stays when the row it was opened for has moved on.              *)
Submit(h) ==
  /\ Rendered /\ modal # "none" /\ Flag(modal) \notin busy
  /\ modal \in StageKinds => shown.stage # "none"
  /\ Send(h, modal)

(* Refresh, and Try again on the error panel.                                *)
Refresh(h) ==
  /\ open /\ ~ loading /\ (failed \/ (Rendered /\ modal = "none"))
  /\ FreeHand(h)
  /\ hand' = [hand EXCEPT ![h] = [Resting EXCEPT !.at = "asked"]]
  /\ Renders(chain, tracked, shown, TRUE, FALSE, busy, modal)
  /\ UNCHANGED <<row, open, moves>>

(* Another tab of the page: the patch sets tab and its state are gone.       *)
LeaveTab ==
  /\ Rendered /\ modal = "none" /\ "set" \in busy
  /\ busy' = busy \ {"set"}
  /\ UNCHANGED <<row, hookVars, open, hand, modal, clicks, moves>>

(* The page is left: its state is dropped and both cleanups run.  A chain    *)
(* that awaits an answer, and a handler, do not notice.                      *)
Unmounts ==
  /\ open /\ open' = FALSE
  /\ chain' = Cleared(chain, tracked) /\ tracked' = 0
  /\ shown' = Blank /\ loading' = FALSE /\ failed' = FALSE /\ busy' = {} /\ modal' = "none"

Leave == Unmounts /\ UNCHANGED <<row, hand, clicks, moves>>

-----------------------------------------------------------------------------
(* Requests and handlers                                                     *)

(* The API handles an action; the reply may not arrive.  The console reads   *)
(* nothing of a reply: { ok: false } comes with a success status too.        *)
Handled(h) ==
  /\ hand[h].at = "sent"
  /\ row' = IF Accepts(row, hand[h].kind, hand[h].stage) THEN Written(row, hand[h].kind) ELSE row
  /\ \E a \in {Blank, Error} : hand' = [hand EXCEPT ![h] = [Answer(@, a) EXCEPT !.at = "replied"]]
  /\ UNCHANGED <<hookVars, open, busy, modal, clicks, moves>>

ActionTimesOut(h) ==
  /\ hand[h].at = "sent"
  /\ hand' = [hand EXCEPT ![h] = [Answer(@, Error) EXCEPT !.at = "replied"]]
  /\ UNCHANGED <<row, hookVars, open, busy, modal, clicks, moves>>

\* Mutant: a handler that failed returns without lowering its flag.
ActionFailedNoFinally(h) ==
  /\ hand[h].at = "replied" /\ hand[h].answer = Error
  /\ hand' = [hand EXCEPT ![h] = Resting]
  /\ UNCHANGED <<row, hookVars, open, busy, modal, clicks, moves>>

ActionFailed(h) ==
  /\ hand[h].at = "replied" /\ hand[h].answer = Error
  /\ hand' = [hand EXCEPT ![h] = Resting]
  /\ busy' = busy \ {Flag(hand[h].kind)}   \* the modal stays, with what was typed
  /\ UNCHANGED <<row, hookVars, open, modal, clicks, moves>>

Refetches(h) ==
  /\ hand[h].at = "replied" /\ hand[h].answer # Error /\ hand[h].kind # "delete"
  /\ hand' = [hand EXCEPT ![h].at = "asked"]
  /\ Renders(chain, tracked, shown, TRUE, FALSE, busy, IF modal = hand[h].kind THEN "none" ELSE modal)
  /\ UNCHANGED <<row, open, clicks, moves>>

(* navigate('/workflows')                                                    *)
Navigates(h) ==
  /\ hand[h].at = "replied" /\ hand[h].answer # Error /\ hand[h].kind = "delete"
  /\ hand' = [hand EXCEPT ![h] = Resting]
  /\ Unmounts \/ (~ open /\ UNCHANGED <<hookVars, open, busy, modal>>)
  /\ UNCHANGED <<row, clicks, moves>>

LoadAnswered(h) ==
  /\ hand[h].at = "asked"
  /\ hand' = [hand EXCEPT ![h] = Answer(@, row)]
  /\ UNCHANGED <<row, hookVars, open, busy, modal, clicks, moves>>

LoadTimesOut(h) ==
  /\ hand[h].at = "asked"
  /\ hand' = [hand EXCEPT ![h] = Answer(@, Error)]
  /\ UNCHANGED <<row, hookVars, open, busy, modal, clicks, moves>>

Loaded(h) ==
  /\ hand[h].at = "answered"
  /\ hand' = [hand EXCEPT ![h] = Resting]
  /\ LET a == hand[h].answer
     IN Renders(chain, tracked, AnswerKept(a), FALSE, HasFailed(a),
                IF hand[h].kind = "load" THEN busy ELSE busy \ {Flag(hand[h].kind)}, modal)
  /\ UNCHANGED <<row, open, clicks, moves>>

(* The workers, and other people.                                            *)
Elsewhere ==
  /\ moves < MaxMoves /\ row # Deleted
  /\ row' \in Turns \ {row}
  /\ moves' = moves + 1
  /\ UNCHANGED <<hookVars, open, hand, busy, modal, clicks>>

-----------------------------------------------------------------------------
Init ==
  /\ row \in Rows
  /\ shown = Blank /\ loading = TRUE /\ failed = FALSE /\ open = TRUE
  /\ chain = [n \in Chains |-> Off] /\ tracked = 0
  /\ hand = [h \in Hands |-> IF h = 1 THEN [Resting EXCEPT !.at = "asked"] ELSE Resting]
  /\ busy = {} /\ modal = "none" /\ clicks = 0 /\ moves = 0

ChainStep(n) == Fires(n) \/ PollAnswered(n) \/ PollTimesOut(n) \/ Polled(n)
HandStep(h) ==
  \/ Handled(h) \/ ActionTimesOut(h) \/ ActionFailed(h) \/ Refetches(h) \/ Navigates(h)
  \/ LoadAnswered(h) \/ LoadTimesOut(h) \/ Loaded(h)
Person ==
  \/ \E h \in Hands : Refresh(h) \/ Submit(h) \/ \E k \in Kinds : Click(h, k)
  \/ \E k \in Kinds : OpenModal(k)
  \/ CloseModal \/ LeaveTab \/ Leave

Next ==
  \/ \E n \in Chains : ChainStep(n)
  \/ \E h \in Hands : HandStep(h)
  \/ Person \/ Elsewhere

(* Timers fire and every request ends, if only by its timeout; so do the     *)
(* handlers that await them: a chain or handler is never where none of its   *)
(* disjuncts can move it.  Nobody has to click, and no answer has to come.   *)
Fairness ==
  /\ \A n \in Chains : WF_vars(Fires(n) \/ PollTimesOut(n) \/ Polled(n))
  /\ \A h \in Hands : WF_vars(ActionTimesOut(h) \/ ActionFailed(h) \/ Refetches(h) \/ Navigates(h)
                               \/ LoadTimesOut(h) \/ Loaded(h))

Spec == Init /\ [][Next]_vars /\ Fairness

-----------------------------------------------------------------------------
(* A page that shows a workflow that may still move, and no error, has a     *)
(* polling chain alive, however its refetches, its polls, their failures and *)
(* the effect's cleanups overlapped: the cleanup clears whatever timer the   *)
(* ref names by then, which need not be the one of the chain it set up.      *)
PollingGoesOn ==
  open /\ Polls(shown, failed) => \E n \in Chains : chain[n].at # "off"

(* On the row it shows, the page offers what the API accepts: the lists of   *)
(* states and statuses are written twice, in the console and in the service. *)
(* Left out are Retry on a stage that seems stuck, which the service refuses,*)
(* and the page of a workflow that is gone, which still offers to delete it. *)
OfferedIsAccepted ==
  open /\ shown = row /\ row # Deleted =>
    \A k \in Offered(shown) :
      Accepts(row, k, shown.stage) \/ (k = "retry" /\ shown.status = "processing")

(* A page that watches a workflow comes to show the row as it is, or it stops*)
(* watching: an error panel, a terminal state, or nobody there.              *)
Watching == open /\ Polls(shown, failed)
WatchedRowIsShown == Watching ~> (shown = row \/ ~ Watching)

(* The spinner goes and the disabled buttons come back, whatever became of   *)
(* the requests.                                                             *)
Waiting == open /\ (loading \/ busy # {})
WaitingEnds == Waiting ~> ~ Waiting
=============================================================================
