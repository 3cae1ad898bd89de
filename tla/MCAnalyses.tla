------------------------------ MODULE MCAnalyses ------------------------------
(* An instance of Analyses: a text for each way a reply is read.  The timelines *)
(* leave a task to no milestone, name one in two milestones, or are given in    *)
(* phases with a task that has no id.                                           *)
EXTENDS Analyses

Prose == NoText
Object == [NoText EXCEPT !.json = TRUE]
Good(verdict) == [Object EXCEPT !.complete = TRUE, !.verdict = verdict]
Plan(milestones) == [Good("") EXCEPT !.tasks = << <<1>>, <<2>> >>, !.milestones = milestones]

MCReplies ==
  [feasibility |-> {[Object EXCEPT !.verdict = "not_recommended"]},
   architecture |-> {Good("")},
   timeline |-> {Plan(<< << <<1>> >> >>), Plan(<< << <<1>> >>, << <<1>>, <<2>> >> >>),
                 [Object EXCEPT !.nested = TRUE, !.milestones = << << <<>>, <<3>> >> >>]},
   summary |-> {Good("proceed"), Object}]
===============================================================================
