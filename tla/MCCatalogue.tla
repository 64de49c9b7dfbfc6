---------------------------- MODULE MCCatalogue ----------------------------
(***************************************************************************)
(* Catalogue for TLC: one of everything but levels, two requests at once.  *)
(***************************************************************************)
EXTENDS Catalogue, FiniteSets, TLC

(* Requests and levels are told apart by nothing but equality, and no      *)
(* liveness is checked.                                                    *)
Symmetry == Permutations(Requests) \cup Permutations(Levels)

(* Bound: a variant, a track and a second level do not hang on each other, *)
(* so a behaviour has to do with the first or with the others: there is no *)
(* variant anywhere, or one level at a time and the track a draft.         *)
NoVariant ==
  /\ Stacks \cap published = {}
  /\ \A role \in Roles : offers[role].stacks = {}
  /\ \A q \in Questions : tags[q].stacks = {}
  /\ \A r \in Requests :
       /\ job[r].op \in {"relink", "retag"} => job[r].to.stacks = {}
       /\ job[r].op = "publish" => job[r].row \notin Stacks

NoTrack ==
  /\ Tracks \cap published = {}
  /\ Cardinality(Levels \cap published) <= 1
  /\ \A r \in Requests : job[r].op \in {"publish", "repair"} => job[r].row \notin Tracks

(* Bound: the rubric is out before anything else and until the end.  All   *)
(* that is ever asked of a rubric is that, before a question is published. *)
RubricIsOut == published = {} \/ Rubrics \subseteq published

Bound == (NoVariant \/ NoTrack) /\ RubricIsOut

(* A request that has asked about nothing but its own row may as well ask  *)
(* just before it writes: had the row been written since, it would fail.   *)
(* One that has to fail may as well do so at once.                         *)
AsksNothing(j) ==
  \/ j.op \in {"retag", "repair"}
  \/ j.op = "publish" /\ j.row \notin Questions \cup Roles

Refused(j) == j.op \notin {"none", "choose"} /\ j.late

Prompt == \A r \in Requests : AsksNothing(job[r]) \/ Refused(job[r]) => job'[r] = NoJob
=============================================================================
