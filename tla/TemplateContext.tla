---------------------------- MODULE TemplateContext ----------------------------
(***************************************************************************)
(* Filling the token budget of a turn with expert templates, from          *)
(* expert_templates/context.py: ranked candidates are taken with the       *)
(* templates they extend as long as the whole text fits.                   *)
(*                                                                         *)
(* docs has for each id the template that was loaded for it, or Missing;   *)
(* a loaded template has the fields extends, core and size.  The tokens of *)
(* a text are the sum over its templates.                                  *)
(***************************************************************************)
EXTENDS SequencesExt, StepFold

CONSTANTS
    Ids,            \* ids of stored template versions
    NoParent,       \* what a version extends that extends none
    Missing,        \* what docs has for an id that was not loaded
    TopK,           \* EXPERT_TEMPLATE_TOP_K
    Budget          \* EXPERT_TEMPLATE_MAX_CONTEXT_TOKENS

\* The chain behind the version that its first one extends; empty when that one
\* was not loaded, is no core template or comes twice.
Extended(docs) ==
    [chain \in Seq(Ids) |->
        LET parent == docs[chain[1]].extends
        IN  IF chain = <<>> \/ parent = NoParent THEN chain
            ELSE IF docs[parent] = Missing \/ ~docs[parent].core \/ parent \in ToSet(chain) THEN <<>>
            ELSE <<parent>> \o chain]

\* The version k behind all that it extends, outermost first, or nothing.  No
\* chain has more versions than there are.
DependencyChain(docs, k) ==
    IF docs[k] = Missing THEN <<>>
    ELSE After([n \in 1..Cardinality(Ids) |-> Extended(docs)], <<k>>, Cardinality(Ids))

Tokens(docs, selected) ==
    After([n \in DOMAIN selected |-> [sum \in Nat |-> sum + docs[selected[n]].size]], 0,
          Len(selected))

\* A selection with the version k.
With(k) == [selected \in Seq(Ids) |-> IF k \in ToSet(selected) THEN selected ELSE Append(selected, k)]

\* A selection with the versions of a chain that it lacks.
Completed(selected) ==
    [chain \in Seq(Ids) |->
        After([n \in DOMAIN chain |-> With(chain[n])], selected, Len(chain))]

Taken == [selected: Seq(Ids), majors: Nat]

\* One candidate: skipped when it brings nothing new or would not fit.
Take(docs, k) ==
    [taken \in Taken |->
        LET proposed == Completed(taken.selected)[DependencyChain(docs, k)]
        IN  IF \/ taken.majors >= TopK
               \/ proposed = taken.selected
               \/ Tokens(docs, proposed) > Budget
            THEN taken
            ELSE [selected |-> proposed, majors |-> taken.majors + 1]]

\* build: the selected versions in their order, none when nothing fits.
Build(docs, ranked) ==
    After([n \in DOMAIN ranked |-> Take(docs, ranked[n])], [selected |-> <<>>, majors |-> 0],
          Len(ranked)).selected
================================================================================
