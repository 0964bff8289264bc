---------------------------- MODULE TemplateSources ----------------------------
(***************************************************************************)
(* What ExpertTemplateRegistry.load accepts as template sources, from      *)
(* expert_templates/registry.py, and what retrieval may then rely on.      *)
(*                                                                         *)
(* Sources are parsed profiles and templates, by their ids:                *)
(*   profile:  layers (a sequence), cloud, main (is_default), defaults (of *)
(*             each prompt that uses templates, a sequence of ids)         *)
(*   template: layer, profile, cloud, prompts, extends                     *)
(***************************************************************************)
EXTENDS SequencesExt, StepFold

CONSTANTS
    TemplateIds,    \* ids that templates may have
    Generic,        \* the profile "generic"
    Core,           \* the layer "core"
    Neutral,        \* the cloud "neutral"
    ExpertPrompts,  \* available prompts that use templates
    Unbound,        \* the profile of a core template
    NoParent,       \* what a template extends that extends none
    NoSource        \* what the context builder gets for an id without a template

ASSUME SourcesAssumption ==
    /\ IsFiniteSet(TemplateIds)
    /\ NoParent \notin TemplateIds
    /\ NoSource \notin [extends: TemplateIds \cup {NoParent}, core: BOOLEAN, size: {0}]

\* _validate_profiles.
ValidProfiles(profiles) ==
    /\ Generic \in DOMAIN profiles
    /\ {p \in DOMAIN profiles : profiles[p].main} = {Generic}
    /\ profiles[Generic].layers = <<Core>> /\ profiles[Generic].cloud = Neutral
    /\ \A p \in DOMAIN profiles :
        /\ profiles[p].layers[1] = Core
        /\ ToSet(profiles[p].layers) \subseteq {Core, p}
        /\ p # Generic => p \in ToSet(profiles[p].layers)
        /\ DOMAIN profiles[p].defaults = ExpertPrompts

\* _validate_template_ownership; a file lies where its layer says.
ValidOwnership(profiles, templates) ==
    \A t \in DOMAIN templates :
        IF templates[t].layer = Core THEN templates[t].profile = Unbound
        ELSE /\ templates[t].layer \in DOMAIN profiles
             /\ templates[t].profile = templates[t].layer
             /\ templates[t].cloud = profiles[templates[t].layer].cloud

\* Mutant: only a template that extends itself is found.
AcyclicShallow(templates) == \A t \in DOMAIN templates : templates[t].extends # t

\* One call of visit after another: the templates being visited, each extended
\* by the one before it; nothing for a cycle.
Climb(templates, visited) ==
    [visiting \in Seq(DOMAIN templates) |->
        LET parent == templates[Last(visiting)].extends
        IN  IF visiting = <<>> \/ parent = NoParent \/ parent \in visited THEN visiting
            ELSE IF parent \in ToSet(visiting) THEN <<>>
            ELSE Append(visiting, parent)]

\* visit, from a template that nothing is being visited for.
Visit(templates, t) ==
    [visited \in SUBSET DOMAIN templates |->
        IF t \in visited THEN visited
        ELSE visited \cup ToSet(After([n \in 1..Cardinality(DOMAIN templates) |-> Climb(templates, visited)], <<t>>,
                                      Cardinality(DOMAIN templates)))]

\* No visit has met a cycle: from a template above which there is one, it does.
Acyclic(templates) ==
    \E order \in SetToSeqs(DOMAIN templates) :
        After([n \in DOMAIN order |-> Visit(templates, order[n])], {}, Len(order)) = DOMAIN templates

\* _validate_inheritance.
ValidInheritance(templates) ==
    /\ \A t \in DOMAIN templates :
        LET parent == templates[t].extends
        IN  parent # NoParent => /\ parent \in DOMAIN templates
                                 /\ templates[parent].layer = Core
    /\ Acyclic(templates)

\* _validate_prompt_defaults.
ValidDefaults(profiles, templates) ==
    \A p \in DOMAIN profiles : \A prompt \in DOMAIN profiles[p].defaults :
        \A t \in ToSet(profiles[p].defaults[prompt]) :
            /\ t \in DOMAIN templates
            /\ prompt \in templates[t].prompts
            /\ templates[t].layer \in ToSet(profiles[p].layers)
            /\ templates[t].cloud \in {Neutral, profiles[p].cloud}

\* _validate_registry.
Accepted(profiles, templates) ==
    /\ ValidProfiles(profiles)
    /\ ValidOwnership(profiles, templates)
    /\ ValidInheritance(templates)
    /\ ValidDefaults(profiles, templates)

\* _candidate_conditions: the templates that a search may return.
Searched(profiles, templates, p, prompt) ==
    {t \in DOMAIN templates :
        /\ templates[t].layer \in ToSet(profiles[p].layers)
        /\ prompt \in templates[t].prompts
        /\ profiles[p].cloud # Neutral => templates[t].cloud \in {Neutral, profiles[p].cloud}}

-----------------------------------------------------------------------------
Context == INSTANCE TemplateContext WITH
    Ids <- TemplateIds, Missing <- NoSource, TopK <- 3, Budget <- 1

\* The templates as the context builder gets them, none too long.
AsDocuments(templates) ==
    [t \in TemplateIds |->
        IF t \in DOMAIN templates
        THEN [extends |-> templates[t].extends, core |-> templates[t].layer = Core, size |-> 0]
        ELSE NoSource]

\* Whatever sources are accepted: each template that a search may return, and
\* each default, has the chain of templates without which the context builder
\* drops it, inside the layers of the profile; the defaults are among what the
\* search may return; and no template of one profile is seen by another.
ServesEveryProfile(profiles, templates) ==
    Accepted(profiles, templates) =>
        \A p \in DOMAIN profiles : \A prompt \in ExpertPrompts :
            LET seen == Searched(profiles, templates, p, prompt)
            IN  /\ ToSet(profiles[p].defaults[prompt]) \subseteq seen
                /\ \A t \in seen :
                    LET chain == Context!DependencyChain(AsDocuments(templates), t)
                    IN  /\ chain # <<>>
                        /\ \A d \in ToSet(chain) : templates[d].profile \in {Unbound, p}
================================================================================
