----------------------------- MODULE MCEvaluation -----------------------------
(***************************************************************************)
(* Two commands of one run, for one model or for two.                      *)
(***************************************************************************)
EXTENDS EvaluationRuns

CONSTANTS c1, c2

MCCommands == {c1, c2}
MCRunOf == [c \in MCCommands |-> "r1"]
MCFallback == [m \in {"flash", "pro"} |-> IF m = "flash" THEN "pro" ELSE "flash"]
MCModels == <<"flash", "pro">>
MCManual == {1}
MCBaselines == [c \in MCCommands |-> IF c = c1 THEN {1} ELSE {1, 2}]

\* A case about the workspace, and one that is not.
MCDataset ==
    LET case(id, prompt, group, expected, suggested) ==
            [id |-> id, prompt |-> prompt, group |-> group, expected |-> expected,
             suggested |-> suggested, manual |-> id = 1]
        expected(prompt, units, terms, codeTerms) ==
            LET spec == Specs[prompt]
            IN  [artifact |-> spec.artifact, fact |-> Fact(spec), lang |-> spec.lang,
                 sections |-> spec.sections, official |-> spec.official,
                 workspace |-> units # {}, units |-> units, terms |-> terms, anyTerms |-> {},
                 forbidden |-> {}, codeTerms |-> codeTerms, codeForbidden |-> {}]
    IN  [models |-> MCModels,
         cases |-> <<case(1, "sql_generation", "northwind",
                          expected("sql_generation", {"u"}, {"a"}, {"a"}), {"b"}),
                     case(2, "databricks_qa", "generic", expected("databricks_qa", {}, {}, {}), {})>>]

\* Bound: both cases or the first for one model; the first for either model.
MCSelections == [c \in MCCommands |-> IF c = c1 THEN {<<1>>, <<1, 2>>} ELSE {<<1>>}]
MCModelsFor == [c \in MCCommands |-> IF c = c1 THEN {"flash"} ELSE {"flash", "pro"}]

Sql(code, terms) ==
    [type |-> "fence", lang |-> "sql", header |-> "other", lines |-> {}, tokenized |-> TRUE,
     code |-> code, terms |-> terms]

Qa == <<[type |-> "h1", text |-> "t", style |-> "plain", terms |-> {}]>>
      \o [i \in DOMAIN AnswerSections |->
            [type |-> "h2", text |-> AnswerSections[i], style |-> "plain", terms |-> {}]]

Answer(wrapped, blocks, units, citations) ==
    [text |-> [wrapped |-> wrapped, blocks |-> blocks], units |-> units, citations |-> citations]

\* Bound: for the first case an answer that passes and one that has its term in
\* a comment only; for the second an answer that passes and one of another form.
MCAnswers ==
    <<{Answer(FALSE, <<Sql({"a"}, {"a", "b"})>>, {"u"}, {"official"}),
       Answer(TRUE, <<Sql({}, {"a", "b"})>>, {"u"}, {"official"})},
      {Answer(FALSE, Qa, {}, {}), Answer(FALSE, <<Sql({}, {})>>, {}, {})}>>
===============================================================================
