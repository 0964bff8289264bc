--------------------------- MODULE EmbeddingBatches ---------------------------
(***************************************************************************)
(* OpenAIEmbeddingClient.embed_documents, from rag/embeddings.py: the      *)
(* texts are sent in batches, and the vectors put back in order.           *)
(*                                                                         *)
(* A text is its number of tokens, 0 for a blank one; the vector of text i *)
(* is i.  The service answers a batch with items [index, vector] in any    *)
(* order; a fault spoils one of its answers.                               *)
(***************************************************************************)
EXTENDS SequencesExt, StepFold

CONSTANTS
    InputTokens,    \* _EMBEDDING_MAX_INPUT_TOKENS
    BatchItems,     \* _EMBEDDING_MAX_BATCH_ITEMS
    BatchTokens     \* _EMBEDDING_MAX_BATCH_TOKENS

ASSUME BatchAssumption ==
    /\ InputTokens \in Nat \ {0} /\ BatchItems \in Nat \ {0}
    /\ BatchTokens \in Nat /\ InputTokens <= BatchTokens

\* _validate_inputs, and the length of a text in _batch_inputs.
ValidTexts(texts) ==
    texts # <<>> /\ \A i \in DOMAIN texts : texts[i] > 0 /\ texts[i] <= InputTokens

TokensOfBatch(texts, batch) == Total(0, [j \in DOMAIN batch |-> texts[batch[j]]])

\* Whether a text begins another batch.
Full(texts, batch, i) ==
    Len(batch) >= BatchItems \/ TokensOfBatch(texts, batch) + texts[i] > BatchTokens

\* A text comes to the last batch, or begins another.
Place(texts, i) ==
    [batches \in Seq(Seq(DOMAIN texts)) |->
        IF batches = <<>> \/ Full(texts, batches[Len(batches)], i)
        THEN Append(batches, <<i>>)
        ELSE [batches EXCEPT ![Len(batches)] = Append(@, i)]]

\* _batch_inputs, each batch as the numbers of its texts.
Batches(texts) == After([i \in DOMAIN texts |-> Place(texts, i)], <<>>, Len(texts))

\* The service: the vectors of a batch, forwards or backwards, and spoilt.
Answer(batch, backwards, fault) ==
    LET items == [j \in DOMAIN batch |-> [index |-> j - 1, vector |-> batch[j]]]
        sent == IF backwards THEN Reverse(items) ELSE items
    IN  CASE fault = "missing"    -> Tail(sent)
          [] fault = "doubled"    -> <<sent[Len(sent)]>> \o Tail(sent)
          [] fault = "range"      -> [sent EXCEPT ![1].index = Len(batch)]
          [] fault = "vector"     -> [sent EXCEPT ![1].vector = 0]
          [] OTHER                -> sent

\* _validate_response: one valid vector for each text.
ValidAnswer(answer, n) ==
    /\ Len(answer) = n
    /\ {answer[j].index : j \in DOMAIN answer} = 0..(n - 1)
    /\ \A j \in DOMAIN answer : answer[j].vector # 0

\* Mutant: the vectors are taken in the order in which they came.
AsSent(answer) == [j \in DOMAIN answer |-> [index |-> j - 1, vector |-> answer[j].vector]]

\* The order in which _validate_response returns the items.
ByIndex(answer) ==
    [j \in DOMAIN answer |-> answer[CHOOSE k \in DOMAIN answer : answer[k].index = j - 1]]

EmbeddingResults == [index : Nat, vector : Nat]

\* The results of a batch are numbered on.
Extend(batch, answer) ==
    [results \in Seq(EmbeddingResults) |->
        results \o [j \in DOMAIN batch |-> [index |-> Len(results) + ByIndex(answer)[j].index,
                                            vector |-> ByIndex(answer)[j].vector]]]

ValidAnswers(batches, answers) ==
    \A b \in DOMAIN batches : ValidAnswer(answers[b], Len(batches[b]))

\* embed_documents: the results, or none when a text or an answer is not valid.
Embedded(texts, answers) ==
    LET batches == Batches(texts)
    IN  IF ValidTexts(texts) /\ ValidAnswers(batches, answers)
        THEN After([b \in DOMAIN batches |-> Extend(batches[b], answers[b])], <<>>, Len(batches))
        ELSE <<>>

-----------------------------------------------------------------------------
\* An item that is numbered as one of the batch has the vector of its text, or
\* none that is valid.
Honest(batches, answers) ==
    \A b \in DOMAIN batches : \A k \in DOMAIN answers[b] :
        LET item == answers[b][k]
        IN  item.index < Len(batches[b]) => item.vector \in {0, batches[b][item.index + 1]}

\* Each text gets its own vector, in order, or none gets one; and no request
\* is larger than the service takes.
EmbedsInOrder(texts, answers) ==
    LET batches == Batches(texts)
    IN  ValidTexts(texts) =>
            /\ Honest(batches, answers) =>
                Embedded(texts, answers) =
                    IF ValidAnswers(batches, answers)
                    THEN [i \in DOMAIN texts |-> [index |-> i - 1, vector |-> i]] ELSE <<>>
            /\ \A b \in DOMAIN batches :
                Len(batches[b]) <= BatchItems /\ TokensOfBatch(texts, batches[b]) <= BatchTokens

\* The answers to all batches, of which fault f spoils that to batch f.at; two
\* items of the same number are none in a batch of one.
Answers(batches, backwards, f) ==
    [b \in DOMAIN batches |-> Answer(batches[b], backwards, IF b = f.at THEN f.kind ELSE "none")]

Spoilt(batches, f) ==
    f.at \in DOMAIN batches /\ f.kind # "none" /\ ~(f.kind = "doubled" /\ Len(batches[f.at]) = 1)
===============================================================================
