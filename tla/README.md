# Verification of databricks-zh-expert

TLA+ models of the parts of this service whose correctness depends on the order of steps: the offline sync
that builds the Databricks knowledge index, the sync of the expert templates, a chat turn with its model
fallback, and the end-to-end evaluation that judges such turns; what they share through PostgreSQL and files; the
algorithms between them that a test hardly covers; and machine-checked proofs. Paths without a prefix
are under `src/src/databricks_zh_expert/`.

Contents: 1 the system, 2 the modules, 3 correspondence with the code, 4 the runs, 5 fairness, 6 the proofs,
7 disagreements between code and documents, 8 limits, 9 the plan.

## 1. The system

One FastAPI process answers chat requests. Two command-line programs, started by hand, fill the tables it
reads: `rag/cli.py sync` (knowledge index) and `expert_templates/cli.py sync` (expert templates). All three
share one PostgreSQL database; nothing else is shared, and no lock keeps two of the programs apart. A third
command line, `evaluation/cli.py`, runs a chat service of its own and leaves files.

    web sites --fetch--> knowledge sync --transactions--> kb_documents, kb_chunks, kb_ingestion_runs --+
    git checkout ------> template sync  --transactions--> expert_templates, ..._chunks, ..._sync_runs --+--> retrievers
    client --HTTP--> chat turn --reads both indexes, calls models--> messages, model_calls, trace file <--+

### Components

| component | source | state it keeps | operations | what makes it correct |
|---|---|---|---|---|
| Knowledge index store | `rag/repository.py`, `db/models.py` | rows, chunks, runs | start and finish a run, reconcile identities, reconcile presence, publish, mark checked, status, candidate queries | rows and chunks agree; one row per page; a stored validator proves the stored content |
| Knowledge sync | `rag/ingestion.py`, `fetcher.py`, `catalogs.py`, `normalizer.py` | per run: found and ready sources, failures, the source in hand | discover, reconcile, conditional fetch, publish if changed, end | a source leaves retrieval only after two snapshots without it; what is not reported as failed is current; the index converges |
| Expert template store | `expert_templates/repository.py` | versions, their parents, their status; runs | active states, publish a snapshot, status | one active version of a template, extending active ones |
| Expert template sync | `expert_templates/sync.py`, `registry.py` | per run: the sources, the active versions read | compare, embed, publish, end | the set is replaced at once and only while the index is closed; versions never go back |
| Chat service | `chat/service.py`, `chat/repository.py` | messages, model calls, sessions | send a message; create, list, read sessions | an answer follows its question and is accounted for; a failed turn leaves a readable conversation |
| Model gateway | `llm/gateway.py`, `model_registry.py` | per turn: the attempts | run the candidates | each model once, only after retryable errors, each attempt recorded before the next |
| Model transport | `llm/litellm_client.py` | - | one request | maps provider errors to two classes |
| Model trace | `observability/model_trace.py` | a file and a lock | append a line | lines whole, never ahead of the stored call |
| Database session | `db/session.py` | the engine's pool | a session for each request | connections return to the pool |
| Knowledge retrieval | `rag/retrieval.py`, `rag/context.py`, `chat/context.py` | - | candidates, fusion, context | within the token budget; citations name the text that was used |
| Expert template retrieval | `expert_templates/retrieval.py`, `context.py` | - | candidates, fusion, parents, defaults | an overlay never without its parent |
| Hybrid search | `search/hybrid.py` | - | reciprocal rank fusion, lexical terms | each id scored once per list |
| Chunking, normalization | `search/markdown.py`, `rag/chunker.py`, `normalizer.py` | - | split, clean | no text lost, limits kept, anchors and paths are those of the section |
| Embedding client | `rag/embeddings.py` | - | batches | one vector for each text, in order |
| Manifest and URLs | `rag/manifest.py`, `rag/urls.py` | - | validation at start-up | |
| Workspaces | `workspace/*` | immutable after start-up | load, rank units, fit a budget | what is accepted is told apart by its hash and has facts; each kind of facts that is asked for, within the budget |
| Prompts, artifacts | `prompts/*`, `artifacts/*` | immutable | render, validate an answer | what is accepted has the form that was asked for |
| End-to-end evaluation | `evaluation/*` | results, trace, report of each run; comparisons | run cases one after another, score, report, compare | a passed gate is earned; what is told agrees with what is stored; results are written once |
| Retrieval evaluations | `rag/evaluation.py`, `expert_templates/evaluation.py`, `workspace/evaluation.py` | - | score retrieval | a gate opens just if the share is reached |
| API, command lines, configuration | `api/*`, `main.py`, `core/*`, `*/cli.py`, `devtools/*` | - | wiring | |

Interactions: the syncs and the turns meet only in the tables. A turn asks both stores for their status
(`get_index_status`), which depends on the latest run of the sync, and then reads rows the sync may replace.
Within a turn the gateway calls back into the service before each further model (`on_failure`), which stores
the failed call and writes its trace line.

### Behaviours that are hard

* Concurrency: two syncs of either kind overlap; turns of one session overlap, and compete for connections.
* Failure: every fetch, embedding, model call and transaction may fail, and each has its own handler.
* Crashes: runs are committed as `running` before the work; questions before the answer; calls before traces.
* Staleness: rows are read before a fetch or an embedding and used after it, in another transaction.
* Time: `created_at` is the begin of a transaction, so the order of messages is not the order of commits.
* Two programs over the same text: the parser that accepts an answer and the rules that score it; the outline of
  a page in HTML and in Markdown; the order of requests and answers.
* A changing world: pages change and come back, catalogs drop and list them, the checkout moves on.

`PROJECT.json` lists these as hazards, each at its line with the properties that would catch it.

## 2. The modules

| module | role |
|---|---|
| `DocumentLifecycle` | abstract: unknown, active, pending, disabled - when a source may leave retrieval and return |
| `KnowledgeIndex` | the tables and one operator for each operation of the repository |
| `KnowledgeIngestion` | EXTENDS it with the syncers and the web sites; `ImplementsLifecycle` |
| `SyncFreshness` | EXTENDS it with two history variables that say what the sites did during a run |
| `TemplateCatalog` | abstract: the active set is replaced at once, and only while nobody may use it |
| `TemplateSync` | template syncs, with the publishing transaction statement by statement; `ImplementsCatalog` |
| `TemplateContext` | operators: filling the budget of a turn with ranked templates and their parents |
| `TemplateRetrieval` | EXTENDS `TemplateSync` with requests that read while syncs publish, statement by statement |
| `ChatHistory` | EXTENDS `ChatTurn` with the turns that overlapped, to say what a turn without overlap is shown |
| `Conversation` | abstract: one question and at most one answer for each turn, nothing removed |
| `ChatTurn` | the turns of one session, the gateway, the pool and the trace; `ImplementsConversation` |
| `FetchLoop` | one fetch: redirects, retries, the response |
| `RankFusion` | operators: reciprocal rank fusion of two candidate lists |
| `KnowledgeContext` | operators: sources, citations and budget of a turn's official documents |
| `TemplateSources` | operators: what the template registry accepts, and what retrieval may rely on then |
| `WorkspaceSources` | operators: what the workspace registry accepts, and the hash of a package |
| `WorkspaceContext` | operators: the units of a workspace, their plan for a purpose and their budget |
| `MarkdownChunks` | operators: the outline and the anchors of a page, and the splitting of a section into chunks |
| `EmbeddingBatches` | operators: batches of texts, and the vectors that come back |
| `Artifacts` | operators: what each prompt asks for, the parser's verdict on an answer, and the rules that score it |
| `EvaluationRuns` | EXTENDS `Artifacts`: evaluation commands, their turns, trace, results, reports and comparisons |
| `RetrievalGates` | operators: what the retrieval evaluations count, and their gates |
| `Orders` | operators: sorting by a key that tells elements apart |
| `StepFold` | operators: a loop over data as steps that are functions, so that it can be proved about |
| `Algorithms` | EXTENDS the modules of fetches and algorithms: each input is examined in a step, each contract is an invariant |
| `KnowledgeProofs` | theorems about the knowledge sync, and about its history in `SyncFreshness` |
| `TemplateRetrievalProofs` | theorems about template syncs, and about requests beside them |
| `TemplateContextProofs` | lemmas: the selection of templates, for the requests and for the sources of any registry |
| `ChatTurnProofs`, `EvaluationProofs` | theorems about turns with `ChatHistory`, and about evaluation commands |
| `ContextProofs` | lemmas and a theorem about contexts: both budgets, the sources and the pages of chunks, the plan of a workspace, its packages |
| `AlgorithmProofs` | theorems about `Algorithms`, on the lemmas of `ContextProofs` and its own: fetches, gates, batches, artifacts, the outline and the chunks of a page, the fusion of rankings, template sources |
| `Iterations` | lemmas: induction over the natural numbers, for sets and for `StepFold`; counting, and sorting |
| `MCKnowledgeIngestion`, `MCSyncFreshness`, `MCTemplateSync`, `MCTemplateRetrieval`, `MCChatTurn`, `MCAlgorithms`, `MCEvaluation` | the instances that TLC checks |

Definitions whose comment begins with "Mutant" are plausible bugs of the definition that follows them. No
specification uses them; each shows, put in the place of the right one, that some property notices.

## 3. Correspondence with the code

`PROJECT.json` maps every definition to its lines. The choices behind them:

**Knowledge index and sync.** A source is a (catalog, URL) pair and stands for the key that is derived from
it; a legacy key is one an older release wrote. `docs[k]` is the row of a key (or `NoRow`), `chunks[k]` its
chunks, and only the latest run is kept, because only it is ever read. Every repository operation runs in a
session of its own over rows it locks, so it is one step. A syncer's `stage` is the await it stands at:
`running` (between the loops' bodies), `identified` (identities migrated, presence not yet), `fetching`,
`storing`. `run` is what `sync` keeps in its local variables, `task` what `_sync_source` does: the row it read
before the fetch (`seen`) and the answer (`got`). A version of a page is also its validator (ETag and
Last-Modified together); several versions may have the same normalized content (`BodyOf`), which is what
makes the comparison of hashes and that of validators differ. `FetchPage` may come without a validator. Any
exception on the way is `SourceFails`, `ReconcileFails` or `DiscoverCatalogFails`; a dying process is `Crash`.
`ChangePage` and `ChangeListing` are the web sites.

**Template sync.** A key is a (template, version) pair; a row has a content (metadata and text, what is
hashed), a status and the key it extends. `Registry` gives the entry of each template in each checkout; what
`ExpertTemplateRegistry.load` refuses is assumed away. `publish_snapshot` is five steps: the locking SELECT
begins (`SelectActive`), returns (`LockActive`), `_existing_versions` (`ReadExisting`), and the writes with
the commit (`CommitPublish`) or the refusal (`RefuseSnapshot`). At READ COMMITTED a locking read that had to
wait drops rows that no longer match and does not see new ones, hence `matched` and `locked`. The ORM does
not write a value back that the row was read with: `Written`. The two unique indexes are `InsertsAreNew` and
`OneActivePerTemplate`.

**Template retrieval.** `request[r].at` names the last statement that a request has run: the three readings of
`get_index_status` (`run`, `ids`, `ready`), the two searches (`vectors`, `ranked`), the documents of the
candidates (`parents`), the loop over the parents (`documents`), and in the fallback the defaults. Each search may
find any set of active versions, and their order is any order, so that no property leans on a similarity.
`witnessed` collects, for the properties only, the active sets that were there during the request.
`TemplateContext!Build` is the selection itself; tokens are additive there. Its three loops (up the chain of parents,
over the versions of a chain, over the candidates) are steps of `StepFold`.

**Fetching.** `FetchLoop` has one step for each turn of the loop of `_request`, and one for the reading of the
response. Whether a redirect leads to an official address is a free choice. The delays have no counterpart.

**Algorithms.** What each owes to its callers is stated in terms of the inputs and not of the algorithm
(`RespectsRankings`, `CitesRuns`, `LeavesNothingOut`, `ServesEveryProfile`, `PlansEveryUnit`, `HashTellsContent`,
`FollowsOutline`, `LosesNothing`, `EmbedsInOrder`, `AcceptedKeepsForm`, `ExactGates`).
* Fusion and selection: scores are fractions; a chunk is its id, its place on a page and its size, and its `heading` stands
  for the anchor and the headings that it is cited under; sources of templates are what the YAML and the front matter
  were parsed to.
* Workspaces: a file is its headings or statements with their sizes, a path its parts, a score a number. Lexical
  scoring itself is a free choice of scores, so that a plan is examined under every one. What the code keeps in a
  list only to sort it is a set here, and a sort key an order of pairs (`ByScore`, `ByFallback`, `ById`, `ByPath`), since
  the keys tell elements apart; a source is known by the place of the manifest that names it (`Places`, `SourceAt`).
  A statement is its text without comments: `StatementType` is what `sqlparse` calls it, `CopyFromStdin` and
  `ValuesStatement` what the two patterns match, and only what these recognize as a write is refused (`Recognized`).
* Markdown: a page is its headings with the blocks under each, and its sections go by the number of their heading,
  with 0 for the text before the first; an anchor an identity with the place it was found at; a text is a sequence of
  tokens, each of which says which character it belongs to, so that a window can cut a character of several tokens;
  wrapping a fence costs tokens of its own.
* Embeddings: an answer is a sequence of places and vectors, in any order, with one fault.
* Artifacts: a text is a sequence of blocks (headings, fences, HTML, text); a block has the terms that the rules
  look for, and a fence those of its code without comments. The parser and the rules read the same blocks by the
  code of each. Python that does not tokenize (`tokenized`) is scored with its comments, as `_code_without_comments` does.
  Soft scores are in ten-thousandths, rounded as the code rounds, a tie up.
* Gates: shares are counted in ten-thousandths, and a tie of the rounding may go either way.

**Evaluation.** A command is a process with a chat service in it; its `phase` is where it stands: `running`
(between cases), `calling`, `tracing`, `appending` (half a trace line written), `responded`, `reporting`, and the ends
`done`, `aborted`, `killed`. A turn is what the runner sees of it: the calls stored (`calls`), the lines traced, the
response. `trace[d]` is the file of a directory as halves of lines, because the write of a line may reach the file
in parts and another process may write between them; `IsLine` is what can be parsed, and `TraceIds` what `_trace_ids`
returns. `WholeLine`, for the property, says what is in the file without regard to how it is read. `calls` are kept for
each case, since each case has a session of its own. `stored` and `report` are replaced whole (`_write_text_atomic`),
one after the other. `overlapped` is a history variable.

**Chat turn.** `phase` is where a turn stands in `send_message`: `opened` (session read), `asked` (question
committed), `loaded` (history read), `checked`, `embedded`, `calling` (before a model), `attempted` (it has
answered or failed), `recorded` (call committed), `tracing`, `answering`, `replied`, and the ends. Each phase
lies between two awaits. `conns` are the turns whose session has a transaction open and so holds a pooled
connection: `create_message` and `create_model_call` commit and then refresh, and the refresh opens the next
transaction. `stamp[t]` is the begin of the turn's transaction, which PostgreSQL's `now()` puts into every
row it stores. `Results` folds the fifteen provider errors into what `classify_model_error` tells the run.
`PoolTimeout` is the pool giving up; `Crash` ends all turns. Statements of the retrievers, which borrow
connections of their own, need a free one (`CheckIndexes`, `Retrieve`).

## 4. The runs

| run | instance | shows |
|---|---|---|
| `ConcurrentSyncs` | 2 syncers, 1 page, 1 legacy key, 2 versions with different contents | `ChunksDescribeBody`, `OneRowPerIdentity`, `ImplementsLifecycle` |
| `SyncFreshness` | 1 syncer, 1 page, 1 legacy key, 3 versions of 2 contents, fairness | `EtagDescribesBody`, `ReportedSourcesAreUpToDate`, `IndexConverges`, `RemovedSourceLeaves` |
| `SyncTwoCatalogs` | 1 syncer, a page and a link in 2 catalogs, 2 versions of the link | `AbsenceWasObserved`, `UsefulRunLeavesIndexQueryable` |
| `OneFailure` | 1 syncer, 1 page | violation, see 7 |
| `TemplateOneSync` | 1 syncer, 2 templates, 2 versions, 6 checkouts, fairness | `ActiveParentsAreActive`, `ImplementsCatalog`, `VersionsNeverGoBack`, `IndexOpens` |
| `TemplateTwoSyncs` | 2 syncers (symmetric), 3 checkouts | violation, see 7 |
| `TemplateFailedRun` | 1 syncer, 2 checkouts | violation, see 7 |
| `TemplateReading` | 1 syncer, 1 request, 2 templates, 3 checkouts, fairness | `StatusWasTrue`, `ContextWasOneCatalog`, `UndisturbedIsAnswered`, `RequestsEnd` |
| `ChatConcurrent` | 2 turns, 2 models, 1 fallback, a pool of 2, fairness | `TypeOK`, `AnswersAreAudited`, `NoUnrecordedRetry`, `AnswersFollowQuestions`, `HistoryIsThePast`, `ImplementsConversation`, `TurnsEnd` |
| `ChatConnections` | 2 turns, 1 model, a pool of 2 | violation, see 7 |
| `Evaluation` | 2 commands in one run, 2 models, 2 cases, 2 baselines, at most 2 faults | `GateIsEarned`, `ReportsAgree`, `ResultsAreKept` |
| `Algorithms` | see below | one property for each algorithm |

Why these bounds are enough to be of interest:

* *Versions.* Three versions of two contents are the least with a page that changes and comes back under
  another validator, the case in which a validator and a hash disagree. One page is enough for the rows, since
  no operation relates rows of different identities; a second key of the same identity is what the legacy key
  is for. Catalogs only meet in the order of the loops, so two show that one's failure is not the other's.
* *Two syncers* are the least that overlap; a third meets only what two may leave behind. Their runs repeat
  without limit: no counter grows, and the state spaces are complete, not cut off.
* *Checkouts.* The six cover each way two checkouts may differ: an upgrade, a text changed in place (which is
  refused), a template removed, nothing but the profiles, a parent dropped by an upgrade, and back. For two syncs
  three are enough to disagree about an overlay while one of them replaces its parent. What two syncs keep
  (`OneActiveVersion`, `VersionsKeepTheirText`) is proved for any number of them instead.
* *Turns.* Two turns that need a second connection each, with two in the pool, are the least that wait for each
  other; one turn asks for the model the fallbacks begin with and one does not, the two cases of the candidate
  list. The clock is bounded by the transactions that two turns can begin. With a limit of two the second turn sees
  one message of the two of the first: the oldest has fallen out of the history.
* *Two catalogs.* `PageKeepsContent` lets only the link of `SyncTwoCatalogs` change; the content of pages is the
  question of `SyncFreshness`, and here the page only has to come and go and to fail.
* *A request beside a sync.* Requests do not write, so one is enough. The three checkouts have an upgraded parent
  and an overlay that gives its parent up: the publications that may separate a candidate from its parent between
  two reads. The budget of three tokens holds an overlay with its old parent or its new one and nothing besides.
* *Evaluation.* Two commands of one run are the least that race for a directory or that can be compared; two cases,
  one about the workspace and one not, have every kind of rule; the first may be answered with its term in a comment
  only, the second in a wrong form. Two faults are a failed call and the failure of what was to mend it.
* Deadlock is checked in every run but `Algorithms` and `Evaluation`, whose behaviours end: a fetch with its outcome,
  an algorithm with its result, a command with its exit code. `Quiet` lets a session rest when each client has its
  response; without it, turns that wait for each other for good would not be told from an end.

What `Algorithms` examines, one input in a behaviour:

| inputs | property |
|---|---|
| a fetch under the limits of the fetcher, whatever the servers answer | `RequestsBounded` |
| two lists of up to 3 ids, with repetitions: every way in which two ids can be ahead of each other | `FusionRespectsRankings` |
| 5 chunks in every order of every choice: neighbours, a gap that another heading makes, a return to the first heading, a second page; some fit and some do not after others; and every 3 of these with an earlier version of one | `SourcesAreRuns`, `BudgetIsUsed` |
| 2 templates of every layer, profile, cloud, prompt and parent, 2 profiles | `AcceptedSourcesServe` |
| a workspace of rules, statements and a quality section, with every score of six units out of none, below the ratio and best; 2 purposes | `FactsAreBalanced` |
| pairs of packages of 1 or 2 schemas over 3 files, two of which differ in case only; 6 contents, one of which writes and is not recognized | `AcceptedPackagesHaveFacts` |
| pages of up to 4 headings of ten shapes: anchors of two kinds, none, in a table, no text, no body, a level that is not counted | `SectionsAreLocated` |
| sections of up to 3 blocks of six shapes: short, long, characters of two and three tokens, fences | `ChunksLoseNothing` |
| up to 4 texts, answered forwards or backwards, with a vector missing, doubled, out of range or malformed | `VectorsKeepTheirText` |
| the prompts with, for code, every text of up to 3 blocks of eight, with terms in the code or in comments only and Python that does not tokenize, and for documents the one asked for and nine that deviate | `ArtifactsKeepForm` |
| data sets of 1 to 12, 30 and 44 cases with any number of hits | `GatesRoundExactly` |

Reading the properties: `HistoryIsThePast` is about turns that no other turn of the session overlapped.
`UsefulRunLeavesIndexQueryable`, `ReportedSourcesAreUpToDate`, `EtagDescribesBody` and `ImplementsCatalog` are about one
sync at a time: two that overlap may leave a validator beside the content of another version, or the older of two
checkouts active; see 8. `ReportsAgree` and `ResultsAreKept` except directories in which two commands have run at a
time, which the check of an empty directory does not prevent. `ChunksLoseNothing` is about sections that
can be split at all (`Expandable`; the code raises otherwise): no chunk is larger than the limit or repeats only what was
said before, every token is in a chunk, and when the overlap covers what a cut may take from a character, every character
is whole in one. `SectionsAreLocated` excepts pages with headings in tables, which the anchors count and the Markdown
does not. `ArtifactsKeepForm` says of the rules on code that they see all the code of the accepted fence, and nothing of
its comments where these are told from the code: not in Python that does not tokenize. `AcceptedPackagesHaveFacts`
speaks of the writes that the registry recognizes, see 7.

## 5. Fairness

* *Knowledge sync.* A syncer takes its next step or fails (weak fairness): requests time out and retries are
  bounded (`rag/fetcher.py`), the database answers. A sync is started again after each, as the operator's guide
  has it. Strong fairness of each step says that a step which is tried in run after run succeeds in some: without
  it, a page that always fails may never converge, and rightly. Nothing is assumed of crashes or of the web sites;
  the liveness properties are about pages and listings that stop changing.
* *Template sync.* The same, step by step. The refusals and the recording of failures are weakly fair: they are
  plain code with nothing to wait for.
* *Template retrieval.* A request under way takes its next statement (weak fairness of `Serve`): statements end,
  and the server runs every request. Nothing is assumed of the syncs beside it, which may publish for ever.
* *Chat turn.* A turn under way takes some next step (weak fairness of the whole `Step`, failures included): model
  and embedding requests have timeouts, and so has the pool. It is not assumed that any step succeeds, nor that
  clients post anything.

* *Evaluation* and *algorithms* state safety only: a command may be killed at any time, and nothing restarts it.

## 6. The proofs

Checked by TLAPS for every value of the constants that the named assumptions allow.

| module | theorem | says |
|---|---|---|
| `KnowledgeProofs` | `TypeCorrect` | `Spec => []TypeOK`, any number of overlapping syncs |
| | `ChunksAlwaysDescribeBody` | rows and chunks agree |
| | `OneRowPerIdentityAlways` | one row for each page |
| | `EtagAlwaysDescribesBody` | with one sync at a time the validator proves the content |
| | `SyncImplementsLifecycle` | every step is a snapshot, a confirmation or a stutter of `DocumentLifecycle` |
| | `UsefulRunAlwaysLeavesIndexQueryable` | one sync at a time: a run that did anything useful leaves an index to retrieve from |
| | `ReportedSourcesAreAlwaysUpToDate` | one sync at a time: what a run does not report as failed is what its page has |
| | `AbsenceWasAlwaysObserved` | only a run during which a catalog did not list a source counts it as absent |
| `ChatTurnProofs` | `TypeCorrect` | types, and exactly the turns with an open transaction hold one of `PoolSize` connections |
| | `AnswersAreAuditedAlways` | every answer is accounted for by stored calls |
| | `NoUnrecordedRetryEver` | no model is called before the earlier attempts are stored |
| | `TracesHaveCallsAlways` | every trace line can be joined with a stored call |
| | `EachModelOnceAlways` | no model twice in a turn, whatever fallbacks are configured |
| | `AnswersFollowQuestionsAlways` | an answer is later than its question, however turns overlap |
| | `SessionIsAConversation` | `Spec => ImplementsConversation` |
| | `HistoryIsAlwaysThePast` | a turn without overlap is shown just the messages before its question |
| `TemplateRetrievalProofs` | `TypeCorrect` | types, any number of overlapping syncs |
| | `OneActiveVersionAlways` | at most one active version of a template, however syncs overlap |
| | `VersionsAlwaysKeepTheirText` | no stored version is lost or changed, however syncs overlap |
| | `ParentsAreActiveAlways` | one sync at a time: an active row extends the active version of its parent |
| | `VersionsNeverGoBackInOneSync` | one sync at a time: no publish activates an older version |
| | `SyncImplementsCatalog` | one sync at a time: every step is one of `TemplateCatalog` or a stutter |
| | `StatusWasAlwaysTrue` | any number of requests beside one sync: who searches has met an open index |
| | `ContextWasAlwaysOneCatalog` | every context is of versions that were active together, parents first |
| | `UndisturbedIsAlwaysAnswered` | a request that met no publication is answered, with the best candidate if any |
| `EvaluationProofs` | `ReportsAlwaysAgree` | reports, exit codes and comparisons agree with the results, any number of commands |
| | `ResultsAlwaysKept` | a stored result is never replaced where no two commands have overlapped |
| | `GateAlwaysEarned` | a passing result has one valid call and a legible trace line behind every case |
| `ContextProofs` | `WorkspaceIsAlwaysUsed` | the units of a workspace keep their budget, and each that is left out would not fit even at the end |
| `AlgorithmProofs` | `FetchIsBounded` | no more requests than the product of both limits |
| | `FetchLeavesNoResponse` | every response is closed but the one that is being read |
| | `FactsAreAlwaysBalanced` | a plan lists every unit of a workspace once, with the true reason, and each kind that seeds ask for has its share of the head, whatever the scores |
| | `AcceptedPackagesAlwaysHaveFacts` | two accepted packages have one hash just if they say the same, in any order; all that a manifest names is a source, under an id of its own; each DDL source gives the context a unit that is no comment, and none that is recognized as a write |
| | `GatesAlwaysRoundExactly` | no gate of a retrieval evaluation is opened or shut by rounding, below two thousand cases |
| | `SourcesAreAlwaysRuns` | whatever is ranked: the sources of a context divide its chunks, each is cited by its best chunk and told in the order of the page, they are the runs of the chunks where no page is there in two versions, and pages come as they would be cited |
| | `SectionsAreAlwaysLocated` | whatever a page consists of: its sections are its headings with a body, under the path that the headings before give; without headings in tables, each has its own anchor, or one that no other heading without an anchor gets (a title stands for its slug, see 8) |
| | `BudgetIsAlwaysUsed` | official documents keep the budget, and each chunk that is left out did not fit when its turn came |
| | `AcceptedSourcesAlwaysServe` | what the registry accepts has no cycle, each context holds a template with all its ancestors, no profile is without templates or sees another's, and the evaluation finds no leak and no missing parent |
| | `VectorsAlwaysKeepTheirText` | the vectors of any texts come back in the order of the texts, however each answer is ordered; a spoilt answer is refused |
| | `ArtifactsAlwaysKeepForm` | what the parser accepts has the form that the prompt asks for, its code is scored, without its comments unless it is Python that does not tokenize, and a document of that form is accepted |
| | `ChunksAlwaysLoseNothing` | whatever blocks a section has: its chunks fit, each says something new, no token is lost, no covered character is cut |
| | `FusionAlwaysRespectsRankings` | whatever two rankings list and repeat: every id once, what is ahead in one and not behind in the other stays ahead, repetitions change nothing, each template stands where its best chunk does |

The inductive invariants, and why the properties are not inductive alone:

* `KnowledgeProofs!TypeInv` adds to `TypeOK` what a stage says of the task in hand: in `storing` there is
  an answer, and for a source, not a catalog.
* `IdentityInv` adds to `OneRowPerIdentity` that a row under a derived key has that key's URL, and that whenever a
  syncer has a source ready (or in hand) its identity is no longer under a legacy key. The second is the argument
  of the code: identities are migrated before anything of the catalog is published, and nothing ever writes a
  legacy key again.
* `EtagInv` adds that the row a syncer compares with is the row that is stored. With a second syncer it is not,
  which is why the theorem assumes there is at most one.
* The refinement of the lifecycle needs `OneRowPerIdentity`: the phase of a source is that of *the* row it has.
* `KnowledgeProofs!RunInv` says in which order a run takes its catalogs and sources, and that each source it
  has found is still to do, done, or failed (or its catalog is): nothing falls between the loops. `DoneInv` adds that
  what is done has a row that may be retrieved, and that the latest run is that of the syncer under way; both need
  one syncer, because another may mark the row missing. `FreshInv` follows a source from its answer to its row: what
  was fetched is what the page has, or the page has moved since the run began. `AbsentInv` says that what a run may
  reconcile without having found it was not listed at some time of the run. Each is needed because the property speaks
  of the end of a run, about what was true when one of its many steps was taken.
* `ChatTurnProofs!PastInv` says for a turn that has met no other that the messages before its question are those that
  were there when it was asked; `RecentIsPast` is the counting: the newest messages without the question, one less
  than the limit, are the newest ones before it.
* `TemplateRetrievalProofs!TableInv` says that what a transaction has locked or found is stored. `OneSyncInv` says that a
  syncer without company publishes against the rows it has seen (`PublishesWhatItSaw`), that from `published` on the
  active rows are the snapshot of its checkout, and that the latest run is its own (`RunIsLatest`); a second syncer
  breaks each of these.
* `TemplateRetrievalProofs!CatalogInv` adds two facts to these: a stored version has the text of an entry of some
  checkout (`StoredIsRegistered`), which is what makes its parents those of the registry, and while the latest run is a
  success its snapshot is active (`LatestIsActive`), so that a run that fits at the first statement means an open index.
  `RequestInv` says of a request that its status was told by an open index (`StatusTold`), that the versions it has
  loaded were active together with all that they extend (`DocsRead`), and that its context keeps parents ahead
  (`ContextBuilt`). The argument for the window between the reading of candidates and that of their parents:
  a version's parent is active whenever the version is, so that one active set has both; a parent that is replaced
  before it is read is not found, and its overlay is dropped whole. The selection (`TemplateContextProofs!ContextIsComplete`) is by
  induction along its steps (`AfterReaches`): each selection on the way is `Complete`, it holds with each version the one
  that it extends, ahead of it. `ChainIsComplete` needs the pigeonhole principle: a chain is not bounded by a number in
  the code but by no version coming twice.
* `TemplateRetrievalProofs!Calm` is what a request knows that has seen one active set only (`CalmOf` speaks while
  `actives` has one element): its candidates are active, its documents are as they are stored, every candidate is
  loaded, from `documents` on every parent is too, and it was never refused. A parent of an active row is active
  (`ParentsAreActive`), so that the loop up the chain finds it; then the best candidate, or the best default, fits with
  its chain (`ChainsFit`), and a chain that fits the empty selection is selected (`FittingIsSelected`).
* `ContextProofs!Selections` and `Fitted` say what may be selected of the first so many chunks or units: what is
  selected fits, and what is not did not fit beside what was selected before it (`Weighed`), of which what is selected
  later must be no part: chunks are distinct. For units the claim is about the end, and is kept because a longer
  selection never uses fewer tokens (`TokensAdd`).
* `Placed` says of the batches made of the first so many texts that they are runs of consecutive numbers, each beginning
  where the one before has ended, and within both limits. So the results of one batch extend those of the batches
  before it by just its texts (`ResultsGrow`), and each number is found in one place of an honest answer (`ItemsAreFound`). That a spoilt answer is refused
  (`FaultsAreSeen`) is counting again: an order of an answer is a bijection, and one number too few or twice is none.
* `AlgorithmProofs!InputInv` is all that the steps of `Algorithms` contribute: what is examined is an input of its
  algorithm. The rest are lemmas about any input.
* `AcceptedSourcesAlwaysServe` climbs from each template in turn. `Ascents` says of a climb that it never comes to a
  template twice and ends at one that extends nothing or has been visited, or goes on; as it has no more templates than
  there are, it ends (`VisitEnds`). What has been visited is then `Grounded`: in each part of it one template extends
  nothing of that part, which is what having no cycle means without a word about paths. So the chain that the context
  builder follows never repeats and is whole (`ChainIsFound`), and all of it but its last template is core.
* `ArtifactsAlwaysKeepForm` has to relate two readings of one text: the fence that the parser finds first is where the
  rules look (`FirstFenceBegins`), with its comments or without (`SeesCode`), and what they look for is what the
  prompt of the case asks (`SpecsAreConsistent`).
* `ChunksAlwaysLoseNothing` is in three parts. `AllPieces` says of the fragments of a section that the first begins it,
  each leads to the next (within a block no gap, or from the end of a block to the begin of the next one), and the last
  ends it; a window more always ends farther (`CutGoesOn`), so that as many rounds as a text has tokens are enough
  (`PiecesFill`). Then the first fragment that reaches a token has it (`ReachedFirst`), and with the overlap of
  `CutsAreCovered` the whole of its character, whose tokens stand in a row (`CharacterIsRun`). Last, `PackedOff` says of
  the finished chunks that they fit, that each has a fragment which comes after all those of the chunks before it
  (`ChunksOfFirst`), and that every fragment packed so far is in one of them or in the current chunk.
* `FusionAlwaysRespectsRankings` is in three parts. `Kept` says of the first so many ids of a list that of each key the
  first one is kept, in the order of the list; so ranks are numbers, and what is ahead has the better one.
  `BeforeIsOrder` says that the fused order is a strict total order, which for scores is arithmetic of fractions that
  are never divided. And `FusedIsSorted` says that an id stands at its place: the place is the number of ids
  before it, so that different ids have different places, all of them up to the number of ids, and hence each of
  these is taken (`NumberedIsReached`).
* `FactsAreAlwaysBalanced` follows a plan along its loops. `Plans` says of what is planned so far that no unit is in it
  twice, that each reason is true and that the counter of a kind is the number of its units; a unit that a seed adds
  is none of those planned (`AdditionIsNew`), so it counts. `Shared` is the promise for the seeds up to the present one:
  each kind among them has its share, or all its units with a score are planned. It survives a later seed because plans
  only grow (`ShareGrows`), and a seed that finds nothing has shown that nothing is left. What comes after the head is
  disjoint from it and from each other (`PlansJoin`).
* `AcceptedPackagesAlwaysHaveFacts` needs that accepted ids are distinct, so that sorting by them is a function of the
  set of sources (`IdsAreOrder`, `SourcesAreListed`), and that a sorted list tells the set it was made of
  (`ListingTells`). From left to right (`HashTellsContent`): equal lists of schemas are equal sets, each schema with the
  set of its files. From right to left: a place that two packages name alike has the same id in both, because the id of
  a document is that of its kind of manifest and the id of a statement file that of its schema and stem; and the
  content of a path is one source (`FactsTellSources`). The units of a source are told by its id, so that those of a DDL
  source are its statements and no other's (`SourcesDiffer`, `DdlFacts`), and of these the registry has seen a valid
  file (`DdlIsValid`).
* `SourcesAreAlwaysRuns` begins with the chunks sorted by their place, a total order because ids differ
  (`PlacesAreOrder`). Each place of the sorted list is in one stretch between two beginnings of a group (`RunsDivide`), so
  that the groups divide the chunks (`GroupsDivide`); and a stretch is without a beginning just if both ends are under one
  heading and every index between is there (`RunsAreWhole`), which is where two versions of a page would be in the way.
  The best ranks of different groups differ, so that sorting by them lists every group once (`GroupsAreListed`). A page
  comes first where its best chunk is, in the ranking and in the citations (`PagesAreTold`).
* `SectionsAreAlwaysLocated` has two parts. `Outline` says of the hierarchy after so many headings what the
  headings themselves say: at each level the last title of that level with nothing above it since, or none;
  a heading more keeps it (`OutlineGoesOn`, `HierarchyIsOutline`). And for the anchors: sorting the places of headings
  lists them in the order of the page (`PlacesInTurn`), which is all places if nothing is in a table, so that HTML and
  Markdown count alike (`AllArePicked`); the anchors that are counted up for one slug differ because the number of
  earlier headings grows (`AnchorsAreOwn`).
* The last four rest on `Iterations!OrderedLists`: an element of a set under a total order stands at the place that is
  the number of those before it, so that sorting lists each element once, in order.
* `EvaluationProofs!AuthorInv` says that a stored result is that of the command it names, `AloneInv` that commands
  which share a directory are known to overlap, `ScoredInv` that each result follows from the calls stored for its
  case and from the trace; `TracedLines` is by iteration over the lines that a trace is read by.
* `ChatTurnProofs!TypeInv` adds that a turn has attempts exactly after its first call, and that a turn about to
  call has a model left (`HasNext`); `NextModelIsFresh` then follows from the well-foundedness of `<` on the
  positions of the fallbacks.
* `AuditInv` says the stored calls *are* the attempts (`CallsAreAttempts`), all of them but perhaps the last one
  (`AttemptsAreStored`), all but the last one retryable (`OnlyRetryableIsRetried`), the last one valid from
  `answering` on (`ValidBeforeAnswer`) and of turns that have an answer (`AnswersHaveCalls`). A failed turn keeps its
  attempts, so the last clause may speak of them after the turn is over.
* `OrderInv` says that no message and no transaction is later than the clock, and that from `loaded` on a turn's
  transaction began after its question's (`QuestionsFirst`).
* The refinement of the conversation needs `AuditInv` and that a turn before `asked` has no message and one from
  `replied` on has its answer (`SessionInv`).
* `GatesAlwaysRoundExactly` rests on `NearestExists` (the quotient of a shifted share is a nearest number) and `RoundingReaches`:
  a share below a whole number of tenths is below it by at least a tenth of a case, and with less than two thousand
  cases that is more than what rounding to four decimals can add.
* `FetchInv` bounds the requests of a fetch that goes on by its redirects, each of which stands for one round of
  retries, and the retries of the current URL; `RoomForOneMore` is the arithmetic of one more redirect.

Assumptions used: those named in `KnowledgeIndex`, `KnowledgeIngestion`, `ChatTurn`, `FetchLoop`, `TemplateSync`,
`TemplateRetrieval`, `EvaluationRuns`, `KnowledgeContext`, `WorkspaceContext`, `WorkspaceSources`, `MarkdownChunks`, `EmbeddingBatches`,
`RankFusion`, `TemplateSources`, `Artifacts` and `Algorithms` (the key sets are disjoint, `BodyOf`, `CatalogOf`, `Requested` and `Fallbacks`
are functions and sequences of the right sets, registries and data sets are such as their loaders accept, the
sentinels are no ordinary values, limits are positive). TLC evaluates them in every run. The others are hypotheses of
single theorems, where the code would not justify an assumption for all:

* *One sync at a time* (`\A p, q \in Syncers : p = q`): nothing in the code enforces it, and the theorems that need
  it are false without it (7 and 8).
* *Core templates extend nothing* (`CoreExtendsNothing`, in `ContextWasAlwaysOneCatalog` and
  `UndisturbedIsAlwaysAnswered`): so it is in all the sources of the repository, but the registry would accept a core
  template that extends another. With a chain of three the theorem is false, see 8.
* *Every template fits the budget together with all that it extends* (`ChainsFit`, in `UndisturbedIsAlwaysAnswered`):
  nothing in the code checks it, and with a template that is too long a request may find everything and use nothing.
  The longest chain of the repository's own sources stays below the budget of 2500 tokens, by an estimate of its size.

`InputAssumption` of `Algorithms` says what an algorithm is given: the ids of ranked chunks differ
(`reciprocal_rank_fusion` and `_deduplicate_chunks` see to it), a page is a sequence of parts, the layers of a profile
are not empty and templates are among those parsed, a block has a text whose tokens are in the order of their
characters (`ProperBlock`; `_extract_blocks` makes no empty one), what is outside the comments of a fence is in the
fence (`IsFence`), the prompt of a case is one of those that have a
form, a workspace has one source to an id (`_load_sources` refuses a second) and a purpose that has seeds, a manifest
has the fields of the pydantic models (`IsManifest`), a data set has less than two thousand cases. Some contracts
except inputs themselves: `SourcesAreRuns` speaks of runs where no two chunks are in one place of a document
(`OfOneVersion`), which the table forbids (`uq_kb_chunks_document_chunk_index`) but two searches on both sides of a
publication may give, see 8; `VectorsKeepTheirText` is about texts within the limits (`ValidTexts`; `_batch_inputs`
refuses others) and claims the order of answers that have one vector for each text asked (`Honest`), since no client
could tell a vector that was put under the wrong number; `AcceptedSourcesServe` about sources that are accepted.

Only model-checked is all liveness (`IndexConverges`, `RemovedSourceLeaves`, `IndexOpens`, `RequestsEnd`, `TurnsEnd`),
which is beyond the prover. Every invariant and every action property of the passing runs is stated by a theorem. What
that took for the algorithms is a model whose loops are steps that are functions (`StepFold`) and whose sorting is no
loop (`Orders`): `Iterations` gives induction over the first and says of the second what a sorted list is, while the
operators of the community modules that flatten, select or fold are recursive, which the provers cannot reason about.

## 7. Where code and documents disagree

* `OneFailure`. The plan of stage 4 says that a page that fails makes its run `partial`, and its old version stays
  queryable. When it is the only source of the run, `_run_status` says `failed`, and the whole index is closed.
* `ChatConnections`. The design of the model gateway says that no transaction or connection is held during a model
  call. The refresh at the end of `create_message`, and the reading of the history, open one that lasts to the
  commit of the first model call.
* `TemplateFailedRun`. The design of the template library says that no error of the database changes the active
  set. An error of `finish_run` comes after the commit of the new set, and the run is recorded as failed.

* `TemplateTwoSyncs`. The plan of the template library has an overlay extend the current core record, and the design
  has a matched overlay bring its active core parent along. A publish that begins its locking read while nothing is
  active, and reads the stored versions between two publications of other syncs, finds a core version active that is
  not so any more when it writes. The status it sets is the one it has read, so that no UPDATE is sent
  (`Written`): the overlay becomes active on a parent that is not.

Two more have no run. The plan of stage 6 (`docs/superpowers/plans/2026-07-17-stage-6-project-aware-code-generation-plan.md`,
line 260), and its design likewise, have DDL sources split by `sqlparse` and data DML refused. `_validate_source_sql`
refuses statements that `sqlparse` types as INSERT, UPDATE, DELETE or MERGE, COPY ... FROM STDIN, and VALUES. A source
with TRUNCATE, REPLACE, COPY INTO or CREATE TABLE AS SELECT is accepted; no statement is executed, it only becomes a fact
of the context. `WorkspaceSources!Recognized` follows the code, and the `Algorithms` run has such a source.

The other is a filter: the design of the template library
(`docs/superpowers/specs/2026-07-16-stage-5-databricks-expert-template-library-design.md`, line 588) has a candidate's
cloud neutral or that of the profile. For a neutral profile `_candidate_conditions` filters no cloud at all, and
`tests/integration/test_expert_template_retrieval.py`, line 135, relies on that. `TemplateSources!Searched` follows
the code.

## 8. Limits

* Overlapping syncs of the knowledge index: a check may keep a validator beside the content that another sync has
  published meanwhile (`mark_document_checked` writes only the validators it got). The next unconditional fetch
  mends it; nothing in the code or its documents promises more, and the properties that need one sync say so.
* Overlapping template syncs may leave the older of two checkouts active under the newer one's succeeded run, or an
  overlay without its parent (`TemplateTwoSyncs`), until the next sync. A request drops such an overlay, as it does
  any version whose parent it cannot load.
* `get_index_status` of the knowledge index is several statements; here it is read at once. That of the templates
  is read statement by statement in `TemplateRetrieval`.
* The reader of the knowledge index is not modelled beside its sync. Read from the code: a turn whose two candidate
  queries lie on both sides of a publication may see chunks of two versions of a page, and `_is_adjacent` may join
  them under one citation, since it compares the page, the heading and the position; or an old chunk beside a new one of
  the same position parts a run in two. No document promises otherwise; what `SourcesAreRuns` still says of such chunks
  is that each is told once, in one source, cited by its best chunk.
* `IndexOpens` presumes templates with a body. A template whose Markdown has headings and nothing below them is
  accepted by the registry, but yields no chunk, and every sync then ends at `_chunk_source` (`expert_templates/sync.py`).
* Two evaluation commands started at the same moment may both find the directory of a run empty and then share it;
  the last one to end leaves its result. The trace then has the lines of both, told apart by their sessions.
* An unexpected error in an evaluation (of the database, a file or the service) leaves the command without a result,
  and the directory used: the run must be repeated under another id.
* `_trace_ids` splits the trace by `splitlines`, which also splits at U+2028 and its like inside a JSON string, so a
  call with such a character counts as not traced. Texts have no characters here.
* No turn is cancelled in the models. A cancelled request releases the lock of the trace sink while its thread still
  writes; the effect, halves of lines of two writers in any order, is in `EvaluationRuns` through a second process.
* Python in an answer that does not tokenize is scored with its comments: a required term that only a comment has then
  counts as there, and a forbidden one in a comment breaks the rule. `GateIsEarned` says that the rules are kept as they
  are, and no more.
* In `MarkdownChunks` a title stands for its slug. In the code two headings of one slug and a third whose title reads
  like the second's anchor (`a`, `a`, `a-1`) get one anchor twice.
* In `WorkspaceContext` the scores of units are free; that the same query gives the same scores is not used.
* `ContextWasOneCatalog` is checked and proved for overlays on core templates that extend nothing
  (`CoreExtendsNothing`), the depth that the sources in the repository have. The registry would also accept a chain of
  core templates (`registry.py`, lines 511 to 522). With three in a chain the parents are read in statements of their
  own; TLC then finds a single publication between two of these, after which a turn gets the overlay as it was before
  and its parents as they are after it, a mixture that was never active.
* Token counts are additive: a context is as long as its parts. The tokenizer may join text across the seams.
* The code adds two floats where `RankFusion` adds fractions. For ranks up to thirty, the candidates of each query,
  sums that are equal are equal as floats, and those that are not differ by more than 1e-8.
* Chunks of templates, embeddings, the texts of prompts, questions and answers, titles, token counts and latencies
  are left out: no property depends on them.
* Creating sessions, and listing sessions and messages, are single statements and are not modelled. One of them,
  `list_messages`, returns the oldest hundred messages, so that a client does not see the end of a longer session.
* A statement is atomic, and a commit is known to have happened or not: a connection that breaks during a commit is
  modelled as one that broke before it or after it, with the process failing in both cases.
* What is listed as `not_modelled` in `PROJECT.json`, with the reason: mostly pure functions over text, static
  configuration and wiring.

### Not modelled

* The request builder and error mapping of `llm/litellm_client.py`, the routes of `api/*`, the wiring of `main.py` and
  `core/*`, migrations: no control of their own; what they yield is the input of the models.
* `rag/manifest.py`, `rag/urls.py`, the data sets of the retrieval evaluations: validation of static files, field by
  field. The data set of the end-to-end evaluation is in `Artifacts!ValidDataset`, because its scores rely on it.
* Lexical scoring and terms (`search/hybrid.py`, `workspace/context.py`), Markdown and HTML parsing, the checks of a
  template's Markdown, the wording of prompts, reports and messages: text.
* `evaluation/cli.py validate`, which writes nothing, and the longitudinal comparison with stored older runs.

## 9. The plan

In order of importance.

1. `DocumentLifecycle`, `KnowledgeIndex`, `KnowledgeIngestion`, `SyncFreshness` and their proofs. *Done.*
2. `Conversation`, `ChatTurn` with its proofs, and `ChatHistory`. *Done.*
3. `TemplateCatalog`, `TemplateSync`, `TemplateRetrieval`, `TemplateContext`. *Done.*
4. The algorithms: fusion, contexts, template sources, workspaces, chunks, embeddings, artifacts, gates. *Done.*
5. `FetchLoop` and its proof. *Done.*
6. `EvaluationRuns`. *Done.*
7. The proofs of these. *Done* for every invariant and action property that a run checks.
8. Next: the reader of the knowledge index beside its sync, statement by statement, as `TemplateRetrieval` has it for
   the templates; and `get_index_status` of the knowledge index in its several statements.
