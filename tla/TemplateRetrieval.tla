--------------------------- MODULE TemplateRetrieval ---------------------------
(***************************************************************************)
(* The retrieval of expert templates for a turn, beside the syncs that     *)
(* replace them, from expert_templates/retrieval.py, the reading half of   *)
(* expert_templates/repository.py and chat/context.py.                     *)
(*                                                                         *)
(* Every statement of a request is one step: each has a session of its     *)
(* own, or at READ COMMITTED a snapshot of its own.  Similarity and text   *)
(* search may find any active versions, in any order.                      *)
(***************************************************************************)
EXTENDS TemplateSync, SequencesExt

CONSTANTS
    Readers,        \* requests that are served at the same time
    CoreTemplates,  \* templates of the core layer
    SizeOf,         \* the tokens of a content
    TopK, Budget    \* limits of the context

\* Also from ExpertTemplateRegistry.load: only core templates are extended.
ASSUME ReaderAssumption ==
    /\ IsFiniteSet(Keys)
    /\ NoRow \notin [extends: Keys \cup {NoTemplate}, core: BOOLEAN, size: Nat]
    /\ SizeOf \in [Contents -> Nat]
    /\ CoreTemplates \subseteq Templates
    /\ \A c \in Contents : ParentOf[c] \in CoreTemplates \cup {NoTemplate}
    /\ TopK \in Nat \ {0} /\ Budget \in Nat \ {0}

Context == INSTANCE TemplateContext WITH
    Ids <- Keys, NoParent <- NoTemplate, Missing <- NoRow

VARIABLES
    request,        \* of each request: where it is, its server's checkout, and what
                    \* it has read: the status, candidates, documents and why
    witnessed       \* of each request: what was so at some time since it began

readingVars == <<vars, request, witnessed>>

Idle == [at |-> "idle", server |-> NoCheckout, queryable |-> FALSE, similar |-> FALSE,
         candidates |-> {}, docs |-> NothingFound, reason |-> "semantic", context |-> <<>>]

Unwitnessed == [open |-> FALSE, actives |-> {}]

RetrievalInit ==
    /\ Init
    /\ request = [r \in Readers |-> Idle]
    /\ witnessed = [r \in Readers |-> Unwitnessed]

Becomes(r, new) == request' = [request EXCEPT ![r] = new]

-----------------------------------------------------------------------------
(* get_index_status.                                                       *)

\* Mutant: whichever sources the latest run had.
LatestRunAnySource(c) == lastRun.status = "succeeded"

\* The first statement, for a server with the sources c.
LatestRunFits(c) == lastRun.status = "succeeded" /\ lastRun.source = c

ReadLatestRun(r) ==
    /\ request[r].at = "idle"
    /\ \E c \in Checkouts :
        Becomes(r, [Idle EXCEPT !.at = "run", !.server = c, !.queryable = LatestRunFits(c)])

ReadActiveIds(r) ==
    /\ request[r].at = "run"
    /\ Becomes(r, [request[r] EXCEPT
        !.at = "ids",
        !.queryable = @ /\ Active # {} /\ Defaults[request[r].server] \subseteq ActiveTemplates])

\* The number and the models of the chunks of active versions: every version
\* has chunks, of one model.  The turn ends here if the index is not ready.
CountChunks(r) ==
    /\ request[r].at = "ids"
    /\ IF request[r].queryable /\ Active # {}
       THEN Becomes(r, [request[r] EXCEPT !.at = "ready"])
       ELSE Becomes(r, Idle)

-----------------------------------------------------------------------------
(* retrieve.                                                               *)

\* Any versions that a search of the active rows returns.
Found == SUBSET {[key |-> k, extends |-> rows[k].extends] : k \in Active}

FindVectorCandidates(r) ==
    /\ request[r].at = "ready"
    /\ \E hits \in Found : \E similar \in {b \in BOOLEAN : hits # {} \/ ~b} :
        Becomes(r, [request[r] EXCEPT
            !.at = "vectors", !.candidates = hits, !.similar = similar])

\* No lexical candidates and no vector near enough: the defaults are taken.
FindLexicalCandidates(r) ==
    /\ request[r].at = "vectors"
    /\ \E hits \in Found :
        Becomes(r, IF hits # {} \/ request[r].similar
                   THEN [request[r] EXCEPT !.at = "ranked", !.candidates = @ \cup hits]
                   ELSE [request[r] EXCEPT !.at = "defaults", !.candidates = {}])

\* Mutant: also versions that were replaced.
StoredAmong(ids) == [k \in Keys |-> IF k \in ids THEN rows[k] ELSE NoRow]

\* get_active_template_documents.
ActiveAmong(ids) == [k \in Keys |-> IF k \in ids \cap Active THEN rows[k] ELSE NoRow]

LoadCandidateDocuments(r) ==
    /\ request[r].at = "ranked"
    /\ LET ids == UNION {{c.key, c.extends} : c \in request[r].candidates}
       IN  Becomes(r, [request[r] EXCEPT !.at = "parents", !.docs = ActiveAmong(ids)])

Loaded(docs) == {k \in Keys : docs[k] # NoRow}

PendingParents(docs) ==
    {docs[k].extends : k \in Loaded(docs)} \ (Loaded(docs) \cup {NoTemplate})

\* Mutant: parents are asked for until they are there.
ParentsSettledStrictly(docs, hits) == PendingParents(docs) = {}

\* Mutant: no parent is asked for.
ParentsAssumedThere(docs, hits) == TRUE

\* The loop ends when nothing is missing or nothing of it is found.
ParentsSettled(docs, hits) == PendingParents(docs) = {} \/ Loaded(hits) = {}

\* One turn of the loop of _load_parent_documents.
LoadParents(r) ==
    /\ request[r].at = "parents"
    /\ LET docs == request[r].docs
           more == ActiveAmong(PendingParents(docs))
       IN  Becomes(r, IF ParentsSettled(docs, more)
                      THEN [request[r] EXCEPT !.at = "documents"]
                      ELSE [request[r] EXCEPT !.docs =
                               [k \in Keys |-> IF more[k] # NoRow THEN more[k] ELSE docs[k]]])

Sized(docs) ==
    [k \in Keys |-> IF docs[k] = NoRow THEN NoRow
                    ELSE [extends |-> docs[k].extends, core |-> k[1] \in CoreTemplates,
                          size |-> SizeOf[docs[k].content]]]

\* Without a context, search results give way to the defaults, the defaults to
\* an error.
BuildContext(r) ==
    /\ request[r].at = "documents"
    /\ \E ranked \in SetToSeqs({c.key : c \in request[r].candidates}) :
        LET context == Context!Build(Sized(request[r].docs), ranked)
        IN  Becomes(r,
                IF context # <<>>
                THEN [Idle EXCEPT !.at = "answered", !.server = request[r].server,
                                  !.reason = request[r].reason,
                                  !.docs = request[r].docs, !.context = context]
                ELSE IF request[r].reason = "semantic"
                THEN [Idle EXCEPT !.at = "defaults", !.server = request[r].server]
                ELSE [Idle EXCEPT !.at = "refused", !.server = request[r].server])

\* _build_default_bundle, up to the parents: every default must be active.
LoadDefaults(r) ==
    /\ request[r].at = "defaults"
    /\ LET defaults == Defaults[request[r].server]
           ids == {k \in Active : k[1] \in defaults}
       IN  Becomes(r,
               IF defaults \subseteq ActiveTemplates
               THEN [request[r] EXCEPT
                       !.at = "parents", !.reason = "default", !.docs = ActiveAmong(ids),
                       !.candidates = {[key |-> k, extends |-> rows[k].extends] : k \in ids}]
               ELSE [Idle EXCEPT !.at = "refused", !.server = request[r].server])

\* The turn goes on with the context, or ends with the error.
Leave(r) == request[r].at \in {"answered", "refused"} /\ Becomes(r, Idle)

\* An error of the database or of the embedding, or a client that hangs up.
GiveUp(r) == request[r].at \notin {"idle", "answered", "refused"} /\ Becomes(r, Idle)

Serve(r) ==
    \/ ReadActiveIds(r) \/ CountChunks(r)
    \/ FindVectorCandidates(r) \/ FindLexicalCandidates(r)
    \/ LoadCandidateDocuments(r) \/ LoadParents(r) \/ BuildContext(r) \/ LoadDefaults(r)
    \/ Leave(r)

\* What a request could have seen since it began; no part of the code.
Witness ==
    witnessed' = [r \in Readers |->
        IF request'[r].at = "idle" THEN Unwitnessed
        ELSE [open |-> \/ witnessed[r].open
                       \/ \E c \in Checkouts : c = request'[r].server /\ Queryable(c)',
              actives |-> witnessed[r].actives \cup {Active'}]]

RetrievalNext ==
    /\ \/ Next /\ UNCHANGED request
       \/ /\ \E r \in Readers : ReadLatestRun(r) \/ Serve(r) \/ GiveUp(r)
          /\ UNCHANGED vars
    /\ Witness

RetrievalSpec == RetrievalInit /\ [][RetrievalNext]_readingVars

\* No request is left alone for good.
RetrievalFairSpec ==
    /\ RetrievalSpec
    /\ \A r \in Readers : WF_readingVars(Serve(r) /\ UNCHANGED vars /\ Witness)

-----------------------------------------------------------------------------
(* Properties.                                                             *)

\* get_index_status reads the run and the rows in several statements, between
\* which syncs publish and fail: a request that is let through was let through
\* by an index that had been open to its server's sources.
StatusWasTrue ==
    \A r \in Readers : request[r].at \notin {"idle", "run", "ids"} => witnessed[r].open

\* Candidates, documents and parents are read one after the other while syncs
\* replace versions: still a turn gets versions that were all active at one
\* time of its request, each after the version of the template its text extends.
ContextWasOneCatalog ==
    \A r \in Readers :
        LET context == request[r].context
        IN  context # <<>> =>
            /\ \E active \in witnessed[r].actives : ToSet(context) \subseteq active
            /\ \A i \in DOMAIN context :
                LET parent == ParentOf[request[r].docs[context[i]].content]
                IN  parent # NoTemplate => \E j \in 1..(i - 1) : context[j][1] = parent

\* A request that no publication disturbs ends with a context, of versions of
\* its server's own sources only.
UndisturbedIsAnswered ==
    \A r \in Readers :
        /\ request[r].at \in {"answered", "refused"}
        /\ Cardinality(witnessed[r].actives) = 1
        => /\ request[r].at = "answered"
           /\ \A k \in ToSet(request[r].context) :
                Registry[request[r].server][k[1]]
                    = [version |-> k[2], content |-> rows[k].content]

\* The loop over the parents ends, whatever is published meanwhile.
RequestsEnd == \A r \in Readers : request[r].at # "idle" ~> request[r].at = "idle"
================================================================================
