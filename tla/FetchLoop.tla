------------------------------- MODULE FetchLoop -------------------------------
(***************************************************************************)
(* One fetch of a page or of a catalog's list, from rag/fetcher.py: a loop *)
(* of requests through redirects and retries, and the reading of the one   *)
(* response that it ends with.  The sync has it as a single answer or      *)
(* failure (FetchPage, FetchNotModified, DiscoverCatalog).                 *)
(***************************************************************************)
EXTENDS Naturals

CONSTANTS
    MaxRetries,     \* KNOWLEDGE_FETCH_MAX_RETRIES
    MaxRedirects    \* KNOWLEDGE_FETCH_MAX_REDIRECTS

ASSUME FetchAssumption == MaxRetries \in Nat /\ MaxRedirects \in Nat

VARIABLES
    kind,           \* "page" or "catalog"
    state,          \* sending, or received, or how it ended
    status,         \* of the response in hand: "good", "unmodified" or "bad"
    redirects,      \* redirects so far
    retries,        \* retry_number: retries of the current URL
    requests,       \* requests so far: no part of the code
    unclosed        \* responses that are open

fetchVars == <<kind, state, status, redirects, retries, requests, unclosed>>

FetchInit ==
    /\ kind \in {"page", "catalog"}
    /\ state \in {"sending", "failed"}  \* the first URL is not official
    /\ status = "bad"
    /\ redirects = 0
    /\ retries = 0
    /\ requests = 0
    /\ unclosed = 0

Request == state = "sending" /\ requests' = requests + 1 /\ UNCHANGED kind

\* Timeouts and broken connections.
TransportFails ==
    /\ Request
    /\ IF retries < MaxRetries
       THEN retries' = retries + 1 /\ UNCHANGED state
       ELSE state' = "failed" /\ UNCHANGED retries
    /\ UNCHANGED <<status, redirects, unclosed>>

\* Mutant: the limit is on redirects that follow a retry.
TooManyRetried(n) == n > MaxRedirects /\ retries > 0

TooMany(n) == n > MaxRedirects

\* A redirect without a location; its response is closed at once.
RedirectedNowhere ==
    /\ Request
    /\ state' = "failed"
    /\ UNCHANGED <<status, redirects, retries, unclosed>>

\* A redirect, perhaps to a place that is not official.
Redirected ==
    /\ Request
    /\ redirects' = redirects + 1
    /\ \E official \in BOOLEAN :
        IF official /\ ~TooMany(redirects + 1)
        THEN retries' = 0 /\ UNCHANGED state
        ELSE state' = "failed" /\ UNCHANGED retries
    /\ UNCHANGED <<status, unclosed>>

\* 429 and some of the 500s: the response is closed before the delay.
RetryLater ==
    /\ Request
    /\ retries < MaxRetries
    /\ retries' = retries + 1
    /\ UNCHANGED <<state, status, redirects, unclosed>>

\* Any other response, or a retryable one with no retries left.
Receive ==
    /\ Request
    /\ \E s \in {"good", "unmodified", "bad"} : status' = s
    /\ state' = "received"
    /\ unclosed' = unclosed + 1
    /\ UNCHANGED <<redirects, retries>>

\* The status is checked and the text read, which may be of the wrong type, too
\* long, badly encoded or cut off; the response is closed whatever happens.
\* Only a page may be unmodified.
Read ==
    /\ state = "received"
    /\ \E readable \in BOOLEAN :
        state' = IF status = "unmodified" /\ kind = "page" THEN "unmodified"
                 ELSE IF status = "good" /\ readable THEN "fetched"
                 ELSE "failed"
    /\ unclosed' = unclosed - 1
    /\ UNCHANGED <<kind, status, redirects, retries, requests>>

FetchNext ==
    TransportFails \/ RedirectedNowhere \/ Redirected \/ RetryLater \/ Receive \/ Read

FetchSpec == FetchInit /\ [][FetchNext]_fetchVars

-----------------------------------------------------------------------------
\* Each redirect starts the count of retries anew: the requests of a fetch are
\* bounded by the product of both limits, whatever the servers do.
RequestsBounded == requests <= (MaxRedirects + 1) * (MaxRetries + 1)

\* No path through redirects, retries and errors leaves a response open.
NoResponseLeft == unclosed = IF state = "received" THEN 1 ELSE 0
================================================================================
