------------------------------- MODULE MCFetch -------------------------------
(* TLC instances of Fetch: the digest and a /buscar fetch in bulk, a thumbs-up *)
(* fetches a contact with priority.                                            *)
EXTENDS Fetch

CONSTANTS daily, buscar, contact

\* A contact is fetched without retries, a search page with one.
BulkAttempts == [p \in Client |-> IF p = contact THEN 1 ELSE 2]
=============================================================================
