--------------------------- MODULE MCHttpDownload ---------------------------
(* Small instances of HttpDownload for TLC.                                *)
EXTENDS HttpDownload

\* One file after the other, with each kind of retry, as a caller does that
\* stops at the first failure or goes on; and a pool of two threads.
Batches ==
    {o \in [atomic : BOOLEAN, resume : BOOLEAN, retries : 0..1, maxRetries : 0..1,
            workers : {1}, failOnError : BOOLEAN] :
        o.maxRetries = 1 - o.retries /\ o.failOnError = (o.retries = 1)}
    \cup [atomic : {TRUE}, resume : {TRUE}, retries : {0}, maxRetries : {0},
          workers : {2}, failOnError : BOOLEAN]
=============================================================================
