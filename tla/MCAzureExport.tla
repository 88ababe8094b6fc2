---------------------------- MODULE MCAzureExport ----------------------------
(* Small instances of AzureExport for TLC.                                 *)
EXTENDS AzureExport

\* The disk itself, its snapshot (kept or not) and a temporary disk of it, at
\* the first attempt or not at all; a directory of its own or one that runs
\* share, with and without resuming; and a file that may be short.
Exports ==
    LET Config(snapshots, staged, keep, resume, retries, strict, userTag) ==
            [snapshots |-> snapshots, stage |-> staged, keep |-> keep, resume |-> resume,
             retries |-> retries, strict |-> strict, userTag |-> userTag]
    IN {Config(FALSE, FALSE, {}, TRUE, 2, TRUE, TRUE),
        Config(TRUE, TRUE, {"snapshot"}, FALSE, 1, TRUE, TRUE),
        Config(TRUE, FALSE, {}, TRUE, 2, TRUE, FALSE),
        Config(FALSE, FALSE, {}, FALSE, 2, FALSE, FALSE)}
=============================================================================
