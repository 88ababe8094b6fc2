---------------------------- MODULE ValidationSuite ----------------------------
(***************************************************************************)
(* ValidationSuite.run_all (src/hyper2kvm/core/validation_suite.py): a     *)
(* list of checks, run one after the other (phase A) and then, those that  *)
(* may be, several at a time in processes of their own (phase B), with     *)
(* skipping, dependencies, retries, time limits and a stop at the first    *)
(* critical failure.                                                       *)
(*                                                                         *)
(* A check may return, raise, die without an answer, hang, or answer with  *)
(* more than the pipe holds.  Not here: redaction and truncation of        *)
(* results, durations, statistics by tag, tracebacks.                      *)
(***************************************************************************)
EXTENDS Naturals, Sequences, FiniteSets

CONSTANT Suites     \* the suites run_all may be called for

Checks(s) == 1..Len(s.checks)
CheckSpecs ==
    [critical : BOOLEAN, retries : Nat, retryCritical : BOOLEAN, deps : SUBSET Nat,
     safe : BOOLEAN,        \* tagged parallel_safe
     expensive : BOOLEAN, skip : BOOLEAN,
     sub : BOOLEAN,         \* run_in_process
     timeout : BOOLEAN,     \* timeout_s is set
     func : BOOLEAN,        \* can be pickled
     big : BOOLEAN,         \* its result does not fit the pipe
     hang : BOOLEAN]        \* does not return by itself in a process

\* A list of checks and the arguments of run_all.
Options ==
    [checks : Seq(CheckSpecs),
     parallel : BOOLEAN, procs : BOOLEAN, stop : BOOLEAN,
     strict : BOOLEAN, missing : BOOLEAN, failFast : BOOLEAN,
     context : BOOLEAN,     \* the context can be pickled
     workers : Nat \ {0}]

\* What is assumed of the constants.
SuiteAssumption == Suites \subseteq Options

VARIABLES
    suite,      \* the checks and the arguments of run_all
    phase,      \* of run_all
    cursor,     \* the check phase A or the fallback is at
    call,       \* what the check's function or process is doing
    attempt,    \* attempts made
    verdict,    \* results_json
    counts,     \* passed_count, failed_count, skipped_count
    failedCritical,
    exit        \* exit_code

suiteVars == <<suite, phase, cursor, call, attempt, verdict, counts, failedCritical, exit>>
tally == <<verdict, counts, failedCritical>>

C(i) == suite.checks[i]
All == Checks(suite)

Prepared(s, p) ==
    /\ suite = s /\ phase = p /\ cursor = 1
    /\ call = [i \in Checks(s) |-> "none"] /\ attempt = [i \in Checks(s) |-> 0]
    /\ verdict = [i \in Checks(s) |-> "none"]
    /\ counts = [passed |-> 0, failed |-> 0, skipped |-> 0]
    /\ failedCritical = FALSE /\ exit = "none"

ExitCode(critical, ok) == IF All = {} THEN "invalid"
                          ELSE IF critical THEN "critical" ELSE IF ok THEN "ok" ELSE "fail"

-----------------------------------------------------------------------------
(* Which checks run, and how.                                              *)

\* (Weaker form: no dependency has failed.)
NoneFailed(i) == \A d \in C(i).deps : verdict[d] # "failed"
DependencyOk(i) == \A d \in C(i).deps : d \in All /\ verdict[d] = "passed"
Blocked(i) == (suite.missing /\ C(i).expensive) \/ C(i).skip \/ ~DependencyOk(i)
Parallel(i) == suite.parallel /\ C(i).safe /\ ~C(i).critical /\ C(i).deps = {}
InChild(i) == C(i).sub \/ (suite.procs /\ C(i).timeout)
Picklable(i) == C(i).func /\ suite.context
Limited(i) == C(i).timeout /\ (phase = "B" => suite.procs)

Open == {i \in All : verdict[i] = "none"}
Running == {i \in All : call[i] \in {"child", "blocked", "ok", "failed"}}

\* Everything that has no result is skipped.
SkipRest(v) == [i \in All |-> IF v[i] = "none" THEN "skipped" ELSE v[i]]
AddSkipped(c, n) == [c EXCEPT !.skipped = @ + n]

-----------------------------------------------------------------------------
(* Phase A.                                                                *)

Begin ==
    /\ phase = "start" /\ UNCHANGED <<suite, cursor, call, attempt, failedCritical>>
    /\ CASE All = {} -> phase' = "done" /\ exit' = "invalid" /\ UNCHANGED <<verdict, counts>>
         [] All # {} /\ suite.missing /\ suite.failFast ->
                /\ phase' = "done" /\ exit' = "fail"
                /\ verdict' = SkipRest(verdict) /\ counts' = AddSkipped(counts, Len(suite.checks))
         [] OTHER -> phase' = "A" /\ UNCHANGED <<verdict, counts, exit>>

Sequential == phase \in {"A", "fallback"} /\ cursor \in Open
Ready == Sequential /\ call[cursor] \in {"none", "again"}

Skip ==
    /\ phase = "A" /\ Ready /\ call[cursor] = "none" /\ Blocked(cursor)
    /\ verdict' = [verdict EXCEPT ![cursor] = "skipped"] /\ counts' = AddSkipped(counts, 1)
    /\ cursor' = cursor + 1
    /\ UNCHANGED <<suite, phase, call, attempt, failedCritical, exit>>

\* A check put off to phase B, or one the fallback does not run again.
PassOver ==
    /\ \/ phase = "A" /\ cursor \in Open /\ ~Blocked(cursor) /\ Parallel(cursor)
       \/ phase = "fallback" /\ cursor \in All \ Open
    /\ cursor' = cursor + 1
    /\ UNCHANGED <<suite, phase, call, attempt, tally, exit>>

\* _run_check_subprocess_once or _run_check_inprocess_once; what cannot be sent
\* to a process fails, or runs here once, or (in the fallback) ends run_all.
Call ==
    /\ Ready /\ ~(phase = "A" /\ (Blocked(cursor) \/ Parallel(cursor)))
    /\ attempt' = [attempt EXCEPT ![cursor] = @ + 1]
    /\ call' = [call EXCEPT ![cursor] =
                  CASE ~InChild(cursor) -> "inprocess"
                    [] InChild(cursor) /\ Picklable(cursor) -> "child"
                    [] InChild(cursor) /\ ~Picklable(cursor) /\ suite.strict -> "failed"
                    [] OTHER -> "here"]
    /\ phase' = IF phase = "fallback" /\ call'[cursor] = "here" THEN "raised" ELSE phase
    /\ UNCHANGED <<suite, cursor, tally, exit>>

\* The function returns or raises here; one that was too slow has failed.
Return(i) ==
    /\ phase # "raised" /\ call[i] \in {"inprocess", "here"}
    /\ call' \in {[call EXCEPT ![i] = a] : a \in IF call[i] = "here" THEN {"last ok", "last failed"}
                                                 ELSE {"ok", "failed"}}
    /\ UNCHANGED <<suite, phase, cursor, attempt, tally, exit>>

\* The process answers or dies.  Nothing is read before it has ended, so that a
\* result larger than the pipe keeps it from ending.
Answer(i) ==
    /\ call[i] = "child" /\ ~C(i).hang
    /\ call' \in {[call EXCEPT ![i] = a] : a \in {IF C(i).big THEN "blocked" ELSE "ok", "failed"}}
    /\ UNCHANGED <<suite, phase, cursor, attempt, tally, exit>>

TimeOut(i) ==
    /\ call[i] \in {"child", "blocked"} /\ Limited(i)
    /\ call' = [call EXCEPT ![i] = "failed"]
    /\ UNCHANGED <<suite, phase, cursor, attempt, tally, exit>>

CanRetry(i) == /\ call[i] = "failed" /\ (C(i).critical => C(i).retryCritical)
               /\ attempt[i] <= C(i).retries

Retry(i) ==
    /\ CanRetry(i) /\ call' = [call EXCEPT ![i] = "again"]
    /\ UNCHANGED <<suite, phase, cursor, attempt, tally, exit>>

\* (Weaker form: only a check that may not be repeated.)
StopsAtOnce(i) == suite.stop /\ C(i).critical /\ ~C(i).retryCritical
Stops(i) == suite.stop /\ C(i).critical

\* The result is recorded; a critical failure of phase A may end the run.
Record(i) ==
    /\ call[i] \in {"ok", "failed", "last ok", "last failed"} /\ ~CanRetry(i)
    /\ call' = [call EXCEPT ![i] = "over"]
    /\ LET passed == call[i] \in {"ok", "last ok"}
           v == [verdict EXCEPT ![i] = IF passed THEN "passed" ELSE "failed"]
           c == IF passed THEN [counts EXCEPT !.passed = @ + 1]
                ELSE [counts EXCEPT !.failed = @ + 1]
           critical == failedCritical \/ (~passed /\ C(i).critical)
       IN /\ failedCritical' = critical
          /\ IF ~passed /\ Stops(i)
             THEN /\ verdict' = SkipRest(v) /\ counts' = AddSkipped(c, Cardinality(Open) - 1)
                  /\ phase' = "done" /\ exit' = ExitCode(critical, FALSE)
             ELSE verdict' = v /\ counts' = c /\ UNCHANGED <<phase, exit>>
    /\ cursor' = IF phase = "B" THEN cursor ELSE cursor + 1
    /\ UNCHANGED <<suite, attempt>>

-----------------------------------------------------------------------------
(* Phase B.                                                                *)

Finish ==
    /\ verdict' = SkipRest(verdict) /\ counts' = AddSkipped(counts, Cardinality(Open))
    /\ phase' = "done" /\ exit' = ExitCode(failedCritical, counts.failed = 0)
    /\ UNCHANGED <<suite, cursor, call, attempt, failedCritical>>

\* Phase A is over; a context that cannot be sent makes the checks run here.
EndA ==
    /\ phase = "A" /\ cursor > Len(suite.checks)
    /\ IF ~suite.parallel \/ Open = {} THEN Finish
       ELSE /\ IF suite.context THEN phase' = "B" /\ UNCHANGED cursor
                                ELSE phase' = "fallback" /\ cursor' = 1
            /\ UNCHANGED <<suite, call, attempt, tally, exit>>

\* start_one
StartOne(i) ==
    /\ phase = "B" /\ call[i] \in {"none", "again"} /\ i \in Open
    /\ Cardinality(Running) < suite.workers
    /\ attempt' = [attempt EXCEPT ![i] = @ + 1]
    /\ IF C(i).func
       THEN call' = [call EXCEPT ![i] = "child"] /\ UNCHANGED <<verdict, counts>>
       ELSE /\ call' = [call EXCEPT ![i] = "over"]
            /\ verdict' = [verdict EXCEPT ![i] = "failed"]
            /\ counts' = [counts EXCEPT !.failed = @ + 1]
    /\ UNCHANGED <<suite, phase, cursor, failedCritical, exit>>

\* (Weaker form: only if no check has failed.)
EndPassed == phase = "B" /\ Open = {} /\ counts.failed = 0 /\ Finish
EndB ==
    /\ \/ phase = "B" /\ Open = {}
       \/ phase = "fallback" /\ cursor > Len(suite.checks)
    /\ Finish

Attempting(i) == Return(i) \/ Answer(i) \/ TimeOut(i) \/ Retry(i) \/ Record(i) \/ StartOne(i)

SuiteNext == Begin \/ Skip \/ PassOver \/ Call \/ EndA \/ EndB \/ \E i \in All : Attempting(i)

-----------------------------------------------------------------------------
(* Properties.                                                             *)

\* A check that nobody stops: it hangs or waits for its result to be read, and
\* has no time limit that is enforced.
Stuck(i) == ~Limited(i) /\ (call[i] = "blocked" \/ (call[i] = "child" /\ C(i).hang))

Number(v) == Cardinality({i \in All : verdict[i] = v})

\* The payload adds up: every check has exactly one result, the counters count
\* them, a check that ran had all its dependencies passed, no process is left,
\* and the exit code says critical just when a critical check failed.
PayloadTrue ==
    phase = "done" /\ All # {} =>
        /\ Open = {} /\ Running = {}
        /\ counts = [passed |-> Number("passed"), failed |-> Number("failed"),
                     skipped |-> Number("skipped")]
        /\ \A i \in All : attempt[i] > 0 => \A d \in C(i).deps : d \in All /\ verdict[d] = "passed"
        /\ exit = "critical" <=> (\E i \in All : verdict[i] = "failed" /\ C(i).critical)
        /\ exit = "ok" => \A i \in All : verdict[i] = "passed" \/ verdict[i] = "skipped"

\* After a critical failure that stops the run no check is started any more.
Halted == (\E i \in All : verdict[i] = "failed" /\ C(i).critical /\ suite.stop) => phase = "done"
NothingAfterCritical == [][Halted /\ (phase = "done" => attempt' = attempt)]_suiteVars
=============================================================================
