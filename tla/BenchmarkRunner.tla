--------------------------- MODULE BenchmarkRunner ---------------------------
(***************************************************************************)
(* tools/benchmark_runner.py: processes that run the tasks of a benchmark  *)
(* plan one by one, each in a child process, and keep the results on disk. *)
(* A runner is one operating-system process, from its start to its end: it *)
(* takes a lock on the output directory, skips the tasks that are already  *)
(* complete, runs the others, records every attempt and rebuilds the       *)
(* tables.  It can be killed between any two steps, interrupted by a       *)
(* signal, and its child can hang, fail or leave processes behind.         *)
(*                                                                         *)
(* A task (a `series' is one task too) is kept under its key: the          *)
(* fingerprint of the measurement and the task.  A runner attempts a key   *)
(* at most once, so that the runner itself names the attempt, its log and  *)
(* the result it measured.  Every file is written to a temporary name,     *)
(* flushed and renamed, so that a write is one step and what was written   *)
(* survives the process.  The tables are the sets of their rows.           *)
(***************************************************************************)
EXTENDS Naturals

CONSTANTS Runners,        \* the runner processes there will ever be
          Fingerprints,   \* what a plan, its binary and its meshes hash to
          Tasks,          \* the tasks of the plan
          None            \* no runner, no file, no value

VARIABLES
    lock,         \* the runner that holds the flock of .runner.lock
    pc,           \* where each runner is
    fingerprint,  \* the fingerprint of the plan each runner was given
    resume,       \* not --no-resume
    todo,         \* the tasks each runner has still to look at
    key,          \* the task under way: <<fingerprint, task>>
    abandoned,    \* whether a second signal broke off the termination
    outcome,      \* the state the attempt under way is recorded with
    digest,       \* sha256 of benchmark.json as the runner computed it
    clean,        \* whether the exit code is still to be 0
    rows,         \* the rows collect_rows returned
    written,      \* how many of the four tables rebuild_csv has written
    leader,       \* whether the child of each runner is alive
    descendant,   \* whether a process the child started is alive
    good,         \* whether the child ended with 0 and wrote a valid result
    result,       \* benchmark.json of each key: who measured it
    status,       \* status.json of each key
    attempts,     \* attempts/<id>.status.json of each runner and key
    tables        \* results.csv and summary.csv, of the root and of a fingerprint

ownMemory == <<fingerprint, resume, todo, key, abandoned, outcome, digest, clean,
               rows, written>>
processes == <<leader, descendant, good>>
files == <<result, status, attempts, tables>>
runnerVars == <<lock, pc, ownMemory, processes, files>>

Keys == Fingerprints \X Tasks

\* States of an attempt, as status.json spells them.
Ended == {"complete", "failed", "timeout", "interrupted"}

\* status.json, restricted to what `completed' and collect_rows read of it.
Status == [state : Ended, attempt : Runners, digest : Runners \cup {None}]

ASSUME NoneAssumption == None \notin Runners \cup Fingerprints \cup Keys \cup Status

\* A row: the log the status names beside the figures of the result file.
Row == [key : Keys, attempt : Runners, measured : Runners]

\* The four tables in the order rebuild_csv writes them.
Places(f) == << <<"root", "results">>, <<f, "results">>,
                <<"root", "summary">>, <<f, "summary">> >>
Tables == ({"root"} \cup Fingerprints) \X {"results", "summary"}

\* The steps of a runner: outside the lock, inside it.
Outside == {"new", "gone"}
Inside == {"loop", "spawn", "wait", "poll", "sigterm", "grace", "sigkill",
           "reap", "publish", "digest", "attempt", "status", "collect",
           "write", "unlock"}

\* Where terminate_process_group is at work.
Terminating == {"poll", "sigterm", "grace", "sigkill", "reap"}

RunnerInit ==
    /\ lock = None
    /\ pc = [r \in Runners |-> "new"]
    /\ fingerprint = [r \in Runners |-> None]
    /\ resume = [r \in Runners |-> TRUE]
    /\ todo = [r \in Runners |-> {}]
    /\ key = [r \in Runners |-> None]
    /\ abandoned = [r \in Runners |-> FALSE]
    /\ outcome = [r \in Runners |-> "none"]
    /\ digest = [r \in Runners |-> None]
    /\ clean = [r \in Runners |-> TRUE]
    /\ rows = [r \in Runners |-> {}]
    /\ written = [r \in Runners |-> 0]
    /\ leader = [r \in Runners |-> FALSE]
    /\ descendant = [r \in Runners |-> FALSE]
    /\ good = [r \in Runners |-> FALSE]
    /\ result = [k \in Keys |-> None]
    /\ status = [k \in Keys |-> None]
    /\ attempts = [r \in Runners |-> [k \in Keys |-> "none"]]
    /\ tables = [p \in Tables |-> {}]

-----------------------------------------------------------------------------
(* What is on disk *)

\* Mutant: the sha256 is not compared.
CompletedUnverified(k) ==
    /\ status[k] # None
    /\ status[k].state = "complete"
    /\ result[k] # None

\* completed(): the status is complete and describes the result that is there.
\* A result is only ever published valid, under the key of its fingerprint.
Completed(k) ==
    /\ status[k] # None
    /\ status[k].state = "complete"
    /\ result[k] # None
    /\ status[k].digest = result[k]

\* collect_rows(): one row for every complete task of the fingerprint.
CollectRows(f) ==
    { [key |-> k, attempt |-> status[k].attempt, measured |-> result[k]] :
        k \in {x \in {f} \X Tasks : Completed(x)} }

-----------------------------------------------------------------------------
(* Starting, and taking the lock *)

\* The command line and the plan are read, which touches nothing shared, then
\* flock(LOCK_EX | LOCK_NB).
Start(r) ==
    /\ pc[r] = "new"
    /\ lock = None
    /\ lock' = r
    /\ \E f \in Fingerprints, again \in BOOLEAN :
          /\ fingerprint' = [fingerprint EXCEPT ![r] = f]
          /\ resume' = [resume EXCEPT ![r] = ~again]
    /\ todo' = [todo EXCEPT ![r] = Tasks]
    /\ pc' = [pc EXCEPT ![r] = "loop"]
    /\ UNCHANGED <<key, abandoned, outcome, digest, clean, rows, written,
                   processes, files>>

\* `another benchmark runner owns' the lock: the process ends.
Refused(r) ==
    /\ pc[r] = "new"
    /\ lock # None
    /\ pc' = [pc EXCEPT ![r] = "gone"]
    /\ UNCHANGED <<lock, ownMemory, processes, files>>

-----------------------------------------------------------------------------
(* The loop over the tasks.  The order is a shuffle: any order.            *)

\* The task is complete and the runner resumes: on to the next.
Skip(r) ==
    /\ pc[r] = "loop"
    /\ resume[r]
    /\ \E t \in todo[r] :
          /\ Completed(<<fingerprint[r], t>>)
          /\ todo' = [todo EXCEPT ![r] = @ \ {t}]
    /\ UNCHANGED <<lock, pc, fingerprint, resume, key, abandoned, outcome, digest,
                   clean, rows, written, processes, files>>

\* Mutant: a task is run again whether or not it is complete.
BeginAlways(r) ==
    /\ pc[r] = "loop"
    /\ \E t \in todo[r] :
          LET k == <<fingerprint[r], t>> IN
          /\ todo' = [todo EXCEPT ![r] = @ \ {t}]
          /\ key' = [key EXCEPT ![r] = k]
          /\ attempts' = [attempts EXCEPT ![r][k] = "running"]
    /\ outcome' = [outcome EXCEPT ![r] = "none"]
    /\ digest' = [digest EXCEPT ![r] = None]
    /\ pc' = [pc EXCEPT ![r] = "spawn"]
    /\ UNCHANGED <<lock, fingerprint, resume, abandoned, clean, rows, written,
                   processes, result, status, tables>>

\* run_task() begins: the attempt is recorded as running.
Begin(r) ==
    /\ pc[r] = "loop"
    /\ \E t \in todo[r] :
          LET k == <<fingerprint[r], t>> IN
          /\ ~resume[r] \/ ~Completed(k)
          /\ todo' = [todo EXCEPT ![r] = @ \ {t}]
          /\ key' = [key EXCEPT ![r] = k]
          /\ attempts' = [attempts EXCEPT ![r][k] = "running"]
    /\ outcome' = [outcome EXCEPT ![r] = "none"]
    /\ digest' = [digest EXCEPT ![r] = None]
    /\ pc' = [pc EXCEPT ![r] = "spawn"]
    /\ UNCHANGED <<lock, fingerprint, resume, abandoned, clean, rows, written,
                   processes, result, status, tables>>

\* Mutant: no rebuild after the loop.
EndLoopAtOnce(r) ==
    /\ pc[r] = "loop"
    /\ todo[r] = {}
    /\ key' = [key EXCEPT ![r] = None]
    /\ pc' = [pc EXCEPT ![r] = "unlock"]
    /\ UNCHANGED <<lock, fingerprint, resume, todo, abandoned, outcome, digest,
                   clean, rows, written, processes, files>>

\* The loop is over: no task is under way, and the last rebuild_csv begins.
EndLoop(r) ==
    /\ pc[r] = "loop"
    /\ todo[r] = {}
    /\ key' = [key EXCEPT ![r] = None]
    /\ pc' = [pc EXCEPT ![r] = "collect"]
    /\ UNCHANGED <<lock, fingerprint, resume, todo, abandoned, outcome, digest,
                   clean, rows, written, processes, files>>

-----------------------------------------------------------------------------
(* The child.  It may start processes of its own, which stay in its group. *)

\* Popen succeeds.
Spawn(r) ==
    /\ pc[r] = "spawn"
    /\ leader' = [leader EXCEPT ![r] = TRUE]
    /\ \E d \in BOOLEAN : descendant' = [descendant EXCEPT ![r] = d]
    /\ good' = [good EXCEPT ![r] = FALSE]
    /\ pc' = [pc EXCEPT ![r] = "wait"]
    /\ UNCHANGED <<lock, ownMemory, files>>

\* Popen, or opening the log, raises OSError.
SpawnFails(r) ==
    /\ pc[r] = "spawn"
    /\ outcome' = [outcome EXCEPT ![r] = "failed"]
    /\ pc' = [pc EXCEPT ![r] = "attempt"]
    /\ UNCHANGED <<lock, fingerprint, resume, todo, key, abandoned, digest, clean,
                   rows, written, processes, files>>

\* The child ends by itself, with a valid result and return code 0 or not.
LeaderExits(r) ==
    /\ leader[r]
    /\ leader' = [leader EXCEPT ![r] = FALSE]
    /\ \E g \in BOOLEAN : good' = [good EXCEPT ![r] = g]
    /\ UNCHANGED <<lock, pc, ownMemory, descendant, files>>

DescendantExits(r) ==
    /\ descendant[r]
    /\ descendant' = [descendant EXCEPT ![r] = FALSE]
    /\ UNCHANGED <<lock, pc, ownMemory, leader, good, files>>

\* process.wait returns; unit_result_is_valid decides.
Waited(r) ==
    /\ pc[r] = "wait"
    /\ ~leader[r]
    /\ outcome' = [outcome EXCEPT ![r] = IF good[r] THEN "complete" ELSE "failed"]
    /\ good' = [good EXCEPT ![r] = FALSE]
    /\ pc' = [pc EXCEPT ![r] = IF good[r] THEN "publish" ELSE "attempt"]
    /\ UNCHANGED <<lock, fingerprint, resume, todo, key, abandoned, digest, clean,
                   rows, written, leader, descendant, files>>

\* TimeoutExpired: the child was alive when its time was over.
Timeout(r) ==
    /\ pc[r] = "wait"
    /\ leader[r]
    /\ outcome' = [outcome EXCEPT ![r] = "timeout"]
    /\ pc' = [pc EXCEPT ![r] = "poll"]
    /\ UNCHANGED <<lock, fingerprint, resume, todo, key, abandoned, digest, clean,
                   rows, written, processes, files>>

\* SIGTERM, SIGHUP or SIGINT reaches the runner while it waits.
Signal(r) ==
    /\ pc[r] = "wait"
    /\ outcome' = [outcome EXCEPT ![r] = "interrupted"]
    /\ pc' = [pc EXCEPT ![r] = "poll"]
    /\ UNCHANGED <<lock, fingerprint, resume, todo, key, abandoned, digest, clean,
                   rows, written, processes, files>>

-----------------------------------------------------------------------------
(* terminate_process_group()                                               *)

\* poll(): the leader has ended, and the function returns at once.
AlreadyEnded(r) ==
    /\ pc[r] = "poll"
    /\ ~leader[r]
    /\ pc' = [pc EXCEPT ![r] = "attempt"]
    /\ UNCHANGED <<lock, ownMemory, processes, files>>

StillRunning(r) ==
    /\ pc[r] = "poll"
    /\ leader[r]
    /\ pc' = [pc EXCEPT ![r] = "sigterm"]
    /\ UNCHANGED <<lock, ownMemory, processes, files>>

\* killpg(SIGTERM): each process of the group ends or ignores it.
SigTerm(r) ==
    /\ pc[r] = "sigterm"
    /\ \E l \in {FALSE, leader[r]}, d \in {FALSE, descendant[r]} :
          /\ leader' = [leader EXCEPT ![r] = l]
          /\ descendant' = [descendant EXCEPT ![r] = d]
    /\ pc' = [pc EXCEPT ![r] = "grace"]
    /\ UNCHANGED <<lock, ownMemory, good, files>>

\* process.wait(timeout=grace_seconds) returns or gives up.
Grace(r) ==
    /\ pc[r] = "grace"
    /\ pc' = [pc EXCEPT ![r] = "sigkill"]
    /\ UNCHANGED <<lock, ownMemory, processes, files>>

\* Mutant: the group is asked to end a second time instead of killed.
SigTermAgain(r) ==
    /\ pc[r] = "sigkill"
    /\ \E l \in {FALSE, leader[r]}, d \in {FALSE, descendant[r]} :
          /\ leader' = [leader EXCEPT ![r] = l]
          /\ descendant' = [descendant EXCEPT ![r] = d]
    /\ pc' = [pc EXCEPT ![r] = "reap"]
    /\ UNCHANGED <<lock, ownMemory, good, files>>

\* killpg(SIGKILL): nobody ignores it.
SigKill(r) ==
    /\ pc[r] = "sigkill"
    /\ leader' = [leader EXCEPT ![r] = FALSE]
    /\ descendant' = [descendant EXCEPT ![r] = FALSE]
    /\ pc' = [pc EXCEPT ![r] = "reap"]
    /\ UNCHANGED <<lock, ownMemory, good, files>>

\* process.wait() without a limit.
Reap(r) ==
    /\ pc[r] = "reap"
    /\ ~leader[r]
    /\ pc' = [pc EXCEPT ![r] = "attempt"]
    /\ UNCHANGED <<lock, ownMemory, processes, files>>

\* Mutant: the second signal ends the wait, and the attempt stays a timeout.
AbandonAsTimeout(r) ==
    /\ pc[r] \in Terminating
    /\ pc' = [pc EXCEPT ![r] = "attempt"]
    /\ UNCHANGED <<lock, ownMemory, processes, files>>

\* A second SIGTERM or SIGHUP: the handlers are still those of wait_for_child,
\* and RunnerInterrupted leaves terminate_process_group where it is.
Abandon(r) ==
    /\ pc[r] \in Terminating
    /\ abandoned' = [abandoned EXCEPT ![r] = TRUE]
    /\ outcome' = [outcome EXCEPT ![r] = "interrupted"]
    /\ pc' = [pc EXCEPT ![r] = "attempt"]
    /\ UNCHANGED <<lock, fingerprint, resume, todo, key, digest, clean,
                   rows, written, processes, files>>

\* A second SIGINT: KeyboardInterrupt, which nobody catches any more; only the
\* lock is released on the way out.
Unwind(r) ==
    /\ pc[r] \in Terminating
    /\ abandoned' = [abandoned EXCEPT ![r] = TRUE]
    /\ clean' = [clean EXCEPT ![r] = FALSE]
    /\ rows' = [rows EXCEPT ![r] = {}]
    /\ key' = [key EXCEPT ![r] = None]
    /\ pc' = [pc EXCEPT ![r] = "unlock"]
    /\ UNCHANGED <<lock, fingerprint, resume, todo, outcome, digest, written,
                   processes, files>>

-----------------------------------------------------------------------------
(* The end of run_task(): the result, the attempt, the status              *)

\* The temporary result is flushed and renamed to benchmark.json.
Publish(r) ==
    /\ pc[r] = "publish"
    /\ result' = [result EXCEPT ![key[r]] = r]
    /\ pc' = [pc EXCEPT ![r] = "digest"]
    /\ UNCHANGED <<lock, ownMemory, processes, status, attempts, tables>>

\* sha256_file of what is there now.
Digest(r) ==
    /\ pc[r] = "digest"
    /\ digest' = [digest EXCEPT ![r] = result[key[r]]]
    /\ pc' = [pc EXCEPT ![r] = "attempt"]
    /\ UNCHANGED <<lock, fingerprint, resume, todo, key, abandoned, outcome, clean,
                   rows, written, processes, files>>

\* Mutant: the attempt is left as it was.
RecordNoAttempt(r) ==
    /\ pc[r] = "attempt"
    /\ pc' = [pc EXCEPT ![r] = "status"]
    /\ UNCHANGED <<lock, ownMemory, processes, files>>

RecordAttempt(r) ==
    /\ pc[r] = "attempt"
    /\ attempts' = [attempts EXCEPT ![r][key[r]] = outcome[r]]
    /\ pc' = [pc EXCEPT ![r] = "status"]
    /\ UNCHANGED <<lock, ownMemory, processes, result, status, tables>>

\* status.json, and what run_task returns to the loop.
RecordStatus(r) ==
    /\ pc[r] = "status"
    /\ status' = [status EXCEPT ![key[r]] =
                    [state |-> outcome[r], attempt |-> r, digest |-> digest[r]]]
    /\ clean' = [clean EXCEPT ![r] = @ /\ outcome[r] = "complete"]
    /\ pc' = [pc EXCEPT ![r] = "collect"]
    /\ UNCHANGED <<lock, fingerprint, resume, todo, key, abandoned, outcome, digest,
                   rows, written, processes, result, attempts, tables>>

-----------------------------------------------------------------------------
(* rebuild_csv(), and the end of the process                               *)

Collect(r) ==
    /\ pc[r] = "collect"
    /\ rows' = [rows EXCEPT ![r] = CollectRows(fingerprint[r])]
    /\ written' = [written EXCEPT ![r] = 0]
    /\ pc' = [pc EXCEPT ![r] = "write"]
    /\ UNCHANGED <<lock, fingerprint, resume, todo, key, abandoned, outcome, digest,
                   clean, processes, files>>

\* One table; after the fourth, on to the next task, or out: after the last
\* rebuild, or because run_task raises RunnerInterrupted once more.
WriteTable(r) ==
    LET last == written[r] = 3
        over == key[r] = None \/ outcome[r] = "interrupted"
    IN
    /\ pc[r] = "write"
    /\ tables' = [tables EXCEPT ![Places(fingerprint[r])[written[r] + 1]] = rows[r]]
    /\ written' = [written EXCEPT ![r] = IF last THEN 0 ELSE @ + 1]
    /\ rows' = [rows EXCEPT ![r] = IF last THEN {} ELSE @]
    /\ pc' = [pc EXCEPT ![r] = IF ~last THEN "write"
                               ELSE IF over THEN "unlock" ELSE "loop"]
    /\ UNCHANGED <<lock, fingerprint, resume, todo, key, abandoned, outcome,
                   digest, clean, processes, result, status, attempts>>

\* The memory of a process ends with it.
Forget(r) ==
    /\ fingerprint' = [fingerprint EXCEPT ![r] = None]
    /\ resume' = [resume EXCEPT ![r] = TRUE]
    /\ todo' = [todo EXCEPT ![r] = {}]
    /\ key' = [key EXCEPT ![r] = None]
    /\ abandoned' = [abandoned EXCEPT ![r] = FALSE]
    /\ outcome' = [outcome EXCEPT ![r] = "none"]
    /\ digest' = [digest EXCEPT ![r] = None]
    /\ clean' = [clean EXCEPT ![r] = TRUE]
    /\ rows' = [rows EXCEPT ![r] = {}]
    /\ written' = [written EXCEPT ![r] = 0]

\* The finally of output_lock, and the end of the process.
Unlock(r) ==
    /\ pc[r] = "unlock"
    /\ lock' = None
    /\ pc' = [pc EXCEPT ![r] = "gone"]
    /\ Forget(r)
    /\ UNCHANGED <<processes, files>>

\* SIGKILL, or a signal or an error nobody handles, at any moment: the system
\* gives the lock back.
Kill(r) ==
    /\ pc[r] \in Inside
    /\ pc' = [pc EXCEPT ![r] = "gone"]
    /\ lock' = None
    /\ Forget(r)
    /\ UNCHANGED <<processes, files>>

\* PR_SET_PDEATHSIG: the child of a runner that is gone is killed.
ParentDeath(r) ==
    /\ pc[r] = "gone"
    /\ leader[r]
    /\ leader' = [leader EXCEPT ![r] = FALSE]
    /\ UNCHANGED <<lock, pc, ownMemory, descendant, good, files>>

\* What a runner does by itself.
RunnerStep(r) ==
    \/ Skip(r) \/ Begin(r) \/ EndLoop(r)
    \/ Spawn(r) \/ SpawnFails(r) \/ Waited(r) \/ Timeout(r)
    \/ AlreadyEnded(r) \/ StillRunning(r) \/ SigTerm(r) \/ Grace(r)
    \/ SigKill(r) \/ Reap(r)
    \/ Publish(r) \/ Digest(r) \/ RecordAttempt(r) \/ RecordStatus(r)
    \/ Collect(r) \/ WriteTable(r) \/ Unlock(r)

\* What the world does to it.
Environment(r) ==
    \/ Start(r) \/ Refused(r) \/ Signal(r) \/ Abandon(r) \/ Unwind(r) \/ Kill(r)
    \/ LeaderExits(r) \/ DescendantExits(r) \/ ParentDeath(r)

RunnerNext == \E r \in Runners : RunnerStep(r) \/ Environment(r)

\* A runner that can go on does; nothing is assumed of signals, nor of its child,
\* which may hang for ever: the time it is given does run out.
RunnerSpec ==
  RunnerInit /\ [][RunnerNext]_runnerVars /\ \A r \in Runners : WF_runnerVars(RunnerStep(r))

-----------------------------------------------------------------------------
(* Properties *)

\* The values the variables range over.
RunnerTypeOK ==
    /\ lock \in Runners \cup {None}
    /\ pc \in [Runners -> Outside \cup Inside]
    /\ fingerprint \in [Runners -> Fingerprints \cup {None}]
    /\ resume \in [Runners -> BOOLEAN]
    /\ todo \in [Runners -> SUBSET Tasks]
    /\ key \in [Runners -> Keys \cup {None}]
    /\ abandoned \in [Runners -> BOOLEAN]
    /\ outcome \in [Runners -> Ended \cup {"none"}]
    /\ digest \in [Runners -> Runners \cup {None}]
    /\ clean \in [Runners -> BOOLEAN]
    /\ rows \in [Runners -> SUBSET Row]
    /\ written \in [Runners -> 0..3]
    /\ leader \in [Runners -> BOOLEAN]
    /\ descendant \in [Runners -> BOOLEAN]
    /\ good \in [Runners -> BOOLEAN]
    /\ result \in [Keys -> Runners \cup {None}]
    /\ status \in [Keys -> Status \cup {None}]
    /\ attempts \in [Runners -> [Keys -> Ended \cup {"none", "running"}]]
    /\ tables \in [Tables -> SUBSET Row]

\* No row of a table joins the log of one attempt to the figures of another,
\* whatever runner was killed between publishing a result and recording it
\* (README.md: only hash-verified complete JSON contributes to CSV output).
RowsCoherent ==
    \A p \in Tables : \A w \in tables[p] : w.attempt = w.measured

\* status.json repeats what the attempt's own file says, so that the history of
\* the attempts explains the status after a crash.
StatusHasAttempt ==
    \A k \in Keys : status[k] # None =>
        attempts[status[k].attempt][k] = status[k].state

\* Every recorded value is one the attempts explain.
Explained == RunnerTypeOK /\ StatusHasAttempt

\* When a runner leaves by itself, with or without success, interrupted or not,
\* the four tables list exactly what is complete, even what a runner killed
\* before it could rebuild them had measured.  The one way out that rebuilds
\* nothing is the KeyboardInterrupt of a second SIGINT.
TablesCurrent ==
    \A r \in Runners :
        (pc[r] = "unlock" /\ ~(key[r] = None /\ abandoned[r])) =>
            LET f == fingerprint[r] IN
            \A i \in 1..4 : tables[Places(f)[i]] = CollectRows(f)

\* Exit code 0 says that every task of the plan is complete.
SuccessMeansComplete ==
    \A r \in Runners :
        (pc[r] = "unlock" /\ clean[r]) =>
            \A t \in Tasks : Completed(<<fingerprint[r], t>>)

\* What a runner leaves behind when it exits is what it reports.
ExitsCurrent == TablesCurrent /\ SuccessMeansComplete

\* A task is measured with the child of the task before gone, however its
\* termination was disturbed.
NextTaskAlone ==
    \A r \in Runners : pc[r] = "spawn" => ~leader[r]

\* Only a runner told not to resume takes a complete task back (README.md:
\* successful runs are resumable).
CompleteIsKept ==
    [][\A k \in Keys : (Completed(k) /\ ~Completed(k)') =>
          \E r \in Runners : lock = r /\ ~resume[r] /\ key[r] = k]_runnerVars

\* A runner does not hold the lock for ever, whatever its children do.
LockReleased ==
    \A r \in Runners : (lock = r) ~> (lock # r)

\* terminate_process_group leaves nobody of the group behind when it returns
\* (its comment: `Always probe and kill the remaining group before returning').
GroupKilledOnReturn ==
    [][\A r \in Runners :
          (pc[r] \in Terminating /\ pc'[r] = "attempt" /\ ~abandoned'[r]) =>
              ~leader'[r] /\ ~descendant'[r]]_runnerVars
=============================================================================
