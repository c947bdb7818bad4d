------------------------------ MODULE Automation ------------------------------
(* Jobs that the command line client gives the application                      *)
(* (automation/mod.rs, automation/dispatch.rs, cli/src/client.rs,               *)
(* cli/src/main.rs).  A request is answered at once with the number of a job;   *)
(* the client asks for the job until it has ended.  Replies may be lost.        *)
EXTENDS Naturals, FiniteSets

CONSTANTS
    Client,      \* clients
    Method,      \* methods: [mutating, confirmation]
    Permits,     \* 8: operations under way
    History,     \* 64: jobs that are kept
    Budget,      \* 64 MB: results that are kept, counted at their largest
    MaxJobs      \* bound: jobs

VARIABLES
    jobs,        \* Control.jobs: [status, old] for the number of each, in their order
    underway,    \* jobs that hold a permit: "spawned" or "dispatched"
    writer,      \* the job that holds Control.writes, 0 if none does
    cli,         \* what each client waits for: a job, 0 for nothing
    count        \* jobs so far

automationVars == <<jobs, underway, writer, cli, count>>

\* There are no more permits than places in the history.
AutomationConstants ==
    /\ Permits \in Nat /\ History \in Nat /\ Permits <= History
    /\ Budget \in Nat /\ MaxJobs \in Nat

AutomationInit ==
    /\ jobs = <<>> /\ underway = <<>> /\ writer = 0 /\ count = 0
    /\ cli = [c \in Client |-> 0]

Completed(job) == job.status \in {"complete", "failed"}

\* prune(): completed jobs expire; then the first of those that are left make room, as many
\* as it takes.  One stays if there was room without those before it.
Prune(js) ==
    LET kept == {t \in DOMAIN js : ~js[t].old}
        done == {t \in kept : Completed(js[t])}
        Left(n) == {t \in kept : t \in done => t > n}
        Fits(n) == /\ Cardinality(Left(n)) < History
                   /\ Cardinality({t \in Left(n) : js[t].status = "complete"}) <= Budget
    IN [t \in {u \in kept : u \in done => \E n \in done \cup {0} : n < u /\ Fits(n)} |-> js[t]]

With(f, t, x) == [u \in DOMAIN f \cup {t} |-> IF u = t THEN x ELSE f[u]]

\* connection(): the reply may come too late, or be lost with its pipe; the client then
\* knows of no job.
Reply(c, t) == cli' \in {cli, [cli EXCEPT ![c] = t]}

\* call() and submit(): a destructive method wants --yes, a dry run ends here, and more than
\* so many operations are refused.
Submit(c, m, yes, dry) ==
    /\ cli[c] = 0 /\ count < MaxJobs
    /\ IF dry \/ (m.confirmation /\ ~yes) \/ Cardinality(DOMAIN underway) >= Permits
       THEN UNCHANGED <<jobs, underway, cli, count>>
       ELSE /\ count' = count + 1
            /\ jobs' = With(Prune(jobs), count + 1, [status |-> "queued", old |-> FALSE])
            /\ underway' = With(underway, count + 1, [method |-> m, step |-> "spawned"])
            /\ Reply(c, count + 1)
    /\ UNCHANGED <<writer>>

SetStatus(t, status) == [jobs EXCEPT ![t].status = status]

\* The task of a mutation takes the lock of all mutations first.
Run(t) ==
    /\ t \in DOMAIN underway /\ underway[t].step = "spawned"
    /\ IF underway[t].method.mutating THEN writer = 0 /\ writer' = t ELSE UNCHANGED writer
    /\ jobs' = SetStatus(t, "running") /\ underway' = [underway EXCEPT ![t].step = "dispatched"]
    /\ UNCHANGED <<cli, count>>

\* dispatch(): the command of that name, which may fail.  A result that is too large counts
\* as a failure.
Dispatch == {"complete", "failed"}

\* Variant: the lock is kept.
FinishKeepsLock(t) ==
    /\ t \in DOMAIN underway /\ underway[t].step = "dispatched"
    /\ \E r \in Dispatch : jobs' = Prune(SetStatus(t, r))
    /\ underway' = [u \in DOMAIN underway \ {t} |-> underway[u]]
    /\ UNCHANGED <<writer, cli, count>>

Finish(t) ==
    /\ t \in DOMAIN underway /\ underway[t].step = "dispatched"
    /\ \E r \in Dispatch : jobs' = Prune(SetStatus(t, r))
    /\ underway' = [u \in DOMAIN underway \ {t} |-> underway[u]]
    /\ writer' = IF writer = t THEN 0 ELSE writer
    /\ UNCHANGED <<cli, count>>

\* Thirty minutes pass.
GrowOld(t) ==
    /\ t \in DOMAIN jobs /\ Completed(jobs[t]) /\ ~jobs[t].old
    /\ jobs' = [jobs EXCEPT ![t].old = TRUE]
    /\ UNCHANGED <<underway, writer, cli, count>>

\* jobs_get, polled by wait_job_at(): the client stops when the job has ended or is not
\* found, when the reply is lost, or when its own time is over.
Poll(c) ==
    /\ cli[c] # 0
    /\ jobs' = Prune(jobs)
    /\ \/ cli[c] \in DOMAIN jobs' /\ ~Completed(jobs'[cli[c]]) /\ UNCHANGED cli
       \/ cli' = [cli EXCEPT ![c] = 0]
    /\ UNCHANGED <<underway, writer, count>>

\* jobs_list
ListJobs ==
    /\ DOMAIN jobs # {} /\ jobs' = Prune(jobs)
    /\ UNCHANGED <<underway, writer, cli, count>>

AutomationNext ==
    \/ ListJobs
    \/ \E c \in Client : Poll(c) \/ \E m \in Method, yes, dry \in BOOLEAN : Submit(c, m, yes, dry)
    \/ \E t \in 1..MaxJobs : Run(t) \/ Finish(t) \/ GrowOld(t)

\* Tasks are spawned on the runtime of the application, and every command ends.
AutomationFairness ==
    \A t \in 1..MaxJobs : WF_automationVars(Run(t)) /\ WF_automationVars(Finish(t))

AutomationSpec == AutomationInit /\ [][AutomationNext]_automationVars /\ AutomationFairness

-----------------------------------------------------------------------------

\* A job that has not ended is never dropped to make room, however many others end
\* (prune in automation/mod.rs).
PendingKept == DOMAIN underway \subseteq DOMAIN jobs

\* Never two mutations at once (submit in automation/mod.rs).
OneMutation ==
    \A t, u \in DOMAIN underway : underway[t].step = "dispatched" /\ underway[u].step = "dispatched"
                               /\ underway[t].method.mutating /\ underway[u].method.mutating => t = u

\* The history stays within its limit, with operations under way that cannot be dropped
\* (HISTORY, and Semaphore::new(8)).
HistoryBounded ==
    /\ Cardinality(DOMAIN jobs) <= History
    /\ Cardinality({t \in DOMAIN jobs : jobs[t].status = "complete"}) <= Budget

\* Every job that was accepted ends: the lock of the mutations comes round to all of them.
JobsEnd == \A t \in 1..MaxJobs : (t \in DOMAIN underway) ~> (t \notin DOMAIN underway)
=============================================================================
