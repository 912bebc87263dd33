--------------------------- MODULE DeployProtocol ---------------------------
(***************************************************************************)
(* What the agent's Executor promises whoever listens to its progress      *)
(* reports (internal/agent/deploy/deploy.go, progress.go): one call of     *)
(* Execute walks through the phases of a DeployRun in order, announces and *)
(* closes each of them, and ends with exactly one last word.  How the      *)
(* executor comes to its reports is module AgentDeploy, which implements   *)
(* this one; module AgentBoot builds on it.                                *)
(***************************************************************************)
EXTENDS Naturals, Sequences

VARIABLES
    last,      \* the report sent last by this call of Execute, or NoReport
    executing  \* a call of Execute that accepted its plan is under way

\* The phases Execute reports, in order: api/v1alpha3/deployrun_types.go.
Phases == <<"Partitioning", "WritingContent", "RunningPostHook", "Finalizing",
            "Succeeded">>

\* The ProgressState constants of internal/agentapi.
States == {"running", "succeeded", "failed"}

NoReport == <<"", "">>

Reports == {Phases[i] : i \in DOMAIN Phases} \X States

\* A phase begins with "running" and is repeated while there is progress;
\* the terminal phase has no work of its own and is only "succeeded".
Opens(i) == <<Phases[i], IF i = Len(Phases) THEN "succeeded" ELSE "running">>

\* The reports that may come after r.  A phase that has begun succeeds or
\* fails; the next begins only after a success.  The first phase may fail
\* before it begins, when a disk does not fit the plan, and the terminal one
\* after it succeeded, when the machine cannot be rebooted.
PhaseOf(r) == CHOOSE j \in DOMAIN Phases : Phases[j] = r[1]
After(r) ==
    {s \in Reports :
        \/ r = NoReport /\ s \in {Opens(1), <<Phases[1], "failed">>}
        \/ r[2] = "running" /\ s[1] = r[1]
        \/ /\ r[2] = "succeeded"
           /\ s = IF PhaseOf(r) < Len(Phases) THEN Opens(PhaseOf(r) + 1) ELSE <<r[1], "failed">>}

\* The reports a call may end with.
LastWords == {r \in Reports : r[2] = "failed"} \cup {Opens(Len(Phases))}

TypeOK ==
    /\ last \in Reports \cup {NoReport}
    /\ executing \in BOOLEAN

Init ==
    /\ last = NoReport
    /\ executing = FALSE

Begin ==
    /\ ~executing
    /\ executing' = TRUE
    /\ last' = NoReport

Send ==
    /\ executing
    /\ last' \in After(last)
    /\ UNCHANGED executing

Return ==
    /\ executing
    /\ last \in LastWords
    /\ executing' = FALSE
    /\ UNCHANGED last

\* The agent dies with its machine: a power cycle, or the reboot that ends a
\* deploy.
Die ==
    /\ executing' = FALSE
    /\ last' = NoReport

Next == Begin \/ Send \/ Return \/ Die

Spec == Init /\ [][Next]_<<last, executing>>
=============================================================================
