------------------------------- MODULE PkJobs -------------------------------
(***************************************************************************)
(* What the backend object promises the transactions that it runs, whether *)
(* a backend works in a thread or in a helper process: jobs come one at a  *)
(* time; each is reported once, to the transaction that started it, when   *)
(* the backend is through with it; and as a success only if the backend    *)
(* carried it out and noted no error.                                      *)
(*                                                                         *)
(* A backend that outlives a time-out of the daemon has lapsed.  From then *)
(* on a job may be reported while the backend is still at it, and as       *)
(* something that it is not; it is still reported once.                    *)
(***************************************************************************)
EXTENDS Integers

CONSTANT MaxJob        \* bound: jobs started

Job == 1..MaxJob

VARIABLES
  job,                 \* jobs started so far: the number of the current one
  open,                \* its transaction waits for the end
  work,                \* what the backend made of it
  failed,              \* an error was noted for it
  told,                \* what each transaction was told
  lapsed               \* the backend outlived a time-out
vars == <<job, open, work, failed, told, lapsed>>

Init ==
  /\ job = 0
  /\ open = FALSE /\ work = "none" /\ failed = FALSE
  /\ told = [j \in Job |-> "none"]
  /\ lapsed \in BOOLEAN

Start ==
  /\ ~open /\ job < MaxJob
  /\ job' = job + 1
  /\ open' = TRUE /\ work' = "going" /\ failed' = FALSE
  /\ UNCHANGED <<told, lapsed>>

\* A job that does not get to the backend.
Refuse ==
  /\ ~open /\ job < MaxJob
  /\ job' = job + 1
  /\ told' = [told EXCEPT ![job'] = "failure"]
  /\ UNCHANGED <<open, work, failed, lapsed>>

\* The backend goes on with the job, to its end or not; errors are kept.
Work ==
  /\ open
  /\ work' = work \/ (work = "going" /\ work' \in {"complete", "broken"})
  /\ failed' \in {failed, TRUE}
  /\ UNCHANGED <<job, open, told, lapsed>>

Report(outcome) ==
  /\ open
  /\ told[job] = "none"
  /\ lapsed \/ /\ work # "going"
               /\ outcome = "success" => work = "complete" /\ ~failed
  /\ told' = [told EXCEPT ![job] = outcome]
  /\ open' = FALSE /\ work' = "none" /\ failed' = FALSE
  /\ UNCHANGED <<job, lapsed>>

Lapse ==
  /\ lapsed' = TRUE
  /\ UNCHANGED <<job, open, work, failed, told>>

Next ==
  \/ Start \/ Refuse \/ Work \/ Lapse
  \/ \E outcome \in {"success", "failure"} : Report(outcome)

Spec == Init /\ [][Next]_vars
=============================================================================
