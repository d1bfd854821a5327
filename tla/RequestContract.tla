-------------------------- MODULE RequestContract --------------------------
(***************************************************************************)
(* What the system promises about a download request, as its user and the  *)
(* operator see it: the row's status, whether the file was handed to       *)
(* Telegram, whether it has arrived, and whether the user was told of a    *)
(* failure.  Queue, attempts, retries, crashes and time are absent.        *)
(* DownloadLifecycle implements it as long as an enqueue that raises has   *)
(* not put the job on the queue.                                           *)
(*                                                                         *)
(* What Telegram was given arrives when Telegram is done with it, so it    *)
(* may arrive although the request has failed and the user was told so:    *)
(* the upload's reply, or the final update, was lost.                      *)
(***************************************************************************)
CONSTANT Request

VARIABLES
    status,  \* "absent", "pending", "processing", "done", "failed"
    sent,    \* the requests whose file was handed to Telegram
    file,    \* the requests whose file the user has
    told     \* the requests the user was told have failed

vars == <<status, sent, file, told>>

Init ==
    /\ status = [r \in Request |-> "absent"]
    /\ sent = {}
    /\ file = {}
    /\ told = {}

\* The bot saves the request.
Accept(r) ==
    /\ status[r] = "absent"
    /\ status' = [status EXCEPT ![r] = "pending"]
    /\ UNCHANGED <<sent, file, told>>

\* A job claims it.
Claim(r) ==
    /\ status[r] = "pending"
    /\ status' = [status EXCEPT ![r] = "processing"]
    /\ UNCHANGED <<sent, file, told>>

\* The file is handed to Telegram, of a request that is being processed and
\* whose user was told nothing.
Deliver(r) ==
    /\ status[r] = "processing"
    /\ r \notin told
    /\ sent' = sent \cup {r}
    /\ UNCHANGED <<status, file, told>>

\* Telegram shows it to the user, whatever became of the request meanwhile.
Arrive(r) ==
    /\ r \in sent
    /\ file' = file \cup {r}
    /\ UNCHANGED <<status, sent, told>>

\* Done means the user has the file.
Succeed(r) ==
    /\ status[r] = "processing"
    /\ r \in file
    /\ status' = [status EXCEPT ![r] = "done"]
    /\ UNCHANGED <<sent, file, told>>

\* Some active requests fail: one by its job, or a batch by the reaper.
Fail ==
    /\ \E S \in SUBSET {r \in Request : status[r] \in {"pending", "processing"}} :
         status' = [r \in Request |-> IF r \in S THEN "failed" ELSE status[r]]
    /\ UNCHANGED <<sent, file, told>>

\* Only a failed request is reported as failed.
Tell(r) ==
    /\ status[r] = "failed"
    /\ told' = told \cup {r}
    /\ UNCHANGED <<status, sent, file>>

Next ==
    \/ \E r \in Request : Accept(r) \/ Claim(r) \/ Deliver(r) \/ Arrive(r)
                          \/ Succeed(r) \/ Tell(r)
    \/ Fail

Spec == Init /\ [][Next]_vars

=============================================================================
