------------------------- MODULE SearchJobLifecycle -------------------------
(***************************************************************************)
(* What the job API promises a client that polls one search identifier     *)
(* (contracts/README.md, section 2): the sequence of answers to            *)
(* GET /search-jobs/{id}.  Nothing here knows of tasks, semaphores, time   *)
(* to live or capacity: a job is accepted, may start, settles once with    *)
(* either offers or an error, and its settled answer is later forgotten.   *)
(***************************************************************************)
CONSTANT JobIds        \* every search identifier the service may issue

VARIABLE answer        \* answer[id]: what a poll of id would be told

FailureCodes == {"adapter_unavailable", "search_failed", "search_cancelled"}

Pending(status) == [status |-> status, result |-> "none", error |-> "none"]
Completed       == [status |-> "completed", result |-> "offers", error |-> "none"]
Failed(code)    == [status |-> "failed", result |-> "none", error |-> code]

\* HTTP 404: an identifier never issued, or one no longer kept.
Absent == Pending("absent")
Gone   == Pending("gone")

ActiveAnswers  == {Pending("queued"), Pending("running")}
SettledAnswers == {Completed} \cup {Failed(code) : code \in FailureCodes}

Init == answer = [id \in JobIds |-> Absent]

\* A job is admitted as queued; at most one settled answer makes room for it.
Accept(id) ==
    /\ answer[id] = Absent
    /\ \E dropped \in {{}} \cup {{other} : other \in JobIds} :
          /\ \A other \in dropped : answer[other] \in SettledAnswers
          /\ answer' = [other \in JobIds |->
                            IF other = id THEN Pending("queued")
                            ELSE IF other \in dropped THEN Gone
                            ELSE answer[other]]

Start(id) ==
    /\ answer[id] = Pending("queued")
    /\ answer' = [answer EXCEPT ![id] = Pending("running")]

Complete(id) ==
    /\ answer[id] = Pending("running")
    /\ answer' = [answer EXCEPT ![id] = Completed]

Fail(id) ==
    /\ answer[id] \in ActiveAnswers
    /\ \E code \in FailureCodes :
          answer' = [answer EXCEPT ![id] = Failed(code)]

\* Settled answers expire, any number of them at one instant.
Forget ==
    \E expired \in SUBSET JobIds :
        /\ \A id \in expired : answer[id] \in SettledAnswers
        /\ answer' = [id \in JobIds |->
                          IF id \in expired THEN Gone ELSE answer[id]]

Next ==
    \/ \E id \in JobIds : Accept(id) \/ Start(id) \/ Complete(id) \/ Fail(id)
    \/ Forget

Spec == Init /\ [][Next]_answer
=============================================================================
