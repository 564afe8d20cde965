-------------------------------- MODULE Watch --------------------------------
(* HITLEngine.wait() and check(), the calls that follow a request: watchers   *)
(* poll the table beside the hub's own steps.  As in RequestFlow an action is *)
(* a round trip or a sleep, and what the coroutine does after it.             *)
EXTENDS HitlHub

CONSTANTS
    Watchers,    \* calls of wait() and check()
    Questions    \* the calls producers may make

(* max_wait and poll_interval in clock ticks; check() uses neither.           *)
Question == [op : {"wait", "check"}, id : Requests \cup {NoRequest}, poll : Nat, max : Nat]
ASSUME QuestionAssumption == Questions \subseteq Question

VARIABLES
    wpc,         \* where each call waits
    asks,        \* what it asks
    deadline,    \* start + max_wait
    wake,        \* when its sleep is over
    told         \* the HITLResponse it returned

watchVars == <<wpc, asks, deadline, wake, told>>
allVars == <<vars, watchVars>>

InWatch == {"read", "sleep"}
WatchResponse == [status : Settled \cup {"pending", "timeout", "error"}, payload : Payload]
NoQuestion == [op |-> "check", id |-> NoRequest, poll |-> 0, max |-> 0]
Plain(status) == [status |-> status, payload |-> NoRow.payload]

WatchInit == /\ wpc = [w \in Watchers |-> "idle"]
             /\ asks = [w \in Watchers |-> NoQuestion]
             /\ deadline = [w \in Watchers |-> 0]
             /\ wake = [w \in Watchers |-> 0]
             /\ told = [w \in Watchers |-> Plain("error")]

WatchTypeOK == /\ wpc \in [Watchers -> InWatch \cup {"idle", "done", "raised", "lost"}]
               /\ asks \in [Watchers -> Question]
               /\ deadline \in [Watchers -> Nat]
               /\ wake \in [Watchers -> Nat]
               /\ told \in [Watchers -> WatchResponse]

-----------------------------------------------------------------------------
WatchGoto(w, label) == wpc' = [wpc EXCEPT ![w] = label]

Tell(w, response) == WatchGoto(w, "done") /\ told' = [told EXCEPT ![w] = response]

(* The call arrives.  wait() looks at the clock before its first read.        *)
Ask(w, in) ==
    /\ hub # "down" /\ wpc[w] = "idle"
    /\ asks' = [asks EXCEPT ![w] = in]
    /\ deadline' = [deadline EXCEPT ![w] = now + in.max]
    /\ IF in.op = "wait" /\ in.max = 0
       THEN Tell(w, Plain("timeout"))
       ELSE WatchGoto(w, "read") /\ UNCHANGED told
    /\ UNCHANGED <<vars, wake>>

(* get() finds a row.                                                         *)
Found(w) == asks[w].id \in Requests /\ Exists(asks[w].id)
WatchedRow(w) == rows[asks[w].id]
Decided(row) == row.status \in {"approved", "rejected"}

(* wait()'s response to a row, if the row ends the wait.  The mutants take    *)
(* every settled row for an approval, and drop the payload.                   *)
WaitResponse_anySettled(row) ==
    IF Decided(row) \/ row.status = "expired"
    THEN [status |-> "approved", payload |-> row.payload] ELSE Plain("timeout")
WaitResponse_noPayload(row) == Plain(IF Decided(row) THEN row.status ELSE "timeout")
WaitResponse(row) ==
    IF Decided(row) THEN [status |-> row.status, payload |-> row.payload] ELSE Plain("timeout")

CheckResponse(row) ==
    IF Decided(row) THEN [status |-> row.status, payload |-> row.payload] ELSE Plain(row.status)

(* One read of the row.                                                       *)
Read(w) ==
    /\ wpc[w] = "read"
    /\ \/ ~Found(w) /\ Tell(w, Plain("error")) /\ UNCHANGED wake
       \/ /\ Found(w) /\ asks[w].op = "check"
          /\ Tell(w, CheckResponse(WatchedRow(w)))
          /\ UNCHANGED wake
       \/ /\ Found(w) /\ asks[w].op = "wait" /\ WatchedRow(w).status \in Settled
          /\ Tell(w, WaitResponse(WatchedRow(w)))
          /\ UNCHANGED wake
       \/ /\ Found(w) /\ asks[w].op = "wait" /\ WatchedRow(w).status \notin Settled
          /\ WatchGoto(w, "sleep")
          /\ wake' = [wake EXCEPT ![w] = now + asks[w].poll]
          /\ UNCHANGED told
    /\ UNCHANGED <<vars, asks, deadline>>

(* The sleep is over: read again, or give up past the deadline.  The mutant   *)
(* takes the deadline from the last poll.                                     *)
Wake_fromLastPoll(w) ==
    /\ wpc[w] = "sleep" /\ now >= wake[w]
    /\ WatchGoto(w, "read")
    /\ deadline' = [deadline EXCEPT ![w] = now + asks[w].max]
    /\ UNCHANGED <<vars, asks, wake, told>>
Wake(w) ==
    /\ wpc[w] = "sleep" /\ now >= wake[w]
    /\ IF now < deadline[w]
       THEN WatchGoto(w, "read") /\ UNCHANGED told
       ELSE Tell(w, Plain("timeout"))
    /\ UNCHANGED <<vars, asks, deadline, wake>>

(* The statement fails: the caller gets the exception.  This ends the call,   *)
(* so it takes nothing from the budget for failures.                          *)
ReadFails(w) ==
    /\ wpc[w] = "read"
    /\ WatchGoto(w, "raised")
    /\ UNCHANGED <<vars, asks, deadline, wake, told>>

LoseWatchers ==
    /\ wpc' = [w \in Watchers |-> IF wpc[w] \in InWatch THEN "lost" ELSE wpc[w]]
    /\ UNCHANGED <<asks, deadline, wake, told>>

WatchProceeds(w) == Read(w) \/ Wake(w)

(* The hub's own steps; a watcher dies with the process.                      *)
HubStep == /\ Next
           /\ IF hub # "down" /\ hub' = "down" THEN LoseWatchers ELSE UNCHANGED watchVars

WatchNext == \/ HubStep
             \/ \E w \in Watchers :
                   (\E in \in Questions : Ask(w, in)) \/ WatchProceeds(w) \/ ReadFails(w)

WatchSpec == Init /\ WatchInit /\ [][WatchNext]_allVars

(* As in HitlHub; a sleep that is over ends.                                  *)
FairWatchSpec == WatchSpec /\ Fairness /\ \A w \in Watchers : WF_allVars(WatchProceeds(w))

-----------------------------------------------------------------------------
(* The type invariant of the watchers' variables.                             *)
WatchedTypeOK == TypeOK /\ WatchTypeOK

(* Who is told "approved" or "rejected" is told what some attempt decided     *)
(* and wrote, whatever the order of reads, expiry and attempts; if no other   *)
(* attempt wrote the row, it still says so, and so does every other watcher.  *)
ToldTheDecision ==
    \A w \in Watchers :
        wpc[w] = "done" /\ told[w].status \in {"approved", "rejected"} =>
            /\ \E d \in writes : /\ verdict[d].target = asks[w].id
                                 /\ Decision(verdict[d]) = told[w].status
            /\ (\A d1, d2 \in writes :
                    verdict[d1].target = asks[w].id /\ verdict[d2].target = asks[w].id
                        => d1 = d2)
                  => rows[asks[w].id].status = told[w].status

(* The answer carries the payload of the decision it names: a rejection comes *)
(* with its reason, and the details the request brought come back unchanged.  *)
ToldThePayload ==
    \A w \in Watchers :
        wpc[w] = "done" /\ told[w].status \in {"approved", "rejected"} =>
            /\ told[w].payload.details = req[asks[w].id].details
            /\ told[w].status = "rejected" => told[w].payload.resolution = "reason"

(* Once one watcher has been told that a request is settled, no later answer  *)
(* calls it pending.                                                          *)
AnswersAge ==
    [][\A w1, w2 \in Watchers :
          /\ wpc[w1] = "done" /\ told[w1].status \in Settled
          /\ wpc[w2] # "done" /\ wpc'[w2] = "done" /\ asks[w2].id = asks[w1].id
          => told'[w2].status # "pending"]_allVars

(* Every wait() whose deadline passes ends, however often it polls and        *)
(* whatever the hub does meanwhile (or the clock, which stops at MaxTime, does *)
(* not get to the end of its last sleep): no poll moves the deadline.         *)
EveryWaitEnds ==
    \A w \in Watchers :
        wpc[w] \in InWatch /\ deadline[w] <= MaxTime
            ~> wpc[w] \notin InWatch \/ (wpc[w] = "sleep" /\ wake[w] > MaxTime)
=============================================================================
