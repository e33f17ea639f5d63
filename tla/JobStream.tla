------------------------------- MODULE JobStream -------------------------------
(***************************************************************************)
(* The streams of job progress: of one job (its events and its status) and *)
(* of the user's active jobs.  Each connection has a queue that two tasks  *)
(* feed, one that listens to Redis and one that polls the database, and a  *)
(* consumer that sends the queue's items to the client.                    *)
(*                                                                         *)
(* The tasks of a connection share one event loop.  A read of the database *)
(* holds it: between the statements of a read only the database and Redis  *)
(* move.  The consumer gives it up with everything it sends.  Connections  *)
(* change neither the job nor each other: one of each is modelled.         *)
(***************************************************************************)
EXTENDS Naturals, Sequences, FiniteSets

CONSTANTS
    Kinds,       \* streams that are opened: subset of {"job", "active"}
    MaxEvents,   \* bound on the events of the job, numbered as they are published
    MaxQueue,    \* bound on the queue while the poller adds to it
    MaxFaults    \* bound on failed publications, rollbacks and tasks that die

ASSUME EventsAssumption == MaxEvents \in Nat

VARIABLES
    row,        \* the job and its committed events: [status, events]
    txn,        \* the open transaction that writes the job, or None
    published,  \* number of events written so far, rolled back ones included
    conn,       \* the connection, see NewConnection
    due,        \* history: events committed when a final status was last read
    faults      \* counter of the bound

vars == <<row, txn, published, conn, due, faults>>

Active   == {"queued", "running"}
Terminal == {"completed", "failed"}
Events   == 1..MaxEvents
None     == [status |-> "none"]

\* list_events: the events by created_at, in whose order they are numbered.
InOrder(events) ==
    CHOOSE s \in [1..Cardinality(events) -> events] :
        \A i, j \in DOMAIN s : i < j => s[i] < s[j]

EventItem(e, from) == [type |-> "event", event |-> e, from |-> from]
JobItem(status)    == [type |-> "job", status |-> status]
JobsItem(status)   == [type |-> "jobs", status |-> status]
DoneItem(status)   == [type |-> "done", status |-> status]
RefreshItem        == [type |-> "job_refresh"]

(***************************************************************************)
(* The job: requests, workers and the sweep write it in transactions that  *)
(* hold its row from the flush of the event on.  Each publishes its event  *)
(* and, at the end of the job, a job_refresh, and commits afterwards.      *)
(***************************************************************************)
\* Redis delivers to who has subscribed and keeps nothing for others.
Hears(items) ==
    IF conn.listener = "subscribed" THEN [conn EXCEPT !.inbox = @ \o items] ELSE conn

AppendEvent(status) ==
    LET e == published + 1
    IN /\ txn = None /\ e \in Events
       /\ IF row.status = "none" THEN status = "queued" ELSE status # "queued"
       /\ status \in Terminal => row.status \in Active
       /\ txn' = [status |-> status, event |-> e]
       /\ published' = e
       /\ \/ /\ conn' = Hears(<<EventItem(e, "redis")>>
                              \o (IF status \in Terminal THEN <<RefreshItem>> ELSE <<>>))
             /\ UNCHANGED faults
          \/ /\ faults < MaxFaults /\ faults' = faults + 1   \* publish_job_progress only logs
             /\ UNCHANGED conn
       /\ UNCHANGED <<row, due>>

Commit ==
    /\ txn # None
    /\ row' = [status |-> txn.status, events |-> row.events \cup {txn.event}]
    /\ txn' = None
    /\ UNCHANGED <<published, conn, due, faults>>

Rollback ==
    /\ txn # None
    /\ faults < MaxFaults /\ faults' = faults + 1
    /\ txn' = None
    /\ UNCHANGED <<row, published, conn, due>>

(***************************************************************************)
(* Opening a connection: the snapshot is read and sent before the listener *)
(* subscribes.                                                             *)
(***************************************************************************)
NewConnection(kind) ==
    [kind |-> kind,
     step |-> "new",         \* of the consumer: "new", "take", "send", "done" or "closed"
     reading |-> "nobody",   \* who holds the event loop in the middle of a read
     read |-> "none",        \* the status its first statement read
     shown |-> "none",       \* the status the client was told last
     seen |-> {},            \* seen_event_ids
     sent |-> [from \in {"database", "redis"} |-> [e \in Events |-> 0]],
     queue |-> <<>>, inbox |-> <<>>,
     listener |-> "none", poller |-> "none",
     left |-> <<>>, status |-> "none",   \* what a refresh has still to send
     ended |-> "none"]       \* whose item or refresh ended the stream

\* Mutant of Ends: everything that does not run has ended.
EndsNotRunning(status) == status # "running"

Ends(status) == status \in Terminal

IsFree == conn.reading = "nobody"
IsOpen == conn.step \in {"take", "send"}

Count(sent, from, events) ==
    [sent EXCEPT ![from] = [e \in Events |-> @[e] + (IF e \in events THEN 1 ELSE 0)]]

ReadStatus(reader) == [conn EXCEPT !.reading = reader, !.read = row.status]
NoteEnd == due' = IF row.status \in Terminal THEN row.events ELSE due

\* A list tells what runs: a job that is not in it is not shown, "none".
ListActiveJobs == IF row.status \in Active THEN row.status ELSE "none"

\* A job that is not there is a 404.
OpenJob ==
    /\ conn.kind = "job" /\ conn.step = "new" /\ IsFree /\ row.status # "none"
    /\ conn' = ReadStatus("open") /\ NoteEnd
    /\ UNCHANGED <<row, txn, published, faults>>

Snapshot ==
    /\ conn.reading = "open"
    /\ LET ends == Ends(conn.read)
       IN conn' = [conn EXCEPT !.reading = "nobody", !.shown = conn.read,
                               !.seen = row.events, !.sent = Count(@, "database", row.events),
                               !.step = IF ends THEN "done" ELSE "take",
                               !.ended = IF ends THEN "snapshot" ELSE @,
                               !.listener = IF ends THEN @ ELSE "starting",
                               !.poller = IF ends THEN @ ELSE "polling"]
    /\ UNCHANGED <<row, txn, published, due, faults>>

\* The list of active jobs is polled only when there is one at the start.
OpenActive ==
    /\ conn.kind = "active" /\ conn.step = "new"
    /\ conn' = [conn EXCEPT !.step = "take", !.shown = ListActiveJobs, !.listener = "starting",
                            !.poller = IF row.status \in Active THEN "polling" ELSE "none"]
    /\ UNCHANGED <<row, txn, published, due, faults>>

\* The client may go away at any time: the tasks are cancelled.
Close ==
    /\ IsOpen
    /\ conn' = [NewConnection(conn.kind) EXCEPT !.step = "closed"]
    /\ UNCHANGED <<row, txn, published, due, faults>>

(***************************************************************************)
(* The Redis listener.                                                     *)
(***************************************************************************)
Subscribe ==
    /\ IsOpen /\ IsFree /\ conn.listener = "starting"
    /\ conn' = [conn EXCEPT !.listener = "subscribed"]
    /\ UNCHANGED <<row, txn, published, due, faults>>

Forward ==
    /\ IsOpen /\ IsFree /\ conn.inbox # <<>>
    /\ conn' = [conn EXCEPT !.inbox = Tail(@), !.queue = Append(@, Head(conn.inbox))]
    /\ UNCHANGED <<row, txn, published, due, faults>>

\* An exception ends a task, which nobody notices before the stream ends.
ListenerFails ==
    /\ IsOpen /\ IsFree /\ conn.listener \in {"starting", "subscribed"}
    /\ faults < MaxFaults /\ faults' = faults + 1
    /\ conn' = [conn EXCEPT !.listener = "dead", !.inbox = <<>>]
    /\ UNCHANGED <<row, txn, published, due>>

(***************************************************************************)
(* The database poller.                                                    *)
(***************************************************************************)
IsDue == /\ IsOpen /\ IsFree /\ conn.poller = "polling"
         /\ Len(conn.queue) < MaxQueue

PollJob ==
    /\ IsDue /\ conn.kind = "job"
    /\ conn' = ReadStatus("poll") /\ NoteEnd
    /\ UNCHANGED <<row, txn, published, faults>>

\* Mutant of Unseen: what was sent or queued is not left out.
UnseenOrNot == row.events

Unseen == row.events \ conn.seen

\* Mutant of AfterPoll: the poller reads once.
AfterPollOnce == "ended"

AfterPoll == IF Ends(conn.read) THEN "ended" ELSE "polling"

PollEvents ==
    /\ conn.reading = "poll"
    /\ LET new == InOrder(Unseen)
       IN conn' = [conn EXCEPT
                     !.reading = "nobody",
                     !.seen  = @ \cup Unseen,
                     !.queue = @ \o [i \in DOMAIN new |-> EventItem(new[i], "database")]
                                 \o <<JobItem(conn.read)>>
                                 \o (IF Ends(conn.read) THEN <<DoneItem(conn.read)>> ELSE <<>>),
                     !.poller = AfterPoll]
    /\ UNCHANGED <<row, txn, published, due, faults>>

PollActive ==
    /\ IsDue /\ conn.kind = "active"
    /\ conn' = [conn EXCEPT !.queue = Append(@, JobsItem(ListActiveJobs))]
    /\ UNCHANGED <<row, txn, published, due, faults>>

PollerFails ==
    /\ IsOpen /\ IsFree /\ conn.poller = "polling"
    /\ faults < MaxFaults /\ faults' = faults + 1
    /\ conn' = [conn EXCEPT !.poller = "dead"]
    /\ UNCHANGED <<row, txn, published, due>>

(***************************************************************************)
(* The consumer of a job's stream.                                         *)
(***************************************************************************)
Takes(kind, type) ==
    /\ conn.kind = kind /\ conn.step = "take" /\ IsFree
    /\ conn.queue # <<>> /\ Head(conn.queue).type = type

Taken == [conn EXCEPT !.queue = Tail(@)]

\* A final status ends the stream: the "done" behind it is never taken.
TakeJob ==
    /\ Takes("job", "job")
    /\ LET status == Head(conn.queue).status
       IN conn' = [Taken EXCEPT !.shown = status,
                                !.step = IF Ends(status) THEN "done" ELSE @,
                                !.ended = IF Ends(status) THEN "poller" ELSE @]
    /\ UNCHANGED <<row, txn, published, due, faults>>

\* An event from Redis is sent whether it was seen or not.
TakeEvent ==
    /\ Takes("job", "event")
    /\ LET item == Head(conn.queue)
       IN conn' = [Taken EXCEPT !.seen = @ \cup {item.event},
                                !.sent = Count(@, item.from, {item.event})]
    /\ UNCHANGED <<row, txn, published, due, faults>>

TakeRefresh ==
    /\ Takes("job", "job_refresh")
    /\ conn' = [ReadStatus("refresh") EXCEPT !.queue = Tail(@)] /\ NoteEnd
    /\ UNCHANGED <<row, txn, published, faults>>

RefreshEvents ==
    /\ conn.reading = "refresh"
    /\ conn' = [conn EXCEPT !.reading = "nobody", !.step = "send", !.status = conn.read,
                            !.left = InOrder(row.events)]
    /\ UNCHANGED <<row, txn, published, due, faults>>

\* The poller may have seen and queued the event since the refresh read it.
SendRefreshed ==
    /\ conn.step = "send" /\ IsFree /\ conn.left # <<>>
    /\ LET new == {Head(conn.left)} \ conn.seen
       IN conn' = [conn EXCEPT !.left = Tail(@), !.seen = @ \cup new,
                               !.sent = Count(@, "database", new)]
    /\ UNCHANGED <<row, txn, published, due, faults>>

EndRefresh ==
    /\ conn.step = "send" /\ IsFree /\ conn.left = <<>>
    /\ conn' = [conn EXCEPT !.shown = conn.status, !.status = "none",
                            !.step = IF Ends(conn.status) THEN "done" ELSE "take",
                            !.ended = IF Ends(conn.status) THEN "refresh" ELSE @]
    /\ UNCHANGED <<row, txn, published, due, faults>>

(***************************************************************************)
(* The consumer of the active jobs' stream, which never ends.  What is     *)
(* published names the job, which is read and, when it is not there yet or *)
(* has ended, the list after it.                                           *)
(***************************************************************************)
TakeJobs ==
    /\ Takes("active", "jobs")
    /\ conn' = [Taken EXCEPT !.shown = Head(conn.queue).status]
    /\ UNCHANGED <<row, txn, published, due, faults>>

TakeNews ==
    /\ Takes("active", "event")
    /\ conn' = [Taken EXCEPT !.shown = IF row.status = "none" THEN @ ELSE row.status,
                             !.reading = IF row.status \in Active THEN @ ELSE "list"]
    /\ UNCHANGED <<row, txn, published, due, faults>>

TakeEndNews ==
    /\ Takes("active", "job_refresh")
    /\ conn' = [Taken EXCEPT !.reading = "list"]
    /\ UNCHANGED <<row, txn, published, due, faults>>

RefreshActiveJobs ==
    /\ conn.reading = "list"
    /\ conn' = [conn EXCEPT !.reading = "nobody",
                            !.queue = Append(@, JobsItem(ListActiveJobs))]
    /\ UNCHANGED <<row, txn, published, due, faults>>

(***************************************************************************)
(* The specification.                                                      *)
(***************************************************************************)
Init ==
    /\ row = [status |-> "none", events |-> {}] /\ txn = None
    /\ published = 0 /\ due = {} /\ faults = 0
    /\ conn \in {NewConnection(kind) : kind \in Kinds}

WriteJob == (\E status \in Active \cup Terminal : AppendEvent(status)) \/ Commit \/ Rollback
Listen   == Subscribe \/ Forward
Poll     == PollJob \/ PollEvents \/ PollActive
Consume  == \/ TakeJob \/ TakeEvent
            \/ TakeRefresh \/ RefreshEvents \/ SendRefreshed \/ EndRefresh
            \/ TakeJobs \/ TakeNews \/ TakeEndNews \/ RefreshActiveJobs

Next ==
    \/ WriteJob
    \/ OpenJob \/ Snapshot \/ OpenActive \/ Close
    \/ Listen \/ ListenerFails \/ Poll \/ PollerFails
    \/ Consume

\* A poller that lives polls again and a client that stays reads: neither Redis nor
\* those that write the job are relied on.
Fairness == WF_vars(Snapshot) /\ WF_vars(Poll) /\ WF_vars(Consume)

Spec == Init /\ [][Next]_vars /\ Fairness

(***************************************************************************)
(* Properties.                                                             *)
(***************************************************************************)
Waiting == {conn.queue[i].event : i \in {j \in DOMAIN conn.queue : conn.queue[j].type = "event"}}
Sent(e) == conn.sent["database"][e] + conn.sent["redis"][e]

\* The job, its events and the connection are well-formed, only the stream of a job
\* ends, and it ends with a final status.
TypeOK ==
    /\ row.status \in {"none"} \cup Active \cup Terminal /\ row.events \subseteq 1..published
    /\ conn.seen \subseteq 1..published /\ due \subseteq row.events
    /\ conn.step \in {"new", "take", "send", "done", "closed"}
    /\ conn.reading \in {"nobody", "open", "poll", "refresh", "list"}
    /\ \A i \in DOMAIN conn.inbox : conn.inbox[i].type \in {"event", "job_refresh"}
    /\ conn.step = "done" => conn.kind = "job" /\ conn.shown \in Terminal

\* "The API stream also polls Postgres as a fallback": an event reaches the client at most
\* twice, once from Redis and once from the database, however they race; when the stream
\* ends, every event that was committed with the final status was sent, or is in the
\* queue that the poller filled and a refresh, which overtook it, left behind; and the
\* poller, which nobody starts again, never ends before the stream without an item in
\* the queue that will end it.
EventsReachTheClient ==
    conn.kind = "job" =>
        /\ \A e \in Events : conn.sent["database"][e] <= 1 /\ conn.sent["redis"][e] <= 1
        /\ \A e \in conn.seen : Sent(e) > 0 \/ e \in Waiting
        /\ conn.step = "done" =>
              \A e \in due : Sent(e) > 0 \/ (conn.ended = "refresh" /\ e \in Waiting)
        /\ IsOpen /\ conn.poller = "ended" =>
              \E i \in DOMAIN conn.queue : /\ conn.queue[i].type = "job"
                                           /\ conn.queue[i].status \in Terminal

\* The client of a job that has ended for good is told, and so is that of the active jobs:
\* whatever Redis loses, and though job_refresh is published before the end is committed.
\* Only a poller that died or was never started makes a client wait for ever.
ClientsAreTold ==
    <>[](row.status \in Terminal)
    => <>[]((IsOpen \/ conn.step = "done") /\ conn.poller \in {"polling", "ended"}
            => conn.shown \notin Active /\ (conn.kind = "job" => conn.step = "done"))
===============================================================================
