----------------------------- MODULE GsmGateway -----------------------------
(***************************************************************************)
(* apps/gsm-gateway: the reader thread moves SMS from the modem into an    *)
(* SQLite queue, the worker thread uploads the queue to the server.        *)
(*                                                                         *)
(* An SMS's idempotency key is made of its modem index, its time stamp (a  *)
(* second) and its sender; Stamp stands for the last two.  The process may *)
(* die at any point: the modem, the queue and the server keep their state, *)
(* the threads' variables and the auth latch are lost.                     *)
(***************************************************************************)
EXTENDS Integers, SequencesExt

CONSTANTS
    Sms,
    Indices,            \* storage slots of the modem
    Stamp,              \* time stamp and sender of an SMS
    MAX_ATTEMPTS_4XX,
    SNAPSHOT_LIMIT,
    MaxCrashes,         \* bound: process restarts and failed iterations
    None

ASSUME GsmAssumption ==
    /\ None \notin Sms
    /\ MAX_ATTEMPTS_4XX \in Nat \ {0}
    /\ SNAPSHOT_LIMIT \in Nat \ {0}
    /\ MaxCrashes \in Nat

VARIABLES
    modem,              \* the SMS at each index
    arrived,            \* SMS the network has delivered to the modem so far
    queue,              \* inbound_queue, in the order of its ids
    reader, worker,     \* the two threads
    authFailed,         \* _auth_failed
    stored,             \* the server's inbound_sms: <<idempotency key, SMS>>
    dropped,            \* history: SMS given up after 4xx
    crashes

vars == <<modem, arrived, queue, reader, worker, authFailed, stored, dropped, crashes>>

NoReader == [pc |-> "idle", items |-> {}, current |-> None]
NoWorker == [pc |-> "idle", items |-> <<>>, result |-> None]

\* The network delivers an SMS to a free index.
Arrive(m, i) ==
    /\ m \notin arrived
    /\ modem[i] = None
    /\ modem' = [modem EXCEPT ![i] = m]
    /\ arrived' = arrived \cup {m}
    /\ UNCHANGED <<queue, reader, worker, authFailed, stored, dropped, crashes>>

-----------------------------------------------------------------------------
(* _read_once                                                              *)

\* Fault: the key is not the same when an SMS is read again.
KeyOfThisReading(i, m) == <<i, Len(queue)>>

KeyOf(i, m) == <<i, Stamp[m]>>

Keys == Indices \X {Stamp[m] : m \in Sms}

\* Fault: rows are told apart by their modem index alone.
QueuedAtIndex(key) == \E n \in DOMAIN queue : queue[n].key[1] = key[1]

Queued(key) == \E n \in DOMAIN queue : queue[n].key = key

\* list_sms
ListSms ==
    /\ reader.pc = "idle"
    /\ \E i \in Indices : modem[i] # None
    /\ reader' = [NoReader EXCEPT !.pc = "add",
                                  !.items = {<<i, modem[i]>> : i \in {j \in Indices : modem[j] # None}}]
    /\ UNCHANGED <<modem, arrived, queue, worker, authFailed, stored, dropped, crashes>>

\* queue.add: INSERT, unless the key is there already.
AddToQueue ==
    /\ reader.pc = "add"
    /\ \E item \in reader.items :
          LET key == KeyOf(item[1], item[2])
          IN  /\ queue' = IF Queued(key) THEN queue
                          ELSE Append(queue, [key |-> key, sms |-> item[2], attempts |-> 0, due |-> TRUE])
              /\ reader' = [reader EXCEPT !.pc = "delete", !.current = item]
    /\ UNCHANGED <<modem, arrived, worker, authFailed, stored, dropped, crashes>>

\* delete_sms, whose failure is only logged; then the next item.
DeleteSms ==
    LET rest == reader.items \ {reader.current}
    IN  /\ reader.pc = "delete"
        /\ \/ modem' = [modem EXCEPT ![reader.current[1]] = None]
           \/ UNCHANGED modem
        /\ reader' = [NoReader EXCEPT !.pc = IF rest = {} THEN "idle" ELSE "add", !.items = rest]
        /\ UNCHANGED <<arrived, queue, worker, authFailed, stored, dropped, crashes>>

-----------------------------------------------------------------------------
(* _drain_once                                                             *)

\* Fault: only rows that were never tried are found.
FreshRow(row) == row.due /\ row.attempts = 0

DueRow(row) == row.due

\* queue.snapshot: ORDER BY id LIMIT among the rows whose next_try_at_ms has
\* come; first lists their places in the queue.
Snapshot ==
    LET due == {n \in DOMAIN queue : DueRow(queue[n])}
        size == IF Cardinality(due) < SNAPSHOT_LIMIT THEN Cardinality(due) ELSE SNAPSHOT_LIMIT
    IN  /\ worker.pc = "idle"
        /\ ~authFailed
        /\ due # {}
        /\ \E first \in [1 .. size -> due] :
              /\ \A j, k \in 1 .. size : j < k => first[j] < first[k]
              /\ \A n \in due : (\A k \in 1 .. size : first[k] # n) =>
                                    \A k \in 1 .. size : first[k] < n
              /\ worker' = [NoWorker EXCEPT !.pc = "post", !.items = [k \in 1 .. size |-> queue[first[k]]]]
        /\ UNCHANGED <<modem, arrived, queue, reader, authFailed, stored, dropped, crashes>>

\* Counters stop at MAX_ATTEMPTS_4XX, the largest value anything compares
\* them with: a bound.
Inc(n) == IF n < MAX_ATTEMPTS_4XX THEN n + 1 ELSE n

Reached(key) == \E r \in stored : r[1] = key

\* post_inbound.  The server stores an SMS whose key it does not know and
\* answers 409 to one it knows; a network error may come before or after it.
PostInbound(result) ==
    LET item == Head(worker.items)
    IN  /\ worker.pc = "post"
        /\ result = "2xx" => ~Reached(item.key)
        /\ result = "409" => Reached(item.key)
        /\ \/ result \in {"2xx", "network"}
              /\ ~Reached(item.key)
              /\ stored' = stored \cup {<<item.key, item.sms>>}
           \/ result # "2xx" /\ UNCHANGED stored
        /\ worker' = [worker EXCEPT !.pc = "handle", !.result = result]
        /\ UNCHANGED <<modem, arrived, queue, reader, authFailed, dropped, crashes>>

Results == {"2xx", "409", "401", "4xx", "5xx", "network"}

\* remove: a key, being UNIQUE, has one row at most.
RemoveRow(key) ==
    IF Queued(key) THEN RemoveAt(queue, CHOOSE n \in DOMAIN queue : queue[n].key = key) ELSE queue

\* bump_attempts
Bump(key) ==
    [n \in DOMAIN queue |->
        IF queue[n].key = key THEN [queue[n] EXCEPT !.attempts = Inc(@), !.due = FALSE] ELSE queue[n]]

\* The worker goes on with the next item, whatever the last one gave.
NextItem ==
    worker' = [NoWorker EXCEPT !.pc = IF Len(worker.items) > 1 THEN "post" ELSE "idle",
                               !.items = Tail(worker.items)]

GiveUp(item) == item.attempts + 1 >= MAX_ATTEMPTS_4XX

\* _handle_upload_result, and the handler of httpx.HTTPError.
HandleResult ==
    LET item == Head(worker.items)
        drop == worker.result = "4xx" /\ GiveUp(item)
    IN  /\ worker.pc = "handle"
        /\ authFailed' = (authFailed \/ worker.result = "401")
        /\ dropped' = IF drop THEN dropped \cup {item.sms} ELSE dropped
        /\ queue' = CASE worker.result \in {"2xx", "409"} \/ drop -> RemoveRow(item.key)
                      [] worker.result = "401" -> queue
                      [] OTHER -> Bump(item.key)
        /\ NextItem
        /\ UNCHANGED <<modem, arrived, reader, stored, crashes>>

\* The backoff of a row is over.
BackoffOver(key) ==
    /\ \E n \in DOMAIN queue : queue[n].key = key /\ ~queue[n].due
    /\ queue' = [n \in DOMAIN queue |->
                   IF queue[n].key = key THEN [queue[n] EXCEPT !.due = TRUE] ELSE queue[n]]
    /\ UNCHANGED <<modem, arrived, reader, worker, authFailed, stored, dropped, crashes>>

-----------------------------------------------------------------------------

\* An exception ends the iteration of one of the loops; the loop goes on.
IterationFails ==
    /\ crashes < MaxCrashes
    /\ crashes' = crashes + 1
    /\ \/ reader.pc # "idle" /\ reader' = NoReader /\ UNCHANGED worker
       \/ worker.pc # "idle" /\ worker' = NoWorker /\ UNCHANGED reader
    /\ UNCHANGED <<modem, arrived, queue, authFailed, stored, dropped>>

\* The process stops or dies and is started again.
Restart ==
    /\ crashes < MaxCrashes
    /\ crashes' = crashes + 1
    /\ reader' = NoReader
    /\ worker' = NoWorker
    /\ authFailed' = FALSE
    /\ UNCHANGED <<modem, arrived, queue, stored, dropped>>

Init ==
    /\ modem = [i \in Indices |-> None]
    /\ arrived = {}
    /\ queue = <<>>
    /\ reader = NoReader
    /\ worker = NoWorker
    /\ authFailed = FALSE
    /\ stored = {}
    /\ dropped = {}
    /\ crashes = 0

Reading == ListSms \/ AddToQueue \/ DeleteSms
Uploading == Snapshot \/ HandleResult \/ \E result \in Results : PostInbound(result)

Next ==
    \/ \E m \in Sms, i \in Indices : Arrive(m, i)
    \/ Reading
    \/ Uploading
    \/ \E key \in Keys : BackoffOver(key)
    \/ IterationFails
    \/ Restart

Spec == Init /\ [][Next]_vars

Accepts(m) ==
    /\ worker.items # <<>> /\ Head(worker.items).sms = m
    /\ PostInbound("2xx") \/ PostInbound("409")

\* The threads run, backoffs end, and a server that an SMS is sent to again
\* and again takes it at last.
FairSpec ==
    /\ Spec
    /\ WF_vars(Reading) /\ WF_vars(Uploading)
    /\ \A key \in Keys : WF_vars(BackoffOver(key))
    /\ \A m \in Sms : SF_vars(Accepts(m))

-----------------------------------------------------------------------------

Held(m) ==
    \/ \E i \in Indices : modem[i] = m
    \/ \E n \in DOMAIN queue : queue[n].sms = m

\* The keys tell the SMS apart: no two have both the time stamp and the sender
\* in common, which the code's key takes for granted.
DistinctStamps == \A m, n \in Sms : Stamp[m] = Stamp[n] => m = n

Delivered(m) == \E r \in stored : r[2] = m

\* No SMS that reached the modem is ever lost: it is on the modem, in the
\* queue, at the server, or it was given up after the server refused it.
NoSmsLost == \A m \in arrived : Held(m) \/ Delivered(m) \/ m \in dropped

\* Re-reading an SMS that could not be deleted, and uploading again what may
\* have arrived already, never makes the server store an SMS twice.
StoredOnce == \A r, q \in stored : r[2] = q[2] => r = q

\* Every SMS is uploaded, or given up after a refusal, unless the worker is
\* paused by a 401: backoff, restarts and duplicate keys never strand a row.
EverySmsHandled ==
    \A m \in Sms : (m \in arrived) ~> (Delivered(m) \/ m \in dropped \/ authFailed)

=============================================================================
