------------------------------ MODULE GsmProofs ------------------------------
(***************************************************************************)
(* Proofs about GsmGateway: no SMS is stored twice, and none is lost as    *)
(* long as the keys tell the SMS apart.                                    *)
(***************************************************************************)
EXTENDS GsmGateway, FiniteSetTheorems, TLAPS

-----------------------------------------------------------------------------
(* Types                                                                   *)

Items == Indices \X Sms
Rows == [key : Keys, sms : Sms, attempts : Int, due : BOOLEAN]

GsmTypes ==
    /\ modem \in [Indices -> Sms \cup {None}]
    /\ arrived \in SUBSET Sms
    /\ queue \in Seq(Rows)
    /\ reader \in [pc : {"idle", "add", "delete"}, items : SUBSET Items, current : Items \cup {None}]
    /\ worker \in [pc : {"idle", "post", "handle"}, items : Seq(Rows), result : Results \cup {None}]
    /\ stored \in SUBSET (Keys \X Sms)

\* What the threads have in hand: the reader holds SMS that are still on the
\* modem, and a worker that is not idle has a row to upload.
HandsRight ==
    /\ \A item \in reader.items : modem[item[1]] = item[2]
    /\ reader.pc # "idle" => reader.items # {}
    /\ reader.pc = "delete" => reader.current \in reader.items
    /\ worker.pc # "idle" => worker.items # <<>>

\* RemoveAt leaves the other elements, in their order.
LEMMA RemoveAtElements ==
    ASSUME NEW S, NEW q \in Seq(S), NEW n \in 1 .. Len(q)
    PROVE  /\ RemoveAt(q, n) \in Seq(S)
           /\ Len(RemoveAt(q, n)) = Len(q) - 1
           /\ \A k \in 1 .. Len(q) - 1 : RemoveAt(q, n)[k] = IF k < n THEN q[k] ELSE q[k + 1]
<1> DEFINE front == SubSeq(q, 1, n - 1)
           back == SubSeq(q, n + 1, Len(q))
<1>1. front \in Seq(S) /\ Len(front) = n - 1 /\ \A k \in 1 .. n - 1 : front[k] = q[k]
  OBVIOUS
<1>2. back \in Seq(S) /\ Len(back) = Len(q) - n /\ \A k \in 1 .. Len(q) - n : back[k] = q[n + k]
  OBVIOUS
<1>3. RemoveAt(q, n) = front \o back  BY DEF RemoveAt
<1> HIDE DEF front, back
<1>4. front \o back \in Seq(S) /\ Len(front \o back) = Len(q) - 1  BY <1>1, <1>2
<1>5. ASSUME NEW k \in 1 .. Len(q) - 1
      PROVE  (front \o back)[k] = IF k < n THEN q[k] ELSE q[k + 1]
  <2>1. CASE k < n  BY <2>1, <1>1, <1>2
  <2>2. CASE k >= n
    <3>1. (front \o back)[k] = back[k - (n - 1)]  BY <2>2, <1>1, <1>2
    <3>2. k - (n - 1) \in 1 .. Len(q) - n  BY <2>2
    <3>3. back[k - (n - 1)] = q[n + (k - (n - 1))]  BY <3>2, <1>2
    <3>4. n + (k - (n - 1)) = k + 1  OBVIOUS
    <3> QED BY <2>2, <3>1, <3>3, <3>4
  <2>3. k < n \/ k >= n  BY Len(q) \in Nat
  <2> QED BY <2>1, <2>2, <2>3, Zenon
<1> QED BY <1>3, <1>4, <1>5

\* RemoveRow keeps the rows of every other key and adds none.
LEMMA RemoveRowElements ==
    ASSUME queue \in Seq(Rows), NEW key
    PROVE  /\ RemoveRow(key) \in Seq(Rows)
           /\ \A k \in DOMAIN RemoveRow(key) : \E n \in DOMAIN queue : RemoveRow(key)[k] = queue[n]
           /\ \A n \in DOMAIN queue : queue[n].key # key =>
                 \E k \in DOMAIN RemoveRow(key) : RemoveRow(key)[k] = queue[n]
<1>1. CASE ~Queued(key)  BY <1>1 DEF RemoveRow, Queued
<1>2. CASE Queued(key)
  <2> DEFINE n == CHOOSE n \in DOMAIN queue : queue[n].key = key
             rest == RemoveAt(queue, n)
  <2>1. n \in DOMAIN queue /\ queue[n].key = key  BY <1>2 DEF Queued
  <2>2. RemoveRow(key) = rest  BY <1>2 DEF RemoveRow
  <2> HIDE DEF n
  <2>3. n \in 1 .. Len(queue)  BY <2>1
  <2>4. /\ rest \in Seq(Rows) /\ Len(rest) = Len(queue) - 1
        /\ \A k \in 1 .. Len(queue) - 1 : rest[k] = IF k < n THEN queue[k] ELSE queue[k + 1]
    BY <2>3, RemoveAtElements
  <2> HIDE DEF rest
  <2>5. ASSUME NEW k \in DOMAIN rest PROVE \E j \in DOMAIN queue : rest[k] = queue[j]
    <3>1. k \in 1 .. Len(queue) - 1  BY <2>4
    <3>2. k \in DOMAIN queue /\ k + 1 \in DOMAIN queue  BY <3>1
    <3> QED BY <3>1, <3>2, <2>4
  <2>6. ASSUME NEW j \in DOMAIN queue, queue[j].key # key
        PROVE  \E k \in DOMAIN rest : rest[k] = queue[j]
    <3>1. j # n /\ j \in 1 .. Len(queue)  BY <2>1, <2>6
    <3>2. CASE j < n
      <4>1. j \in 1 .. Len(queue) - 1 /\ j \in DOMAIN rest  BY <3>1, <3>2, <2>3, <2>4
      <4> QED BY <3>2, <4>1, <2>4
    <3>3. CASE j > n
      <4>1. j - 1 \in 1 .. Len(queue) - 1 /\ j - 1 \in DOMAIN rest /\ ~(j - 1 < n) /\ (j - 1) + 1 = j
        BY <3>1, <3>3, <2>3, <2>4
      <4>2. rest[j - 1] = queue[j]  BY <4>1, <2>4
      <4> QED BY <4>1, <4>2
    <3> QED BY <3>1, <3>2, <3>3, <2>3
  <2> QED BY <2>2, <2>4, <2>5, <2>6
<1> QED BY <1>1, <1>2

-----------------------------------------------------------------------------
(* What a step does to the queue                                           *)

SameRow(r, q) == r.key = q.key /\ r.sms = q.sms

\* Every row that was there stays.
RowsStay == \A n \in DOMAIN queue : \E k \in DOMAIN queue' : SameRow(queue'[k], queue[n])

\* No row is new.
NoRowComes == \A k \in DOMAIN queue' : \E n \in DOMAIN queue : SameRow(queue'[k], queue[n])

\* Rows that are only marked keep their key and their SMS.
LEMMA MarkedRows ==
    ASSUME queue \in Seq(Rows), DOMAIN queue' = DOMAIN queue, NEW f, queue' = [n \in DOMAIN queue |-> f[n]],
           \A n \in DOMAIN queue : f[n] \in Rows /\ SameRow(f[n], queue[n])
    PROVE  queue' \in Seq(Rows) /\ RowsStay /\ NoRowComes
<1>1. \A n \in DOMAIN queue : queue'[n] = f[n]  OBVIOUS
<1>2. queue' \in [1 .. Len(queue) -> Rows]  BY <1>1
<1>3. queue' \in Seq(Rows)  BY <1>2
<1> QED BY <1>1, <1>3 DEF RowsStay, NoRowComes

\* The rows that bump_attempts leaves.
LEMMA BumpRows ==
    ASSUME queue \in Seq(Rows), NEW key, queue' = Bump(key)
    PROVE  queue' \in Seq(Rows) /\ RowsStay /\ NoRowComes
<1> DEFINE f == Bump(key)
<1>1. ASSUME NEW n \in DOMAIN queue PROVE f[n] \in Rows /\ SameRow(f[n], queue[n])
  <2>1. queue[n] \in Rows  OBVIOUS
  <2>2. Inc(queue[n].attempts) \in Int  BY <2>1, GsmAssumption DEF Inc, Rows
  <2> QED BY <2>1, <2>2 DEF Bump, Rows, SameRow
<1>2. queue' = [n \in DOMAIN queue |-> f[n]] /\ DOMAIN queue' = DOMAIN queue  BY DEF Bump
<1> HIDE DEF f
<1> QED BY <1>1, <1>2, MarkedRows

\* The rows that the end of a backoff leaves.
LEMMA BackoffRows ==
    ASSUME queue \in Seq(Rows), NEW key, BackoffOver(key)
    PROVE  queue' \in Seq(Rows) /\ RowsStay /\ NoRowComes
<1> DEFINE f == [n \in DOMAIN queue |->
                   IF queue[n].key = key THEN [queue[n] EXCEPT !.due = TRUE] ELSE queue[n]]
<1>1. ASSUME NEW n \in DOMAIN queue PROVE f[n] \in Rows /\ SameRow(f[n], queue[n])
  <2>1. queue[n] \in Rows  OBVIOUS
  <2> QED BY <2>1 DEF Rows, SameRow
<1>2. queue' = [n \in DOMAIN queue |-> f[n]] /\ DOMAIN queue' = DOMAIN queue  BY DEF BackoffOver
<1> HIDE DEF f
<1> QED BY <1>1, <1>2, MarkedRows

\* What _handle_upload_result removes: the uploaded row, if the server has it
\* or has refused it for good.
LEMMA HandledRows ==
    ASSUME GsmTypes, HandsRight, HandleResult
    PROVE  /\ queue' \in Seq(Rows) /\ NoRowComes
           /\ \A n \in DOMAIN queue :
                 \/ \E k \in DOMAIN queue' : SameRow(queue'[k], queue[n])
                 \/ /\ queue[n].key = Head(worker.items).key
                    /\ worker.result \in {"2xx", "409"} \/ Head(worker.items).sms \in dropped'
<1> DEFINE item == Head(worker.items)
           drop == worker.result = "4xx" /\ GiveUp(item)
<1>1. CASE worker.result \in {"2xx", "409"} \/ drop
  <2>1. queue' = RemoveRow(item.key)  BY <1>1 DEF HandleResult
  <2>2. drop => item.sms \in dropped'  BY DEF HandleResult
  <2>3. /\ queue' \in Seq(Rows)
        /\ \A k \in DOMAIN queue' : \E n \in DOMAIN queue : queue'[k] = queue[n]
        /\ \A n \in DOMAIN queue : queue[n].key # item.key =>
              \E k \in DOMAIN queue' : queue'[k] = queue[n]
    BY <2>1, RemoveRowElements DEF GsmTypes
  <2> HIDE DEF item, drop
  <2> QED BY <1>1, <2>2, <2>3 DEF NoRowComes, SameRow, item
<1>2. CASE ~(worker.result \in {"2xx", "409"} \/ drop) /\ worker.result = "401"
  <2>1. queue' = queue  BY <1>2 DEF HandleResult
  <2> QED BY <2>1 DEF GsmTypes, NoRowComes, SameRow
<1>3. CASE ~(worker.result \in {"2xx", "409"} \/ drop) /\ worker.result # "401"
  <2>1. queue' = Bump(item.key)  BY <1>3 DEF HandleResult
  <2> QED BY <2>1, BumpRows DEF GsmTypes, RowsStay
<1> QED BY <1>1, <1>2, <1>3, Zenon

\* What the reader adds: an SMS it has in hand.
LEMMA AddedRows ==
    ASSUME GsmTypes, HandsRight, AddToQueue
    PROVE  /\ queue' \in Seq(Rows) /\ RowsStay
           /\ \A k \in DOMAIN queue' :
                 \/ \E n \in DOMAIN queue : SameRow(queue'[k], queue[n])
                 \/ \E item \in reader.items :
                       queue'[k].key = KeyOf(item[1], item[2]) /\ queue'[k].sms = item[2]
<1>1. PICK item \in reader.items :
         queue' = IF Queued(KeyOf(item[1], item[2])) THEN queue
                  ELSE Append(queue, [key |-> KeyOf(item[1], item[2]), sms |-> item[2],
                                      attempts |-> 0, due |-> TRUE])
  BY DEF AddToQueue
<1> DEFINE row == [key |-> KeyOf(item[1], item[2]), sms |-> item[2], attempts |-> 0, due |-> TRUE]
<1>2. CASE queue' = queue  BY <1>2 DEF GsmTypes, RowsStay, SameRow
<1>3. CASE queue' = Append(queue, row)
  <2>1. item[1] \in Indices /\ item[2] \in Sms  BY DEF GsmTypes, Items
  <2>2. row \in Rows  BY <2>1 DEF Rows, Keys, KeyOf
  <2>3. row.key = KeyOf(item[1], item[2]) /\ row.sms = item[2]  OBVIOUS
  <2> HIDE DEF row
  <2>4. /\ queue' \in Seq(Rows) /\ Len(queue') = Len(queue) + 1 /\ queue'[Len(queue) + 1] = row
        /\ \A n \in 1 .. Len(queue) : queue'[n] = queue[n]
    <3>1. queue \in Seq(Rows)  BY DEF GsmTypes
    <3>2. Append(queue, row) \in Seq(Rows)  BY <3>1, <2>2
    <3>3. Len(Append(queue, row)) = Len(queue) + 1 /\ Append(queue, row)[Len(queue) + 1] = row
      BY <3>1, <2>2
    <3>4. \A n \in 1 .. Len(queue) : Append(queue, row)[n] = queue[n]  BY <3>1, <2>2
    <3> QED BY <1>3, <3>2, <3>3, <3>4
  <2>5. /\ DOMAIN queue = 1 .. Len(queue) /\ Len(queue) \in Nat
        /\ DOMAIN queue' = 1 .. Len(queue) + 1
    <3>1. queue \in Seq(Rows)  BY DEF GsmTypes
    <3>2. DOMAIN queue' = 1 .. Len(queue')  BY <2>4
    <3> QED BY <3>1, <3>2, <2>4
  <2>6. \A n \in DOMAIN queue : n \in DOMAIN queue' /\ queue'[n] = queue[n]  BY <2>4, <2>5
  <2>7. \A k \in DOMAIN queue' : k \in DOMAIN queue \/ queue'[k] = row  BY <2>4, <2>5
  <2> QED BY <2>3, <2>4, <2>6, <2>7 DEF RowsStay, SameRow
<1> QED BY <1>1, <1>2, <1>3

-----------------------------------------------------------------------------
(* Types and hands                                                         *)

\* The rows that a snapshot takes are rows of the queue, at least one of them.
LEMMA SnapshotRows ==
    ASSUME GsmTypes, Snapshot
    PROVE  /\ worker'.pc = "post" /\ worker'.result = None
           /\ worker'.items \in Seq(Rows) /\ worker'.items # <<>>
           /\ \A k \in DOMAIN worker'.items : \E n \in DOMAIN queue : worker'.items[k] = queue[n]
<1> DEFINE due == {n \in DOMAIN queue : DueRow(queue[n])}
           size == IF Cardinality(due) < SNAPSHOT_LIMIT THEN Cardinality(due) ELSE SNAPSHOT_LIMIT
<1>1. due # {}  BY DEF Snapshot
<1>2. PICK first \in [1 .. size -> due] :
         worker' = [NoWorker EXCEPT !.pc = "post", !.items = [k \in 1 .. size |-> queue[first[k]]]]
  BY DEF Snapshot
<1>3. due \in SUBSET (1 .. Len(queue)) /\ due \in SUBSET (DOMAIN queue)  BY DEF GsmTypes
<1>4. IsFiniteSet(1 .. Len(queue))  BY FS_Interval DEF GsmTypes
<1>5. IsFiniteSet(due)  BY <1>3, <1>4, FS_Subset
<1>6. Cardinality(due) \in Nat /\ Cardinality(due) # 0
  BY <1>1, <1>5, FS_CardinalityType, FS_EmptySet
<1> HIDE DEF due
<1>7. size \in Nat \ {0}  BY <1>6, GsmAssumption
<1> HIDE DEF size
<1> DEFINE items == [k \in 1 .. size |-> queue[first[k]]]
<1>8. \A k \in 1 .. size : first[k] \in DOMAIN queue  BY <1>3
<1>9. items \in [1 .. size -> Rows]  BY <1>8 DEF GsmTypes
<1>10. items \in Seq(Rows) /\ Len(items) = size  BY <1>7, <1>9
<1>11. items # <<>>  BY <1>7, <1>10
<1>12. worker'.pc = "post" /\ worker'.result = None /\ worker'.items = items
  BY <1>2 DEF NoWorker
<1>13. \A k \in DOMAIN items : \E n \in DOMAIN queue : items[k] = queue[n]  BY <1>8
<1> HIDE DEF items
<1> QED BY <1>10, <1>11, <1>12, <1>13

\* The rest of the uploads is a part of what was in hand.
LEMMA NextItemRows ==
    ASSUME GsmTypes, worker.items # <<>>, NextItem
    PROVE  /\ worker'.pc \in {"idle", "post"} /\ worker'.result = None
           /\ worker'.items \in Seq(Rows) /\ (worker'.pc = "post" => worker'.items # <<>>)
           /\ \A k \in DOMAIN worker'.items : \E n \in DOMAIN worker.items : worker'.items[k] = worker.items[n]
<1> DEFINE items == worker.items
<1>1. items \in Seq(Rows) /\ items # <<>>  BY DEF GsmTypes
<1>2. /\ worker'.pc = IF Len(items) > 1 THEN "post" ELSE "idle"
      /\ worker'.items = Tail(items) /\ worker'.result = None
  BY DEF NextItem, NoWorker
<1> HIDE DEF items
<1>3. Tail(items) \in Seq(Rows) /\ Len(Tail(items)) = Len(items) - 1  BY <1>1
<1>4. \A k \in 1 .. Len(items) - 1 : Tail(items)[k] = items[k + 1] /\ k + 1 \in DOMAIN items
  BY <1>1
<1>5. \A k \in DOMAIN Tail(items) : k \in 1 .. Len(items) - 1  BY <1>3
<1>6. Len(items) > 1 => Tail(items) # <<>>
  <2>1. \A t \in Seq(Rows) : t = <<>> => Len(t) = 0  OBVIOUS
  <2>2. Tail(items) = <<>> => Len(items) - 1 = 0  BY <1>3, <2>1
  <2>3. Len(items) \in Nat  BY <1>1
  <2>4. ASSUME NEW n \in Nat PROVE n > 1 => ~(n - 1 = 0)  OBVIOUS
  <2> QED BY <2>2, <2>3, <2>4, Zenon
<1> QED BY <1>2, <1>3, <1>4, <1>5, <1>6 DEF items

\* The threads at rest.
LEMMA RestTypes ==
    /\ NoReader \in [pc : {"idle", "add", "delete"}, items : SUBSET Items, current : Items \cup {None}]
    /\ NoWorker \in [pc : {"idle", "post", "handle"}, items : Seq(Rows), result : Results \cup {None}]
    /\ NoReader.pc = "idle" /\ NoReader.items = {} /\ NoWorker.pc = "idle" /\ NoWorker.items = <<>>
BY DEF NoReader, NoWorker

LEMMA ArriveTypes ==
    ASSUME GsmTypes, HandsRight, NEW m \in Sms, NEW i \in Indices, Arrive(m, i)
    PROVE  GsmTypes' /\ HandsRight'
<1>1. GsmTypes'  BY DEF GsmTypes, Arrive
<1>2. \A item \in reader.items : modem'[item[1]] = item[2]
  <2> SUFFICES ASSUME NEW item \in reader.items PROVE modem'[item[1]] = item[2]
    OBVIOUS
  <2>1. item[1] \in Indices /\ item[2] \in Sms /\ modem[item[1]] = item[2]
    BY DEF GsmTypes, HandsRight, Items
  <2>2. item[1] # i  BY <2>1, GsmAssumption DEF Arrive
  <2> QED BY <2>1, <2>2 DEF Arrive, GsmTypes
<1> QED BY <1>1, <1>2 DEF HandsRight, Arrive

LEMMA ReadingTypes ==
    ASSUME GsmTypes, HandsRight, Reading
    PROVE  GsmTypes' /\ HandsRight'
<1>1. CASE ListSms
  <2> DEFINE here == {j \in Indices : modem[j] # None}
             items == {<<i, modem[i]>> : i \in here}
  <2>1. reader' = [pc |-> "add", items |-> items, current |-> None]
    BY <1>1 DEF ListSms, NoReader
  <2>2. items \in SUBSET Items  BY DEF Items, GsmTypes
  <2>3. items # {}  BY <1>1 DEF ListSms
  <2>4. \A item \in items : modem[item[1]] = item[2]  OBVIOUS
  <2> HIDE DEF items
  <2>5. /\ reader' \in [pc : {"idle", "add", "delete"}, items : SUBSET Items, current : Items \cup {None}]
        /\ reader'.pc = "add" /\ reader'.items = items
    BY <2>1, <2>2
  <2>6. UNCHANGED <<modem, arrived, queue, worker, stored>>  BY <1>1 DEF ListSms
  <2> QED BY <2>3, <2>4, <2>5, <2>6 DEF GsmTypes, HandsRight
<1>2. CASE AddToQueue
  <2>1. queue' \in Seq(Rows)  BY <1>2, AddedRows
  <2>2. PICK item \in reader.items : reader' = [reader EXCEPT !.pc = "delete", !.current = item]
    BY <1>2 DEF AddToQueue
  <2>3. UNCHANGED <<modem, arrived, worker, stored>>  BY <1>2 DEF AddToQueue
  <2> QED BY <2>1, <2>2, <2>3 DEF GsmTypes, HandsRight
<1>3. CASE DeleteSms
  <2> DEFINE rest == reader.items \ {reader.current}
  <2>1. reader' = [pc |-> IF rest = {} THEN "idle" ELSE "add", items |-> rest, current |-> None]
    BY <1>3 DEF DeleteSms, NoReader
  <2>2. reader.current \in reader.items  BY <1>3 DEF DeleteSms, HandsRight
  <2>3. reader.current[1] \in Indices  BY <2>2 DEF GsmTypes, Items
  <2>4. modem' = [modem EXCEPT ![reader.current[1]] = None] \/ modem' = modem
    BY <1>3 DEF DeleteSms
  <2>5. modem' \in [Indices -> Sms \cup {None}]  BY <2>3, <2>4 DEF GsmTypes
  <2>6. ASSUME NEW item \in rest PROVE modem'[item[1]] = item[2]
    <3>1. item \in Items /\ reader.current \in Items  BY <2>2 DEF GsmTypes
    <3>2. modem[item[1]] = item[2] /\ modem[reader.current[1]] = reader.current[2]
      BY <2>2 DEF HandsRight
    <3>3. item[1] # reader.current[1]  BY <3>1, <3>2 DEF Items
    <3> QED BY <3>1, <3>2, <3>3, <2>4 DEF GsmTypes, Items
  <2>7. /\ reader' \in [pc : {"idle", "add", "delete"}, items : SUBSET Items, current : Items \cup {None}]
        /\ reader'.items = rest /\ reader'.pc # "delete" /\ (reader'.pc # "idle" => rest # {})
    BY <2>1 DEF GsmTypes
  <2>8. UNCHANGED <<arrived, queue, worker, stored>>  BY <1>3 DEF DeleteSms
  <2> HIDE DEF rest
  <2> QED BY <2>5, <2>6, <2>7, <2>8 DEF GsmTypes, HandsRight
<1> QED BY <1>1, <1>2, <1>3 DEF Reading

\* The first row in hand.
LEMMA HeadRow ==
    ASSUME GsmTypes, worker.items # <<>>
    PROVE  /\ Head(worker.items) \in Rows /\ 1 \in DOMAIN worker.items
           /\ Head(worker.items) = worker.items[1]
<1>1. worker.items \in Seq(Rows)  BY DEF GsmTypes
<1> QED BY <1>1

LEMMA UploadingTypes ==
    ASSUME GsmTypes, HandsRight, Uploading
    PROVE  GsmTypes' /\ HandsRight'
<1>1. CASE Snapshot
  <2>1. /\ worker'.pc = "post" /\ worker'.result = None
        /\ worker'.items \in Seq(Rows) /\ worker'.items # <<>>
    BY <1>1, SnapshotRows
  <2>2. \E items : worker' = [NoWorker EXCEPT !.pc = "post", !.items = items]  BY <1>1 DEF Snapshot
  <2>3. worker' \in [pc : {"idle", "post", "handle"}, items : Seq(Rows), result : Results \cup {None}]
    BY <2>1, <2>2 DEF NoWorker
  <2>4. UNCHANGED <<modem, arrived, queue, reader, stored>>  BY <1>1 DEF Snapshot
  <2> QED BY <2>1, <2>3, <2>4 DEF GsmTypes, HandsRight
<1>2. CASE HandleResult
  <2>1. queue' \in Seq(Rows)  BY <1>2, HandledRows
  <2>2. worker.items # <<>>  BY <1>2 DEF HandleResult, HandsRight
  <2>3. NextItem  BY <1>2 DEF HandleResult
  <2>4. /\ worker'.pc \in {"idle", "post"} /\ worker'.result = None
        /\ worker'.items \in Seq(Rows) /\ (worker'.pc = "post" => worker'.items # <<>>)
    BY <2>2, <2>3, NextItemRows
  <2>5. \E pc, items : worker' = [NoWorker EXCEPT !.pc = pc, !.items = items]  BY <2>3 DEF NextItem
  <2>6. worker' \in [pc : {"idle", "post", "handle"}, items : Seq(Rows), result : Results \cup {None}]
    BY <2>4, <2>5 DEF NoWorker
  <2>7. UNCHANGED <<modem, arrived, reader, stored>>  BY <1>2 DEF HandleResult
  <2> QED BY <2>1, <2>4, <2>6, <2>7 DEF GsmTypes, HandsRight
<1>3. ASSUME NEW result \in Results, PostInbound(result) PROVE GsmTypes' /\ HandsRight'
  <2> DEFINE item == Head(worker.items)
  <2>1. worker.items # <<>>  BY <1>3 DEF PostInbound, HandsRight
  <2>2. item \in Rows  BY <2>1, HeadRow
  <2>3. stored' = stored \/ stored' = stored \cup {<<item.key, item.sms>>}  BY <1>3 DEF PostInbound
  <2> HIDE DEF item
  <2>4. stored' \in SUBSET (Keys \X Sms)  BY <2>2, <2>3 DEF Rows, GsmTypes
  <2>5. worker' = [worker EXCEPT !.pc = "handle", !.result = result]  BY <1>3 DEF PostInbound
  <2>6. UNCHANGED <<modem, arrived, queue, reader>>  BY <1>3 DEF PostInbound
  <2> QED BY <2>1, <2>4, <2>5, <2>6 DEF GsmTypes, HandsRight
<1> QED BY <1>1, <1>2, <1>3 DEF Uploading

LEMMA StoppingTypes ==
    ASSUME GsmTypes, HandsRight, IterationFails \/ Restart
    PROVE  GsmTypes' /\ HandsRight'
<1>1. UNCHANGED <<modem, arrived, queue, stored>>  BY DEF IterationFails, Restart
<1>2. (reader' = reader \/ reader' = NoReader) /\ (worker' = worker \/ worker' = NoWorker)
  BY DEF IterationFails, Restart
<1> QED BY <1>1, <1>2, RestTypes DEF GsmTypes, HandsRight

\* Types and hands hold in every state.
LEMMA GsmTypesStep == GsmTypes /\ HandsRight /\ [Next]_vars => GsmTypes' /\ HandsRight'
<1> SUFFICES ASSUME GsmTypes, HandsRight, [Next]_vars PROVE GsmTypes' /\ HandsRight'
  OBVIOUS
<1>1. CASE \E m \in Sms, i \in Indices : Arrive(m, i)  BY <1>1, ArriveTypes
<1>2. CASE Reading  BY <1>2, ReadingTypes
<1>3. CASE Uploading  BY <1>3, UploadingTypes
<1>4. ASSUME NEW key \in Keys, BackoffOver(key) PROVE GsmTypes' /\ HandsRight'
  <2>1. queue' \in Seq(Rows)  BY <1>4, BackoffRows DEF GsmTypes
  <2>2. UNCHANGED <<modem, arrived, reader, worker, stored>>  BY <1>4 DEF BackoffOver
  <2> QED BY <2>1, <2>2 DEF GsmTypes, HandsRight
<1>5. CASE IterationFails \/ Restart  BY <1>5, StoppingTypes
<1>6. CASE UNCHANGED vars  BY <1>6 DEF vars, GsmTypes, HandsRight
<1> QED BY <1>1, <1>2, <1>3, <1>4, <1>5, <1>6 DEF Next

-----------------------------------------------------------------------------
(* Every SMS has one place: the index it arrived at                        *)

Keyed(row, place) == row.sms \in arrived /\ row.key = KeyOf(place[row.sms], row.sms)

\* Wherever an SMS is known, it is known under the index of its arrival.
PlaceRight(place) ==
    /\ place \in [arrived -> Indices]
    /\ \A i \in Indices : modem[i] # None => modem[i] \in arrived /\ place[modem[i]] = i
    /\ \A n \in DOMAIN queue : Keyed(queue[n], place)
    /\ \A n \in DOMAIN worker.items : Keyed(worker.items[n], place)
    /\ \A r \in stored : r[2] \in arrived /\ r[1] = KeyOf(place[r[2]], r[2])

PlaceInv == \E place : PlaceRight(place)

GsmInv == GsmTypes /\ HandsRight /\ PlaceInv

\* One key per SMS is what keeps the server from storing it twice.
LEMMA PlacedOnce == GsmInv => StoredOnce
<1> SUFFICES ASSUME GsmTypes, NEW place, PlaceRight(place), NEW r \in stored, NEW q \in stored, r[2] = q[2]
             PROVE  r = q
  BY DEF GsmInv, PlaceInv, StoredOnce
<1>1. r[1] = q[1]  BY DEF PlaceRight
<1>2. r \in Keys \X Sms /\ q \in Keys \X Sms  BY DEF GsmTypes
<1> QED BY <1>1, <1>2

LEMMA GsmInit == Init => GsmInv
<1> SUFFICES ASSUME Init PROVE GsmInv
  OBVIOUS
<1>1. GsmTypes  BY RestTypes DEF Init, GsmTypes
<1>2. HandsRight  BY RestTypes DEF Init, HandsRight
<1>3. PlaceRight([m \in {} |-> None])
  <2>1. DOMAIN queue = {} /\ DOMAIN worker.items = {}  BY RestTypes DEF Init
  <2> QED BY <2>1 DEF Init, PlaceRight
<1> QED BY <1>1, <1>2, <1>3 DEF GsmInv, PlaceInv

\* What a step of the gateway does with SMS: it deletes them from the modem,
\* queues what the reader has in hand, takes rows of the queue in hand, and
\* sends what the worker has in hand.
Passes ==
    /\ arrived' = arrived
    /\ \A i \in Indices : modem'[i] = modem[i] \/ modem'[i] = None
    /\ \A k \in DOMAIN queue' :
          \/ \E n \in DOMAIN queue : SameRow(queue'[k], queue[n])
          \/ \E item \in reader.items : queue'[k].key = KeyOf(item[1], item[2]) /\ queue'[k].sms = item[2]
    /\ \A k \in DOMAIN worker'.items :
          \/ \E n \in DOMAIN queue : worker'.items[k] = queue[n]
          \/ \E n \in DOMAIN worker.items : worker'.items[k] = worker.items[n]
    /\ \A r \in stored' :
          \/ r \in stored
          \/ \E n \in DOMAIN worker.items : r = <<worker.items[n].key, worker.items[n].sms>>

\* Passing SMS on leaves every SMS its place.
LEMMA PlaceKept ==
    ASSUME GsmTypes, HandsRight, NEW place, PlaceRight(place), Passes
    PROVE  PlaceRight(place)'
<1>1. place \in [arrived' -> Indices]  BY DEF PlaceRight, Passes
<1>2. \A i \in Indices : modem'[i] # None => modem'[i] \in arrived' /\ place[modem'[i]] = i
  BY DEF PlaceRight, Passes
<1>3. ASSUME NEW k \in DOMAIN queue' PROVE Keyed(queue[k], place)'
  <2>1. CASE \E n \in DOMAIN queue : SameRow(queue'[k], queue[n])
    BY <2>1 DEF PlaceRight, Passes, SameRow, Keyed
  <2>2. ASSUME NEW item \in reader.items, queue'[k].key = KeyOf(item[1], item[2]), queue'[k].sms = item[2]
        PROVE  Keyed(queue[k], place)'
    <3>1. item[1] \in Indices /\ item[2] \in Sms /\ modem[item[1]] = item[2]
      BY DEF GsmTypes, HandsRight, Items
    <3>2. item[2] # None  BY <3>1, GsmAssumption
    <3>3. item[2] \in arrived /\ place[item[2]] = item[1]  BY <3>1, <3>2 DEF PlaceRight
    <3> QED BY <2>2, <3>3 DEF Keyed, Passes
  <2> QED BY <2>1, <2>2 DEF Passes
<1>4. \A k \in DOMAIN worker'.items : Keyed(worker.items[k], place)'
  BY DEF PlaceRight, Passes, Keyed
<1>5. ASSUME NEW r \in stored' PROVE r[2] \in arrived' /\ r[1] = KeyOf(place[r[2]], r[2])
  <2>1. CASE r \in stored  BY <2>1 DEF PlaceRight, Passes
  <2>2. ASSUME NEW n \in DOMAIN worker.items, r = <<worker.items[n].key, worker.items[n].sms>>
        PROVE  r[2] \in arrived' /\ r[1] = KeyOf(place[r[2]], r[2])
    <3>1. Keyed(worker.items[n], place)  BY DEF PlaceRight
    <3> QED BY <2>2, <3>1 DEF Keyed, Passes
  <2> QED BY <2>1, <2>2 DEF Passes
<1> QED BY <1>1, <1>2, <1>3, <1>4, <1>5 DEF PlaceRight

\* Every step but an arrival passes SMS on.
LEMMA StepPasses ==
    ASSUME GsmTypes, HandsRight, [Next]_vars, ~(\E m \in Sms, i \in Indices : Arrive(m, i))
    PROVE  Passes
<1>1. CASE ListSms  BY <1>1 DEF ListSms, Passes, SameRow
<1>2. CASE AddToQueue
  <2>1. UNCHANGED <<modem, arrived, worker, stored>>  BY <1>2 DEF AddToQueue
  <2> QED BY <1>2, <2>1, AddedRows DEF Passes
<1>3. CASE DeleteSms
  <2>1. UNCHANGED <<arrived, queue, worker, stored>>  BY <1>3 DEF DeleteSms
  <2>2. modem' = [modem EXCEPT ![reader.current[1]] = None] \/ modem' = modem  BY <1>3 DEF DeleteSms
  <2>3. \A i \in Indices : modem'[i] = modem[i] \/ modem'[i] = None  BY <2>2 DEF GsmTypes
  <2> QED BY <2>1, <2>3 DEF Passes, SameRow
<1>4. CASE Snapshot
  <2>1. UNCHANGED <<modem, arrived, queue, reader, stored>>  BY <1>4 DEF Snapshot
  <2> QED BY <1>4, <2>1, SnapshotRows DEF Passes, SameRow
<1>5. CASE HandleResult
  <2>1. UNCHANGED <<modem, arrived, reader, stored>> /\ NextItem  BY <1>5 DEF HandleResult
  <2>2. worker.items # <<>>  BY <1>5 DEF HandleResult, HandsRight
  <2>3. \A k \in DOMAIN worker'.items : \E n \in DOMAIN worker.items : worker'.items[k] = worker.items[n]
    BY <2>1, <2>2, NextItemRows
  <2>4. NoRowComes  BY <1>5, HandledRows
  <2> QED BY <2>1, <2>3, <2>4 DEF Passes, NoRowComes
<1>6. ASSUME NEW result \in Results, PostInbound(result) PROVE Passes
  <2>1. worker.items # <<>>  BY <1>6 DEF PostInbound, HandsRight
  <2>2. 1 \in DOMAIN worker.items /\ Head(worker.items) = worker.items[1]  BY <2>1, HeadRow
  <2>3. stored' = stored \/ stored' = stored \cup {<<Head(worker.items).key, Head(worker.items).sms>>}
    BY <1>6 DEF PostInbound
  <2>4. UNCHANGED <<modem, arrived, queue, reader>> /\ worker'.items = worker.items
    BY <1>6 DEF PostInbound, GsmTypes
  <2> QED BY <2>2, <2>3, <2>4 DEF Passes, SameRow
<1>7. ASSUME NEW key \in Keys, BackoffOver(key) PROVE Passes
  <2>1. NoRowComes  BY <1>7, BackoffRows DEF GsmTypes
  <2>2. UNCHANGED <<modem, arrived, reader, worker, stored>>  BY <1>7 DEF BackoffOver
  <2> QED BY <2>1, <2>2 DEF Passes, NoRowComes
<1>8. CASE IterationFails \/ Restart
  <2>1. UNCHANGED <<modem, arrived, queue, stored>> /\ (worker' = worker \/ worker' = NoWorker)
    BY <1>8 DEF IterationFails, Restart
  <2>2. DOMAIN NoWorker.items = {}  BY RestTypes
  <2> QED BY <2>1, <2>2 DEF Passes, SameRow
<1>9. CASE UNCHANGED vars  BY <1>9 DEF vars, Passes, SameRow
<1> QED BY <1>1, <1>2, <1>3, <1>4, <1>5, <1>6, <1>7, <1>8, <1>9 DEF Next, Reading, Uploading

\* An SMS that arrives gets its place.
LEMMA ArrivePlaces ==
    ASSUME GsmTypes, HandsRight, NEW place, PlaceRight(place),
           NEW m \in Sms, NEW i \in Indices, Arrive(m, i)
    PROVE  PlaceInv'
<1>0. PICK next : next = [x \in arrived \cup {m} |-> IF x = m THEN i ELSE place[x]]
  OBVIOUS
<1>1. m \notin arrived /\ modem[i] = None /\ arrived' = arrived \cup {m}
      /\ modem' = [modem EXCEPT ![i] = m] /\ UNCHANGED <<queue, worker, stored>>
  BY DEF Arrive
<1>2. next \in [arrived' -> Indices]  BY <1>0, <1>1 DEF PlaceRight
<1>3. \A x \in arrived : next[x] = place[x]  BY <1>0, <1>1
<1>4. next[m] = i  BY <1>0
<1>5. \A j \in Indices : modem'[j] # None => modem'[j] \in arrived' /\ next[modem'[j]] = j
  BY <1>1, <1>3, <1>4 DEF PlaceRight, GsmTypes
<1>6. \A row : Keyed(row, place) => Keyed(row, next)'  BY <1>1, <1>3 DEF Keyed
<1>7. \A n \in DOMAIN queue' : Keyed(queue[n], next)'  BY <1>1, <1>6 DEF PlaceRight, Keyed
<1>8. \A n \in DOMAIN worker'.items : Keyed(worker.items[n], next)'  BY <1>1, <1>6 DEF PlaceRight, Keyed
<1>9. \A r \in stored' : r[2] \in arrived' /\ r[1] = KeyOf(next[r[2]], r[2])  BY <1>1, <1>3 DEF PlaceRight
<1>10. PlaceRight(next)'  BY <1>2, <1>5, <1>7, <1>8, <1>9 DEF PlaceRight
<1> QED BY <1>10 DEF PlaceInv

LEMMA GsmStep == GsmInv /\ [Next]_vars => GsmInv'
<1> SUFFICES ASSUME GsmTypes, HandsRight, PlaceInv, [Next]_vars PROVE GsmInv'
  BY DEF GsmInv
<1>1. GsmTypes' /\ HandsRight'  BY GsmTypesStep
<1>2. PICK place : PlaceRight(place)  BY DEF PlaceInv
<1>3. CASE \E m \in Sms, i \in Indices : Arrive(m, i)  BY <1>1, <1>2, <1>3, ArrivePlaces DEF GsmInv
<1>4. CASE ~(\E m \in Sms, i \in Indices : Arrive(m, i))
  <2>1. PlaceRight(place)'  BY <1>2, <1>4, StepPasses, PlaceKept
  <2> QED BY <1>1, <2>1 DEF GsmInv, PlaceInv
<1> QED BY <1>3, <1>4

LEMMA GsmAlways == Spec => []GsmInv
<1> QED BY GsmInit, GsmStep, PTL DEF Spec

\* Whatever the stamps, crashes, failed deletions and lost answers: the server
\* never stores an SMS twice, because every reading and every upload of it goes
\* under the index at which it arrived.
THEOREM NeverStoredTwice == Spec => []StoredOnce
<1> QED BY GsmAlways, PlacedOnce, PTL

-----------------------------------------------------------------------------
(* No SMS is lost                                                          *)

\* The SMS may go from the modem.
Safe(m) == (\E n \in DOMAIN queue : queue[n].sms = m) \/ Delivered(m) \/ m \in dropped

\* The SMS that the reader is about to delete may go, and the row that the
\* worker is about to remove has reached the server.
LossInv ==
    /\ NoSmsLost
    /\ reader.pc = "delete" => Safe(reader.current[2])
    /\ worker.pc = "handle" /\ worker.result \in {"2xx", "409"} => Reached(Head(worker.items).key)

\* A key tells which SMS it is of.
LEMMA KeysTell ==
    ASSUME DistinctStamps, GsmTypes, NEW place, PlaceRight(place), NEW m \in arrived, NEW x \in arrived,
           KeyOf(place[m], m) = KeyOf(place[x], x)
    PROVE  m = x
<1>1. Stamp[m] = Stamp[x]  BY DEF KeyOf
<1>2. m \in Sms /\ x \in Sms  BY DEF GsmTypes
<1> QED BY <1>1, <1>2 DEF DistinctStamps

\* What is stored and what is dropped stays so.
LEMMA HistoryStays ==
    ASSUME [Next]_vars
    PROVE  stored \subseteq stored' /\ dropped \subseteq dropped'
<1>1. CASE \E m \in Sms, i \in Indices : Arrive(m, i)  BY <1>1 DEF Arrive
<1>2. CASE Reading  BY <1>2 DEF Reading, ListSms, AddToQueue, DeleteSms
<1>3. CASE Snapshot  BY <1>3 DEF Snapshot
<1>4. CASE HandleResult
  <2>1. stored' = stored /\ (dropped' = dropped \/ dropped' = dropped \cup {Head(worker.items).sms})
    BY <1>4 DEF HandleResult
  <2> QED BY <2>1
<1>5. ASSUME NEW result \in Results, PostInbound(result) PROVE stored \subseteq stored' /\ dropped \subseteq dropped'
  BY <1>5 DEF PostInbound
<1>6. CASE \E key \in Keys : BackoffOver(key)  BY <1>6 DEF BackoffOver
<1>7. CASE IterationFails \/ Restart  BY <1>7 DEF IterationFails, Restart
<1>8. CASE UNCHANGED vars  BY <1>8 DEF vars
<1> QED BY <1>1, <1>2, <1>3, <1>4, <1>5, <1>6, <1>7, <1>8 DEF Next, Uploading

\* Only the handling of an answer takes a row from the queue.
LEMMA WhoTakesRows ==
    ASSUME GsmTypes, HandsRight, [Next]_vars, ~HandleResult
    PROVE  RowsStay
<1>1. CASE AddToQueue  BY <1>1, AddedRows
<1>2. ASSUME NEW key \in Keys, BackoffOver(key) PROVE RowsStay  BY <1>2, BackoffRows DEF GsmTypes
<1>3. CASE queue' = queue  BY <1>3 DEF RowsStay, SameRow
<1>4. ListSms \/ DeleteSms => queue' = queue  BY DEF ListSms, DeleteSms
<1>5. Snapshot => queue' = queue  BY DEF Snapshot
<1>6. \A result : PostInbound(result) => queue' = queue  BY DEF PostInbound
<1>7. \A m, i : Arrive(m, i) => queue' = queue  BY DEF Arrive
<1>8. IterationFails \/ Restart \/ UNCHANGED vars => queue' = queue  BY DEF IterationFails, Restart, vars
<1> QED BY <1>1, <1>2, <1>3, <1>4, <1>5, <1>6, <1>7, <1>8 DEF Next, Reading, Uploading

\* An SMS that may go from the modem stays one.
LEMMA SafeStays ==
    ASSUME DistinctStamps, GsmInv, LossInv, [Next]_vars, NEW m, Safe(m)
    PROVE  Safe(m)'
<1>1. GsmTypes /\ HandsRight  BY DEF GsmInv
<1>2. CASE Delivered(m) \/ m \in dropped  BY <1>2, HistoryStays DEF Delivered, Safe
<1>3. ASSUME NEW n \in DOMAIN queue, queue[n].sms = m PROVE Safe(m)'
  <2>1. CASE \E k \in DOMAIN queue' : SameRow(queue'[k], queue[n])  BY <1>3, <2>1 DEF SameRow, Safe
  <2>2. CASE ~(\E k \in DOMAIN queue' : SameRow(queue'[k], queue[n]))
    <3> DEFINE item == Head(worker.items)
    <3>1. HandleResult  BY <1>1, <2>2, WhoTakesRows DEF RowsStay
    <3>2. queue[n].key = item.key /\ (worker.result \in {"2xx", "409"} \/ item.sms \in dropped')
      BY <1>1, <2>2, <3>1, HandledRows
    <3>3. worker.pc = "handle" /\ stored' = stored  BY <3>1 DEF HandleResult
    <3>4. worker.items # <<>>  BY <1>1, <3>3 DEF HandsRight
    <3>5. PICK place : PlaceRight(place)  BY DEF GsmInv, PlaceInv
    <3>6. Keyed(queue[n], place)  BY <3>5 DEF PlaceRight
    <3>7. Keyed(item, place)  BY <1>1, <3>4, <3>5, HeadRow DEF PlaceRight
    <3> HIDE DEF item
    <3>8. CASE worker.result \in {"2xx", "409"}
      <4>1. PICK r \in stored : r[1] = item.key  BY <3>3, <3>8 DEF LossInv, Reached, item
      <4>2. r[2] \in arrived /\ r[1] = KeyOf(place[r[2]], r[2])  BY <3>5 DEF PlaceRight
      <4>3. r[2] = m  BY <1>1, <1>3, <3>2, <3>5, <3>6, <4>1, <4>2, KeysTell DEF Keyed
      <4> QED BY <3>3, <4>3 DEF Safe, Delivered
    <3>9. CASE item.sms \in dropped'
      <4>1. item.sms = m  BY <1>1, <1>3, <3>2, <3>5, <3>6, <3>7, KeysTell DEF Keyed
      <4> QED BY <3>9, <4>1 DEF Safe
    <3> QED BY <3>2, <3>8, <3>9
  <2> QED BY <2>1, <2>2
<1> QED BY <1>2, <1>3 DEF Safe

\* No step loses an SMS.
LEMMA LossStep == DistinctStamps /\ GsmInv /\ LossInv /\ [Next]_vars => LossInv'
<1> SUFFICES ASSUME DistinctStamps, GsmInv, LossInv, [Next]_vars PROVE LossInv'
  OBVIOUS
<1>1. GsmTypes /\ HandsRight  BY DEF GsmInv
<1>2. ASSUME NEW m \in arrived' PROVE (Held(m) \/ Delivered(m) \/ m \in dropped)'
  <2>1. Safe(m)' => (Held(m) \/ Delivered(m) \/ m \in dropped)'  BY DEF Safe, Held
  <2>2. CASE Safe(m)  BY <2>1, <2>2, SafeStays
  <2>3. ASSUME NEW i \in Indices, modem[i] = m, m # None PROVE (Held(m) \/ Delivered(m) \/ m \in dropped)'
    <3>1. CASE modem'[i] = m  BY <3>1 DEF Held
    <3>2. CASE modem'[i] # m
      <4>1. DeleteSms
        <5>1. \A x, j : Arrive(x, j) => modem' = [modem EXCEPT ![j] = x] /\ modem[j] = None
          BY DEF Arrive
        <5>2. (\E x \in Sms, j \in Indices : Arrive(x, j)) => modem'[i] = modem[i]
          BY <5>1, <2>3, <1>1 DEF GsmTypes
        <5>3. ListSms \/ AddToQueue \/ Uploading \/ (\E key \in Keys : BackoffOver(key))
              \/ IterationFails \/ Restart \/ UNCHANGED vars => modem' = modem
          BY DEF ListSms, AddToQueue, Uploading, Snapshot, HandleResult, PostInbound, BackoffOver,
                 IterationFails, Restart, vars
        <5> QED BY <2>3, <3>2, <5>2, <5>3 DEF Next, Reading
      <4>2. reader.pc = "delete" /\ modem' = [modem EXCEPT ![reader.current[1]] = None]
        BY <2>3, <3>2, <4>1 DEF DeleteSms
      <4>3. reader.current[1] = i  BY <2>3, <3>2, <4>2, <1>1 DEF GsmTypes
      <4>4. reader.current[2] = m  BY <1>1, <2>3, <4>2, <4>3 DEF HandsRight
      <4>5. Safe(m)  BY <4>2, <4>4 DEF LossInv
      <4> QED BY <4>5, <2>2
    <3> QED BY <3>1, <3>2
  <2>4. CASE m \in arrived
    <3>1. m # None  BY <1>1, <2>4, GsmAssumption DEF GsmTypes
    <3>2. Safe(m) \/ \E i \in Indices : modem[i] = m  BY <2>4 DEF LossInv, NoSmsLost, Held, Safe
    <3> QED BY <2>2, <2>3, <3>1, <3>2
  <2>5. CASE m \notin arrived
    <3>1. PICK x \in Sms, i \in Indices : Arrive(x, i)
      BY <1>1, <2>5, StepPasses DEF Passes
    <3>2. x = m /\ modem'[i] = m  BY <2>5, <3>1, <1>1 DEF Arrive, GsmTypes
    <3> QED BY <3>2 DEF Held
  <2> QED BY <2>4, <2>5
<1>3. reader'.pc = "delete" => Safe(reader.current[2])'
  <2> SUFFICES ASSUME reader'.pc = "delete" PROVE Safe(reader.current[2])'
    OBVIOUS
  <2>1. CASE AddToQueue
    <3>1. PICK item \in reader.items :
             /\ queue' = IF Queued(KeyOf(item[1], item[2])) THEN queue
                         ELSE Append(queue, [key |-> KeyOf(item[1], item[2]), sms |-> item[2],
                                             attempts |-> 0, due |-> TRUE])
             /\ reader' = [reader EXCEPT !.pc = "delete", !.current = item]
      BY <2>1 DEF AddToQueue
    <3>2. reader'.current = item  BY <3>1, <1>1 DEF GsmTypes
    <3>3. CASE ~Queued(KeyOf(item[1], item[2]))
      <4> DEFINE row == [key |-> KeyOf(item[1], item[2]), sms |-> item[2], attempts |-> 0, due |-> TRUE]
      <4>1. queue' = Append(queue, row) /\ row.sms = item[2]  BY <3>1, <3>3
      <4> HIDE DEF row
      <4>2. Len(queue) + 1 \in DOMAIN queue' /\ queue'[Len(queue) + 1] = row
        <5>1. queue \in Seq(Rows) /\ Len(queue) \in Nat  BY <1>1 DEF GsmTypes
        <5>2. DOMAIN Append(queue, row) = 1 .. Len(queue) + 1 /\ Append(queue, row)[Len(queue) + 1] = row
          BY <5>1
        <5>3. Len(queue) + 1 \in 1 .. Len(queue) + 1  BY <5>1
        <5> QED BY <4>1, <5>2, <5>3
      <4> QED BY <3>2, <4>1, <4>2 DEF Safe
    <3>4. CASE Queued(KeyOf(item[1], item[2]))
      <4>1. PICK n \in DOMAIN queue : queue[n].key = KeyOf(item[1], item[2])  BY <3>4 DEF Queued
      <4>2. PICK place : PlaceRight(place)  BY DEF GsmInv, PlaceInv
      <4>3. item[1] \in Indices /\ item[2] \in Sms /\ modem[item[1]] = item[2]
        BY <1>1 DEF GsmTypes, HandsRight, Items
      <4>4. item[2] # None  BY <4>3, GsmAssumption
      <4>5. item[2] \in arrived /\ place[item[2]] = item[1]  BY <4>2, <4>3, <4>4 DEF PlaceRight
      <4>6. Keyed(queue[n], place)  BY <4>2 DEF PlaceRight
      <4>7. queue[n].sms = item[2]  BY <1>1, <4>1, <4>2, <4>5, <4>6, KeysTell DEF Keyed
      <4> QED BY <3>1, <3>2, <3>4, <4>7 DEF Safe
    <3> QED BY <3>3, <3>4
  <2>2. CASE reader' = reader
    <3>1. Safe(reader.current[2])  BY <2>2 DEF LossInv
    <3> QED BY <2>2, <3>1, SafeStays
  <2>3. reader' = reader \/ AddToQueue
    <3>1. ListSms \/ DeleteSms => reader'.pc # "delete"  BY DEF ListSms, DeleteSms, NoReader
    <3>2. Uploading \/ (\E key \in Keys : BackoffOver(key)) \/ (\E x \in Sms, i \in Indices : Arrive(x, i))
          => reader' = reader
      BY DEF Uploading, Snapshot, HandleResult, PostInbound, BackoffOver, Arrive
    <3>3. IterationFails \/ Restart \/ UNCHANGED vars => reader' = reader \/ reader' = NoReader
      BY DEF IterationFails, Restart, vars
    <3> QED BY <3>1, <3>2, <3>3, RestTypes DEF Next, Reading
  <2> QED BY <2>1, <2>2, <2>3
<1>4. worker'.pc = "handle" /\ worker'.result \in {"2xx", "409"} => Reached(Head(worker.items).key)'
  <2> SUFFICES ASSUME worker'.pc = "handle", worker'.result \in {"2xx", "409"}
               PROVE  Reached(Head(worker.items).key)'
    OBVIOUS
  <2>1. ASSUME NEW result \in Results, PostInbound(result) PROVE Reached(Head(worker.items).key)'
    <3>1. worker'.items = worker.items /\ worker'.result = result  BY <2>1, <1>1 DEF PostInbound, GsmTypes
    <3> DEFINE key == Head(worker.items).key
               sms == Head(worker.items).sms
    <3>2. result = "409" => Reached(key) /\ stored' = stored  BY <2>1 DEF PostInbound
    <3>3. result = "2xx" => stored' = stored \cup {<<key, sms>>}  BY <2>1 DEF PostInbound
    <3>4. result = "2xx" \/ result = "409"  BY <3>1
    <3>5. Head(worker'.items).key = key  BY <3>1
    <3> HIDE DEF key, sms
    <3>6. <<key, sms>>[1] = key  OBVIOUS
    <3>7. \E r \in stored' : r[1] = key  BY <3>2, <3>3, <3>4, <3>6 DEF Reached
    <3> QED BY <3>5, <3>7 DEF Reached
  <2>2. CASE worker' = worker
    <3>1. Reached(Head(worker.items).key)  BY <2>2 DEF LossInv
    <3> QED BY <2>2, <3>1, HistoryStays DEF Reached
  <2>3. worker' = worker \/ \E result \in Results : PostInbound(result)
    <3>1. Snapshot \/ HandleResult => worker'.pc # "handle"
      BY DEF Snapshot, HandleResult, NextItem, NoWorker
    <3>2. Reading \/ (\E key \in Keys : BackoffOver(key)) \/ (\E x \in Sms, i \in Indices : Arrive(x, i))
          => worker' = worker
      BY DEF Reading, ListSms, AddToQueue, DeleteSms, BackoffOver, Arrive
    <3>3. IterationFails \/ Restart \/ UNCHANGED vars => worker' = worker \/ worker' = NoWorker
      BY DEF IterationFails, Restart, vars
    <3> QED BY <3>1, <3>2, <3>3, RestTypes DEF Next, Uploading
  <2> QED BY <2>1, <2>2, <2>3
<1> QED BY <1>2, <1>3, <1>4 DEF LossInv, NoSmsLost

\* As long as no two SMS share the time stamp and the sender, no SMS that has
\* reached the modem is lost, whatever crashes, failed deletions, lost answers
\* and duplicate readings there are.  same_second shows what happens otherwise.
THEOREM NothingLost ==
    ASSUME DistinctStamps
    PROVE  Spec => []NoSmsLost
<1>1. Init => LossInv  BY RestTypes DEF Init, LossInv, NoSmsLost
<1>2. GsmInv /\ LossInv /\ [Next]_vars => LossInv'  BY LossStep
<1>3. LossInv => NoSmsLost  BY DEF LossInv
<1> QED BY <1>1, <1>2, <1>3, GsmAlways, PTL DEF Spec

=============================================================================
