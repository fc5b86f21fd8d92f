----------------------------- MODULE WorkerProofs -----------------------------
(***************************************************************************)
(* Proofs about WebhookWorker, for every lease, timeout and size of a      *)
(* batch: what workers that share the table can do to a delivery is        *)
(* counted by the failures and by the claims that overtook a late worker,  *)
(* and only late workers are overtaken; and whoever connects does so to an *)
(* address that the guard lets through.                                    *)
(***************************************************************************)
EXTENDS WebhookWorker, FiniteSetTheorems, SequenceTheorems, WellFoundedInduction, TLAPS

-----------------------------------------------------------------------------
(* Types                                                                   *)

RowType ==
    {row \in [status : {"none", "pending", "delivered", "failed", "abandoned", "deleted"},
              attemptCount : Nat, dueIn : Int] :
        /\ row.status = "none" => row.attemptCount = 0
        /\ row.status = "pending" => row.attemptCount < MAX_DELIVERY_ATTEMPTS}
Attempts == 1 .. MAX_DELIVERY_ATTEMPTS
BatchItems == [id : Deliveries, attempt : Attempts, place : Nat]
WorkerType == [pc : {"off", "sleeping", "loop", "fetch", "apply"}, batch : Seq(BatchItems),
               deadline : Nat, outcome : {"none", "delivered", "retry", "permanent", "endpoint_disabled"},
               peer : Peers \cup {NoPeer}, stopped : BOOLEAN]

WorkerTypes ==
    /\ rows \in [Deliveries -> RowType]
    /\ workers \in [Workers -> WorkerType]
    /\ failures \in Nat
    /\ posts \in [Watched -> [Attempts -> Nat]]
    /\ accepted \in [Watched -> Nat]
    /\ lapses \in [Watched -> Nat]

\* What a worker has in hand fits what it does next, and nothing is in it twice.
HandsRight ==
    \A w \in Workers :
        /\ workers[w].pc \in {"off", "sleeping"} => workers[w].batch = <<>>
        /\ workers[w].pc \in {"fetch", "apply"} => workers[w].batch # <<>>
        /\ workers[w].pc = "apply" => workers[w].outcome # "none"
        /\ \A k, j \in DOMAIN workers[w].batch :
              workers[w].batch[k].id = workers[w].batch[j].id => k = j

-----------------------------------------------------------------------------
(* The inductive invariant                                                 *)

\* What is counted of a delivery: the answers 2xx (0), the requests of attempt q.
Questions == 0 .. MAX_DELIVERY_ATTEMPTS
Count(d, q) == IF q = 0 THEN accepted[d] ELSE posts[d][q]

\* The k-th delivery in hand may still be counted: it has had no 2xx; its attempt
\* is still to come.
Sent(w, k) == k = 1 /\ workers[w].pc \in {"fetch", "apply"}
Taken(w, k) == k = 1 /\ workers[w].pc = "apply" /\ workers[w].outcome = "delivered"
May(w, k, q) ==
    IF q = 0 THEN ~Taken(w, k)
    ELSE \/ workers[w].batch[k].attempt < q
         \/ workers[w].batch[k].attempt = q /\ ~Sent(w, k)

\* The workers that may count a delivery once more, and whether its next claim may.
Owes(w, d, q) == \E k \in DOMAIN workers[w].batch : workers[w].batch[k].id = d /\ May(w, k, q)
Owing(d, q) == {w \in Workers : Owes(w, d, q)}
Free(d, q) ==
    /\ rows[d].status \in {"none", "pending"}
    /\ Holders(d) = {}
    /\ q = 0 \/ rows[d].attemptCount < q
One(claim) == IF claim THEN 1 ELSE 0

\* Whoever may count a delivery once more is paid for: by the first claim, by a
\* failure or by a claim that overtook somebody.
CreditOf(d, q) == Count(d, q) + Cardinality(Owing(d, q)) + One(Free(d, q)) <= 1 + failures + lapses[d]
CreditRight == \A d \in Watched : \A q \in Questions : CreditOf(d, q)

\* All hands but one that a pending row is in have been overtaken.
HoldersOf(d) ==
    rows[d].status # "deleted" =>
        Cardinality(Holders(d)) <= lapses[d] + One(rows[d].status = "pending")
HoldersRight == \A d \in Watched : HoldersOf(d)

\* A delivery that was never overtaken is in one hand.
AloneOf(d) ==
    lapses[d] = 0 => \A v, w \in Workers : Holds(v, d) /\ Holds(w, d) => v = w
Alone == \A d \in Watched : AloneOf(d)

\* How long the requests of n deliveries can take, and how long it can still take
\* until the k-th delivery in hand is done with.
Span(n) == n * HTTP_TIMEOUT_SECONDS
TimeLeft(w, k) ==
    CASE workers[w].pc = "fetch" -> workers[w].deadline + Span(k - 1)
      [] workers[w].pc = "apply" -> Span(k - 1)
      [] OTHER -> Span(k)

\* Its row still says what it said when it was claimed, and no more of its lease
\* is gone than the deliveries before it can have taken.
ItemRight(w, k) ==
    LET item == workers[w].batch[k]
        row == rows[item.id]
    IN  /\ row.status \in {"pending", "deleted"}
        /\ item.attempt = row.attemptCount + 1
        /\ IN_FLIGHT_LEASE_SECONDS - row.dueIn <= Span(item.place) - TimeLeft(w, k)

ItemsRight ==
    \A w \in Workers : \A k \in DOMAIN workers[w].batch :
        workers[w].batch[k].id \in Watched /\ lapses[workers[w].batch[k].id] = 0 => ItemRight(w, k)

WorkerInv == WorkerTypes /\ HandsRight /\ CreditRight /\ HoldersRight /\ Alone /\ ItemsRight

-----------------------------------------------------------------------------
(* Lemmas about spans, batches and counts                                  *)

LEMMA SpanNat ==
    ASSUME NEW n \in Nat
    PROVE  Span(n) \in Nat /\ Span(n + 1) = Span(n) + HTTP_TIMEOUT_SECONDS
<1>1. HTTP_TIMEOUT_SECONDS \in Nat  BY WorkerNumbers
<1>2. n * HTTP_TIMEOUT_SECONDS \in Nat  BY <1>1
<1>3. (n + 1) * HTTP_TIMEOUT_SECONDS = n * HTTP_TIMEOUT_SECONDS + HTTP_TIMEOUT_SECONDS  BY <1>1
<1> QED BY <1>2, <1>3 DEF Span

\* The spans before and after one more delivery.
LEMMA SpanStep ==
    ASSUME NEW k \in Nat \ {0}
    PROVE  /\ k - 1 \in Nat /\ Span(k - 1) \in Nat /\ Span(k) \in Nat
           /\ Span(k) = HTTP_TIMEOUT_SECONDS + Span(k - 1)
           /\ HTTP_TIMEOUT_SECONDS \in Nat
<1>1. k - 1 \in Nat /\ (k - 1) + 1 = k  OBVIOUS
<1>2. Span(k - 1) \in Nat /\ Span(k) = Span(k - 1) + HTTP_TIMEOUT_SECONDS  BY <1>1, SpanNat
<1>3. HTTP_TIMEOUT_SECONDS \in Nat  BY WorkerNumbers
<1> QED BY <1>1, <1>2, <1>3

\* A non-empty batch has a first delivery, and one less without it.
LEMMA BatchHead ==
    ASSUME NEW b \in Seq(BatchItems), b # <<>>
    PROVE  /\ 1 \in DOMAIN b /\ Head(b) = b[1] /\ b[1] \in BatchItems /\ Tail(b) \in Seq(BatchItems)
           /\ \A k \in DOMAIN Tail(b) :
                 k \in Nat \ {0} /\ k + 1 \in DOMAIN b /\ k + 1 # 1 /\ Tail(b)[k] = b[k + 1]
           /\ \A j \in DOMAIN b : j # 1 => j - 1 \in DOMAIN Tail(b) /\ Tail(b)[j - 1] = b[j]
<1>1. Len(b) \in Nat \ {0}  OBVIOUS
<1>2. Head(b) = b[1] /\ 1 \in DOMAIN b /\ b[1] \in BatchItems  BY <1>1
<1>3. Tail(b) \in Seq(BatchItems) /\ Len(Tail(b)) = Len(b) - 1 /\ DOMAIN Tail(b) = 1 .. Len(b) - 1
  OBVIOUS
<1>4. \A k \in 1 .. Len(b) - 1 : Tail(b)[k] = b[k + 1]  OBVIOUS
<1>5. DOMAIN b = 1 .. Len(b)  OBVIOUS
<1>6. ASSUME NEW k \in DOMAIN Tail(b)
      PROVE  k \in Nat \ {0} /\ k + 1 \in DOMAIN b /\ k + 1 # 1 /\ Tail(b)[k] = b[k + 1]
  <2>1. k \in 1 .. Len(b) - 1  BY <1>3
  <2> QED BY <1>1, <1>4, <1>5, <2>1
<1>7. ASSUME NEW j \in DOMAIN b, j # 1 PROVE j - 1 \in DOMAIN Tail(b) /\ Tail(b)[j - 1] = b[j]
  <2>1. j - 1 \in 1 .. Len(b) - 1 /\ (j - 1) + 1 = j  BY <1>1, <1>5, <1>7
  <2>2. Tail(b)[j - 1] = b[(j - 1) + 1]  BY <1>4, <2>1
  <2> QED BY <1>3, <2>1, <2>2
<1> QED BY <1>2, <1>3, <1>6, <1>7

\* What a delivery in hand is.
LEMMA ItemType ==
    ASSUME WorkerTypes, NEW w \in Workers, NEW k \in DOMAIN workers[w].batch
    PROVE  /\ k \in Nat \ {0} /\ workers[w].batch[k] \in BatchItems
           /\ workers[w].batch[k].id \in Deliveries /\ workers[w].batch[k].attempt \in Attempts
           /\ workers[w].batch[k].place \in Nat
           /\ rows[workers[w].batch[k].id] \in RowType
<1>1. workers[w].batch \in Seq(BatchItems)  BY DEF WorkerTypes, WorkerType
<1>2. workers[w].batch[k] \in BatchItems /\ k \in Nat \ {0}  BY <1>1
<1> QED BY <1>2 DEF BatchItems, WorkerTypes

\* The time that a delivery in hand can still take is a number.
LEMMA TimeLeftNat ==
    ASSUME WorkerTypes, NEW w \in Workers, NEW k \in DOMAIN workers[w].batch
    PROVE  TimeLeft(w, k) \in Nat
<1>1. k \in Nat \ {0}  BY ItemType
<1>2. workers[w].deadline \in Nat  BY DEF WorkerTypes, WorkerType
<1>3. Span(k - 1) \in Nat /\ Span(k) \in Nat  BY <1>1, SpanStep
<1>4. workers[w].deadline + Span(k - 1) \in Nat  BY <1>2, <1>3
<1> QED BY <1>3, <1>4 DEF TimeLeft

TimesRight == \A w \in Workers : \A k \in DOMAIN workers[w].batch : TimeLeft(w, k) \in Nat

LEMMA TimesLeftNat == WorkerTypes => TimesRight
BY TimeLeftNat DEF TimesRight

\* If two sets differ at most in one element, and the second has lost others at
\* most, then so do their sizes.
LEMMA OneMore ==
    ASSUME NEW S, IsFiniteSet(S), NEW T, NEW x, T \ {x} \subseteq S
    PROVE  /\ Cardinality(S) \in Nat /\ Cardinality(T) \in Nat
           /\ Cardinality(T) + One(x \in S) <= Cardinality(S) + One(x \in T)
<1> DEFINE s == S \ {x}
           t == T \ {x}
<1>1. IsFiniteSet(s) /\ Cardinality(s) = IF x \in S THEN Cardinality(S) - 1 ELSE Cardinality(S)
  BY FS_RemoveElement
<1>2. t \in SUBSET s  OBVIOUS
<1>3. IsFiniteSet(t) /\ Cardinality(t) <= Cardinality(s)  BY <1>1, <1>2, FS_Subset
<1>4. IsFiniteSet(t \cup {x})  BY <1>3, FS_AddElement
<1>5. IsFiniteSet(T)
  <2>1. T \in SUBSET (t \cup {x})  OBVIOUS
  <2> QED BY <1>4, <2>1, FS_Subset
<1>6. Cardinality(t) = IF x \in T THEN Cardinality(T) - 1 ELSE Cardinality(T)  BY <1>5, FS_RemoveElement
<1>7. Cardinality(S) \in Nat /\ Cardinality(T) \in Nat /\ Cardinality(s) \in Nat /\ Cardinality(t) \in Nat
  BY <1>1, <1>3, <1>5, FS_CardinalityType
<1>8. PICK a \in Nat, b \in Nat, c \in Nat, e \in Nat :
         a = Cardinality(S) /\ b = Cardinality(T) /\ c = Cardinality(s) /\ e = Cardinality(t)
  BY <1>7
<1>9. /\ c = (IF x \in S THEN a - 1 ELSE a) /\ e = (IF x \in T THEN b - 1 ELSE b) /\ e <= c
  BY <1>1, <1>3, <1>6, <1>8
<1>10. b + One(x \in S) <= a + One(x \in T)  BY <1>9 DEF One
<1> QED BY <1>8, <1>10

-----------------------------------------------------------------------------
(* Steps of one worker                                                     *)

\* Everybody but w goes on as before.
OthersStay(w) == \A v \in Workers : v # w => workers'[v] = workers[v]

\* A worker that changes nothing holds and owes what it did.
LEMMA SameHand ==
    ASSUME NEW v, workers'[v] = workers[v]
    PROVE  \A d, q : Holds(v, d)' = Holds(v, d) /\ Owes(v, d, q)' = Owes(v, d, q)
BY DEF Holds, Owes, May, Taken, Sent

\* The credit of a delivery after a step of w.
LEMMA Pay ==
    ASSUME WorkerTypes, WorkerTypes', NEW w \in Workers, OthersStay(w), NEW d \in Watched, NEW q \in Questions,
           CreditOf(d, q),
           Count(d, q)' + One(Owes(w, d, q)') + One(Free(d, q)') + failures + lapses[d]
             <= Count(d, q) + One(Owes(w, d, q)) + One(Free(d, q)) + failures' + lapses'[d]
    PROVE  CreditOf(d, q)'
<1>1. Owing(d, q)' \ {w} \subseteq Owing(d, q)
  <2> SUFFICES ASSUME NEW v \in Workers, v # w, Owes(v, d, q)' PROVE Owes(v, d, q)
    BY DEF Owing
  <2> QED BY SameHand DEF OthersStay
<1>2. IsFiniteSet(Owing(d, q))
  <2>1. Owing(d, q) \in SUBSET Workers  BY DEF Owing
  <2> QED BY <2>1, WorkerNumbers, FS_Subset
<1>3. PICK T : T = Owing(d, q)'  OBVIOUS
<1>4. PICK a \in Nat, b \in Nat :
         /\ a = Cardinality(Owing(d, q)) /\ b = Cardinality(T)
         /\ b + One(w \in Owing(d, q)) <= a + One(w \in T)
  <2>1. T \ {w} \subseteq Owing(d, q)  BY <1>1, <1>3
  <2> QED BY <1>2, <2>1, OneMore
<1>5. One(w \in Owing(d, q)) = One(Owes(w, d, q)) /\ One(w \in T) = One(Owes(w, d, q)')
  BY <1>3 DEF Owing, One
<1>6. PICK m, n : m = Count(d, q) /\ n = Count(d, q)'  OBVIOUS
<1>7. m \in Nat /\ n \in Nat
  <2>1. accepted[d] \in Nat /\ accepted'[d] \in Nat  BY DEF WorkerTypes
  <2>2. q # 0 => posts[d][q] \in Nat /\ posts'[d][q] \in Nat
    <3>1. posts[d] \in [Attempts -> Nat] /\ posts'[d] \in [Attempts -> Nat]  BY DEF WorkerTypes
    <3>2. q # 0 => q \in Attempts  BY WorkerNumbers DEF Questions, Attempts
    <3> QED BY <3>1, <3>2
  <2> QED BY <1>6, <2>1, <2>2 DEF Count
<1>8. failures \in Nat /\ failures' \in Nat /\ lapses[d] \in Nat /\ lapses'[d] \in Nat  BY DEF WorkerTypes
<1>9. PICK x, y, f, g : /\ x = One(Owes(w, d, q)) /\ y = One(Owes(w, d, q)')
                        /\ f = One(Free(d, q)) /\ g = One(Free(d, q)')
  OBVIOUS
<1>10. x \in 0 .. 1 /\ y \in 0 .. 1 /\ f \in 0 .. 1 /\ g \in 0 .. 1  BY <1>9 DEF One
<1>11. b + x <= a + y  BY <1>4, <1>5, <1>9
<1>12. n + y + g + failures + lapses[d] <= m + x + f + failures' + lapses'[d]  BY <1>6, <1>9
<1>13. m + a + f <= 1 + failures + lapses[d]  BY <1>4, <1>6, <1>9 DEF CreditOf
<1>14. n + b + g <= 1 + failures' + lapses'[d]
  BY ONLY a \in Nat, b \in Nat, <1>7, <1>8, <1>10, <1>11, <1>12, <1>13
<1>15. CreditOf(d, q)' = (n + b + g <= 1 + failures' + lapses'[d])
  BY <1>3, <1>4, <1>6, <1>9 DEF CreditOf, One
<1> QED BY <1>14, <1>15

\* The hands that a row is in after a step of w.
LEMMA Hand ==
    ASSUME WorkerTypes, WorkerTypes', NEW w \in Workers, OthersStay(w), NEW d \in Watched, HoldersOf(d),
           rows'[d].status # "deleted" =>
              /\ rows[d].status # "deleted"
              /\ One(Holds(w, d)') + lapses[d] + One(rows[d].status = "pending")
                   <= One(Holds(w, d)) + lapses'[d] + One(rows'[d].status = "pending")
    PROVE  HoldersOf(d)'
<1> SUFFICES ASSUME rows'[d].status # "deleted" PROVE HoldersOf(d)'
  BY DEF HoldersOf
<1>1. Holders(d)' \ {w} \subseteq Holders(d)
  <2> SUFFICES ASSUME NEW v \in Workers, v # w, Holds(v, d)' PROVE Holds(v, d)
    BY DEF Holders
  <2> QED BY SameHand DEF OthersStay
<1>2. IsFiniteSet(Holders(d))
  <2>1. Holders(d) \in SUBSET Workers  BY DEF Holders
  <2> QED BY <2>1, WorkerNumbers, FS_Subset
<1>3. PICK T : T = Holders(d)'  OBVIOUS
<1>4. PICK a \in Nat, b \in Nat :
         /\ a = Cardinality(Holders(d)) /\ b = Cardinality(T)
         /\ b + One(w \in Holders(d)) <= a + One(w \in T)
  <2>1. T \ {w} \subseteq Holders(d)  BY <1>1, <1>3
  <2> QED BY <1>2, <2>1, OneMore
<1>5. One(w \in Holders(d)) = One(Holds(w, d)) /\ One(w \in T) = One(Holds(w, d)')
  BY <1>3 DEF Holders, One
<1>6. lapses[d] \in Nat /\ lapses'[d] \in Nat  BY DEF WorkerTypes
<1>7. PICK x, y, f, g : /\ x = One(Holds(w, d)) /\ y = One(Holds(w, d)')
                        /\ f = One(rows[d].status = "pending") /\ g = One(rows'[d].status = "pending")
  OBVIOUS
<1>8. x \in 0 .. 1 /\ y \in 0 .. 1 /\ f \in 0 .. 1 /\ g \in 0 .. 1  BY <1>7 DEF One
<1>9. b + x <= a + y  BY <1>4, <1>5, <1>7
<1>10. y + lapses[d] + f <= x + lapses'[d] + g  BY <1>7
<1>11. a <= lapses[d] + f  BY <1>4, <1>7 DEF HoldersOf
<1>12. b <= lapses'[d] + g
  BY ONLY a \in Nat, b \in Nat, <1>6, <1>8, <1>9, <1>10, <1>11
<1>13. HoldersOf(d)' = (b <= lapses'[d] + g)
  BY <1>3, <1>4, <1>7 DEF HoldersOf, One
<1> QED BY <1>12, <1>13

\* Empty hands hold nothing.
LEMMA EmptyHand ==
    ASSUME NEW v, workers[v].batch = <<>>
    PROVE  \A d, q : ~Holds(v, d) /\ ~Owes(v, d, q)
<1>1. DOMAIN <<>> = {}  OBVIOUS
<1> QED BY <1>1 DEF Holds, Owes

LEMMA EmptyHandNext ==
    ASSUME NEW v, workers'[v].batch = <<>>
    PROVE  \A d, q : ~Holds(v, d)' /\ ~Owes(v, d, q)'
<1>1. DOMAIN <<>> = {}  OBVIOUS
<1> QED BY <1>1 DEF Holds, Owes

\* A delivery that nothing happens to stays right in the hands it is in.
LEMMA ItemStays ==
    ASSUME NEW v, NEW k, ItemRight(v, k), workers'[v] = workers[v],
           rows'[workers[v].batch[k].id] = rows[workers[v].batch[k].id]
    PROVE  ItemRight(v, k)'
<1>1. TimeLeft(v, k)' = TimeLeft(v, k)  BY DEF TimeLeft
<1> QED BY <1>1 DEF ItemRight

\* A step in which nobody takes anything in hand leaves alone who was alone.
LEMMA AloneStays ==
    ASSUME Alone, lapses' = lapses, \A v \in Workers, d \in Watched : Holds(v, d)' => Holds(v, d)
    PROVE  Alone'
BY DEF Alone, AloneOf

\* A worker that lays down its batch has failed, or had nothing in hand.
LEMMA LayDown ==
    ASSUME WorkerInv, NEW w \in Workers, WorkerTypes', HandsRight', OthersStay(w),
           workers'[w].batch = <<>>, UNCHANGED <<rows, posts, accepted, lapses>>,
           \/ failures' = failures + 1
           \/ failures' = failures /\ workers[w].batch = <<>>
    PROVE  WorkerInv'
<1>1. WorkerTypes /\ HandsRight /\ CreditRight /\ HoldersRight /\ Alone /\ ItemsRight
  BY DEF WorkerInv
<1>2. \A d, q : ~Holds(w, d)' /\ ~Owes(w, d, q)'  BY EmptyHandNext
<1>3. \A v \in Workers : \A d : Holds(v, d)' => Holds(v, d)  BY <1>2, SameHand DEF OthersStay
<1>4. CreditRight'
  <2> SUFFICES ASSUME NEW d \in Watched, NEW q \in Questions PROVE CreditOf(d, q)'
    BY DEF CreditRight
  <2>1. CreditOf(d, q)  BY <1>1 DEF CreditRight
  <2>2. Count(d, q)' = Count(d, q) /\ lapses'[d] = lapses[d]  BY DEF Count
  <2>3. PICK m, l, x, f, g : /\ m = Count(d, q) /\ l = lapses[d] /\ x = One(Owes(w, d, q))
                             /\ f = One(Free(d, q)) /\ g = One(Free(d, q)')
    OBVIOUS
  <2>4. One(Owes(w, d, q)') = 0  BY <1>2 DEF One
  <2>5. x \in 0 .. 1 /\ f \in 0 .. 1 /\ g \in 0 .. 1 /\ failures \in Nat /\ l \in Nat
    BY <1>1, <2>3 DEF One, WorkerTypes
  <2>6. m \in Nat
    <3>1. posts[d] \in [Attempts -> Nat] /\ accepted[d] \in Nat  BY <1>1 DEF WorkerTypes
    <3>2. q # 0 => q \in Attempts  BY WorkerNumbers DEF Questions, Attempts
    <3> QED BY <2>3, <3>1, <3>2 DEF Count
  <2>7. CASE failures' = failures + 1
    <3>1. m + 0 + g + failures + l <= m + x + f + failures' + l  BY <2>5, <2>6, <2>7
    <3> QED BY <1>1, <2>1, <2>2, <2>3, <2>4, <3>1, Pay
  <2>8. CASE failures' = failures /\ workers[w].batch = <<>>
    <3>1. \A v \in Workers : workers'[v].batch = workers[v].batch  BY <2>8 DEF OthersStay
    <3>2. Holders(d)' = Holders(d)  BY <3>1 DEF Holders, Holds
    <3>3. g = f  BY <2>3, <3>2 DEF Free, One
    <3>4. m + 0 + g + failures + l <= m + x + f + failures' + l  BY <2>5, <2>6, <2>8, <3>3
    <3> QED BY <1>1, <2>1, <2>2, <2>3, <2>4, <3>4, Pay
  <2> QED BY <2>7, <2>8
<1>5. HoldersRight'
  <2> SUFFICES ASSUME NEW d \in Watched PROVE HoldersOf(d)'
    BY DEF HoldersRight
  <2>1. HoldersOf(d)  BY <1>1 DEF HoldersRight
  <2>2. rows'[d] = rows[d] /\ lapses'[d] = lapses[d] /\ lapses[d] \in Nat  BY <1>1 DEF WorkerTypes
  <2>3. One(Holds(w, d)') <= One(Holds(w, d))  BY <1>2 DEF One
  <2>4. One(Holds(w, d)') + lapses[d] + One(rows[d].status = "pending")
          <= One(Holds(w, d)) + lapses'[d] + One(rows'[d].status = "pending")
    BY <2>2, <2>3 DEF One
  <2> QED BY <1>1, <2>1, <2>2, <2>4, Hand
<1>6. Alone'  BY <1>1, <1>3, AloneStays
<1>7. ItemsRight'
  <2> SUFFICES ASSUME NEW v \in Workers, NEW k \in DOMAIN workers'[v].batch,
                      workers'[v].batch[k].id \in Watched, lapses'[workers'[v].batch[k].id] = 0
               PROVE  ItemRight(v, k)'
    BY DEF ItemsRight
  <2>1. v # w
    <3>1. DOMAIN <<>> = {}  OBVIOUS
    <3> QED BY <3>1
  <2>2. workers'[v] = workers[v]  BY <2>1 DEF OthersStay
  <2>3. ItemRight(v, k)  BY <1>1, <2>2 DEF ItemsRight
  <2> QED BY <2>2, <2>3, ItemStays
<1> QED BY <1>4, <1>5, <1>6, <1>7 DEF WorkerInv

\* A worker that goes on with the first delivery of its batch.
LEMMA GoOn ==
    ASSUME WorkerInv, NEW w \in Workers, WorkerTypes', HandsRight', OthersStay(w),
           workers'[w].batch = workers[w].batch, workers[w].batch # <<>>,
           UNCHANGED <<rows, failures, lapses>>,
           \A k \in DOMAIN workers[w].batch : TimeLeft(w, k)' <= TimeLeft(w, k),
           NEW item, item = workers[w].batch[1],
           \A d \in Watched : \A q \in Questions : d # item.id => Count(d, q)' = Count(d, q),
           item.id \in Watched => \A q \in Questions :
              Count(item.id, q)' + One(May(w, 1, q)') <= Count(item.id, q) + One(May(w, 1, q))
    PROVE  WorkerInv'
<1>1. WorkerTypes /\ HandsRight /\ CreditRight /\ HoldersRight /\ Alone /\ ItemsRight
  BY DEF WorkerInv
<1>2. \A v \in Workers : workers'[v].batch = workers[v].batch  BY DEF OthersStay
<1>3. \A v \in Workers : \A d : Holds(v, d)' = Holds(v, d)  BY <1>2 DEF Holds
<1>4. \A d : Holders(d)' = Holders(d)  BY <1>3 DEF Holders
<1>5. workers[w].batch \in Seq(BatchItems)  BY <1>1 DEF WorkerTypes, WorkerType
<1>6. 1 \in DOMAIN workers[w].batch  BY <1>5, BatchHead
<1>7. CreditRight'
  <2> SUFFICES ASSUME NEW d \in Watched, NEW q \in Questions PROVE CreditOf(d, q)'
    BY DEF CreditRight
  <2>1. CreditOf(d, q)  BY <1>1 DEF CreditRight
  <2>2. Free(d, q)' = Free(d, q)  BY <1>4 DEF Free
  <2>3. q # 0 => q \in Attempts  BY WorkerNumbers DEF Questions, Attempts
  <2>4. Count(d, q) \in Nat
    <3>1. posts[d] \in [Attempts -> Nat] /\ accepted[d] \in Nat  BY <1>1 DEF WorkerTypes
    <3> QED BY <2>3, <3>1 DEF Count
  <2>5. Count(d, q)' \in Nat
    <3>1. posts'[d] \in [Attempts -> Nat] /\ accepted'[d] \in Nat  BY DEF WorkerTypes
    <3> QED BY <2>3, <3>1 DEF Count
  <2>6. Count(d, q)' + One(Owes(w, d, q)') <= Count(d, q) + One(Owes(w, d, q))
    <3>1. CASE d # item.id
      <4>1. ASSUME NEW k \in DOMAIN workers[w].batch, workers[w].batch[k].id = d
            PROVE  May(w, k, q)' = May(w, k, q)
        <5>1. k # 1  BY <3>1, <4>1
        <5> QED BY <5>1, <1>2 DEF May, Sent, Taken
      <4>2. Owes(w, d, q)' = Owes(w, d, q)  BY <1>2, <4>1 DEF Owes
      <4>3. Count(d, q)' = Count(d, q)  BY <3>1
      <4> QED BY <2>4, <4>2, <4>3 DEF One
    <3>2. CASE d = item.id
      <4>1. \A k \in DOMAIN workers[w].batch : workers[w].batch[k].id = d => k = 1
        BY <1>1, <1>6, <3>2 DEF HandsRight
      <4>2. One(Owes(w, d, q)) = One(May(w, 1, q))  BY <1>6, <3>2, <4>1 DEF Owes, One
      <4>3. One(Owes(w, d, q)') = One(May(w, 1, q)')  BY <1>2, <1>6, <3>2, <4>1 DEF Owes, One
      <4> QED BY <3>2, <4>2, <4>3
    <3> QED BY <3>1, <3>2
  <2>7. PICK m, n, l, x, y, f, g :
           /\ m = Count(d, q) /\ n = Count(d, q)' /\ l = lapses[d]
           /\ x = One(Owes(w, d, q)) /\ y = One(Owes(w, d, q)')
           /\ f = One(Free(d, q)) /\ g = One(Free(d, q)')
    OBVIOUS
  <2>8. x \in 0 .. 1 /\ y \in 0 .. 1 /\ f \in 0 .. 1 /\ g = f /\ failures \in Nat /\ l \in Nat
    BY <1>1, <2>2, <2>7 DEF One, WorkerTypes
  <2>9. n + y + g + failures + l <= m + x + f + failures + l  BY <2>4, <2>5, <2>6, <2>7, <2>8
  <2> QED BY <1>1, <2>1, <2>7, <2>9, Pay
<1>8. HoldersRight'  BY <1>1, <1>4 DEF HoldersRight, HoldersOf
<1>9. Alone'  BY <1>1, <1>3, AloneStays
<1>10. ItemsRight'
  <2> SUFFICES ASSUME NEW v \in Workers, NEW k \in DOMAIN workers[v].batch,
                      workers[v].batch[k].id \in Watched, lapses[workers[v].batch[k].id] = 0
               PROVE  ItemRight(v, k)'
    BY <1>2 DEF ItemsRight
  <2>1. ItemRight(v, k)  BY <1>1 DEF ItemsRight
  <2>2. CASE v # w  BY <2>1, <2>2, ItemStays DEF OthersStay
  <2>3. CASE v = w
    <3>1. PICK t, u, it : t = TimeLeft(w, k) /\ u = TimeLeft(w, k)' /\ it = workers[w].batch[k]  OBVIOUS
    <3>2. t \in Nat  BY <1>1, <2>3, <3>1, TimeLeftNat
    <3>3. u \in Nat
      <4>1. TimesRight'  BY TimesLeftNat, PTL
      <4> QED BY <1>2, <2>3, <3>1, <4>1 DEF TimesRight
    <3>4. u <= t  BY <2>3, <3>1
    <3>5. /\ it.place \in Nat /\ rows[it.id] \in RowType  BY <1>1, <2>3, <3>1, ItemType
    <3>6. Span(it.place) \in Nat /\ rows[it.id].dueIn \in Int /\ IN_FLIGHT_LEASE_SECONDS \in Nat
      BY <3>5, SpanNat, WorkerNumbers DEF RowType
    <3>7. IN_FLIGHT_LEASE_SECONDS - rows[it.id].dueIn <= Span(it.place) - t
      BY <2>1, <2>3, <3>1 DEF ItemRight
    <3>8. IN_FLIGHT_LEASE_SECONDS - rows[it.id].dueIn <= Span(it.place) - u
      BY <3>2, <3>3, <3>4, <3>6, <3>7
    <3> QED BY <1>2, <2>1, <2>3, <3>1, <3>8 DEF ItemRight
  <2> QED BY <2>2, <2>3
<1> QED BY <1>7, <1>8, <1>9, <1>10 DEF WorkerInv

-----------------------------------------------------------------------------
(* One lemma per action                                                    *)

\* The next state of one worker, given its type and that it fits its hands.
LEMMA OneWorker ==
    ASSUME WorkerTypes, HandsRight, NEW w \in Workers, NEW next \in WorkerType,
           workers' = [workers EXCEPT ![w] = next],
           next.pc \in {"off", "sleeping"} => next.batch = <<>>,
           next.pc \in {"fetch", "apply"} => next.batch # <<>>,
           next.pc = "apply" => next.outcome # "none",
           \A k, j \in DOMAIN next.batch : next.batch[k].id = next.batch[j].id => k = j
    PROVE  /\ workers' \in [Workers -> WorkerType] /\ HandsRight'
           /\ OthersStay(w) /\ workers'[w] = next
<1>1. workers'[w] = next /\ \A v \in Workers : v # w => workers'[v] = workers[v]  BY DEF WorkerTypes
<1>2. workers' \in [Workers -> WorkerType]  BY DEF WorkerTypes
<1>3. HandsRight'
  <2> SUFFICES ASSUME NEW v \in Workers
               PROVE  /\ workers'[v].pc \in {"off", "sleeping"} => workers'[v].batch = <<>>
                      /\ workers'[v].pc \in {"fetch", "apply"} => workers'[v].batch # <<>>
                      /\ workers'[v].pc = "apply" => workers'[v].outcome # "none"
                      /\ \A k, j \in DOMAIN workers'[v].batch :
                            workers'[v].batch[k].id = workers'[v].batch[j].id => k = j
    BY DEF HandsRight
  <2>1. CASE v = w  BY <1>1, <2>1
  <2>2. CASE v # w  BY <1>1, <2>2 DEF HandsRight
  <2> QED BY <2>1, <2>2
<1> QED BY <1>1, <1>2, <1>3 DEF OthersStay

LEMMA OffType == Off \in WorkerType /\ Off.batch = <<>>
BY DEF Off, WorkerType

\* start, the end of a tick, a failed UPDATE and a crash leave no batch.
LEMMA LayDownSteps ==
    ASSUME WorkerInv, NEW w \in Workers, Start(w) \/ EndOfBatch(w) \/ FailApply(w) \/ Crash(w)
    PROVE  WorkerInv'
<1>1. WorkerTypes /\ HandsRight /\ failures \in Nat /\ workers[w] \in WorkerType
  BY DEF WorkerInv, WorkerTypes
<1>2. UNCHANGED <<rows, posts, accepted, lapses>>  BY DEF Start, EndOfBatch, FailApply, Crash
<1>3. \/ failures' = failures + 1
      \/ failures' = failures /\ workers[w].batch = <<>>
  BY <1>1 DEF Start, EndOfBatch, FailApply, Crash, HandsRight
<1>4. \E next \in WorkerType :
         /\ workers' = [workers EXCEPT ![w] = next]
         /\ next.pc \in {"off", "sleeping"} /\ next.batch = <<>>
  <2>1. CASE Start(w)
    <3> DEFINE next == [workers[w] EXCEPT !.pc = "sleeping", !.stopped = FALSE]
    <3>1. workers' = [workers EXCEPT ![w] = next]  BY <1>1, <2>1 DEF Start, WorkerTypes
    <3>2. workers[w].batch = <<>>  BY <1>1, <2>1 DEF Start, HandsRight
    <3>3. next \in WorkerType /\ next.pc = "sleeping" /\ next.batch = <<>>  BY <1>1, <3>2 DEF WorkerType
    <3> HIDE DEF next
    <3> QED BY <3>1, <3>3
  <2>2. CASE EndOfBatch(w) \/ FailApply(w)
    <3> DEFINE next == [Off EXCEPT !.pc = IF workers[w].stopped THEN "off" ELSE "sleeping"]
    <3>1. workers' = [workers EXCEPT ![w] = next]  BY <2>2 DEF EndOfBatch, FailApply, EndTick
    <3>2. next \in WorkerType /\ next.pc \in {"off", "sleeping"} /\ next.batch = <<>>
      BY OffType DEF Off, WorkerType
    <3> HIDE DEF next
    <3> QED BY <3>1, <3>2
  <2>3. CASE Crash(w)
    <3>1. Off.pc = "off"  BY DEF Off
    <3> QED BY <2>3, <3>1, OffType DEF Crash
  <2> QED BY <2>1, <2>2, <2>3
<1>5. PICK next \in WorkerType :
         /\ workers' = [workers EXCEPT ![w] = next]
         /\ next.pc \in {"off", "sleeping"} /\ next.batch = <<>>
  BY <1>4
<1>6. \A k, j \in DOMAIN next.batch : next.batch[k].id = next.batch[j].id => k = j
  <2>1. DOMAIN <<>> = {}  OBVIOUS
  <2> QED BY <1>5, <2>1
<1>7. workers' \in [Workers -> WorkerType] /\ HandsRight' /\ OthersStay(w) /\ workers'[w] = next
  BY <1>1, <1>5, <1>6, OneWorker
<1>8. WorkerTypes'  BY <1>1, <1>2, <1>3, <1>7 DEF WorkerTypes
<1> QED BY <1>2, <1>3, <1>5, <1>7, <1>8, LayDown

\* What changes when a worker goes on with its batch.
LEMMA GoesOn ==
    ASSUME WorkerInv, NEW w \in Workers, NEW next \in WorkerType, workers' = [workers EXCEPT ![w] = next],
           next.batch = workers[w].batch, workers[w].batch # <<>>, next.pc \in {"loop", "fetch", "apply"},
           next.pc = "apply" => next.outcome # "none"
    PROVE  /\ workers' \in [Workers -> WorkerType] /\ HandsRight' /\ OthersStay(w)
           /\ workers'[w] = next /\ workers'[w].batch = workers[w].batch
           /\ workers[w].batch \in Seq(BatchItems) /\ 1 \in DOMAIN workers[w].batch
           /\ Head(workers[w].batch) = workers[w].batch[1] /\ workers[w].batch[1] \in BatchItems
<1>1. WorkerTypes /\ HandsRight  BY DEF WorkerInv
<1>2. \A k, j \in DOMAIN next.batch : next.batch[k].id = next.batch[j].id => k = j
  BY <1>1 DEF HandsRight
<1>3. workers' \in [Workers -> WorkerType] /\ HandsRight' /\ OthersStay(w) /\ workers'[w] = next
  BY <1>1, <1>2, OneWorker
<1>4. workers[w].batch \in Seq(BatchItems)  BY <1>1 DEF WorkerTypes, WorkerType
<1> QED BY <1>3, <1>4, BatchHead

LEMMA StopStep ==
    ASSUME WorkerInv, NEW w \in Workers, Stop(w)
    PROVE  WorkerInv'
<1>1. WorkerTypes /\ HandsRight /\ failures \in Nat /\ workers[w] \in WorkerType
  BY DEF WorkerInv, WorkerTypes
<1>2. UNCHANGED <<rows, failures, posts, accepted, lapses>>  BY DEF Stop
<1> DEFINE next == [workers[w] EXCEPT !.stopped = TRUE, !.pc = IF @ = "sleeping" THEN "off" ELSE @]
<1>3. workers' = [workers EXCEPT ![w] = next]  BY <1>1 DEF Stop, WorkerTypes
<1>4. /\ next \in WorkerType /\ next.batch = workers[w].batch /\ next.outcome = workers[w].outcome
      /\ next.deadline = workers[w].deadline
      /\ next.pc = IF workers[w].pc = "sleeping" THEN "off" ELSE workers[w].pc
  BY <1>1 DEF WorkerType
<1> HIDE DEF next
<1>5. CASE workers[w].batch = <<>>
  <2>1. /\ next.pc \in {"off", "sleeping"} => next.batch = <<>>
        /\ next.pc \in {"fetch", "apply"} => next.batch # <<>>
        /\ next.pc = "apply" => next.outcome # "none"
        /\ \A k, j \in DOMAIN next.batch : next.batch[k].id = next.batch[j].id => k = j
    BY <1>1, <1>4 DEF HandsRight
  <2>2. workers' \in [Workers -> WorkerType] /\ HandsRight' /\ OthersStay(w) /\ workers'[w] = next
    BY <1>1, <1>3, <1>4, <2>1, OneWorker
  <2>3. WorkerTypes'  BY <1>1, <1>2, <2>2 DEF WorkerTypes
  <2> QED BY <1>2, <1>4, <1>5, <2>2, <2>3, LayDown
<1>6. CASE workers[w].batch # <<>>
  <2>1. next.pc = workers[w].pc /\ next.pc \in {"loop", "fetch", "apply"}
        /\ (next.pc = "apply" => next.outcome # "none")
    BY <1>1, <1>4, <1>6 DEF HandsRight, WorkerType
  <2>2. /\ workers' \in [Workers -> WorkerType] /\ HandsRight' /\ OthersStay(w)
        /\ workers'[w] = next /\ workers'[w].batch = workers[w].batch /\ 1 \in DOMAIN workers[w].batch
    BY <1>3, <1>4, <1>6, <2>1, GoesOn
  <2>3. WorkerTypes'  BY <1>1, <1>2, <2>2 DEF WorkerTypes
  <2>4. \A k : TimeLeft(w, k)' = TimeLeft(w, k) /\ Sent(w, k)' = Sent(w, k) /\ Taken(w, k)' = Taken(w, k)
    BY <1>4, <2>1, <2>2 DEF TimeLeft, Sent, Taken
  <2>5. \A k \in DOMAIN workers[w].batch : TimeLeft(w, k)' <= TimeLeft(w, k)
    BY <1>1, <2>4, TimeLeftNat
  <2>6. PICK item : item = workers[w].batch[1]  OBVIOUS
  <2>7. \A d \in Watched : \A q \in Questions : Count(d, q)' = Count(d, q) /\ Count(d, q) \in Nat
    <3> SUFFICES ASSUME NEW d \in Watched, NEW q \in Questions
                 PROVE  Count(d, q)' = Count(d, q) /\ Count(d, q) \in Nat
      OBVIOUS
    <3>1. posts[d] \in [Attempts -> Nat] /\ accepted[d] \in Nat  BY <1>1 DEF WorkerTypes
    <3>2. q # 0 => q \in Attempts  BY WorkerNumbers DEF Questions, Attempts
    <3> QED BY <1>2, <3>1, <3>2 DEF Count
  <2>8. \A q \in Questions : One(May(w, 1, q)') = One(May(w, 1, q)) /\ One(May(w, 1, q)) \in Nat
    BY <2>2, <2>4 DEF May, One
  <2>9. item.id \in Watched => \A q \in Questions :
           Count(item.id, q)' + One(May(w, 1, q)') <= Count(item.id, q) + One(May(w, 1, q))
    BY <2>7, <2>8
  <2> QED BY <1>2, <1>6, <2>2, <2>3, <2>5, <2>6, <2>7, <2>9, GoOn
<1> QED BY <1>5, <1>6

LEMMA CountNat ==
    ASSUME WorkerTypes, NEW d \in Watched, NEW q \in Questions
    PROVE  Count(d, q) \in Nat /\ (q # 0 => q \in Attempts)
<1>1. posts[d] \in [Attempts -> Nat] /\ accepted[d] \in Nat  BY DEF WorkerTypes
<1>2. q # 0 => q \in Attempts  BY WorkerNumbers DEF Questions, Attempts
<1> QED BY <1>1, <1>2 DEF Count

LEMMA RefuseStep ==
    ASSUME WorkerInv, NEW w \in Workers, Refuse(w)
    PROVE  WorkerInv'
<1>1. WorkerTypes /\ HandsRight /\ failures \in Nat /\ workers[w] \in WorkerType
  BY DEF WorkerInv, WorkerTypes
<1>2. UNCHANGED <<rows, failures, posts, accepted, lapses>> /\ workers[w].pc = "loop" /\ workers[w].batch # <<>>
  BY DEF Refuse
<1>3. PICK o \in {"endpoint_disabled", "permanent"} :
         workers' = [workers EXCEPT ![w].pc = "apply", ![w].outcome = o]
  BY DEF Refuse
<1> DEFINE next == [workers[w] EXCEPT !.pc = "apply", !.outcome = o]
<1>4. workers' = [workers EXCEPT ![w] = next]  BY <1>1, <1>3 DEF WorkerTypes
<1>5. next \in WorkerType /\ next.batch = workers[w].batch /\ next.pc = "apply" /\ next.outcome = o
  BY <1>1 DEF WorkerType
<1> HIDE DEF next
<1>6. /\ workers' \in [Workers -> WorkerType] /\ HandsRight' /\ OthersStay(w)
      /\ workers'[w] = next /\ workers'[w].batch = workers[w].batch /\ 1 \in DOMAIN workers[w].batch
  BY <1>2, <1>4, <1>5, GoesOn
<1>7. WorkerTypes'  BY <1>1, <1>2, <1>6 DEF WorkerTypes
<1>8. \A k \in DOMAIN workers[w].batch : TimeLeft(w, k)' <= TimeLeft(w, k)
  <2> SUFFICES ASSUME NEW k \in DOMAIN workers[w].batch PROVE TimeLeft(w, k)' <= TimeLeft(w, k)
    OBVIOUS
  <2>1. TimeLeft(w, k) = Span(k) /\ TimeLeft(w, k)' = Span(k - 1)  BY <1>2, <1>5, <1>6 DEF TimeLeft
  <2>2. k \in Nat \ {0}  BY <1>1, ItemType
  <2> QED BY <2>1, <2>2, SpanStep
<1>9. PICK item : item = workers[w].batch[1]  OBVIOUS
<1>10. ~Sent(w, 1) /\ ~Taken(w, 1) /\ ~Taken(w, 1)'  BY <1>2, <1>5, <1>6 DEF Sent, Taken
<1>11. \A d \in Watched : \A q \in Questions : Count(d, q)' = Count(d, q) /\ Count(d, q) \in Nat
  BY <1>1, <1>2, CountNat DEF Count
<1>12. item.id \in Watched => \A q \in Questions :
          Count(item.id, q)' + One(May(w, 1, q)') <= Count(item.id, q) + One(May(w, 1, q))
  <2> SUFFICES ASSUME item.id \in Watched, NEW q \in Questions
               PROVE  Count(item.id, q)' + One(May(w, 1, q)') <= Count(item.id, q) + One(May(w, 1, q))
    OBVIOUS
  <2>1. May(w, 1, q)' => May(w, 1, q)  BY <1>6, <1>10 DEF May
  <2>2. One(May(w, 1, q)') <= One(May(w, 1, q)) /\ One(May(w, 1, q)') \in Nat /\ One(May(w, 1, q)) \in Nat
    BY <2>1 DEF One
  <2> QED BY <1>11, <2>2
<1> QED BY <1>2, <1>6, <1>7, <1>8, <1>9, <1>11, <1>12, GoOn

\* One more request of the attempt in hand.
LEMMA PostCounts ==
    ASSUME WorkerTypes, NEW item \in BatchItems,
           posts' = [d \in Watched |-> IF d = item.id THEN [posts[d] EXCEPT ![item.attempt] = @ + 1] ELSE posts[d]],
           accepted' = accepted
    PROVE  /\ posts' \in [Watched -> [Attempts -> Nat]]
           /\ \A d \in Watched : \A q \in Questions :
                 /\ Count(d, q) \in Nat
                 /\ Count(d, q)' = IF d = item.id /\ q = item.attempt THEN Count(d, q) + 1 ELSE Count(d, q)
<1>1. item.attempt \in Attempts  BY DEF BatchItems
<1>2. item.attempt \in Nat \ {0}  BY <1>1, WorkerNumbers DEF Attempts
<1>3. \A d \in Watched : posts[d] \in [Attempts -> Nat]  BY DEF WorkerTypes
<1>4. ASSUME NEW d \in Watched
      PROVE  /\ posts'[d] \in [Attempts -> Nat]
             /\ d # item.id => posts'[d] = posts[d]
             /\ \A q \in Attempts :
                   posts'[d][q] = IF d = item.id /\ q = item.attempt THEN posts[d][q] + 1 ELSE posts[d][q]
  <2>1. posts'[d] = IF d = item.id THEN [posts[d] EXCEPT ![item.attempt] = @ + 1] ELSE posts[d]
    OBVIOUS
  <2> QED BY <1>1, <1>3, <2>1
<1>5. posts' \in [Watched -> [Attempts -> Nat]]
  <2>1. posts' = [d \in Watched |-> posts'[d]]  OBVIOUS
  <2> QED BY <1>4, <2>1
<1>6. ASSUME NEW d \in Watched, NEW q \in Questions
      PROVE  /\ Count(d, q) \in Nat
             /\ Count(d, q)' = IF d = item.id /\ q = item.attempt THEN Count(d, q) + 1 ELSE Count(d, q)
  <2>1. Count(d, q) \in Nat /\ (q # 0 => q \in Attempts)  BY CountNat
  <2>2. CASE q = 0  BY <1>2, <2>1, <2>2 DEF Count
  <2>3. CASE q # 0  BY <1>4, <2>1, <2>3 DEF Count
  <2> QED BY <2>2, <2>3
<1> QED BY <1>5, <1>6

LEMMA PostStep ==
    ASSUME WorkerInv, NEW w \in Workers, Post(w)
    PROVE  WorkerInv'
<1>1. WorkerTypes /\ HandsRight /\ failures \in Nat /\ workers[w] \in WorkerType
  BY DEF WorkerInv, WorkerTypes
<1>2. UNCHANGED <<rows, failures, accepted, lapses>> /\ workers[w].pc = "loop" /\ workers[w].batch # <<>>
  BY DEF Post
<1> DEFINE b == workers[w].batch
<1>3. HTTP_TIMEOUT_SECONDS \in Nat  BY WorkerNumbers
<1> DEFINE Posted(next) ==
              /\ workers' = [workers EXCEPT ![w] = next] /\ next.batch = b
              /\ \/ next.pc = "apply" /\ next.outcome = "retry"
                 \/ next.pc = "fetch" /\ next.deadline = HTTP_TIMEOUT_SECONDS
<1>4. \E next \in WorkerType : Posted(next)
  <2>1. CASE workers' = [workers EXCEPT ![w].pc = "apply", ![w].outcome = "retry"]
    <3> DEFINE next == [workers[w] EXCEPT !.pc = "apply", !.outcome = "retry"]
    <3>1. workers' = [workers EXCEPT ![w] = next]  BY <1>1, <2>1 DEF WorkerTypes
    <3>2. next \in WorkerType /\ next.batch = b /\ next.pc = "apply" /\ next.outcome = "retry"
      BY <1>1 DEF WorkerType
    <3> HIDE DEF next
    <3> QED BY <3>1, <3>2
  <2>2. ASSUME NEW peer \in Peers,
               workers' = [workers EXCEPT ![w].pc = "fetch", ![w].deadline = HTTP_TIMEOUT_SECONDS,
                                          ![w].peer = peer]
        PROVE  \E next \in WorkerType : Posted(next)
    <3> DEFINE next == [workers[w] EXCEPT !.pc = "fetch", !.deadline = HTTP_TIMEOUT_SECONDS, !.peer = peer]
    <3>1. workers' = [workers EXCEPT ![w] = next]  BY <1>1, <2>2 DEF WorkerTypes
    <3>2. next \in WorkerType /\ next.batch = b /\ next.pc = "fetch" /\ next.deadline = HTTP_TIMEOUT_SECONDS
      BY <1>1, <1>3 DEF WorkerType
    <3> HIDE DEF next
    <3> QED BY <3>1, <3>2
  <2> QED BY <2>1, <2>2 DEF Post
<1>5. PICK next \in WorkerType : Posted(next)
  BY <1>4
<1>6. /\ workers' \in [Workers -> WorkerType] /\ HandsRight' /\ OthersStay(w)
      /\ workers'[w] = next /\ workers'[w].batch = b /\ 1 \in DOMAIN b /\ Head(b) = b[1] /\ b[1] \in BatchItems
  BY <1>2, <1>5, GoesOn
<1>7. PICK item \in BatchItems : item = b[1]  BY <1>6
<1>8. posts' = [d \in Watched |-> IF d = item.id THEN [posts[d] EXCEPT ![item.attempt] = @ + 1] ELSE posts[d]]
  BY <1>6, <1>7 DEF Post
<1>9. /\ posts' \in [Watched -> [Attempts -> Nat]]
      /\ \A d \in Watched : \A q \in Questions :
            /\ Count(d, q) \in Nat
            /\ Count(d, q)' = IF d = item.id /\ q = item.attempt THEN Count(d, q) + 1 ELSE Count(d, q)
  BY <1>1, <1>2, <1>8, PostCounts
<1>10. WorkerTypes'  BY <1>1, <1>2, <1>6, <1>9 DEF WorkerTypes
<1>11. \A k \in DOMAIN b : TimeLeft(w, k)' <= TimeLeft(w, k)
  <2> SUFFICES ASSUME NEW k \in DOMAIN b PROVE TimeLeft(w, k)' <= TimeLeft(w, k)
    OBVIOUS
  <2>1. TimeLeft(w, k) = Span(k)  BY <1>2 DEF TimeLeft
  <2>2. k \in Nat \ {0}  BY <1>1, ItemType
  <2>3. PICK s : s = Span(k - 1)  OBVIOUS
  <2>4. s \in Nat /\ Span(k) = HTTP_TIMEOUT_SECONDS + s  BY <2>2, <2>3, SpanStep
  <2>5. TimeLeft(w, k)' = s \/ TimeLeft(w, k)' = HTTP_TIMEOUT_SECONDS + s
    <3>1. CASE next.pc = "apply"  BY <1>6, <2>3, <3>1 DEF TimeLeft
    <3>2. CASE next.pc = "fetch" /\ next.deadline = HTTP_TIMEOUT_SECONDS  BY <1>6, <2>3, <3>2 DEF TimeLeft
    <3> QED BY <1>5, <3>1, <3>2
  <2> QED BY <1>3, <2>1, <2>4, <2>5
<1>12. ~Sent(w, 1) /\ Sent(w, 1)' /\ ~Taken(w, 1) /\ ~Taken(w, 1)'  BY <1>2, <1>5, <1>6 DEF Sent, Taken
<1>13. item.id \in Watched => \A q \in Questions :
          Count(item.id, q)' + One(May(w, 1, q)') <= Count(item.id, q) + One(May(w, 1, q))
  <2> SUFFICES ASSUME item.id \in Watched, NEW q \in Questions
               PROVE  Count(item.id, q)' + One(May(w, 1, q)') <= Count(item.id, q) + One(May(w, 1, q))
    OBVIOUS
  <2>1. item.attempt \in Nat \ {0} /\ q \in Nat
    BY WorkerNumbers DEF BatchItems, Attempts, Questions
  <2>2. CASE q = item.attempt
    <3>1. May(w, 1, q) /\ ~May(w, 1, q)'
      BY <1>6, <1>7, <1>12, <2>1, <2>2 DEF May
    <3>2. One(May(w, 1, q)) = 1 /\ One(May(w, 1, q)') = 0  BY <3>1 DEF One
    <3>3. Count(item.id, q)' = Count(item.id, q) + 1 /\ Count(item.id, q) \in Nat  BY <1>9, <2>2
    <3> QED BY <3>2, <3>3
  <2>3. CASE q # item.attempt
    <3>1. May(w, 1, q)' => May(w, 1, q)  BY <1>6, <1>7, <1>12, <2>3 DEF May
    <3>2. One(May(w, 1, q)') <= One(May(w, 1, q)) /\ One(May(w, 1, q)') \in Nat /\ One(May(w, 1, q)) \in Nat
      BY <3>1 DEF One
    <3>3. Count(item.id, q)' = Count(item.id, q) /\ Count(item.id, q) \in Nat  BY <1>9, <2>3
    <3> QED BY <3>2, <3>3
  <2> QED BY <2>2, <2>3
<1> QED BY <1>2, <1>6, <1>7, <1>9, <1>10, <1>11, <1>13, GoOn

LEMMA AnswerStep ==
    ASSUME WorkerInv, NEW w \in Workers, Answer(w)
    PROVE  WorkerInv'
<1>1. WorkerTypes /\ HandsRight /\ failures \in Nat /\ workers[w] \in WorkerType
  BY DEF WorkerInv, WorkerTypes
<1>2. UNCHANGED <<rows, failures, posts, lapses>> /\ workers[w].pc = "fetch" /\ workers[w].batch # <<>>
  BY <1>1 DEF Answer, HandsRight
<1> DEFINE b == workers[w].batch
<1>3. PICK o \in {"delivered", "retry", "permanent"} :
         /\ workers' = [workers EXCEPT ![w].pc = "apply", ![w].outcome = o, ![w].deadline = 0,
                                       ![w].peer = NoPeer]
         /\ accepted' = [d \in Watched |->
               IF d = Head(workers[w].batch).id /\ o = "delivered" THEN accepted[d] + 1 ELSE accepted[d]]
  BY DEF Answer
<1> DEFINE next == [workers[w] EXCEPT !.pc = "apply", !.outcome = o, !.deadline = 0, !.peer = NoPeer]
<1>4. workers' = [workers EXCEPT ![w] = next]  BY <1>1, <1>3 DEF WorkerTypes
<1>5. next \in WorkerType /\ next.batch = b /\ next.pc = "apply" /\ next.outcome = o
  BY <1>1 DEF WorkerType
<1> HIDE DEF next
<1>6. /\ workers' \in [Workers -> WorkerType] /\ HandsRight' /\ OthersStay(w)
      /\ workers'[w] = next /\ workers'[w].batch = b /\ 1 \in DOMAIN b /\ Head(b) = b[1] /\ b[1] \in BatchItems
  BY <1>2, <1>4, <1>5, GoesOn
<1>7. PICK item \in BatchItems : item = b[1]  BY <1>6
<1>8. /\ accepted' \in [Watched -> Nat]
      /\ \A d \in Watched : accepted'[d] =
            IF d = item.id /\ o = "delivered" THEN accepted[d] + 1 ELSE accepted[d]
  BY <1>1, <1>3, <1>6, <1>7 DEF WorkerTypes
<1>9. WorkerTypes'  BY <1>1, <1>2, <1>6, <1>8 DEF WorkerTypes
<1>10. \A k \in DOMAIN b : TimeLeft(w, k)' <= TimeLeft(w, k)
  <2> SUFFICES ASSUME NEW k \in DOMAIN b PROVE TimeLeft(w, k)' <= TimeLeft(w, k)
    OBVIOUS
  <2>1. TimeLeft(w, k) = workers[w].deadline + Span(k - 1) /\ TimeLeft(w, k)' = Span(k - 1)
    BY <1>2, <1>5, <1>6 DEF TimeLeft
  <2>2. k \in Nat \ {0}  BY <1>1, ItemType
  <2>3. workers[w].deadline \in Nat  BY <1>1 DEF WorkerType
  <2> QED BY <2>1, <2>2, <2>3, SpanStep
<1>11. /\ Sent(w, 1) /\ Sent(w, 1)' /\ ~Taken(w, 1)
       /\ o = "delivered" => Taken(w, 1)'
  BY <1>2, <1>5, <1>6 DEF Sent, Taken
<1>12. \A d \in Watched : \A q \in Questions :
          /\ Count(d, q) \in Nat
          /\ Count(d, q)' = IF d = item.id /\ q = 0 /\ o = "delivered" THEN Count(d, q) + 1 ELSE Count(d, q)
  BY <1>1, <1>2, <1>8, CountNat DEF Count
<1>13. item.id \in Watched => \A q \in Questions :
          Count(item.id, q)' + One(May(w, 1, q)') <= Count(item.id, q) + One(May(w, 1, q))
  <2> SUFFICES ASSUME item.id \in Watched, NEW q \in Questions
               PROVE  Count(item.id, q)' + One(May(w, 1, q)') <= Count(item.id, q) + One(May(w, 1, q))
    OBVIOUS
  <2>1. CASE q = 0 /\ o = "delivered"
    <3>1. May(w, 1, q) /\ ~May(w, 1, q)'  BY <1>11, <2>1 DEF May
    <3>2. One(May(w, 1, q)) = 1 /\ One(May(w, 1, q)') = 0  BY <3>1 DEF One
    <3>3. Count(item.id, q)' = Count(item.id, q) + 1 /\ Count(item.id, q) \in Nat  BY <1>12, <2>1
    <3> QED BY <3>2, <3>3
  <2>2. CASE ~(q = 0 /\ o = "delivered")
    <3>1. May(w, 1, q)' => May(w, 1, q)  BY <1>6, <1>11, <2>2 DEF May
    <3>2. One(May(w, 1, q)') <= One(May(w, 1, q)) /\ One(May(w, 1, q)') \in Nat /\ One(May(w, 1, q)) \in Nat
      BY <3>1 DEF One
    <3>3. Count(item.id, q)' = Count(item.id, q) /\ Count(item.id, q) \in Nat  BY <1>12, <2>2
    <3> QED BY <3>2, <3>3
  <2> QED BY <2>1, <2>2
<1> QED BY <1>2, <1>6, <1>7, <1>9, <1>10, <1>12, <1>13, GoOn

\* What applyOutcome makes of a row.
NewRow(new, attempt, outcome) ==
    /\ new \in RowType /\ new.attemptCount = attempt
    /\ new.status \in {"pending"} \cup Settled
    /\ new.status = "pending" => outcome = "retry"

LEMMA AppliedRow ==
    ASSUME NEW row \in RowType, NEW attempt \in Attempts,
           NEW outcome \in {"delivered", "retry", "permanent", "endpoint_disabled"},
           NEW new, new = Applied(row, attempt, outcome)
    PROVE  NewRow(new, attempt, outcome)
<1>1. attempt \in Nat /\ attempt <= MAX_DELIVERY_ATTEMPTS  BY WorkerNumbers DEF Attempts
<1>2. BudgetLeft(attempt) => attempt < MAX_DELIVERY_ATTEMPTS /\ RETRY_DELAY_SECONDS[attempt] \in Nat
  <2>1. attempt \in Nat \ {0}  BY WorkerNumbers DEF Attempts
  <2>2. RETRY_DELAY_SECONDS \in Seq(Nat)  BY WorkerNumbers
  <2> QED BY <2>1, <2>2 DEF BudgetLeft
<1>3. CASE outcome = "delivered"  BY <1>1, <1>3 DEF Applied, RowType, Settled, NewRow
<1>4. CASE outcome = "endpoint_disabled"  BY <1>1, <1>4 DEF Applied, RowType, Settled, NewRow
<1>5. CASE outcome = "permanent"  BY <1>1, <1>5 DEF Applied, RowType, Settled, NewRow
<1>6. CASE outcome = "retry" /\ ~BudgetLeft(attempt)
  <2> HIDE DEF BudgetLeft
  <2> QED BY <1>1, <1>6 DEF Applied, RowType, Settled, NewRow
<1>7. CASE outcome = "retry" /\ BudgetLeft(attempt)
  <2> DEFINE done == [row EXCEPT !.status = "pending", !.attemptCount = attempt]
  <2>1. new = [done EXCEPT !.dueIn = RETRY_DELAY_SECONDS[attempt]]
    BY <1>7 DEF Applied
  <2>2. done \in RowType /\ done.status = "pending" /\ done.attemptCount = attempt
    BY <1>1, <1>2, <1>7 DEF RowType
  <2> HIDE DEF done
  <2>3. PICK delay \in Nat : delay = RETRY_DELAY_SECONDS[attempt]  BY <1>2, <1>7
  <2>4. new = [done EXCEPT !.dueIn = delay]  BY <2>1, <2>3
  <2> QED BY <1>7, <2>2, <2>4 DEF RowType, NewRow
<1> QED BY <1>3, <1>4, <1>5, <1>6, <1>7

\* What a worker holds and owes that is done with the first of its batch.
NextHand(w, item) ==
    /\ \A k \in DOMAIN workers'[w].batch :
          /\ k \in Nat \ {0} /\ k + 1 \in DOMAIN workers[w].batch
          /\ workers'[w].batch[k] = workers[w].batch[k + 1]
          /\ workers'[w].batch[k].id # item.id
          /\ TimeLeft(w, k)' = TimeLeft(w, k + 1)
    /\ \A d : d # item.id =>
          Holds(w, d)' = Holds(w, d) /\ \A q : Owes(w, d, q)' = Owes(w, d, q)
    /\ ~Holds(w, item.id)'

LEMMA NextItem ==
    ASSUME WorkerInv, NEW w \in Workers, workers[w].pc = "apply",
           workers'[w].pc = "loop", workers'[w].batch = Tail(workers[w].batch),
           NEW item, item = workers[w].batch[1]
    PROVE  NextHand(w, item)
<1> DEFINE b == workers[w].batch
           c == Tail(workers[w].batch)
<1>1. WorkerTypes /\ HandsRight  BY DEF WorkerInv
<1>2. b \in Seq(BatchItems) /\ b # <<>>  BY <1>1 DEF WorkerTypes, WorkerType, HandsRight
<1>3. /\ 1 \in DOMAIN b /\ Head(b) = b[1] /\ b[1] \in BatchItems /\ c \in Seq(BatchItems)
      /\ \A k \in DOMAIN c : k \in Nat \ {0} /\ k + 1 \in DOMAIN b /\ k + 1 # 1 /\ c[k] = b[k + 1]
      /\ \A j \in DOMAIN b : j # 1 => j - 1 \in DOMAIN c /\ c[j - 1] = b[j]
  BY <1>2, BatchHead
<1>4. \A k \in DOMAIN c : c[k].id # b[1].id  BY <1>1, <1>3 DEF HandsRight
<1>5. ASSUME NEW k \in DOMAIN c
      PROVE  TimeLeft(w, k)' = TimeLeft(w, k + 1)
  <2>1. (k + 1) - 1 = k  BY <1>3
  <2>2. TimeLeft(w, k)' = Span(k)  BY DEF TimeLeft
  <2>3. TimeLeft(w, k + 1) = Span((k + 1) - 1)  BY DEF TimeLeft
  <2> QED BY <2>1, <2>2, <2>3
<1> HIDE DEF b, c
<1>6. workers[w].batch = b /\ workers'[w].batch = c /\ b[1] = item  BY DEF b, c
<1>7. \A k \in DOMAIN c : \A q : May(w, k, q)' = May(w, k + 1, q)
  <2> SUFFICES ASSUME NEW k \in DOMAIN c, NEW q PROVE May(w, k, q)' = May(w, k + 1, q)
    OBVIOUS
  <2>1. ~Sent(w, k)' /\ ~Taken(w, k)'  BY DEF Sent, Taken
  <2>2. ~Sent(w, k + 1) /\ ~Taken(w, k + 1)  BY <1>3 DEF Sent, Taken
  <2> QED BY <1>3, <1>6, <2>1, <2>2 DEF May
<1>8. ASSUME NEW d, d # b[1].id
      PROVE  Holds(w, d)' = Holds(w, d) /\ \A q : Owes(w, d, q)' = Owes(w, d, q)
  <2>1. Holds(w, d)' => Holds(w, d)  BY <1>3, <1>6 DEF Holds
  <2>2. Holds(w, d) => Holds(w, d)'
    <3> SUFFICES ASSUME NEW j \in DOMAIN b, b[j].id = d PROVE Holds(w, d)'
      BY <1>6 DEF Holds
    <3>1. j # 1  BY <1>8
    <3>2. j - 1 \in DOMAIN c /\ c[j - 1].id = d  BY <1>3, <3>1
    <3> QED BY <1>6, <3>2 DEF Holds
  <2>3. ASSUME NEW q PROVE Owes(w, d, q)' <=> Owes(w, d, q)
    <3>1. Owes(w, d, q)' => Owes(w, d, q)  BY <1>3, <1>6, <1>7 DEF Owes
    <3>2. Owes(w, d, q) => Owes(w, d, q)'
      <4> SUFFICES ASSUME NEW j \in DOMAIN b, b[j].id = d, May(w, j, q) PROVE Owes(w, d, q)'
        BY <1>6 DEF Owes
      <4>1. j # 1 /\ j \in Nat  BY <1>2, <1>8
      <4>2. j - 1 \in DOMAIN c /\ c[j - 1].id = d /\ (j - 1) + 1 = j  BY <1>3, <4>1
      <4>3. May(w, j - 1, q)'  BY <1>7, <4>2
      <4> QED BY <1>6, <4>2, <4>3 DEF Owes
    <3> QED BY <3>1, <3>2
  <2>4. Holds(w, d)' = Holds(w, d)  BY <2>1, <2>2 DEF Holds
  <2>5. \A q : Owes(w, d, q)' = Owes(w, d, q)  BY <2>3 DEF Owes
  <2> QED BY <2>4, <2>5
<1>9. ~Holds(w, item.id)'  BY <1>4, <1>6 DEF Holds
<1>10. ASSUME NEW k \in DOMAIN workers'[w].batch
       PROVE  /\ k \in Nat \ {0} /\ k + 1 \in DOMAIN workers[w].batch
              /\ workers'[w].batch[k] = workers[w].batch[k + 1]
              /\ workers'[w].batch[k].id # item.id
              /\ TimeLeft(w, k)' = TimeLeft(w, k + 1)
  BY <1>3, <1>4, <1>5, <1>6
<1> QED BY <1>6, <1>8, <1>9, <1>10 DEF NextHand

LEMMA ApplyStep ==
    ASSUME WorkerInv, NEW w \in Workers, ApplyOutcome(w)
    PROVE  WorkerInv'
<1>1. /\ WorkerTypes /\ HandsRight /\ CreditRight /\ HoldersRight /\ Alone /\ ItemsRight
      /\ failures \in Nat /\ workers[w] \in WorkerType
  BY DEF WorkerInv, WorkerTypes
<1>2. UNCHANGED <<failures, posts, accepted, lapses>> /\ workers[w].pc = "apply" /\ workers[w].batch # <<>>
  BY <1>1 DEF ApplyOutcome, HandsRight
<1>3. workers[w].batch \in Seq(BatchItems)  BY <1>1 DEF WorkerType
<1>4. /\ 1 \in DOMAIN workers[w].batch /\ Tail(workers[w].batch) \in Seq(BatchItems)
      /\ Head(workers[w].batch) = workers[w].batch[1]
      /\ \A k \in DOMAIN Tail(workers[w].batch) :
            k + 1 \in DOMAIN workers[w].batch /\ Tail(workers[w].batch)[k] = workers[w].batch[k + 1]
  BY <1>2, <1>3, BatchHead
<1> DEFINE next == [workers[w] EXCEPT !.pc = "loop", !.batch = Tail(@), !.outcome = "none"]
<1>5. workers' = [workers EXCEPT ![w] = next]  BY <1>1 DEF ApplyOutcome, WorkerTypes
<1>6. next \in WorkerType /\ next.batch = Tail(workers[w].batch) /\ next.pc = "loop"
  BY <1>1, <1>4 DEF WorkerType
<1> HIDE DEF next
<1>7. \A k, j \in DOMAIN next.batch : next.batch[k].id = next.batch[j].id => k = j
  <2> SUFFICES ASSUME NEW k \in DOMAIN next.batch, NEW j \in DOMAIN next.batch,
                      next.batch[k].id = next.batch[j].id
               PROVE  k = j
    OBVIOUS
  <2>1. k + 1 = j + 1  BY <1>1, <1>4, <1>6 DEF HandsRight
  <2>2. k \in Nat /\ j \in Nat  BY <1>2, <1>3, <1>6, BatchHead
  <2> QED BY <2>1, <2>2
<1>8. workers' \in [Workers -> WorkerType] /\ HandsRight' /\ OthersStay(w) /\ workers'[w] = next
  BY <1>1, <1>5, <1>6, <1>7, OneWorker
<1>9. workers'[w].pc = "loop" /\ workers'[w].batch = Tail(workers[w].batch)  BY <1>6, <1>8
<1>10. PICK item : item = workers[w].batch[1]  OBVIOUS
<1>11. item.id \in Deliveries /\ item.attempt \in Attempts /\ rows[item.id] \in RowType
  BY <1>1, <1>4, <1>10, ItemType
<1>12. PICK o \in {"delivered", "retry", "permanent", "endpoint_disabled"} : o = workers[w].outcome
  BY <1>1, <1>2 DEF HandsRight, WorkerType
<1>13. rows' = [rows EXCEPT ![item.id] =
                  IF @.status = "deleted" THEN @ ELSE Applied(@, item.attempt, o)]
  BY <1>4, <1>10, <1>12 DEF ApplyOutcome
<1>14. \A d \in Deliveries : d # item.id => rows'[d] = rows[d]  BY <1>1, <1>13 DEF WorkerTypes
<1>15. rows'[item.id] = IF rows[item.id].status = "deleted" THEN rows[item.id]
                        ELSE Applied(rows[item.id], item.attempt, o)
  BY <1>1, <1>11, <1>13 DEF WorkerTypes
<1>16. /\ rows'[item.id] \in RowType
       /\ rows'[item.id].status \in {"deleted", "pending"} \cup Settled
       /\ rows'[item.id].status = "pending" => o = "retry" /\ rows'[item.id].attemptCount = item.attempt
       /\ rows'[item.id].status # "deleted" => rows[item.id].status # "deleted"
  <2>1. CASE rows[item.id].status = "deleted"  BY <1>11, <1>15, <2>1
  <2>2. CASE rows[item.id].status # "deleted"
    <3>1. PICK new : new = Applied(rows[item.id], item.attempt, o)  OBVIOUS
    <3>2. rows'[item.id] = new  BY <1>15, <2>2, <3>1
    <3>3. NewRow(new, item.attempt, o)  BY <1>11, <3>1, AppliedRow
    <3> QED BY <2>2, <3>2, <3>3 DEF NewRow
  <2> QED BY <2>1, <2>2
<1>17. rows' \in [Deliveries -> RowType]
  <2>1. rows' = [d \in Deliveries |-> rows'[d]]  BY <1>1, <1>13 DEF WorkerTypes
  <2>2. \A d \in Deliveries : rows'[d] \in RowType  BY <1>1, <1>14, <1>16 DEF WorkerTypes
  <2> QED BY <2>1, <2>2
<1>18. WorkerTypes'  BY <1>1, <1>2, <1>8, <1>17 DEF WorkerTypes
<1>19. NextHand(w, item)  BY <1>2, <1>9, <1>10, NextItem
<1>20. Holds(w, item.id)  BY <1>4, <1>10 DEF Holds
<1>21. \A d : d # item.id => \A v \in Workers : Holds(v, d)' = Holds(v, d)
  BY <1>8, <1>19, SameHand DEF OthersStay, NextHand
<1>22. CreditRight'
  <2> SUFFICES ASSUME NEW d \in Watched, NEW q \in Questions PROVE CreditOf(d, q)'
    BY DEF CreditRight
  <2>1. CreditOf(d, q) /\ d \in Deliveries  BY <1>1, WorkerNumbers DEF CreditRight
  <2>2. Count(d, q)' = Count(d, q) /\ Count(d, q) \in Nat /\ lapses'[d] = lapses[d]
    BY <1>1, <1>2, CountNat DEF Count
  <2>3. One(Owes(w, d, q)') + One(Free(d, q)') <= One(Owes(w, d, q)) + One(Free(d, q))
    <3>1. CASE d # item.id
      <4>1. Holders(d)' = Holders(d)  BY <1>21, <3>1 DEF Holders
      <4>2. Free(d, q)' = Free(d, q)  BY <1>14, <2>1, <3>1, <4>1 DEF Free
      <4>3. Owes(w, d, q)' = Owes(w, d, q)  BY <1>19, <3>1 DEF NextHand
      <4> QED BY <4>2, <4>3 DEF One
    <3>2. CASE d = item.id
      <4>1. ~Owes(w, d, q)'  BY <1>19, <3>2 DEF Owes, Holds, NextHand
      <4>2. Free(d, q)' => Owes(w, d, q)
        <5> SUFFICES ASSUME Free(d, q)' PROVE May(w, 1, q)
          BY <1>4, <1>10, <3>2 DEF Owes
        <5>1. rows'[d].status = "pending" /\ (q = 0 \/ rows'[d].attemptCount < q)
          BY <1>16, <3>2 DEF Free, Settled
        <5>2. o = "retry" /\ (q = 0 \/ item.attempt < q)  BY <1>16, <3>2, <5>1
        <5>3. ~Taken(w, 1)  BY <1>12, <5>2 DEF Taken
        <5> QED BY <1>10, <5>2, <5>3 DEF May
      <4> QED BY <4>1, <4>2 DEF One
    <3> QED BY <3>1, <3>2
  <2>4. PICK m, l, x, y, f, g : /\ m = Count(d, q) /\ l = lapses[d]
                             /\ x = One(Owes(w, d, q)) /\ y = One(Owes(w, d, q)')
                             /\ f = One(Free(d, q)) /\ g = One(Free(d, q)')
    OBVIOUS
  <2>5. x \in 0 .. 1 /\ y \in 0 .. 1 /\ f \in 0 .. 1 /\ g \in 0 .. 1 /\ l \in Nat /\ m \in Nat /\ failures \in Nat
    BY <1>1, <2>2, <2>4 DEF One, WorkerTypes
  <2>6. m + y + g + failures + l <= m + x + f + failures + l  BY <2>3, <2>4, <2>5
  <2> QED BY <1>1, <1>2, <1>8, <1>18, <2>1, <2>2, <2>4, <2>6, Pay
<1>23. HoldersRight'
  <2> SUFFICES ASSUME NEW d \in Watched PROVE HoldersOf(d)'
    BY DEF HoldersRight
  <2>1. HoldersOf(d) /\ d \in Deliveries  BY <1>1, WorkerNumbers DEF HoldersRight
  <2>2. lapses'[d] = lapses[d] /\ lapses[d] \in Nat  BY <1>1, <1>2 DEF WorkerTypes
  <2>3. ASSUME rows'[d].status # "deleted"
        PROVE  /\ rows[d].status # "deleted"
               /\ One(Holds(w, d)') + lapses[d] + One(rows[d].status = "pending")
                    <= One(Holds(w, d)) + lapses'[d] + One(rows'[d].status = "pending")
    <3>1. CASE d # item.id
      <4>1. rows'[d] = rows[d] /\ Holds(w, d)' = Holds(w, d)  BY <1>14, <1>19, <2>1, <3>1 DEF NextHand
      <4> QED BY <2>2, <2>3, <4>1 DEF One
    <3>2. CASE d = item.id
      <4>1. One(Holds(w, d)') = 0 /\ One(Holds(w, d)) = 1  BY <1>19, <1>20, <3>2 DEF One, NextHand
      <4> QED BY <1>16, <2>2, <2>3, <3>2, <4>1 DEF One
    <3> QED BY <3>1, <3>2
  <2> QED BY <1>1, <1>8, <1>18, <2>1, <2>3, Hand
<1>24. Alone'
  <2>1. \A v \in Workers, d \in Watched : Holds(v, d)' => Holds(v, d)
    <3> SUFFICES ASSUME NEW v \in Workers, NEW d \in Watched, Holds(v, d)' PROVE Holds(v, d)
      OBVIOUS
    <3>1. CASE v = w  BY <1>19, <3>1 DEF NextHand
    <3>2. CASE v # w  BY <1>8, <3>2, SameHand DEF OthersStay
    <3> QED BY <3>1, <3>2
  <2> QED BY <1>1, <1>2, <2>1, AloneStays
<1>25. ItemsRight'
  <2> SUFFICES ASSUME NEW v \in Workers, NEW k \in DOMAIN workers'[v].batch,
                      workers'[v].batch[k].id \in Watched, lapses[workers'[v].batch[k].id] = 0
               PROVE  ItemRight(v, k)'
    BY <1>2 DEF ItemsRight
  <2>1. CASE v # w
    <3>1. workers'[v] = workers[v]  BY <1>8, <2>1 DEF OthersStay
    <3>2. ItemRight(v, k)  BY <1>1, <3>1 DEF ItemsRight
    <3>3. workers[v].batch[k].id # item.id
      <4>1. Holds(v, workers[v].batch[k].id)  BY <3>1 DEF Holds
      <4> QED BY <1>1, <1>20, <2>1, <3>1, <4>1 DEF Alone, AloneOf
    <3>4. workers[v].batch[k].id \in Deliveries  BY <3>1, WorkerNumbers
    <3> QED BY <1>14, <3>1, <3>2, <3>3, <3>4, ItemStays
  <2>2. CASE v = w
    <3>1. PICK it, j : it = workers'[w].batch[k] /\ j = k + 1  OBVIOUS
    <3>2. j \in DOMAIN workers[w].batch /\ it = workers[w].batch[j] /\ it.id # item.id
          /\ TimeLeft(w, k)' = TimeLeft(w, j)
      BY <1>19, <2>2, <3>1 DEF NextHand
    <3>3. ItemRight(w, j)  BY <1>1, <2>2, <3>1, <3>2 DEF ItemsRight
    <3>4. rows'[it.id] = rows[it.id]  BY <1>1, <1>14, <3>2, ItemType
    <3> QED BY <2>2, <3>1, <3>2, <3>3, <3>4 DEF ItemRight
  <2> QED BY <2>1, <2>2
<1> QED BY <1>8, <1>18, <1>22, <1>23, <1>24, <1>25 DEF WorkerInv

\* What a batch is: due deliveries, each once.
LEMMA BatchFacts ==
    ASSUME WorkerTypes, NEW b \in Batches
    PROVE  \E size \in Nat :
              /\ DOMAIN b = 1 .. size
              /\ \A i \in 1 .. size : b[i] \in Deliveries /\ Due(b[i])
              /\ \A i, j \in 1 .. size : b[i] = b[j] => i = j
<1> DEFINE due == {d \in Deliveries : Due(d)}
           size == IF Cardinality(due) < BATCH_SIZE THEN Cardinality(due) ELSE BATCH_SIZE
<1>1. IsFiniteSet(due)
  <2>1. due \in SUBSET Deliveries  OBVIOUS
  <2> QED BY <2>1, WorkerNumbers, FS_Subset
<1>2. Cardinality(due) \in Nat  BY <1>1, FS_CardinalityType
<1>3. size \in Nat  BY <1>2, WorkerNumbers
<1>4. b \in [1 .. size -> due] /\ \A i, j \in 1 .. size : i < j => b[i] # b[j]  BY DEF Batches
<1>5. \A i \in 1 .. size : b[i] \in Deliveries /\ Due(b[i])  BY <1>4
<1> HIDE DEF due, size
<1>6. \A i, j \in 1 .. size : b[i] = b[j] => i = j
  <2>1. \A i, j \in 1 .. size : i # j => i < j \/ j < i  BY <1>3
  <2> QED BY <1>4, <2>1
<1> QED BY <1>3, <1>4, <1>5, <1>6

LEMMA ClaimStep ==
    ASSUME WorkerInv, NEW w \in Workers, ClaimBatch(w)
    PROVE  WorkerInv'
<1>1. /\ WorkerTypes /\ HandsRight /\ CreditRight /\ HoldersRight /\ Alone /\ ItemsRight
      /\ failures \in Nat /\ workers[w] \in WorkerType
  BY DEF WorkerInv, WorkerTypes
<1>2. UNCHANGED <<failures, posts, accepted>> /\ workers[w].pc = "sleeping" /\ workers[w].batch = <<>>
  BY <1>1 DEF ClaimBatch, HandsRight
<1>3. PICK b \in Batches :
         /\ workers' = [workers EXCEPT ![w].pc = "loop",
               ![w].batch = [i \in DOMAIN b |->
                   [id |-> b[i], attempt |-> rows[b[i]].attemptCount + 1, place |-> i]]]
         /\ rows' = [d \in Deliveries |->
               IF \E i \in DOMAIN b : b[i] = d
                 THEN [rows[d] EXCEPT !.dueIn = IN_FLIGHT_LEASE_SECONDS] ELSE rows[d]]
         /\ lapses' = [d \in Watched |->
               IF Holders(d) # {} /\ \E i \in DOMAIN b : b[i] = d THEN lapses[d] + 1 ELSE lapses[d]]
  BY DEF ClaimBatch
<1>4. PICK size \in Nat :
         /\ DOMAIN b = 1 .. size
         /\ \A i \in 1 .. size : b[i] \in Deliveries /\ Due(b[i])
         /\ \A i, j \in 1 .. size : b[i] = b[j] => i = j
  BY <1>1, BatchFacts
<1> DEFINE items == [i \in 1 .. size |->
                       [id |-> b[i], attempt |-> rows[b[i]].attemptCount + 1, place |-> i]]
           In(d) == \E i \in 1 .. size : b[i] = d
<1>5. ASSUME NEW i \in 1 .. size
      PROVE  /\ items[i] \in BatchItems /\ items[i].id = b[i] /\ items[i].place = i
             /\ items[i].attempt = rows[b[i]].attemptCount + 1
             /\ rows[b[i]].attemptCount \in Nat /\ rows[b[i]].status = "pending"
  <2>1. rows[b[i]] \in RowType /\ rows[b[i]].status = "pending"  BY <1>1, <1>4 DEF WorkerTypes, Due
  <2>2. rows[b[i]].attemptCount \in Nat /\ rows[b[i]].attemptCount < MAX_DELIVERY_ATTEMPTS
    BY <2>1 DEF RowType
  <2>3. rows[b[i]].attemptCount + 1 \in Attempts  BY <2>2, WorkerNumbers DEF Attempts
  <2> QED BY <1>4, <2>1, <2>2, <2>3 DEF BatchItems
<1>6. items \in [1 .. size -> BatchItems]  BY <1>5
<1>7. items \in Seq(BatchItems) /\ DOMAIN items = 1 .. size
  <2> HIDE DEF items
  <2> QED BY <1>6
<1> DEFINE next == [workers[w] EXCEPT !.pc = "loop", !.batch = items]
<1>8. workers' = [workers EXCEPT ![w] = next]  BY <1>1, <1>3, <1>4 DEF WorkerTypes
<1> HIDE DEF items
<1>9. next \in WorkerType /\ next.batch = items /\ next.pc = "loop"  BY <1>1, <1>7 DEF WorkerType
<1> HIDE DEF next
<1>10. \A k, j \in DOMAIN next.batch : next.batch[k].id = next.batch[j].id => k = j
  BY <1>4, <1>5, <1>7, <1>9
<1>11. workers' \in [Workers -> WorkerType] /\ HandsRight' /\ OthersStay(w) /\ workers'[w] = next
  BY <1>1, <1>8, <1>9, <1>10, OneWorker
<1>12. workers'[w].batch = items /\ workers'[w].pc = "loop"  BY <1>9, <1>11
<1>13. IN_FLIGHT_LEASE_SECONDS \in Int  BY WorkerNumbers
<1>14. ASSUME NEW d \in Deliveries
       PROVE  /\ rows'[d] \in RowType
              /\ rows'[d].status = rows[d].status /\ rows'[d].attemptCount = rows[d].attemptCount
              /\ In(d) => rows'[d].dueIn = IN_FLIGHT_LEASE_SECONDS /\ rows[d].status = "pending"
              /\ ~In(d) => rows'[d] = rows[d]
  <2>1. rows[d] \in RowType  BY <1>1 DEF WorkerTypes
  <2>2. rows'[d] = IF In(d) THEN [rows[d] EXCEPT !.dueIn = IN_FLIGHT_LEASE_SECONDS] ELSE rows[d]
    BY <1>3, <1>4
  <2>3. In(d) => rows[d].status = "pending"  BY <1>5
  <2> HIDE DEF In
  <2>4. CASE In(d)  BY <1>13, <2>1, <2>2, <2>3, <2>4 DEF RowType
  <2>5. CASE ~In(d)  BY <2>1, <2>2, <2>5
  <2> QED BY <2>4, <2>5
<1>15. rows' \in [Deliveries -> RowType]
  <2>1. rows' = [d \in Deliveries |-> rows'[d]]  BY <1>3
  <2> QED BY <1>14, <2>1
<1>16. \A d \in Watched : lapses'[d] = IF Holders(d) # {} /\ In(d) THEN lapses[d] + 1 ELSE lapses[d]
  BY <1>3, <1>4
<1>17. lapses' \in [Watched -> Nat] /\ \A d \in Watched : lapses[d] \in Nat
  <2>1. \A d \in Watched : lapses[d] \in Nat  BY <1>1 DEF WorkerTypes
  <2>2. lapses' = [d \in Watched |-> lapses'[d]]  BY <1>3
  <2>3. \A d \in Watched : lapses'[d] \in Nat  BY <1>16, <2>1
  <2> QED BY <2>1, <2>2, <2>3
<1>18. WorkerTypes'  BY <1>1, <1>2, <1>11, <1>15, <1>17 DEF WorkerTypes
<1>19. /\ \A d, q : ~Holds(w, d) /\ ~Owes(w, d, q)
       /\ \A d : Holds(w, d)' <=> In(d)
       /\ \A v \in Workers : v # w => \A d : Holds(v, d)' = Holds(v, d)
  <2>1. \A d, q : ~Holds(w, d) /\ ~Owes(w, d, q)  BY <1>2, EmptyHand
  <2>2. \A d : Holds(w, d)' <=> In(d)
    <3>1. \A d : Holds(w, d)' <=> \E k \in 1 .. size : items[k].id = d  BY <1>7, <1>12 DEF Holds
    <3> QED BY <1>5, <3>1
  <2>3. \A v \in Workers : v # w => \A d : Holds(v, d)' = Holds(v, d)  BY <1>11, SameHand DEF OthersStay
  <2> QED BY <2>1, <2>2, <2>3
<1>20. ASSUME NEW d, NEW q \in Questions, Owes(w, d, q)'
       PROVE  In(d) /\ (q = 0 \/ rows[d].attemptCount < q)
  <2>1. PICK k \in 1 .. size : b[k] = d /\ May(w, k, q)'  BY <1>5, <1>7, <1>12, <1>20 DEF Owes
  <2>2. ~Sent(w, k)' /\ workers'[w].batch[k].attempt = rows[d].attemptCount + 1 /\ rows[d].attemptCount \in Nat
    BY <1>5, <1>12, <2>1 DEF Sent
  <2>3. q \in Nat  BY WorkerNumbers DEF Questions
  <2>4. q = 0 \/ rows[d].attemptCount < q  BY <2>1, <2>2, <2>3 DEF May
  <2> QED BY <2>1, <2>4
<1> HIDE DEF In
<1>21. \A d \in Deliveries : ~In(d) => Holders(d)' = Holders(d)
  BY <1>19 DEF Holders
<1>22. CreditRight'
  <2> SUFFICES ASSUME NEW d \in Watched, NEW q \in Questions PROVE CreditOf(d, q)'
    BY DEF CreditRight
  <2>1. CreditOf(d, q) /\ d \in Deliveries  BY <1>1, WorkerNumbers DEF CreditRight
  <2>2. Count(d, q)' = Count(d, q) /\ Count(d, q) \in Nat
    BY <1>1, <1>2, CountNat DEF Count
  <2>3. One(Owes(w, d, q)') + One(Free(d, q)') + lapses[d] <= One(Free(d, q)) + lapses'[d]
    <3>1. CASE ~In(d)
      <4>1. Free(d, q)' = Free(d, q)  BY <1>14, <1>21, <2>1, <3>1 DEF Free
      <4>2. ~Owes(w, d, q)' /\ lapses'[d] = lapses[d]  BY <1>16, <1>20, <3>1
      <4> QED BY <1>17, <4>1, <4>2 DEF One
    <3>2. CASE In(d)
      <4>1. ~Free(d, q)'  BY <1>19, <3>2 DEF Free, Holders
      <4>2. CASE Holders(d) # {}
        <5>1. lapses'[d] = lapses[d] + 1  BY <1>16, <3>2, <4>2
        <5> QED BY <1>17, <4>1, <5>1 DEF One
      <4>3. CASE Holders(d) = {}
        <5>1. lapses'[d] = lapses[d]  BY <1>16, <4>3
        <5>2. Owes(w, d, q)' => Free(d, q)  BY <1>14, <1>20, <2>1, <3>2, <4>3 DEF Free
        <5> QED BY <1>17, <4>1, <5>1, <5>2 DEF One
      <4> QED BY <4>2, <4>3
    <3> QED BY <3>1, <3>2
  <2>4. PICK m, l, u, x, y, f, g : /\ m = Count(d, q) /\ l = lapses[d] /\ u = lapses'[d]
                             /\ x = One(Owes(w, d, q)) /\ y = One(Owes(w, d, q)')
                             /\ f = One(Free(d, q)) /\ g = One(Free(d, q)')
    OBVIOUS
  <2>5. x \in 0 .. 1 /\ y \in 0 .. 1 /\ f \in 0 .. 1 /\ g \in 0 .. 1
        /\ l \in Nat /\ u \in Nat /\ m \in Nat /\ failures \in Nat
    BY <1>1, <1>17, <2>2, <2>4 DEF One
  <2>6. m + y + g + failures + l <= m + x + f + failures + u  BY <2>3, <2>4, <2>5
  <2> QED BY <1>1, <1>2, <1>11, <1>18, <2>1, <2>2, <2>4, <2>6, Pay
<1>23. HoldersRight'
  <2> SUFFICES ASSUME NEW d \in Watched PROVE HoldersOf(d)'
    BY DEF HoldersRight
  <2>1. HoldersOf(d) /\ d \in Deliveries /\ lapses[d] \in Nat  BY <1>1, <1>17, WorkerNumbers DEF HoldersRight
  <2>2. rows'[d].status = rows[d].status  BY <1>14, <2>1
  <2>3. CASE In(d) /\ Holders(d) = {}
    <3>1. Holders(d)' = {w}  BY <1>19, <2>3 DEF Holders
    <3>2. Cardinality({w}) = 1  BY FS_Singleton
    <3>3. PICK l : l = lapses'[d]  OBVIOUS
    <3>4. l \in Nat /\ rows'[d].status = "pending"  BY <1>14, <1>17, <2>1, <2>3, <3>3
    <3>5. 1 <= l + 1  BY <3>4
    <3>6. Cardinality(Holders(d)') <= l + One(rows'[d].status = "pending")  BY <3>1, <3>2, <3>4, <3>5 DEF One
    <3> QED BY <3>3, <3>6 DEF HoldersOf, One
  <2>4. CASE ~(In(d) /\ Holders(d) = {})
    <3>1. One(Holds(w, d)') + lapses[d] <= One(Holds(w, d)) + lapses'[d]
      <4>1. CASE In(d) /\ Holders(d) # {}
        <5>1. lapses'[d] = lapses[d] + 1  BY <1>16, <4>1
        <5> QED BY <2>1, <5>1 DEF One
      <4>2. CASE ~In(d)
        <5>1. lapses'[d] = lapses[d] /\ ~Holds(w, d)'  BY <1>16, <1>19, <4>2
        <5> QED BY <2>1, <5>1 DEF One
      <4> QED BY <2>4, <4>1, <4>2
    <3>2. lapses'[d] \in Nat  BY <1>17
    <3>3. PICK l, u, x, y : l = lapses[d] /\ u = lapses'[d] /\ x = One(Holds(w, d)) /\ y = One(Holds(w, d)')
      OBVIOUS
    <3>4. l \in Nat /\ u \in Nat /\ x \in 0 .. 1 /\ y \in 0 .. 1 /\ y + l <= x + u  BY <2>1, <3>1, <3>2, <3>3 DEF One
    <3>5. y + l + One(rows[d].status = "pending") <= x + u + One(rows'[d].status = "pending")
      BY <2>2, <3>4 DEF One
    <3> QED BY <1>1, <1>11, <1>18, <2>1, <2>2, <3>3, <3>5, Hand
  <2> QED BY <2>3, <2>4
<1>24. Alone'
  <2> SUFFICES ASSUME NEW d \in Watched, lapses'[d] = 0,
                      NEW u \in Workers, NEW v \in Workers, Holds(u, d)', Holds(v, d)'
               PROVE  u = v
    BY DEF Alone, AloneOf
  <2>1. lapses[d] = 0 /\ ~(Holders(d) # {} /\ In(d))  BY <1>16, <1>17
  <2>2. CASE In(d)  BY <1>19, <2>1, <2>2 DEF Holders
  <2>3. CASE ~In(d)  BY <1>1, <1>19, <2>1, <2>3 DEF Alone, AloneOf
  <2> QED BY <2>2, <2>3
<1>25. ItemsRight'
  <2> SUFFICES ASSUME NEW v \in Workers, NEW k \in DOMAIN workers'[v].batch,
                      workers'[v].batch[k].id \in Watched, lapses'[workers'[v].batch[k].id] = 0
               PROVE  ItemRight(v, k)'
    BY DEF ItemsRight
  <2>1. CASE v # w
    <3>1. PICK d : d = workers[v].batch[k].id  OBVIOUS
    <3>2. workers'[v] = workers[v] /\ d \in Watched /\ d \in Deliveries /\ lapses'[d] = 0
      BY <1>11, <2>1, <3>1, WorkerNumbers DEF OthersStay
    <3>3. v \in Holders(d)  BY <3>1, <3>2 DEF Holders, Holds
    <3>4. ~In(d) /\ lapses[d] = 0  BY <1>16, <1>17, <3>2, <3>3
    <3>5. rows'[d] = rows[d]  BY <1>14, <3>2, <3>4
    <3>6. ItemRight(v, k)  BY <1>1, <3>1, <3>2, <3>4 DEF ItemsRight
    <3> QED BY <3>1, <3>2, <3>5, <3>6, ItemStays
  <2>2. CASE v = w
    <3>1. k \in 1 .. size /\ k \in Nat  BY <1>7, <1>12, <2>2
    <3>2. PICK it, row : it = workers'[w].batch[k] /\ row = rows'[it.id]  OBVIOUS
    <3>3. it.id = b[k] /\ it.place = k /\ it.attempt = rows[b[k]].attemptCount + 1 /\ In(it.id) /\ it.id \in Deliveries
      BY <1>4, <1>5, <1>12, <3>1, <3>2 DEF In
    <3>4. row.status = "pending" /\ it.attempt = row.attemptCount + 1 /\ row.dueIn = IN_FLIGHT_LEASE_SECONDS
      BY <1>14, <3>2, <3>3
    <3>5. PICK s \in Nat : s = Span(k)  BY <3>1, SpanNat
    <3>6. TimeLeft(w, k)' = s  BY <1>12, <3>5 DEF TimeLeft
    <3>7. IN_FLIGHT_LEASE_SECONDS - row.dueIn <= Span(it.place) - s  BY <1>13, <3>3, <3>4, <3>5
    <3> QED BY <2>2, <3>2, <3>4, <3>6, <3>7 DEF ItemRight
  <2> QED BY <2>1, <2>2
<1> QED BY <1>11, <1>18, <1>22, <1>23, <1>24, <1>25 DEF WorkerInv

\* A step that changes nobody's hands and frees no row for another claim.
LEMMA NoNewCredit ==
    ASSUME WorkerTypes, CreditRight, HoldersRight, UNCHANGED <<failures, posts, accepted, lapses>>,
           \A v \in Workers : \A d, q : Holds(v, d)' = Holds(v, d) /\ Owes(v, d, q)' = Owes(v, d, q),
           \A d \in Watched : \A q \in Questions : Free(d, q)' => Free(d, q),
           \A d \in Watched :
              rows'[d].status = "deleted" \/ rows'[d].status = rows[d].status \/ rows[d].status = "none"
    PROVE  CreditRight' /\ HoldersRight'
<1>1. \A d, q : Owing(d, q)' = Owing(d, q) /\ Holders(d)' = Holders(d)  BY DEF Owing, Holders
<1>2. ASSUME NEW d, NEW q PROVE Cardinality(Owing(d, q)) \in Nat /\ Cardinality(Holders(d)) \in Nat
  <2>1. Owing(d, q) \in SUBSET Workers /\ Holders(d) \in SUBSET Workers  BY DEF Owing, Holders
  <2> QED BY <2>1, WorkerNumbers, FS_Subset, FS_CardinalityType
<1>3. ASSUME NEW d \in Watched, NEW q \in Questions PROVE CreditOf(d, q)'
  <2>1. CreditOf(d, q) /\ Count(d, q) \in Nat /\ Count(d, q)' = Count(d, q)
    BY CountNat DEF CreditRight, Count
  <2>2. PICK m, a, l, f, g : /\ m = Count(d, q) /\ a = Cardinality(Owing(d, q)) /\ l = lapses[d]
                             /\ f = One(Free(d, q)) /\ g = One(Free(d, q)')
    OBVIOUS
  <2>3. m \in Nat /\ a \in Nat /\ l \in Nat /\ failures \in Nat  BY <1>2, <2>1, <2>2 DEF WorkerTypes
  <2>4. f \in 0 .. 1 /\ g \in 0 .. 1 /\ g <= f  BY <2>2 DEF One
  <2>5. m + a + f <= 1 + failures + l  BY <2>1, <2>2 DEF CreditOf
  <2>6. m + a + g <= 1 + failures + l  BY <2>3, <2>4, <2>5
  <2> QED BY <1>1, <2>1, <2>2, <2>6 DEF CreditOf, One
<1>4. ASSUME NEW d \in Watched PROVE HoldersOf(d)'
  <2>1. HoldersOf(d)  BY DEF HoldersRight
  <2>2. PICK n \in Nat, l \in Nat : n = Cardinality(Holders(d)) /\ l = lapses[d]  BY <1>2 DEF WorkerTypes
  <2>3. PICK f, g : f = One(rows[d].status = "pending") /\ g = One(rows'[d].status = "pending")  OBVIOUS
  <2>4. f \in 0 .. 1 /\ g \in 0 .. 1 /\ (rows'[d].status # "deleted" => f <= g)  BY <2>3 DEF One
  <2>5. rows'[d].status # "deleted" => n <= l + f  BY <2>1, <2>2, <2>3 DEF HoldersOf
  <2>6. rows'[d].status # "deleted" => n <= l + g  BY <2>4, <2>5
  <2> QED BY <1>1, <2>2, <2>3, <2>6 DEF HoldersOf, One
<1> QED BY <1>3, <1>4 DEF CreditRight, HoldersRight

\* A second passes for the lease of a row and for the request that waits alike.
LEMMA TickStep ==
    ASSUME WorkerInv, Tick
    PROVE  WorkerInv'
<1>1. WorkerTypes /\ HandsRight /\ CreditRight /\ HoldersRight /\ Alone /\ ItemsRight
  BY DEF WorkerInv
<1>2. UNCHANGED <<failures, posts, accepted, lapses>>  BY DEF Tick
<1>3. ASSUME NEW d \in Deliveries
      PROVE  /\ rows'[d] \in RowType
             /\ rows'[d].status = rows[d].status /\ rows'[d].attemptCount = rows[d].attemptCount
             /\ rows'[d].dueIn \in {rows[d].dueIn, rows[d].dueIn - 1}
  <2>1. rows[d] \in RowType  BY <1>1 DEF WorkerTypes
  <2>2. PICK due \in {rows[d].dueIn, rows[d].dueIn - 1} : rows'[d] = [rows[d] EXCEPT !.dueIn = due]
    BY DEF Tick
  <2>3. rows[d].dueIn \in Int  BY <2>1 DEF RowType
  <2>4. due \in Int  BY <2>2, <2>3
  <2> QED BY <2>1, <2>2, <2>4 DEF RowType
<1>4. rows' \in [Deliveries -> RowType]
  <2>1. rows' = [d \in Deliveries |-> rows'[d]]  BY DEF Tick
  <2> QED BY <1>3, <2>1
<1>5. ASSUME NEW w \in Workers
      PROVE  /\ workers'[w] \in WorkerType /\ workers'[w].pc = workers[w].pc
             /\ workers'[w].batch = workers[w].batch /\ workers'[w].outcome = workers[w].outcome
             /\ workers'[w].deadline = IF workers[w].deadline > 0 THEN workers[w].deadline - 1 ELSE 0
  <2>1. workers[w] \in WorkerType  BY <1>1 DEF WorkerTypes
  <2>2. workers[w].deadline \in Nat  BY <2>1 DEF WorkerType
  <2>3. PICK t : t = IF workers[w].deadline > 0 THEN workers[w].deadline - 1 ELSE 0  OBVIOUS
  <2>4. t \in Nat  BY <2>2, <2>3
  <2>5. workers'[w] = [workers[w] EXCEPT !.deadline = t]  BY <2>3 DEF Tick
  <2> QED BY <2>1, <2>3, <2>4, <2>5 DEF WorkerType
<1>6. workers' \in [Workers -> WorkerType]
  <2>1. workers' = [w \in Workers |-> workers'[w]]  BY DEF Tick
  <2> QED BY <1>5, <2>1
<1>7. WorkerTypes'  BY <1>1, <1>2, <1>4, <1>6 DEF WorkerTypes
<1>8. HandsRight'  BY <1>1, <1>5 DEF HandsRight
<1>9. \A v \in Workers : \A d, q : Holds(v, d)' = Holds(v, d) /\ Owes(v, d, q)' = Owes(v, d, q)
  BY <1>5 DEF Holds, Owes, May, Sent, Taken
<1>10. CreditRight' /\ HoldersRight'
  <2>1. \A d : Holders(d)' = Holders(d)  BY <1>9 DEF Holders
  <2>2. \A d \in Watched : \A q \in Questions : Free(d, q)' => Free(d, q)
    BY <1>3, <2>1, WorkerNumbers DEF Free
  <2>3. \A d \in Watched : rows'[d].status = rows[d].status  BY <1>3, WorkerNumbers
  <2> QED BY <1>1, <1>2, <1>9, <2>2, <2>3, NoNewCredit
<1>11. Alone'  BY <1>1, <1>2, <1>9, AloneStays
<1>12. ItemsRight'
  <2> SUFFICES ASSUME NEW w \in Workers, NEW k \in DOMAIN workers[w].batch,
                      workers[w].batch[k].id \in Watched, lapses[workers[w].batch[k].id] = 0
               PROVE  ItemRight(w, k)'
    BY <1>2, <1>5 DEF ItemsRight
  <2>1. ItemRight(w, k)  BY <1>1 DEF ItemsRight
  <2>2. PICK it, row, new, r : /\ it = workers[w].batch[k] /\ row = rows[it.id] /\ new = rows'[it.id]
                              /\ r = Span(k - 1)
    OBVIOUS
  <2>3. it.id \in Deliveries /\ row \in RowType /\ it.place \in Nat /\ k \in Nat \ {0}
    BY <1>1, <2>2, ItemType
  <2>4. workers[w].pc = "fetch" /\ workers[w].deadline > 0
    <3>1. workers[w].batch # <<>>
      <4>1. DOMAIN <<>> = {}  OBVIOUS
      <4> QED BY <4>1
    <3> QED BY <1>1, <3>1 DEF Tick, HandsRight
  <2>5. PICK t : t = workers[w].deadline  OBVIOUS
  <2>6. t \in Nat /\ t > 0 /\ r \in Nat  BY <1>1, <2>2, <2>3, <2>4, <2>5, SpanStep DEF WorkerTypes, WorkerType
  <2>7. TimeLeft(w, k) = t + r /\ TimeLeft(w, k)' = (t - 1) + r
    BY <1>5, <2>2, <2>4, <2>5 DEF TimeLeft
  <2>8. new.status = row.status /\ new.attemptCount = row.attemptCount /\ new.dueIn \in {row.dueIn, row.dueIn - 1}
    BY <1>3, <2>2, <2>3
  <2>9. PICK p : p = Span(it.place)  OBVIOUS
  <2>10. p \in Nat /\ row.dueIn \in Int /\ IN_FLIGHT_LEASE_SECONDS \in Int
    BY <2>3, <2>9, SpanNat, WorkerNumbers DEF RowType
  <2>11. IN_FLIGHT_LEASE_SECONDS - row.dueIn <= p - (t + r)  BY <2>1, <2>2, <2>7, <2>9 DEF ItemRight
  <2>12. IN_FLIGHT_LEASE_SECONDS - new.dueIn <= p - ((t - 1) + r)
    BY <2>6, <2>8, <2>10, <2>11
  <2>13. workers'[w].batch[k] = it  BY <1>5, <2>2
  <2> QED BY <2>1, <2>2, <2>7, <2>8, <2>9, <2>12, <2>13 DEF ItemRight
<1> QED BY <1>7, <1>8, <1>10, <1>11, <1>12 DEF WorkerInv

\* emitVerificationEventInTx and deleteWebhookEndpoint.
LEMMA TableStep ==
    ASSUME WorkerInv, NEW d \in Deliveries, Emit(d) \/ Remove(EndpointOf[d])
    PROVE  WorkerInv'
<1>1. WorkerTypes /\ HandsRight /\ CreditRight /\ HoldersRight /\ Alone /\ ItemsRight
  BY DEF WorkerInv
<1>2. UNCHANGED <<workers, failures, posts, accepted, lapses>>  BY DEF Emit, Remove
<1>3. ASSUME NEW x \in Deliveries
      PROVE  \/ rows'[x] = rows[x]
             \/ rows[x].status = "none" /\ rows'[x] = [rows[x] EXCEPT !.status = "pending"]
             \/ rows'[x] = [rows[x] EXCEPT !.status = "deleted"]
  <2>1. CASE Emit(d)  BY <1>1, <2>1 DEF Emit, WorkerTypes
  <2>2. CASE Remove(EndpointOf[d])  BY <2>2 DEF Remove
  <2> QED BY <2>1, <2>2
<1>4. ASSUME NEW x \in Deliveries
      PROVE  /\ rows'[x] \in RowType
             /\ rows'[x].attemptCount = rows[x].attemptCount /\ rows'[x].dueIn = rows[x].dueIn
             /\ \/ rows'[x].status = "deleted" \/ rows'[x].status = rows[x].status
                \/ rows[x].status = "none" /\ rows'[x].status = "pending"
  <2>1. rows[x] \in RowType  BY <1>1 DEF WorkerTypes
  <2>2. CASE rows'[x] = rows[x]  BY <2>1, <2>2
  <2>3. CASE rows[x].status = "none" /\ rows'[x] = [rows[x] EXCEPT !.status = "pending"]
    BY <2>1, <2>3, WorkerNumbers DEF RowType
  <2>4. CASE rows'[x] = [rows[x] EXCEPT !.status = "deleted"]  BY <2>1, <2>4 DEF RowType
  <2> QED BY <1>3, <2>2, <2>3, <2>4
<1>5. rows' \in [Deliveries -> RowType]
  <2>1. rows' = [x \in Deliveries |-> rows'[x]]  BY <1>1 DEF Emit, Remove, WorkerTypes
  <2> QED BY <1>4, <2>1
<1>6. WorkerTypes' /\ HandsRight'  BY <1>1, <1>2, <1>5 DEF WorkerTypes, HandsRight
<1>7. \A v \in Workers : \A x, q : Holds(v, x)' = Holds(v, x) /\ Owes(v, x, q)' = Owes(v, x, q)
  BY <1>2, SameHand
<1>8. CreditRight' /\ HoldersRight'
  <2>1. \A x : Holders(x)' = Holders(x)  BY <1>7 DEF Holders
  <2>2. \A x \in Watched : \A q \in Questions : Free(x, q)' => Free(x, q)
    BY <1>4, <2>1, WorkerNumbers DEF Free
  <2>3. \A x \in Watched :
           rows'[x].status = "deleted" \/ rows'[x].status = rows[x].status \/ rows[x].status = "none"
    BY <1>4, WorkerNumbers
  <2> QED BY <1>1, <1>2, <1>7, <2>2, <2>3, NoNewCredit
<1>9. Alone'  BY <1>1, <1>2, <1>7, AloneStays
<1>10. ItemsRight'
  <2> SUFFICES ASSUME NEW w \in Workers, NEW k \in DOMAIN workers[w].batch,
                      workers[w].batch[k].id \in Watched, lapses[workers[w].batch[k].id] = 0
               PROVE  ItemRight(w, k)'
    BY <1>2 DEF ItemsRight
  <2>1. ItemRight(w, k)  BY <1>1 DEF ItemsRight
  <2>2. workers[w].batch[k].id \in Deliveries  BY WorkerNumbers
  <2>3. TimeLeft(w, k)' = TimeLeft(w, k)  BY <1>2 DEF TimeLeft
  <2> QED BY <1>2, <1>4, <2>1, <2>2, <2>3 DEF ItemRight
<1> QED BY <1>6, <1>8, <1>9, <1>10 DEF WorkerInv

-----------------------------------------------------------------------------
(* The theorems about deliveries                                           *)

LEMMA WorkerInit == Init => WorkerInv
<1> SUFFICES ASSUME Init PROVE WorkerInv
  OBVIOUS
<1>1. NoRow \in RowType /\ NoRow.status = "none" /\ NoRow.attemptCount = 0
  BY WorkerNumbers DEF NoRow, RowType
<1>2. \A w \in Workers : workers[w] = Off /\ Off.pc = "off"  BY DEF Init, Off
<1>3. \A d \in Watched : accepted[d] = 0 /\ lapses[d] = 0 /\ \A q \in Attempts : posts[d][q] = 0
  BY DEF Init, Attempts
<1>4. WorkerTypes
  <2>1. [d \in Watched |-> [k \in Attempts |-> 0]] \in [Watched -> [Attempts -> Nat]]  OBVIOUS
  <2> QED BY <1>1, <2>1, OffType DEF Init, WorkerTypes, Attempts
<1>5. \A w \in Workers : workers[w].batch = <<>> /\ DOMAIN workers[w].batch = {}  BY <1>2, OffType
<1>6. HandsRight /\ ItemsRight  BY <1>2, <1>5 DEF HandsRight, ItemsRight
<1>7. \A w \in Workers : \A d, q : ~Holds(w, d) /\ ~Owes(w, d, q)  BY <1>5 DEF Holds, Owes
<1>8. Alone  BY <1>7 DEF Alone, AloneOf
<1>9. \A d, q : Holders(d) = {} /\ Owing(d, q) = {}  BY <1>7 DEF Holders, Owing
<1>10. Cardinality({}) = 0  BY FS_EmptySet
<1>11. CreditRight
  <2> SUFFICES ASSUME NEW d \in Watched, NEW q \in Questions PROVE CreditOf(d, q)
    BY DEF CreditRight
  <2>1. Count(d, q) = 0  BY <1>3, <1>4, CountNat DEF Count
  <2>2. PICK f : f = One(Free(d, q))  OBVIOUS
  <2>3. f \in 0 .. 1  BY <2>2 DEF One
  <2>4. 0 + 0 + f <= 1 + 0 + 0  BY <2>3
  <2>5. failures = 0 /\ lapses[d] = 0  BY <1>3 DEF Init
  <2> QED BY <1>9, <1>10, <2>1, <2>2, <2>4, <2>5 DEF CreditOf
<1>12. HoldersRight
  BY <1>3, <1>9, <1>10 DEF HoldersRight, HoldersOf, One
<1> QED BY <1>4, <1>6, <1>8, <1>11, <1>12 DEF WorkerInv

LEMMA WorkerStep == WorkerInv /\ [Next]_vars => WorkerInv'
<1> SUFFICES ASSUME WorkerInv, [Next]_vars PROVE WorkerInv'
  OBVIOUS
<1>1. CASE \E d \in Deliveries : Emit(d) \/ Remove(EndpointOf[d])  BY <1>1, TableStep
<1>2. ASSUME NEW w \in Workers, Start(w) \/ Stop(w) \/ Step(w) \/ FailApply(w) \/ Crash(w)
      PROVE  WorkerInv'
  <2>1. CASE Start(w) \/ EndOfBatch(w) \/ FailApply(w) \/ Crash(w)  BY <2>1, LayDownSteps
  <2>2. CASE Stop(w)  BY <2>2, StopStep
  <2>3. CASE ClaimBatch(w)  BY <2>3, ClaimStep
  <2>4. CASE Refuse(w)  BY <2>4, RefuseStep
  <2>5. CASE Post(w)  BY <2>5, PostStep
  <2>6. CASE Answer(w)  BY <2>6, AnswerStep
  <2>7. CASE ApplyOutcome(w)  BY <2>7, ApplyStep
  <2> QED BY <1>2, <2>1, <2>2, <2>3, <2>4, <2>5, <2>6, <2>7 DEF Step
<1>3. CASE Tick  BY <1>3, TickStep
<1>4. CASE UNCHANGED vars
  <2>1. UNCHANGED <<rows, workers, failures, posts, accepted, lapses>>  BY <1>4 DEF vars
  <2>2. WorkerTypes' /\ HandsRight'  BY <2>1 DEF WorkerInv, WorkerTypes, HandsRight
  <2>3. \A v : \A d, q : Holds(v, d)' = Holds(v, d) /\ Owes(v, d, q)' = Owes(v, d, q)
    BY <2>1, SameHand
  <2>4. \A d : Holders(d)' = Holders(d)  BY <2>3 DEF Holders
  <2>5. CreditRight' /\ HoldersRight'
    <3>1. \A d \in Watched : \A q \in Questions : Free(d, q)' => Free(d, q)  BY <2>1, <2>4 DEF Free
    <3> QED BY <2>1, <2>3, <3>1, NoNewCredit DEF WorkerInv
  <2>6. Alone'  BY <2>1, <2>3, AloneStays DEF WorkerInv
  <2>7. ItemsRight'
    <3>1. \A w, k : TimeLeft(w, k)' = TimeLeft(w, k)  BY <2>1 DEF TimeLeft
    <3> QED BY <2>1, <3>1 DEF WorkerInv, ItemsRight, ItemRight
  <2> QED BY <2>2, <2>5, <2>6, <2>7 DEF WorkerInv
<1> QED BY <1>1, <1>2, <1>3, <1>4 DEF Next

\* What is counted of a delivery is paid for.
LEMMA Paid ==
    ASSUME WorkerInv, NEW d \in Watched, NEW q \in Questions
    PROVE  Count(d, q) <= 1 + failures + lapses[d]
<1>1. WorkerTypes /\ CreditOf(d, q)  BY DEF WorkerInv, CreditRight
<1>2. Cardinality(Owing(d, q)) \in Nat
  <2>1. Owing(d, q) \in SUBSET Workers  BY DEF Owing
  <2> QED BY <2>1, WorkerNumbers, FS_Subset, FS_CardinalityType
<1>3. PICK m, a, l, f : /\ m = Count(d, q) /\ a = Cardinality(Owing(d, q)) /\ l = lapses[d]
                        /\ f = One(Free(d, q))
  OBVIOUS
<1>4. m \in Nat /\ a \in Nat /\ l \in Nat /\ failures \in Nat /\ f \in 0 .. 1
  BY <1>1, <1>2, <1>3, CountNat DEF WorkerTypes, One
<1>5. m + a + f <= 1 + failures + l  BY <1>1, <1>3 DEF CreditOf
<1>6. m <= 1 + failures + l  BY <1>4, <1>5
<1> QED BY <1>3, <1>6

\* However long the lease and the batches are, every answer 2xx and every request of
\* an attempt after the first goes with a failure or with a claim that overtook a late
\* worker; and a row that is pending has attempts left whoever wrote it last.
THEOREM DeliveredOnce == Spec => []DoublesAreLapses
<1>1. WorkerInv /\ [Next]_vars => WorkerInv'  BY WorkerStep
<1>2. WorkerInv => DoublesAreLapses
  <2> SUFFICES ASSUME WorkerInv, NEW d \in Watched
               PROVE  /\ accepted[d] <= 1 + failures + lapses[d]
                      /\ \A k \in 1 .. MAX_DELIVERY_ATTEMPTS : posts[d][k] <= 1 + failures + lapses[d]
                      /\ rows[d].status = "pending" => rows[d].attemptCount < MAX_DELIVERY_ATTEMPTS
    BY DEF DoublesAreLapses
  <2>1. accepted[d] <= 1 + failures + lapses[d]
    <3>1. 0 \in Questions  BY WorkerNumbers DEF Questions
    <3>2. Count(d, 0) = accepted[d]  BY DEF Count
    <3> QED BY <3>1, <3>2, Paid
  <2>2. ASSUME NEW k \in 1 .. MAX_DELIVERY_ATTEMPTS PROVE posts[d][k] <= 1 + failures + lapses[d]
    <3>1. k \in Questions /\ k # 0  BY WorkerNumbers DEF Questions
    <3>2. Count(d, k) = posts[d][k]  BY <3>1 DEF Count
    <3> QED BY <3>1, <3>2, Paid
  <2>3. rows[d] \in RowType  BY WorkerNumbers DEF WorkerInv, WorkerTypes
  <2>4. rows[d].status = "pending" => rows[d].attemptCount < MAX_DELIVERY_ATTEMPTS  BY <2>3 DEF RowType
  <2> QED BY <2>1, <2>2, <2>4
<1> QED BY <1>1, <1>2, WorkerInit, PTL DEF Spec

\* Once a row is settled, no more workers hold it, and can overwrite what became
\* of it, than claims have overtaken others.
THEOREM LateWriters == Spec => []LateWritersCounted
<1>1. WorkerInv /\ [Next]_vars => WorkerInv'  BY WorkerStep
<1>2. WorkerInv => LateWritersCounted
  <2> SUFFICES ASSUME WorkerInv, NEW d \in Watched, rows[d].status \in Settled
               PROVE  Cardinality(Holders(d)) <= lapses[d]
    BY DEF LateWritersCounted
  <2>1. HoldersOf(d) /\ lapses[d] \in Nat  BY DEF WorkerInv, WorkerTypes, HoldersRight
  <2>2. rows[d].status # "deleted" /\ rows[d].status # "pending"  BY DEF Settled
  <2>3. Cardinality(Holders(d)) <= lapses[d] + 0  BY <2>1, <2>2 DEF HoldersOf, One
  <2> QED BY <2>1, <2>3
<1> QED BY <1>1, <1>2, WorkerInit, PTL DEF Spec

\* The first claim to overtake a delivery finds it behind others whose timeouts
\* use up the lease.
LEMMA LapseStep ==
    ASSUME WorkerInv, [Next]_vars, NEW d \in Watched, lapses[d] = 0, lapses'[d] > 0,
           NEW w \in Workers, NEW i \in DOMAIN workers[w].batch, workers[w].batch[i].id = d
    PROVE  workers[w].batch[i].place * HTTP_TIMEOUT_SECONDS >= IN_FLIGHT_LEASE_SECONDS
<1>1. WorkerTypes /\ ItemRight(w, i)  BY DEF WorkerInv, ItemsRight
<1>2. lapses' # lapses
  <2>1. ~(0 > 0)  OBVIOUS
  <2> QED BY <2>1
<1>3. PICK v \in Workers : ClaimBatch(v)
  BY <1>2 DEF Next, Step, vars, Emit, Remove, Start, Stop, EndOfBatch, Refuse, Post, Answer, ApplyOutcome,
              FailApply, Crash, Tick
<1>4. PICK b \in Batches :
         lapses' = [x \in Watched |->
            IF Holders(x) # {} /\ \E j \in DOMAIN b : b[j] = x THEN lapses[x] + 1 ELSE lapses[x]]
  BY <1>3 DEF ClaimBatch
<1>5. \E j \in DOMAIN b : b[j] = d
  <2>1. ~(0 > 0)  OBVIOUS
  <2> QED BY <1>4, <2>1
<1>6. Due(d)  BY <1>1, <1>5, BatchFacts
<1>7. PICK it, row : it = workers[w].batch[i] /\ row = rows[d]  OBVIOUS
<1>8. row.dueIn \in Int /\ row.dueIn <= 0 /\ it.place \in Nat
  BY <1>1, <1>6, <1>7, ItemType DEF Due, RowType
<1>9. PICK t, s : t = TimeLeft(w, i) /\ s = Span(it.place)  OBVIOUS
<1>10. t \in Nat /\ s \in Nat /\ IN_FLIGHT_LEASE_SECONDS \in Nat
  BY <1>1, <1>8, <1>9, TimeLeftNat, SpanNat, WorkerNumbers
<1>11. IN_FLIGHT_LEASE_SECONDS - row.dueIn <= s - t  BY <1>1, <1>7, <1>9 DEF ItemRight
<1>12. s >= IN_FLIGHT_LEASE_SECONDS  BY <1>8, <1>10, <1>11
<1> QED BY <1>7, <1>9, <1>12 DEF Span

\* For every lease, timeout and size of a batch: only a delivery that was claimed
\* behind others whose timeouts use up the lease is overtaken a first time.
THEOREM OvertakenAreLate == Spec => LapsesAreLate
<1>1. WorkerInv /\ [Next]_vars => WorkerInv'  BY WorkerStep
<1>2. WorkerInv /\ [Next]_vars =>
         [\A d \in Watched : lapses[d] = 0 /\ lapses'[d] > 0 =>
            \A w \in Workers : \A i \in DOMAIN workers[w].batch :
              workers[w].batch[i].id = d =>
                  workers[w].batch[i].place * HTTP_TIMEOUT_SECONDS >= IN_FLIGHT_LEASE_SECONDS]_vars
  BY LapseStep
<1> QED BY <1>1, <1>2, WorkerInit, PTL DEF Spec, LapsesAreLate

\* What a row may become in a step.
FinalRow(d) ==
    /\ rows[d].status \in Settled => rows'[d].status \in {rows[d].status, "deleted"}
    /\ rows'[d].attemptCount >= rows[d].attemptCount

LEMMA FinalStep ==
    ASSUME WorkerInv, [Next]_vars, NEW d \in Watched, lapses[d] = 0
    PROVE  FinalRow(d)
<1>1. WorkerTypes /\ d \in Deliveries  BY WorkerNumbers DEF WorkerInv
<1>2. rows[d] \in RowType  BY <1>1 DEF WorkerTypes
<1>3. rows[d].attemptCount \in Nat  BY <1>2 DEF RowType
<1>4. CASE rows'[d] = rows[d]  BY <1>3, <1>4 DEF FinalRow
<1>5. CASE rows'[d].status = rows[d].status /\ rows'[d].attemptCount = rows[d].attemptCount
  BY <1>3, <1>5 DEF FinalRow
<1>6. ASSUME NEW x \in Deliveries, Emit(x) PROVE FinalRow(d)
  <2>1. CASE x # d
    <3>1. rows'[d] = rows[d]  BY <1>1, <1>6, <2>1 DEF Emit, WorkerTypes
    <3> QED BY <1>4, <3>1
  <2>2. CASE x = d
    <3>1. rows[d].status = "none" /\ rows'[d] = [rows[d] EXCEPT !.status = "pending"]
      BY <1>1, <1>6, <2>2 DEF Emit, WorkerTypes
    <3>2. rows'[d].attemptCount = rows[d].attemptCount  BY <1>2, <3>1 DEF RowType
    <3> QED BY <1>3, <3>1, <3>2 DEF FinalRow, Settled
  <2> QED BY <2>1, <2>2
<1>7. ASSUME NEW e, Remove(e) PROVE FinalRow(d)
  <2>1. rows'[d] = rows[d] \/ rows'[d] = [rows[d] EXCEPT !.status = "deleted"]
    BY <1>1, <1>7 DEF Remove
  <2>2. CASE rows'[d] = [rows[d] EXCEPT !.status = "deleted"]
    <3>1. rows'[d].status = "deleted" /\ rows'[d].attemptCount = rows[d].attemptCount
      BY <1>2, <2>2 DEF RowType
    <3> QED BY <1>3, <3>1 DEF FinalRow
  <2> QED BY <1>4, <2>1, <2>2
<1>8. ASSUME NEW w \in Workers, ClaimBatch(w) PROVE FinalRow(d)
  <2>1. PICK b : rows' = [x \in Deliveries |->
            IF \E i \in DOMAIN b : b[i] = x
              THEN [rows[x] EXCEPT !.dueIn = IN_FLIGHT_LEASE_SECONDS] ELSE rows[x]]
    BY <1>8 DEF ClaimBatch
  <2>2. rows'[d] = rows[d] \/ rows'[d] = [rows[d] EXCEPT !.dueIn = IN_FLIGHT_LEASE_SECONDS]
    BY <1>1, <2>1
  <2>3. rows'[d].status = rows[d].status /\ rows'[d].attemptCount = rows[d].attemptCount
    BY <1>2, <2>2 DEF RowType
  <2> QED BY <1>5, <2>3
<1>9. CASE Tick
  <2>1. PICK due : rows'[d] = [rows[d] EXCEPT !.dueIn = due]  BY <1>1, <1>9 DEF Tick
  <2>2. rows'[d].status = rows[d].status /\ rows'[d].attemptCount = rows[d].attemptCount
    BY <1>2, <2>1 DEF RowType
  <2> QED BY <1>5, <2>2
<1>10. ASSUME NEW w \in Workers, ApplyOutcome(w) PROVE FinalRow(d)
  <2>1. workers[w].batch # <<>> /\ workers[w].batch \in Seq(BatchItems)
    BY <1>1, <1>10 DEF WorkerInv, HandsRight, ApplyOutcome, WorkerTypes, WorkerType
  <2>2. PICK it : it = workers[w].batch[1]  OBVIOUS
  <2>3. 1 \in DOMAIN workers[w].batch /\ Head(workers[w].batch) = it  BY <2>1, <2>2, BatchHead
  <2>4. PICK o \in {"delivered", "retry", "permanent", "endpoint_disabled"} : o = workers[w].outcome
    BY <1>1, <1>10 DEF WorkerInv, HandsRight, ApplyOutcome, WorkerTypes, WorkerType
  <2>5. rows' = [rows EXCEPT ![it.id] =
                   IF @.status = "deleted" THEN @ ELSE Applied(@, it.attempt, o)]
    BY <1>10, <2>3, <2>4 DEF ApplyOutcome
  <2>6. CASE d # it.id
    <3>1. rows'[d] = rows[d]  BY <1>1, <2>5, <2>6 DEF WorkerTypes
    <3> QED BY <1>4, <3>1
  <2>7. CASE d = it.id
    <3>1. ItemRight(w, 1)  BY <2>2, <2>3, <2>7 DEF WorkerInv, ItemsRight
    <3>2. rows[d].status \in {"pending", "deleted"} /\ it.attempt = rows[d].attemptCount + 1
      BY <2>2, <2>7, <3>1 DEF ItemRight
    <3>3. rows'[d] = IF rows[d].status = "deleted" THEN rows[d] ELSE Applied(rows[d], it.attempt, o)
      BY <1>1, <2>5, <2>7 DEF WorkerTypes
    <3>4. CASE rows[d].status = "deleted"  BY <1>4, <3>3, <3>4
    <3>5. CASE rows[d].status = "pending"
      <4>1. it.attempt \in Attempts  BY <1>1, <2>2, <2>3, ItemType
      <4>2. PICK new : new = Applied(rows[d], it.attempt, o)  OBVIOUS
      <4>3. NewRow(new, it.attempt, o)  BY <1>2, <4>1, <4>2, AppliedRow
      <4>4. rows'[d] = new  BY <3>3, <3>5, <4>2
      <4> QED BY <1>3, <3>2, <3>5, <4>3, <4>4 DEF FinalRow, Settled, NewRow
    <3> QED BY <3>2, <3>4, <3>5
  <2> QED BY <2>6, <2>7
<1>11. ASSUME NEW w \in Workers,
             Start(w) \/ Stop(w) \/ EndOfBatch(w) \/ Refuse(w) \/ Post(w) \/ Answer(w) \/ FailApply(w) \/ Crash(w)
      PROVE  rows'[d] = rows[d]
  BY <1>11 DEF Start, Stop, EndOfBatch, Refuse, Post, Answer, FailApply, Crash
<1>12. CASE UNCHANGED vars  BY <1>4, <1>12 DEF vars
<1> QED BY <1>4, <1>6, <1>7, <1>8, <1>9, <1>10, <1>11, <1>12 DEF Next, Step

\* applyOutcome, which asks for nothing but the id, overwrites no outcome and
\* uncounts no attempt of a delivery that was never overtaken.
THEOREM OutcomesStay == Spec => OutcomeIsFinal
<1>1. WorkerInv /\ [Next]_vars => WorkerInv'  BY WorkerStep
<1>2. WorkerInv /\ [Next]_vars =>
         [\A d \in Watched : lapses[d] = 0 =>
            /\ rows[d].status \in Settled => rows'[d].status \in {rows[d].status, "deleted"}
            /\ rows'[d].attemptCount >= rows[d].attemptCount]_vars
  BY FinalStep DEF FinalRow
<1> QED BY <1>1, <1>2, WorkerInit, PTL DEF Spec, OutcomeIsFinal

-----------------------------------------------------------------------------
(* The guard: ranges of addresses                                          *)

\* A set of numbers that is not empty has a least one.
LEMMA Least ==
    ASSUME NEW T, T \subseteq Nat, T # {}
    PROVE  \E i \in T : \A j \in T : i <= j
<1> DEFINE less == {ss \in Nat \X Nat : ss[1] < ss[2]}
<1>1. IsWellFoundedOn(less, Nat)  BY NatLessThanWellFounded, Zenon DEF OpToRel
<1>2. PICK i \in T : \A j \in T : ~(<<j, i>> \in less)
  <2> HIDE DEF less
  <2> QED BY <1>1, WFMin
<1>3. \A j \in T : ~(j < i)  BY <1>2
<1> QED BY <1>3

\* An address that is nowhere smaller than another one does not come before it.
LEMMA Within ==
    ASSUME NEW n \in Nat, NEW a \in [1 .. n -> Int], NEW b \in [1 .. n -> Int],
           \A j \in 1 .. n : a[j] <= b[j]
    PROVE  NotAfter(a, b)
<1>1. CASE a = b  BY <1>1 DEF NotAfter
<1>2. CASE a # b
  <2> DEFINE T == {j \in 1 .. n : a[j] # b[j]}
  <2>1. T \subseteq Nat /\ T # {}  BY <1>2
  <2> HIDE DEF T
  <2>2. PICK i \in T : \A j \in T : i <= j  BY <2>1, Least
  <2> USE DEF T
  <2>3. \A j \in 1 .. n : j < i => j \notin T  BY <2>1, <2>2
  <2>4. i \in 1 .. n /\ a[i] < b[i]  OBVIOUS
  <2>5. \A j \in 1 .. i - 1 : j \in 1 .. n /\ j < i  BY <2>4
  <2>6. \A j \in 1 .. i - 1 : a[j] = b[j]  BY <2>3, <2>5
  <2> QED BY <2>4, <2>6 DEF NotAfter
<1> QED BY <1>1, <1>2

\* An address between two that begin alike begins so too.
LEMMA Between ==
    ASSUME NEW n \in Nat, NEW a \in [1 .. n -> Int], NEW b \in [1 .. n -> Int], NEW c \in [1 .. n -> Int],
           NotAfter(a, b), NotAfter(b, c), NEW m \in 0 .. n - 1, \A j \in 1 .. m : a[j] = c[j]
    PROVE  (\A j \in 1 .. m : b[j] = a[j]) /\ a[m + 1] <= b[m + 1] /\ b[m + 1] <= c[m + 1]
<1>1. DOMAIN a = 1 .. n /\ DOMAIN b = 1 .. n  OBVIOUS
<1>2. m + 1 \in 1 .. n /\ \A j \in 1 .. m : j \in 1 .. n  OBVIOUS
<1>3. a = b \/ \E i \in 1 .. n : a[i] < b[i] /\ \A j \in 1 .. i - 1 : a[j] = b[j]  BY <1>1 DEF NotAfter
<1>4. b = c \/ \E i \in 1 .. n : b[i] < c[i] /\ \A j \in 1 .. i - 1 : b[j] = c[j]  BY <1>1 DEF NotAfter
<1>5. ASSUME NEW i \in 1 .. n, a[i] < b[i], \A j \in 1 .. i - 1 : a[j] = b[j], i <= m PROVE FALSE
  <2>1. i \in 1 .. m /\ a[i] = c[i]  BY <1>5
  <2>2. CASE b = c  BY <1>5, <2>1, <2>2
  <2>3. ASSUME NEW k \in 1 .. n, b[k] < c[k], \A j \in 1 .. k - 1 : b[j] = c[j] PROVE FALSE
    <3>1. CASE k < i
      <4>1. k \in 1 .. i - 1 /\ k \in 1 .. m  BY <1>5, <3>1
      <4>2. a[k] = b[k] /\ a[k] = c[k]  BY <1>5, <4>1
      <4> QED BY <2>3, <4>2
    <3>2. CASE k = i  BY <1>5, <2>1, <2>3, <3>2
    <3>3. CASE k > i
      <4>1. i \in 1 .. k - 1  BY <3>3
      <4>2. b[i] = c[i]  BY <2>3, <4>1
      <4> QED BY <1>5, <2>1, <4>2
    <3> QED BY <3>1, <3>2, <3>3
  <2> QED BY <1>4, <2>2, <2>3
<1>6. (\A j \in 1 .. m : b[j] = a[j]) /\ a[m + 1] <= b[m + 1]
  <2>1. CASE a = b  BY <1>2, <2>1
  <2>2. ASSUME NEW i \in 1 .. n, a[i] < b[i], \A j \in 1 .. i - 1 : a[j] = b[j]
        PROVE  (\A j \in 1 .. m : b[j] = a[j]) /\ a[m + 1] <= b[m + 1]
    <3>1. i > m  BY <1>5, <2>2
    <3>2. \A j \in 1 .. m : j \in 1 .. i - 1  BY <3>1
    <3>3. m + 1 = i \/ m + 1 \in 1 .. i - 1  BY <3>1
    <3> QED BY <1>2, <2>2, <3>2, <3>3
  <2> QED BY <1>3, <2>1, <2>2
<1>7. b[m + 1] <= c[m + 1]
  <2>1. CASE b = c  BY <1>2, <2>1
  <2>2. ASSUME NEW i \in 1 .. n, b[i] < c[i], \A j \in 1 .. i - 1 : b[j] = c[j]
        PROVE  b[m + 1] <= c[m + 1]
    <3>1. i > m
      <4> SUFFICES ASSUME i <= m PROVE FALSE
        OBVIOUS
      <4>1. i \in 1 .. m  OBVIOUS
      <4>2. a[i] = c[i] /\ b[i] = a[i]  BY <1>6, <4>1
      <4> QED BY <2>2, <4>2
    <3>2. m + 1 = i \/ m + 1 \in 1 .. i - 1  BY <3>1
    <3> QED BY <1>2, <2>2, <3>2
  <2> QED BY <1>4, <2>1, <2>2
<1> QED BY <1>6, <1>7

\* A range whose ends begin alike, and go on with the smallest and the largest
\* values after the place where they part.
LEMMA RangeIsBox ==
    ASSUME NEW n \in Nat, NEW a \in [1 .. n -> Int], NEW b \in [1 .. n -> Int], NEW c \in [1 .. n -> Int],
           NEW m \in 0 .. n - 1, \A j \in 1 .. m : a[j] = c[j],
           \A j \in m + 2 .. n : a[j] <= b[j] /\ b[j] <= c[j]
    PROVE  NotAfter(a, b) /\ NotAfter(b, c) <=>
              (\A j \in 1 .. m : b[j] = a[j]) /\ a[m + 1] <= b[m + 1] /\ b[m + 1] <= c[m + 1]
<1>1. ASSUME NotAfter(a, b), NotAfter(b, c)
      PROVE  (\A j \in 1 .. m : b[j] = a[j]) /\ a[m + 1] <= b[m + 1] /\ b[m + 1] <= c[m + 1]
  BY <1>1, Between
<1>2. ASSUME \A j \in 1 .. m : b[j] = a[j], a[m + 1] <= b[m + 1], b[m + 1] <= c[m + 1]
      PROVE  NotAfter(a, b) /\ NotAfter(b, c)
  <2>1. \A j \in 1 .. n : j \in 1 .. m \/ j = m + 1 \/ j \in m + 2 .. n  OBVIOUS
  <2>2. ASSUME NEW j \in 1 .. n PROVE a[j] <= b[j] /\ b[j] <= c[j]
    <3>1. a[j] \in Int /\ b[j] \in Int /\ c[j] \in Int  OBVIOUS
    <3>2. CASE j \in 1 .. m
      <4>1. a[j] = c[j] /\ b[j] = a[j]  BY <1>2, <3>2
      <4> QED BY <3>1, <4>1
    <3>3. CASE j = m + 1  BY <1>2, <3>3
    <3>4. CASE j \in m + 2 .. n  BY <3>4
    <3> QED BY <2>1, <3>2, <3>3, <3>4
  <2> QED BY <2>2, Within
<1> QED BY <1>1, <1>2

\* The octets have a name, so that the provers do not list them.
Octet == 0 .. 255
V4 == [1 .. 4 -> Octet]

LEMMA OctetRange == \A z : z \in Octet <=> z \in Int /\ 0 <= z /\ z <= 255
BY DEF Octet

LEMMA FirstOctet ==
    ASSUME NEW ip \in V4, NEW lo \in Octet, NEW hi \in Octet
    PROVE  NotAfter(<<lo, 0, 0, 0>>, ip) /\ NotAfter(ip, <<hi, 255, 255, 255>>) <=>
              lo <= ip[1] /\ ip[1] <= hi
<1> DEFINE a == <<lo, 0, 0, 0>>
           c == <<hi, 255, 255, 255>>
<1>1. PICK n \in Nat, m \in Nat : n = 4 /\ m = 0  OBVIOUS
<1>2. a \in [1 .. n -> Int] /\ c \in [1 .. n -> Int] /\ ip \in [1 .. n -> Int]
  BY <1>1, OctetRange DEF V4
<1>3. \A j \in m + 2 .. n : a[j] <= ip[j] /\ ip[j] <= c[j]
  <2>1. \A j \in m + 2 .. n : j = 2 \/ j = 3 \/ j = 4  BY <1>1
  <2>2. \A j \in 1 .. 4 : ip[j] \in Octet  BY DEF V4
  <2>3. \A j \in m + 2 .. n : a[j] = 0 /\ c[j] = 255 /\ ip[j] \in Octet  BY <2>1, <2>2
  <2> QED BY <2>3, OctetRange
<1>4. m + 1 = 1 /\ a[1] = lo /\ c[1] = hi  BY <1>1
<1>5. m \in 0 .. n - 1 /\ \A j \in 1 .. m : a[j] = c[j] /\ ip[j] = a[j]  BY <1>1
<1> HIDE DEF a, c
<1>6. NotAfter(a, ip) /\ NotAfter(ip, c) <=>
         (\A j \in 1 .. m : ip[j] = a[j]) /\ a[m + 1] <= ip[m + 1] /\ ip[m + 1] <= c[m + 1]
  <2>1. \A j \in 1 .. m : a[j] = c[j]  BY <1>5
  <2>2. n \in Nat /\ m \in 0 .. n - 1  BY <1>5
  <2> QED BY ONLY <1>2, <1>3, <2>1, <2>2, RangeIsBox, ZenonT(60)
<1> QED BY <1>4, <1>5, <1>6, OctetRange DEF a, c

LEMMA SecondOctet ==
    ASSUME NEW ip \in V4, NEW x \in Octet, NEW lo \in Octet, NEW hi \in Octet
    PROVE  NotAfter(<<x, lo, 0, 0>>, ip) /\ NotAfter(ip, <<x, hi, 255, 255>>) <=>
              ip[1] = x /\ lo <= ip[2] /\ ip[2] <= hi
<1> DEFINE a == <<x, lo, 0, 0>>
           c == <<x, hi, 255, 255>>
<1>1. PICK n \in Nat, m \in Nat : n = 4 /\ m = 1  OBVIOUS
<1>2. a \in [1 .. n -> Int] /\ c \in [1 .. n -> Int] /\ ip \in [1 .. n -> Int]
  BY <1>1, OctetRange DEF V4
<1>3. \A j \in m + 2 .. n : a[j] <= ip[j] /\ ip[j] <= c[j]
  <2>1. \A j \in m + 2 .. n : j = 3 \/ j = 4  BY <1>1
  <2>2. \A j \in 1 .. 4 : ip[j] \in Octet  BY DEF V4
  <2>3. \A j \in m + 2 .. n : a[j] = 0 /\ c[j] = 255 /\ ip[j] \in Octet  BY <2>1, <2>2
  <2> QED BY <2>3, OctetRange
<1>4. m + 1 = 2 /\ a[1] = x /\ a[2] = lo /\ c[1] = x /\ c[2] = hi  BY <1>1
<1>5. m \in 0 .. n - 1 /\ (\A j \in 1 .. m : j = 1) /\ 1 \in 1 .. m  BY <1>1
<1>6. \A j \in 1 .. m : a[j] = c[j]  BY <1>4, <1>5
<1> HIDE DEF a, c
<1>7. NotAfter(a, ip) /\ NotAfter(ip, c) <=>
         (\A j \in 1 .. m : ip[j] = a[j]) /\ a[m + 1] <= ip[m + 1] /\ ip[m + 1] <= c[m + 1]
  <2>1. n \in Nat /\ m \in 0 .. n - 1  BY <1>5
  <2> QED BY ONLY <1>2, <1>3, <1>6, <2>1, RangeIsBox, ZenonT(60)
<1>8. (\A j \in 1 .. m : ip[j] = a[j]) <=> ip[1] = x  BY <1>4, <1>5
<1> QED BY <1>4, <1>7, <1>8, OctetRange DEF a, c

\* The blocked IPv4 addresses, by their first two octets.
BoxV4(x, y) ==
    \/ x \in {0, 10, 127}
    \/ x = 100 /\ y \in 64 .. 127
    \/ x = 169 /\ y = 254
    \/ x = 172 /\ y \in 16 .. 31
    \/ x = 192 /\ y = 168

LEMMA InternalIsBox ==
    ASSUME NEW ip \in V4
    PROVE  Inside(ip, InternalV4) <=> BoxV4(ip[1], ip[2])
<1>0. ip[1] \in Octet /\ ip[2] \in Octet  BY DEF V4
<1>1. PICK x \in Octet, y \in Octet : x = ip[1] /\ y = ip[2]  BY <1>0
<1> DEFINE In(a, c) == NotAfter(a, ip) /\ NotAfter(ip, c)
           First(z) == In(<<z, 0, 0, 0>>, <<z, 255, 255, 255>>)
           Second(z, lo, hi) == In(<<z, lo, 0, 0>>, <<z, hi, 255, 255>>)
<1>2. Inside(ip, InternalV4) <=>
        \/ First(0) \/ First(10) \/ Second(100, 64, 127) \/ First(127)
        \/ Second(169, 254, 254) \/ Second(172, 16, 31) \/ Second(192, 168, 168)
  BY DEF Inside, InternalV4
<1>3. ASSUME NEW z \in Octet PROVE First(z) <=> x = z
  <2>1. First(z) <=> z <= ip[1] /\ ip[1] <= z  BY FirstOctet
  <2> HIDE DEF First
  <2> QED BY <1>1, <2>1, OctetRange
<1>4. ASSUME NEW z \in Octet, NEW lo \in Octet, NEW hi \in Octet
      PROVE  Second(z, lo, hi) <=> x = z /\ lo <= y /\ y <= hi
  <2>1. Second(z, lo, hi) <=> ip[1] = z /\ lo <= ip[2] /\ ip[2] <= hi  BY SecondOctet
  <2> HIDE DEF Second
  <2> QED BY <1>1, <2>1, OctetRange
<1> HIDE DEF First, Second
<1>5. /\ First(0) <=> x = 0
      /\ First(10) <=> x = 10
      /\ First(127) <=> x = 127
  BY <1>3, OctetRange
<1>6. /\ \A z \in {100, 169, 172, 192} : z \in Octet
      /\ \A z \in {64, 127, 254, 16, 31, 168} : z \in Octet
  BY OctetRange
<1>7. Second(100, 64, 127) <=> x = 100 /\ 64 <= y /\ y <= 127  BY <1>4, <1>6
<1>8. Second(169, 254, 254) <=> x = 169 /\ 254 <= y /\ y <= 254  BY <1>4, <1>6
<1>9. Second(172, 16, 31) <=> x = 172 /\ 16 <= y /\ y <= 31  BY <1>4, <1>6
<1>10. Second(192, 168, 168) <=> x = 192 /\ 168 <= y /\ y <= 168  BY <1>4, <1>6
<1>11. Inside(ip, InternalV4) <=> BoxV4(x, y)
  BY <1>2, <1>5, <1>7, <1>8, <1>9, <1>10, OctetRange DEF BoxV4
<1> QED BY <1>1, <1>11

LEMMA BlockedIsBox ==
    ASSUME NEW ip \in V4
    PROVE  isBlockedV4(ip) <=> BoxV4(ip[1], ip[2])
<1>0. ip[1] \in Octet /\ ip[2] \in Octet  BY DEF V4
<1>1. PICK x \in Octet, y \in Octet : x = ip[1] /\ y = ip[2]  BY <1>0
<1> DEFINE R(a, p) == v4InRange(ip, [network |-> a, prefix |-> p])
           R8(z) == R(<<z, 0, 0, 0>>, 8)
           R16(z, v) == R(<<z, v, 0, 0>>, 16)
           R10 == R(<<100, 64, 0, 0>>, 10)
           R12 == R(<<172, 16, 0, 0>>, 12)
<1>2. isBlockedV4(ip) <=>
        R8(0) \/ R8(10) \/ R10 \/ R8(127) \/ R16(169, 254) \/ R12 \/ R16(192, 168)
  BY DEF isBlockedV4, BLOCKED_V4_RANGES
<1>3. /\ 8 \div 8 = 1 /\ 8 % 8 = 0 /\ 10 \div 8 = 1 /\ 10 % 8 = 2
      /\ 12 \div 8 = 1 /\ 12 % 8 = 4 /\ 16 \div 8 = 2 /\ 16 % 8 = 0
  OBVIOUS
<1>4. 2 ^ (8 - 2) = 64 /\ 2 ^ (8 - 4) = 16  OBVIOUS
<1>5. (\A i \in 1 .. 1 : i = 1) /\ (\A i \in 1 .. 2 : i = 1 \/ i = 2)  OBVIOUS
<1>6. ASSUME NEW z \in Octet PROVE R8(z) <=> x = z
  BY <1>1, <1>3, <1>5, OctetRange DEF v4InRange
<1>7. ASSUME NEW z \in Octet, NEW v \in Octet PROVE R16(z, v) <=> x = z /\ y = v
  BY <1>1, <1>3, <1>5, OctetRange DEF v4InRange
<1>8. R10 <=> x = 100 /\ y \div 64 = 64 \div 64  BY <1>1, <1>3, <1>4, <1>5, OctetRange DEF v4InRange
<1>9. R12 <=> x = 172 /\ y \div 16 = 16 \div 16  BY <1>1, <1>3, <1>4, <1>5, OctetRange DEF v4InRange
<1>10. y \div 64 = 64 \div 64 <=> y \in 64 .. 127  BY OctetRange
<1>11. y \div 16 = 16 \div 16 <=> y \in 16 .. 31  BY OctetRange
<1> HIDE DEF R8, R16, R10, R12
<1>12. (R8(0) <=> x = 0) /\ (R8(10) <=> x = 10) /\ (R8(127) <=> x = 127)  BY <1>6, OctetRange
<1>13. \A z \in {169, 192, 254, 168} : z \in Octet  BY OctetRange
<1>14. R16(169, 254) <=> x = 169 /\ y = 254  BY <1>7, <1>13
<1>15. R16(192, 168) <=> x = 192 /\ y = 168  BY <1>7, <1>13
<1>16. isBlockedV4(ip) <=> BoxV4(x, y)
  BY <1>2, <1>8, <1>9, <1>10, <1>11, <1>12, <1>14, <1>15 DEF BoxV4
<1> QED BY <1>1, <1>16

V6 == [1 .. 8 -> 0 .. MaxGroup]

LEMMA Groups ==
    ASSUME NEW g \in V6
    PROVE  \A j \in 1 .. 8 : g[j] \in Int /\ 0 <= g[j] /\ g[j] <= 65535
<1>1. \A j \in 1 .. 8 : g[j] \in 0 .. MaxGroup  BY DEF V6
<1>2. MaxGroup \in Int /\ MaxGroup <= 65535  BY DEF MaxGroup
<1> QED BY <1>1, <1>2

LEMMA FirstGroup ==
    ASSUME NEW g \in V6, NEW lo \in Int, NEW hi \in Int
    PROVE  NotAfter(Repeated(lo, 0), g) /\ NotAfter(g, Repeated(hi, 65535)) <=>
              lo <= g[1] /\ g[1] <= hi
<1> DEFINE a == Repeated(lo, 0)
           c == Repeated(hi, 65535)
<1>1. PICK n \in Nat, m \in Nat : n = 8 /\ m = 0  OBVIOUS
<1>2. a \in [1 .. n -> Int] /\ c \in [1 .. n -> Int] /\ g \in [1 .. n -> Int]
  BY <1>1, Groups DEF V6, Repeated
<1>3. \A j \in m + 2 .. n : a[j] <= g[j] /\ g[j] <= c[j]
  <2>1. \A j \in m + 2 .. n : j \in {2, 3, 4, 5, 6, 7, 8}  BY <1>1
  <2>2. \A j \in 1 .. 8 : g[j] \in Int /\ 0 <= g[j] /\ g[j] <= 65535  BY Groups
  <2>3. \A j \in {2, 3, 4, 5, 6, 7, 8} : a[j] = 0 /\ c[j] = 65535  BY DEF Repeated
  <2>4. \A j \in {2, 3, 4, 5, 6, 7, 8} : j \in 1 .. 8  OBVIOUS
  <2> HIDE DEF a, c
  <2> QED BY <2>1, <2>2, <2>3, <2>4
<1>4. m + 1 = 1 /\ a[1] = lo /\ c[1] = hi  BY <1>1 DEF Repeated
<1>5. m \in 0 .. n - 1 /\ \A j \in 1 .. m : a[j] = c[j] /\ g[j] = a[j]  BY <1>1
<1> HIDE DEF a, c
<1>6. NotAfter(a, g) /\ NotAfter(g, c) <=>
         (\A j \in 1 .. m : g[j] = a[j]) /\ a[m + 1] <= g[m + 1] /\ g[m + 1] <= c[m + 1]
  <2>1. \A j \in 1 .. m : a[j] = c[j]  BY <1>5
  <2>2. n \in Nat /\ m \in 0 .. n - 1  BY <1>5
  <2> QED BY ONLY <1>2, <1>3, <2>1, <2>2, RangeIsBox, ZenonT(60)
<1> QED BY <1>4, <1>5, <1>6 DEF a, c

LEMMA SeventhGroup ==
    ASSUME NEW g \in V6, NEW lo \in Int, NEW hi \in Int
    PROVE  NotAfter(<<0, 0, 0, 0, 0, 65535, lo, 0>>, g) /\ NotAfter(g, <<0, 0, 0, 0, 0, 65535, hi, 65535>>) <=>
              (\A i \in 1 .. 5 : g[i] = 0) /\ g[6] = 65535 /\ lo <= g[7] /\ g[7] <= hi
<1> DEFINE a == <<0, 0, 0, 0, 0, 65535, lo, 0>>
           c == <<0, 0, 0, 0, 0, 65535, hi, 65535>>
<1>1. PICK n \in Nat, m \in Nat : n = 8 /\ m = 6  OBVIOUS
<1>2. a \in [1 .. n -> Int] /\ c \in [1 .. n -> Int] /\ g \in [1 .. n -> Int]
  BY <1>1, Groups DEF V6
<1>3. \A j \in m + 2 .. n : a[j] <= g[j] /\ g[j] <= c[j]
  <2>1. \A j \in m + 2 .. n : j = 8  BY <1>1
  <2>2. g[8] \in Int /\ 0 <= g[8] /\ g[8] <= 65535  BY Groups
  <2>3. a[8] = 0 /\ c[8] = 65535  OBVIOUS
  <2> HIDE DEF a, c
  <2> QED BY <2>1, <2>2, <2>3
<1>4. m + 1 = 7 /\ a[7] = lo /\ c[7] = hi  BY <1>1
<1>5. m \in 0 .. n - 1 /\ (\A j \in 1 .. m : j \in 1 .. 5 \/ j = 6) /\ (\A j \in 1 .. 5 : j \in 1 .. m) /\ 6 \in 1 .. m
  BY <1>1
<1>6. (\A j \in 1 .. 5 : a[j] = 0 /\ c[j] = 0) /\ a[6] = 65535 /\ c[6] = 65535
  <2>1. \A j \in 1 .. 5 : j \in {1, 2, 3, 4, 5}  OBVIOUS
  <2>2. \A j \in {1, 2, 3, 4, 5} : a[j] = 0 /\ c[j] = 0  OBVIOUS
  <2>3. a[6] = 65535 /\ c[6] = 65535  OBVIOUS
  <2> HIDE DEF a, c
  <2> QED BY <2>1, <2>2, <2>3
<1> HIDE DEF a, c
<1>7. \A j \in 1 .. m : a[j] = c[j]  BY <1>5, <1>6
<1>8. NotAfter(a, g) /\ NotAfter(g, c) <=>
         (\A j \in 1 .. m : g[j] = a[j]) /\ a[m + 1] <= g[m + 1] /\ g[m + 1] <= c[m + 1]
  <2>1. n \in Nat /\ m \in 0 .. n - 1  BY <1>5
  <2> QED BY ONLY <1>2, <1>3, <1>7, <2>1, RangeIsBox, ZenonT(60)
<1>9. (\A j \in 1 .. m : g[j] = a[j]) <=> (\A i \in 1 .. 5 : g[i] = 0) /\ g[6] = 65535  BY <1>5, <1>6
<1>10. NotAfter(a, g) /\ NotAfter(g, c) <=>
          (\A i \in 1 .. 5 : g[i] = 0) /\ g[6] = 65535 /\ lo <= g[7] /\ g[7] <= hi
  BY <1>4, <1>8, <1>9
<1> QED BY <1>10 DEF a, c

LEMMA LastGroup ==
    ASSUME NEW g \in V6
    PROVE  NotAfter(Repeated(0, 0), g) /\ NotAfter(g, LoopbackV6) <=>
              \A i \in 1 .. 7 : g[i] = 0 /\ g[8] \in {0, 1}
<1> DEFINE a == Repeated(0, 0)
           c == LoopbackV6
<1>1. PICK n \in Nat, m \in Nat : n = 8 /\ m = 7  OBVIOUS
<1>2. a \in [1 .. n -> Int] /\ c \in [1 .. n -> Int] /\ g \in [1 .. n -> Int]
  BY <1>1, Groups DEF V6, Repeated, LoopbackV6
<1>3. \A j \in m + 2 .. n : a[j] <= g[j] /\ g[j] <= c[j]  BY <1>1
<1>4. m + 1 = 8 /\ a[8] = 0 /\ c[8] = 1  BY <1>1 DEF Repeated, LoopbackV6
<1>5. m \in 0 .. n - 1 /\ 1 .. m = 1 .. 7  BY <1>1
<1>6. \A j \in 1 .. 7 : a[j] = 0 /\ c[j] = 0
  <2>1. \A j \in 1 .. 7 : j \in {1, 2, 3, 4, 5, 6, 7}  OBVIOUS
  <2>2. \A j \in {1, 2, 3, 4, 5, 6, 7} : a[j] = 0 /\ c[j] = 0  BY DEF Repeated, LoopbackV6
  <2> HIDE DEF a, c
  <2> QED BY <2>1, <2>2
<1> HIDE DEF a, c
<1>7. \A j \in 1 .. m : a[j] = c[j]  BY <1>5, <1>6
<1>8. NotAfter(a, g) /\ NotAfter(g, c) <=>
         (\A j \in 1 .. m : g[j] = a[j]) /\ a[m + 1] <= g[m + 1] /\ g[m + 1] <= c[m + 1]
  <2>1. n \in Nat /\ m \in 0 .. n - 1  BY <1>5
  <2> QED BY ONLY <1>2, <1>3, <1>7, <2>1, RangeIsBox, ZenonT(60)
<1>9. (\A j \in 1 .. m : g[j] = a[j]) <=> \A i \in 1 .. 7 : g[i] = 0  BY <1>5, <1>6
<1>10. 0 <= g[8] /\ g[8] <= 1 <=> g[8] \in {0, 1}
  <2>1. g[8] \in Int  BY Groups
  <2> QED BY <2>1
<1>11. (\A i \in 1 .. 7 : g[i] = 0 /\ g[8] \in {0, 1}) <=> (\A i \in 1 .. 7 : g[i] = 0) /\ g[8] \in {0, 1}
  <2>1. 1 \in 1 .. 7  OBVIOUS
  <2> QED BY <2>1, Zenon
<1>12. NotAfter(a, g) /\ NotAfter(g, c) <=> \A i \in 1 .. 7 : g[i] = 0 /\ g[8] \in {0, 1}
  BY <1>4, <1>8, <1>9, <1>10, <1>11
<1> QED BY <1>12 DEF a, c

\* The IPv4 ranges, as numbers of 16 bits: the seventh group of a mapped address.
LEMMA MappedBox ==
    ASSUME NEW k \in Int, 0 <= k, k <= 65535
    PROVE  BoxV4(k \div 256, k % 256) <=>
              \/ 0 <= k /\ k <= 255
              \/ 2560 <= k /\ k <= 2815
              \/ 25664 <= k /\ k <= 25727
              \/ 32512 <= k /\ k <= 32767
              \/ 43518 <= k /\ k <= 43518
              \/ 44048 <= k /\ k <= 44063
              \/ 49320 <= k /\ k <= 49320
<1>1. PICK x \in Int, y \in Int : x = k \div 256 /\ y = k % 256  OBVIOUS
<1>2. k = 256 * x + y /\ 0 <= y /\ y <= 255  BY <1>1
<1>3. BoxV4(x, y) <=>
        \/ x = 0 \/ x = 10 \/ x = 127
        \/ x = 100 /\ 64 <= y /\ y <= 127
        \/ x = 169 /\ y = 254
        \/ x = 172 /\ 16 <= y /\ y <= 31
        \/ x = 192 /\ y = 168
  BY DEF BoxV4
<1> QED BY <1>1, <1>2, <1>3

\* What a mapped address embeds is an IPv4 address.
LEMMA EmbeddedV4 ==
    ASSUME NEW g \in V6
    PROVE  /\ <<g[7] \div 256, g[7] % 256, g[8] \div 256, g[8] % 256>> \in V4
           /\ isBlockedV4(<<g[7] \div 256, g[7] % 256, g[8] \div 256, g[8] % 256>>) <=>
                 BoxV4(g[7] \div 256, g[7] % 256)
<1> DEFINE Octets(k) == k \div 256 \in Octet /\ k % 256 \in Octet
<1>1. ASSUME NEW k \in Int, 0 <= k, k <= 65535 PROVE Octets(k)
  <2>1. k \div 256 \in Int /\ 0 <= k \div 256 /\ k \div 256 <= 255  BY <1>1
  <2>2. k % 256 \in Int /\ 0 <= k % 256 /\ k % 256 <= 255  BY <1>1
  <2> QED BY <2>1, <2>2, OctetRange
<1>2. Octets(g[7]) /\ Octets(g[8])
  <2>1. 7 \in 1 .. 8 /\ 8 \in 1 .. 8  OBVIOUS
  <2>2. g[7] \in Int /\ 0 <= g[7] /\ g[7] <= 65535 /\ g[8] \in Int /\ 0 <= g[8] /\ g[8] <= 65535
    BY <2>1, Groups
  <2> HIDE DEF Octets
  <2> QED BY <1>1, <2>2
<1>3. ASSUME NEW x \in Octet, NEW y \in Octet, NEW u \in Octet, NEW v \in Octet
      PROVE  /\ <<x, y, u, v>> \in V4
             /\ isBlockedV4(<<x, y, u, v>>) <=> BoxV4(x, y)
  <2>1. <<x, y, u, v>> \in V4  BY DEF V4
  <2>2. <<x, y, u, v>>[1] = x /\ <<x, y, u, v>>[2] = y  OBVIOUS
  <2> QED BY <2>1, <2>2, BlockedIsBox
<1>4. PICK x \in Octet, y \in Octet, u \in Octet, v \in Octet :
         x = g[7] \div 256 /\ y = g[7] % 256 /\ u = g[8] \div 256 /\ v = g[8] % 256
  BY <1>2
<1> QED BY <1>3, <1>4

\* The ranges of IPv6 addresses, one by one.
OwnV6(g, a, c) == NotAfter(a, g) /\ NotAfter(g, c)
MappedV6(g, r) == NotAfter(Mapped(r[1]), g) /\ NotAfter(g, Mapped(r[2]))
PairV4(z, lo, hi) == << <<z, lo, 0, 0>>, <<z, hi, 255, 255>> >>
Maps(g) == (\A i \in 1 .. 5 : g[i] = 0) /\ g[6] = 65535

LEMMA InsideV6 ==
    ASSUME NEW g
    PROVE  Inside(g, InternalV6) <=>
              \/ OwnV6(g, Repeated(0, 0), LoopbackV6)
              \/ OwnV6(g, Repeated(65152, 0), Repeated(65215, 65535))
              \/ OwnV6(g, Repeated(64512, 0), Repeated(65023, 65535))
              \/ \E r \in InternalV4 : MappedV6(g, r)
<1>1. ASSUME NEW a1, NEW c1, NEW a2, NEW c2, NEW a3, NEW c3, NEW S
      PROVE  Inside(g, {<<a1, c1>>, <<a2, c2>>, <<a3, c3>>} \cup {<<Mapped(r[1]), Mapped(r[2])>> : r \in S}) <=>
                OwnV6(g, a1, c1) \/ OwnV6(g, a2, c2) \/ OwnV6(g, a3, c3) \/ \E r \in S : MappedV6(g, r)
  <2> DEFINE A == {<<a1, c1>>, <<a2, c2>>, <<a3, c3>>}
             B == {<<Mapped(r[1]), Mapped(r[2])>> : r \in S}
  <2>1. Inside(g, A) <=> OwnV6(g, a1, c1) \/ OwnV6(g, a2, c2) \/ OwnV6(g, a3, c3)  BY DEF Inside, OwnV6
  <2>2. Inside(g, B) <=> \E r \in S : MappedV6(g, r)
    <3> DEFINE Ends(r) == <<Mapped(r[1]), Mapped(r[2])>>
               Covers(q) == NotAfter(q[1], g) /\ NotAfter(g, q[2])
    <3>1. \A r : Covers(Ends(r)) <=> MappedV6(g, r)  BY DEF MappedV6
    <3>2. Inside(g, B) <=> \E q \in {Ends(r) : r \in S} : Covers(q)  BY DEF Inside
    <3> HIDE DEF Ends, Covers
    <3> QED BY <3>1, <3>2
  <2>3. Inside(g, A \cup B) <=> Inside(g, A) \/ Inside(g, B)
    <3> HIDE DEF A, B
    <3> QED BY DEF Inside
  <2> QED BY <2>1, <2>2, <2>3
<1> DEFINE All(a1, c1, a2, c2, a3, c3, S) ==
              {<<a1, c1>>, <<a2, c2>>, <<a3, c3>>} \cup {<<Mapped(r[1]), Mapped(r[2])>> : r \in S}
<1>2. InternalV6 = All(Repeated(0, 0), LoopbackV6, Repeated(65152, 0), Repeated(65215, 65535),
                       Repeated(64512, 0), Repeated(65023, 65535), InternalV4)
  BY DEF InternalV6
<1>3. \A a1, c1, a2, c2, a3, c3, S :
         Inside(g, All(a1, c1, a2, c2, a3, c3, S)) <=>
                OwnV6(g, a1, c1) \/ OwnV6(g, a2, c2) \/ OwnV6(g, a3, c3) \/ \E r \in S : MappedV6(g, r)
  BY <1>1
<1> HIDE DEF All
<1> QED BY <1>2, <1>3

LEMMA PairsV4 ==
    InternalV4 = {PairV4(0, 0, 255), PairV4(10, 0, 255), PairV4(100, 64, 127), PairV4(127, 0, 255),
                  PairV4(169, 254, 254), PairV4(172, 16, 31), PairV4(192, 168, 168)}
BY DEF InternalV4, PairV4

LEMMA MappedPair ==
    ASSUME NEW g \in V6, NEW z \in Int, NEW lo \in Int, NEW hi \in Int
    PROVE  MappedV6(g, PairV4(z, lo, hi)) <=>
              Maps(g) /\ z * 256 + lo <= g[7] /\ g[7] <= z * 256 + hi
<1>1. PICK l \in Int, h \in Int : l = z * 256 + lo /\ h = z * 256 + hi  OBVIOUS
<1>2. 0 * 256 + 0 = 0 /\ 255 * 256 + 255 = 65535  OBVIOUS
<1>3. Mapped(PairV4(z, lo, hi)[1]) = <<0, 0, 0, 0, 0, 65535, l, 0>>  BY <1>1, <1>2 DEF Mapped, PairV4
<1>4. Mapped(PairV4(z, lo, hi)[2]) = <<0, 0, 0, 0, 0, 65535, h, 65535>>  BY <1>1, <1>2 DEF Mapped, PairV4
<1>5. NotAfter(<<0, 0, 0, 0, 0, 65535, l, 0>>, g) /\ NotAfter(g, <<0, 0, 0, 0, 0, 65535, h, 65535>>) <=>
         Maps(g) /\ l <= g[7] /\ g[7] <= h
  BY SeventhGroup DEF Maps
<1> QED BY <1>1, <1>3, <1>4, <1>5 DEF MappedV6

LEMMA MappedIsBox ==
    ASSUME NEW g \in V6
    PROVE  (\E r \in InternalV4 : MappedV6(g, r)) <=> Maps(g) /\ BoxV4(g[7] \div 256, g[7] % 256)
<1>1. g[7] \in Int /\ 0 <= g[7] /\ g[7] <= 65535
  <2>1. 7 \in 1 .. 8  OBVIOUS
  <2> QED BY <2>1, Groups
<1>2. (\E r \in InternalV4 : MappedV6(g, r)) <=>
         \/ MappedV6(g, PairV4(0, 0, 255)) \/ MappedV6(g, PairV4(10, 0, 255))
         \/ MappedV6(g, PairV4(100, 64, 127)) \/ MappedV6(g, PairV4(127, 0, 255))
         \/ MappedV6(g, PairV4(169, 254, 254)) \/ MappedV6(g, PairV4(172, 16, 31))
         \/ MappedV6(g, PairV4(192, 168, 168))
  BY PairsV4
<1>3. PICK k \in Int : k = g[7]  BY <1>1
<1>4. /\ MappedV6(g, PairV4(0, 0, 255)) <=> Maps(g) /\ 0 <= k /\ k <= 255
      /\ MappedV6(g, PairV4(10, 0, 255)) <=> Maps(g) /\ 2560 <= k /\ k <= 2815
      /\ MappedV6(g, PairV4(127, 0, 255)) <=> Maps(g) /\ 32512 <= k /\ k <= 32767
  BY <1>3, MappedPair
<1>5. /\ MappedV6(g, PairV4(100, 64, 127)) <=> Maps(g) /\ 25664 <= k /\ k <= 25727
      /\ MappedV6(g, PairV4(172, 16, 31)) <=> Maps(g) /\ 44048 <= k /\ k <= 44063
  BY <1>3, MappedPair
<1>6. /\ MappedV6(g, PairV4(169, 254, 254)) <=> Maps(g) /\ 43518 <= k /\ k <= 43518
      /\ MappedV6(g, PairV4(192, 168, 168)) <=> Maps(g) /\ 49320 <= k /\ k <= 49320
  BY <1>3, MappedPair
<1>7. BoxV4(k \div 256, k % 256) <=>
         \/ 0 <= k /\ k <= 255
         \/ 2560 <= k /\ k <= 2815
         \/ 25664 <= k /\ k <= 25727
         \/ 32512 <= k /\ k <= 32767
         \/ 43518 <= k /\ k <= 43518
         \/ 44048 <= k /\ k <= 44063
         \/ 49320 <= k /\ k <= 49320
  BY <1>1, <1>3, MappedBox
<1> QED BY <1>2, <1>3, <1>4, <1>5, <1>6, <1>7

LEMMA InternalIsV6 ==
    ASSUME NEW g \in V6
    PROVE  Inside(g, InternalV6) <=>
              \/ \A i \in 1 .. 7 : g[i] = 0 /\ g[8] \in {0, 1}
              \/ 65152 <= g[1] /\ g[1] <= 65215
              \/ 64512 <= g[1] /\ g[1] <= 65023
              \/ Maps(g) /\ BoxV4(g[7] \div 256, g[7] % 256)
<1>1. OwnV6(g, Repeated(0, 0), LoopbackV6) <=> \A i \in 1 .. 7 : g[i] = 0 /\ g[8] \in {0, 1}
  BY LastGroup DEF OwnV6
<1>2. OwnV6(g, Repeated(65152, 0), Repeated(65215, 65535)) <=> 65152 <= g[1] /\ g[1] <= 65215
  BY FirstGroup DEF OwnV6
<1>3. OwnV6(g, Repeated(64512, 0), Repeated(65023, 65535)) <=> 64512 <= g[1] /\ g[1] <= 65023
  BY FirstGroup DEF OwnV6
<1> QED BY <1>1, <1>2, <1>3, InsideV6, MappedIsBox

\* The masks of isBlockedV6, as ranges of the first group.
LEMMA BlockedIsV6 ==
    ASSUME NEW g \in V6
    PROVE  isBlockedV6(g) <=>
              \/ \A i \in 1 .. 7 : g[i] = 0 /\ g[8] \in {0, 1}
              \/ 65152 <= g[1] /\ g[1] <= 65215
              \/ 64512 <= g[1] /\ g[1] <= 65023
              \/ Maps(g) /\ BoxV4(g[7] \div 256, g[7] % 256)
<1>1. g[1] \in Int
  <2>1. 1 \in 1 .. 8  OBVIOUS
  <2> QED BY <2>1, Groups
<1>2. 65152 \div 64 = 1018 /\ 64512 \div 512 = 126  OBVIOUS
<1>3. ASSUME NEW k \in Int
      PROVE  /\ k \div 64 = 1018 <=> 65152 <= k /\ k <= 65215
             /\ k \div 512 = 126 <=> 64512 <= k /\ k <= 65023
  OBVIOUS
<1> DEFINE Loop == \A i \in 1 .. 7 : g[i] = 0 /\ g[8] \in {0, 1}
           Emb == <<g[7] \div 256, g[7] % 256, g[8] \div 256, g[8] % 256>>
<1>4. isBlockedV6(g) <=>
        \/ Loop
        \/ g[1] \div 64 = 65152 \div 64
        \/ g[1] \div 512 = 64512 \div 512
        \/ Maps(g) /\ isBlockedV4(Emb)
  BY DEF isBlockedV6, Maps
<1>5. isBlockedV4(Emb) <=> BoxV4(g[7] \div 256, g[7] % 256)  BY EmbeddedV4
<1> HIDE DEF Loop, Emb
<1>6. isBlockedV6(g) <=>
        \/ Loop
        \/ 65152 <= g[1] /\ g[1] <= 65215
        \/ 64512 <= g[1] /\ g[1] <= 65023
        \/ Maps(g) /\ BoxV4(g[7] \div 256, g[7] % 256)
  BY <1>1, <1>2, <1>3, <1>4, <1>5
<1> QED BY <1>6 DEF Loop

LEMMA AddressLen ==
    ASSUME NEW n \in Nat, NEW S, NEW a \in [1 .. n -> S]
    PROVE  a \in Seq(S) /\ Len(a) = n
<1>1. a \in Seq(S)  BY SeqDef
<1>2. Len(a) \in Nat /\ 1 .. Len(a) = 1 .. n  BY <1>1
<1> QED BY <1>1, <1>2

\* isBlockedIp blocks the addresses of the ranges, and no other, to the first and
\* the last address of each.
THEOREM BlockedIsInternal ==
    ASSUME NEW ip \in Addresses
    PROVE  isBlockedIp(ip) <=> Internal(ip)
<1>1. CASE ip \in V4
  <2>1. Len(ip) = 4  BY <1>1, AddressLen DEF V4
  <2> QED BY <1>1, <2>1, BlockedIsBox, InternalIsBox DEF isBlockedIp, Internal
<1>2. CASE ip \in V6
  <2>1. Len(ip) = 8  BY <1>2, AddressLen DEF V6
  <2>2. isBlockedV6(ip) <=> Inside(ip, InternalV6)  BY <1>2, BlockedIsV6, InternalIsV6
  <2> QED BY <2>1, <2>2 DEF isBlockedIp, Internal
<1>3. ip \in V4 \/ ip \in V6  BY Zenon DEF Addresses, Octet, V4, V6
<1> QED BY <1>1, <1>2, <1>3

LEMMA AddressIsSome ==
    ASSUME NEW ip \in Addresses
    PROVE  ip # NoPeer
<1>1. DOMAIN NoPeer = {}  BY DEF NoPeer
<1>2. DOMAIN ip = 1 .. 4 \/ DOMAIN ip = 1 .. 8  BY DEF Addresses
<1>3. 1 \in 1 .. 4 /\ 1 \in 1 .. 8  OBVIOUS
<1> QED BY <1>1, <1>2, <1>3

\* Where a request may go: an address that isBlockedIp does not block.
LEMMA LookupAllowed ==
    ASSUME NEW host \in Hosts, NEW answer \in Answers, isUrlAllowedForDelivery(host),
           lookup(host, answer) # NoPeer
    PROVE  lookup(host, answer) \in Addresses /\ ~isBlockedIp(lookup(host, answer))
<1>1. CASE host.kind = "literal"
  <2>1. ~(host \in {Name, ConventionName})  BY <1>1 DEF Name, ConventionName
  <2>2. host.ip \in Addresses  BY <2>1, HostsAssumption
  <2>3. lookup(host, answer) = host.ip  BY <1>1 DEF lookup
  <2> QED BY <1>1, <2>2, <2>3 DEF isUrlAllowedForDelivery
<1>2. CASE host.kind # "literal"
  <2> DEFINE good == {i \in DOMAIN answer : ~isBlockedIp(answer[i])}
             least == CHOOSE i \in good : \A j \in good : i <= j
  <2>1. answer \in Seq(Addresses)  BY HostsAssumption
  <2>2. good # {} /\ lookup(host, answer) = answer[least]  BY <1>2 DEF lookup
  <2>3. DOMAIN answer = 1 .. Len(answer) /\ Len(answer) \in Nat  BY <2>1
  <2>4. good \subseteq Nat  BY <2>3
  <2> HIDE DEF good
  <2>5. \E i \in good : \A j \in good : i <= j  BY <2>2, <2>4, Least
  <2>6. least \in good  BY <2>5
  <2> HIDE DEF least
  <2>7. least \in DOMAIN answer /\ ~isBlockedIp(answer[least])  BY <2>6 DEF good
  <2>8. answer[least] \in Addresses  BY <2>1, <2>3, <2>7
  <2> QED BY <2>2, <2>7, <2>8
<1> QED BY <1>1, <1>2

LEMMA PeersOutside ==
    ASSUME NEW peer \in Peers \ {NoPeer}
    PROVE  ~Internal(peer)
<1>1. PICK host \in Hosts, answer \in Answers :
         isUrlAllowedForDelivery(host) /\ peer = lookup(host, answer)
  BY DEF Peers
<1>2. peer \in Addresses /\ ~isBlockedIp(peer)  BY <1>1, LookupAllowed
<1> QED BY <1>2, BlockedIsInternal

\* A URL that is accepted at creation can be delivered to while the resolver
\* says the same.
LEMMA AcceptedIsDeliverable ==
    ASSUME NEW host \in Hosts, NEW answer \in Answers, assertWebhookUrlSafe(host, answer)
    PROVE  isUrlAllowedForDelivery(host) /\ lookup(host, answer) # NoPeer
<1>1. CASE host.kind = "literal"
  <2>1. ~(host \in {Name, ConventionName})  BY <1>1 DEF Name, ConventionName
  <2>2. host.ip \in Addresses  BY <2>1, HostsAssumption
  <2>3. lookup(host, answer) = host.ip  BY <1>1 DEF lookup
  <2>4. ~isBlockedIp(host.ip)  BY <1>1 DEF assertWebhookUrlSafe
  <2> QED BY <1>1, <2>2, <2>3, <2>4, AddressIsSome DEF isUrlAllowedForDelivery
<1>2. CASE host.kind # "literal"
  <2> DEFINE good == {i \in DOMAIN answer : ~isBlockedIp(answer[i])}
             least == CHOOSE i \in good : \A j \in good : i <= j
  <2>1. host.kind = "name" /\ answer # <<>> /\ \A i \in DOMAIN answer : ~isBlockedIp(answer[i])
    BY <1>2 DEF assertWebhookUrlSafe
  <2>2. answer \in Seq(Addresses)  BY HostsAssumption
  <2>3. DOMAIN answer = 1 .. Len(answer) /\ Len(answer) \in Nat /\ Len(answer) # 0  BY <2>1, <2>2
  <2>4. good = DOMAIN answer /\ 1 \in good  BY <2>1, <2>3
  <2>5. lookup(host, answer) = answer[least]  BY <2>1, <2>4 DEF lookup
  <2>6. good \subseteq Nat /\ good # {}  BY <2>3, <2>4
  <2> HIDE DEF good
  <2>7. \E i \in good : \A j \in good : i <= j  BY <2>6, Least
  <2>8. least \in good  BY <2>7
  <2> HIDE DEF least
  <2>9. answer[least] \in Addresses  BY <2>2, <2>3, <2>4, <2>8
  <2> QED BY <1>2, <2>5, <2>9, AddressIsSome DEF isUrlAllowedForDelivery
<1> QED BY <1>1, <1>2

-----------------------------------------------------------------------------
(* The guard: where the workers connect                                    *)

\* Whoever waits for an answer has asked an address that the lookup gave.
PeersRight ==
    /\ DOMAIN workers = Workers
    /\ \A w \in Workers :
          /\ {"pc", "peer"} \subseteq DOMAIN workers[w]
          /\ workers[w].pc = "fetch" => workers[w].peer \in Peers \ {NoPeer}

LEMMA PeersInit == Init => PeersRight
BY DEF Init, PeersRight, Off

LEMMA PeersStep == PeersRight /\ [Next]_vars => PeersRight'
<1> SUFFICES ASSUME PeersRight, [Next]_vars PROVE PeersRight'
  OBVIOUS
<1>1. CASE UNCHANGED workers  BY <1>1 DEF PeersRight
<1>3. ASSUME NEW w \in Workers, Start(w) PROVE PeersRight'
  BY <1>3 DEF Start, PeersRight
<1>4. ASSUME NEW w \in Workers, Stop(w) PROVE PeersRight'
  BY <1>4 DEF Stop, PeersRight
<1>5. ASSUME NEW w \in Workers, ClaimBatch(w) PROVE PeersRight'
  <2>1. PICK b, r : workers' = [workers EXCEPT ![w].pc = "loop", ![w].batch = r]  BY <1>5 DEF ClaimBatch
  <2> QED BY <2>1 DEF PeersRight
<1>6. ASSUME NEW w \in Workers, EndTick(w) PROVE PeersRight'
  <2>1. PICK p \in {"off", "sleeping"} : workers' = [workers EXCEPT ![w] = [Off EXCEPT !.pc = p]]
    BY <1>6 DEF EndTick
  <2> QED BY <2>1 DEF PeersRight, Off
<1>7. ASSUME NEW w \in Workers, Refuse(w) PROVE PeersRight'
  BY <1>7 DEF Refuse, PeersRight
<1>8. ASSUME NEW w \in Workers, Post(w) PROVE PeersRight'
  <2>1. CASE workers' = [workers EXCEPT ![w].pc = "apply", ![w].outcome = "retry"]
    BY <2>1 DEF PeersRight
  <2>2. ASSUME NEW peer \in Peers \ {NoPeer},
               workers' = [workers EXCEPT ![w].pc = "fetch", ![w].deadline = HTTP_TIMEOUT_SECONDS,
                                          ![w].peer = peer]
        PROVE  PeersRight'
    BY <2>2 DEF PeersRight
  <2> QED BY <1>8, <2>1, <2>2 DEF Post
<1>9. ASSUME NEW w \in Workers, Answer(w) PROVE PeersRight'
  BY <1>9 DEF Answer, PeersRight
<1>10. ASSUME NEW w \in Workers, ApplyOutcome(w) PROVE PeersRight'
  <2>1. PICK t : workers' = [workers EXCEPT ![w].pc = "loop", ![w].batch = t, ![w].outcome = "none"]
    BY <1>10 DEF ApplyOutcome
  <2> QED BY <2>1 DEF PeersRight
<1>11. ASSUME NEW w \in Workers, Crash(w) PROVE PeersRight'
  BY <1>11 DEF Crash, PeersRight, Off
<1>12. CASE Tick  BY <1>12 DEF Tick, PeersRight
<1>13. ASSUME NEW d \in Deliveries, Emit(d) \/ Remove(EndpointOf[d]) PROVE PeersRight'
  BY <1>1, <1>13 DEF Emit, Remove
<1>14. CASE UNCHANGED vars  BY <1>1, <1>14 DEF vars
<1>15. CASE Next
  BY <1>3, <1>4, <1>5, <1>6, <1>7, <1>8, <1>9, <1>10, <1>11, <1>12, <1>13, <1>15, Zenon
     DEF Next, Step, EndOfBatch, FailApply
<1> QED BY <1>14, <1>15

\* Every request connects to an address outside the ranges that ssrfGuard.ts
\* lists, whatever the resolver answers and whatever the hosts: a literal is
\* judged by isUrlAllowedForDelivery, a name by the lookup of the connection.
THEOREM ConnectsPublic == Spec => []ConnectsOutside
<1>1. PeersRight => ConnectsOutside  BY PeersOutside DEF PeersRight, ConnectsOutside
<1> QED BY <1>1, PeersInit, PeersStep, PTL DEF Spec

\* The masks of isBlockedIp block exactly the addresses between the first and the
\* last one of each range, IPv4 addresses mapped into IPv6 included; and the check
\* of creation accepts nothing that the check of delivery would refuse.
THEOREM GuardExact == Spec => []GuardIsExact
<1>1. ChecksAgree
  <2>1. \A ip \in Samples : isBlockedIp(ip) <=> Internal(ip)  BY HostsAssumption, BlockedIsInternal
  <2> QED BY <2>1, AcceptedIsDeliverable DEF ChecksAgree
<1>2. GuardIsExact  BY <1>1 DEF GuardIsExact
<1> QED BY <1>2, PTL

=============================================================================
