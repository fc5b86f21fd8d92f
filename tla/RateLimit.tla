----------------------------- MODULE RateLimit -----------------------------
(***************************************************************************)
(* services/rateLimit.ts: a fixed window counter in Redis.  A bucket is    *)
(* the key of one limit: the window it was last incremented in and the     *)
(* count in that window (the key of an earlier window is never read again).*)
(***************************************************************************)
EXTENDS Integers

EmptyBucket == [window |-> 0, count |-> 0]

\* MULTI; INCR; EXPIRE NX; EXEC on the key of the window that now falls in.
\* Beyond limit + 1 the count makes no difference and is not raised.
Hit(bucket, now, windowSeconds, limit) ==
    LET w == now \div windowSeconds
    IN  [window |-> w,
         count |-> IF bucket.window # w THEN 1
                   ELSE IF bucket.count <= limit THEN bucket.count + 1
                   ELSE bucket.count]

\* Fault: the request that exceeds the limit still passes.
AllowedOneMore(bucket, limit) == bucket.count <= limit + 1

Allowed(bucket, limit) == bucket.count <= limit

=============================================================================
