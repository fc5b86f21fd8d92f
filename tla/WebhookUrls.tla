---------------------------- MODULE WebhookUrls ----------------------------
(***************************************************************************)
(* lib/ssrfGuard.ts: which URLs an endpoint may have, and which address a  *)
(* delivery may connect to.  An IPv4 address is its four octets, an IPv6   *)
(* address its eight groups; how they are written down is left out, except *)
(* that an IPv4 address may come embedded in an IPv6 one.                  *)
(***************************************************************************)
EXTENDS Integers, Sequences

MaxGroup == 65535

Addresses == [1 .. 4 -> 0 .. 255] \cup [1 .. 8 -> 0 .. MaxGroup]

(* IP ranges *)

BLOCKED_V4_RANGES ==
    {[network |-> <<0, 0, 0, 0>>, prefix |-> 8],
     [network |-> <<10, 0, 0, 0>>, prefix |-> 8],
     [network |-> <<100, 64, 0, 0>>, prefix |-> 10],
     [network |-> <<127, 0, 0, 0>>, prefix |-> 8],
     [network |-> <<169, 254, 0, 0>>, prefix |-> 16],
     [network |-> <<172, 16, 0, 0>>, prefix |-> 12],
     [network |-> <<192, 168, 0, 0>>, prefix |-> 16]}

\* Fault: only the whole octets of the prefix are compared.
SameOctets(ip, r) == \A i \in 1 .. r.prefix \div 8 : ip[i] = r.network[i]

\* The first prefix bits are those of the network: whole octets, and the
\* high bits of the next one.
v4InRange(ip, r) ==
    LET whole == r.prefix \div 8
        unit == 2 ^ (8 - (r.prefix % 8))
    IN  /\ \A i \in 1 .. whole : ip[i] = r.network[i]
        /\ r.prefix % 8 # 0 => ip[whole + 1] \div unit = r.network[whole + 1] \div unit

isBlockedV4(ip) == \E r \in BLOCKED_V4_RANGES : v4InRange(ip, r)

\* ::, ::1, fe80::/10, fc00::/7, and what ::ffff:0:0/96 embeds.  The eight groups
\* are what ipv6Groups makes of the text; the text itself is left out, and with it
\* the branch for a literal that does not expand.
isBlockedV6(g) ==
    \/ \A i \in 1 .. 7 : g[i] = 0 /\ g[8] \in {0, 1}
    \/ g[1] \div 64 = 65152 \div 64
    \/ g[1] \div 512 = 64512 \div 512
    \/ /\ \A i \in 1 .. 5 : g[i] = 0
       /\ g[6] = 65535
       /\ isBlockedV4(<<g[7] \div 256, g[7] % 256, g[8] \div 256, g[8] % 256>>)

isBlockedIp(ip) == IF Len(ip) = 4 THEN isBlockedV4(ip) ELSE isBlockedV6(ip)

-----------------------------------------------------------------------------
(* The two checks.  A host is an address, or a name; names like localhost, *)
(* *.local and *.internal are blocked by convention.  The resolver answers *)
(* a name with a sequence of addresses; none when it fails.                *)

Literal(ip) == [kind |-> "literal", ip |-> ip]
Name == [kind |-> "name", ip |-> <<>>]
ConventionName == [kind |-> "convention", ip |-> <<>>]

\* assertWebhookUrlSafe: all the addresses must be allowed.
assertWebhookUrlSafe(host, answer) ==
    \/ host.kind = "literal" /\ ~isBlockedIp(host.ip)
    \/ /\ host.kind = "name"
       /\ answer # <<>>
       /\ \A i \in DOMAIN answer : ~isBlockedIp(answer[i])

\* isUrlAllowedForDelivery: an address is not looked up when it is connected
\* to, so it is judged before the request.
isUrlAllowedForDelivery(host) == host.kind = "literal" => ~isBlockedIp(host.ip)

NoPeer == <<>>

\* Fault: the first address of the answer is taken without a look at it.
FirstAddress(host, answer) ==
    IF host.kind = "literal" THEN host.ip
    ELSE IF answer = <<>> THEN NoPeer ELSE answer[1]

\* The address connected to: the literal, or by buildSafeAgent's lookup the
\* first address of the answer that is allowed.
lookup(host, answer) ==
    LET good == {i \in DOMAIN answer : ~isBlockedIp(answer[i])}
    IN  IF host.kind = "literal" THEN host.ip
        ELSE IF host.kind = "convention" \/ good = {} THEN NoPeer
        ELSE answer[CHOOSE i \in good : \A j \in good : i <= j]

-----------------------------------------------------------------------------
(* What the header of the file promises, said another way: the first and   *)
(* the last address of every range.                                        *)

InternalV4 ==
    {<< <<0, 0, 0, 0>>, <<0, 255, 255, 255>> >>,
     << <<10, 0, 0, 0>>, <<10, 255, 255, 255>> >>,
     << <<100, 64, 0, 0>>, <<100, 127, 255, 255>> >>,
     << <<127, 0, 0, 0>>, <<127, 255, 255, 255>> >>,
     << <<169, 254, 0, 0>>, <<169, 254, 255, 255>> >>,
     << <<172, 16, 0, 0>>, <<172, 31, 255, 255>> >>,
     << <<192, 168, 0, 0>>, <<192, 168, 255, 255>> >>}

NotAfter(a, b) ==
    a = b \/ \E i \in DOMAIN a : a[i] < b[i] /\ \A j \in 1 .. i - 1 : a[j] = b[j]

Inside(ip, ranges) == \E r \in ranges : NotAfter(r[1], ip) /\ NotAfter(ip, r[2])

Repeated(x, y) == <<x, y, y, y, y, y, y, y>>
LoopbackV6 == <<0, 0, 0, 0, 0, 0, 0, 1>>

\* The IPv4 address a, embedded in ::ffff:0:0/96.
Mapped(a) == <<0, 0, 0, 0, 0, 65535, a[1] * 256 + a[2], a[3] * 256 + a[4]>>

InternalV6 ==
    {<<Repeated(0, 0), LoopbackV6>>,
     <<Repeated(65152, 0), Repeated(65215, 65535)>>,
     <<Repeated(64512, 0), Repeated(65023, 65535)>>}
    \cup {<<Mapped(r[1]), Mapped(r[2])>> : r \in InternalV4}

Internal(ip) == Inside(ip, IF Len(ip) = 4 THEN InternalV4 ELSE InternalV6)

=============================================================================
