------------------------------- MODULE EipAddress ------------------------------
(***************************************************************************)
(* The arithmetic of an Eip's address (api/v1alpha2/eip_types.go,          *)
(* pkg/util/net/ip.go) and the speaker's reading of the same text          *)
(* (pkg/util/iprange).  Addresses are numbers of any size, as in big.Int;  *)
(* sizes and ordinals are machine integers that wrap around.               *)
(***************************************************************************)
EXTENDS Integers

CONSTANT MaxInt      \* the largest machine integer (2^63 - 1 in the code)

\* Addresses, and what an Eip's address may say: one address, a network with the given
\* number of addresses (a power of two), a range, or something that is no address.
IP == [v4: BOOLEAN, n: Nat]

Text == [form: {"ip", "cidr", "range", "bad"}, first: IP, last: IP, hosts: Nat \ {0}]

\* big.Int.Int64, and the arithmetic of int64: numbers that do not fit wrap around.
Int64(x) ==
    IF -MaxInt - 1 <= x /\ x <= MaxInt THEN x
    ELSE ((x + MaxInt + 1) % (2 * (MaxInt + 1))) - MaxInt - 1

\* IPToBigInt: four bytes and sixteen bytes give numbers that are not told apart.
IPToBigInt(ip) == ip.n

\* net.ParseCIDR masks the address.
Masked(ip, hosts) == ip.n - (ip.n % hosts)

Sized(base, size) == [ok |-> TRUE, base |-> base, size |-> size]

\* Mutant of GetSize: the last address of a range is not counted.
GetSize_Short(t) ==
    CASE t.form = "ip"    -> Sized(IPToBigInt(t.first), 1)
      [] t.form = "cidr"  -> Sized(Masked(t.first, t.hosts), Int64(t.hosts))
      [] t.form = "range" -> LET ord == Int64(IPToBigInt(t.last) - IPToBigInt(t.first))
                             IN [ok |-> ord >= 0, base |-> IPToBigInt(t.first), size |-> ord]
      [] t.form = "bad"   -> [ok |-> FALSE, base |-> 0, size |-> 0]

GetSize(t) ==
    CASE t.form = "ip"    -> Sized(IPToBigInt(t.first), 1)
      [] t.form = "cidr"  -> Sized(Masked(t.first, t.hosts), Int64(t.hosts))
      [] t.form = "range" -> LET ord == Int64(IPToBigInt(t.last) - IPToBigInt(t.first))
                             IN [ok |-> ord >= 0, base |-> IPToBigInt(t.first), size |-> Int64(ord + 1)]
      [] t.form = "bad"   -> [ok |-> FALSE, base |-> 0, size |-> 0]

\* The last address as IsOverlap, Contains and updateEip compute it.
LastIP(t) == GetSize(t).base + Int64(GetSize(t).size - 1)

\* Mutant of IsOverlap: pools that have only an end in common do not overlap.
IsOverlap_Strict(s, t) == ~(GetSize(s).base >= LastIP(t) \/ GetSize(t).base >= LastIP(s))

IsOverlap(s, t) == ~(GetSize(s).base > LastIP(t) \/ GetSize(t).base > LastIP(s))

Contains(t, ip) == IPToBigInt(ip) >= GetSize(t).base /\ IPToBigInt(ip) <= LastIP(t)

\* The place of an address in the pool, or -1.
IPToOrdinal(t, ip) ==
    LET ord == Int64(IPToBigInt(ip) - GetSize(t).base)
    IN IF ~GetSize(t).ok \/ ord < 0 \/ ord >= GetSize(t).size THEN -1 ELSE ord

------------------------------------------------------------------------------
(* iprange: no machine integers, and both ends of one family.              *)

NewRange(v4, start, end) == [ok |-> end >= start, v4 |-> v4, start |-> start, end |-> end]

ParseRange(t) ==
    CASE t.form = "ip"    -> NewRange(t.first.v4, t.first.n, t.first.n)
      [] t.form = "cidr"  -> LET net == Masked(t.first, t.hosts)
                             IN NewRange(t.first.v4, net, net + t.hosts - 1)
      [] t.form = "range" -> [NewRange(t.first.v4, t.first.n, t.last.n) EXCEPT
                                 !.ok = @ /\ t.first.v4 = t.last.v4]
      [] t.form = "bad"   -> [ok |-> FALSE, v4 |-> FALSE, start |-> 0, end |-> 0]

RangeContains(t, ip) ==
    LET r == ParseRange(t) IN ip.v4 = r.v4 /\ r.start <= ip.n /\ ip.n <= r.end

------------------------------------------------------------------------------
(* What the text means, as the reference for the above.                    *)

\* A pool whose size is a machine integer: every IPv4 pool, and IPv6 networks of at most
\* 62 host bits.
Fits(t) == ParseRange(t).ok /\ ParseRange(t).end - ParseRange(t).start < MaxInt

Intersect(s, t) ==
    LET p == ParseRange(s) q == ParseRange(t)
    IN p.v4 = q.v4 /\ p.start <= q.end /\ q.start <= p.end
===============================================================================
