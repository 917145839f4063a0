----------------------------- MODULE MtuSearch -----------------------------
(***************************************************************************)
(* mtu_probe (probes/route.py:109-129): a binary search for the largest    *)
(* payload that a host answers when the ping must not be fragmented.       *)
(***************************************************************************)
EXTENDS Integers

VARIABLES
    fits,     \* the largest payload the path carries, -1 if the host never answers
    max_size, \* the largest payload to try, or -1 when no search is asked for
    low, high, last_ok,
    lost      \* pings that the path carries and that went unanswered all the same

searchVars == <<fits, max_size, low, high, last_ok, lost>>

Smallest == 68   \* taken to pass, never tried
Headers  == 28   \* of IP and ICMP
EthernetSize == 1500   \* the largest payload to try, unless another is asked for

Larger(a, b)  == IF a >= b THEN a ELSE b
Smaller(a, b) == IF a <= b THEN a ELSE b

NoSearch ==
    /\ fits = -1 /\ max_size = -1 /\ lost = 0
    /\ low = Smallest /\ high = -1 /\ last_ok = Smallest

\* A search up to m on a path that carries payloads up to f.
Search(m, f) ==
    /\ max_size' = m /\ fits' = f
    /\ low' = Smallest /\ high' = m /\ last_ok' = Smallest /\ lost' = 0

Searching == max_size # -1 /\ low <= high
Searched  == max_size # -1 /\ low > high

Middle == (low + high) \div 2

\* Mutant: the middle is not tried again, nor what is left of it.
AnsweredSkipping ==
    /\ Middle <= fits
    /\ last_ok' = Middle /\ low' = Middle + 2
    /\ UNCHANGED <<high, lost>>
Answered ==
    /\ Middle <= fits
    /\ last_ok' = Middle /\ low' = Middle + 1
    /\ UNCHANGED <<high, lost>>

\* Too large, or lost.  One ping is sent, and none repeated.
Unanswered(losses) ==
    /\ Middle <= fits => lost < losses
    /\ lost' = IF Middle <= fits THEN lost + 1 ELSE lost
    /\ high' = Middle - 1
    /\ UNCHANGED <<low, last_ok>>

\* One round of the loop, when at most so many pings get lost.
Ping(losses) ==
    /\ Searching
    /\ Answered \/ Unanswered(losses)
    /\ UNCHANGED <<fits, max_size>>

mtu == last_ok + Headers

-----------------------------------------------------------------------------
SearchTypeOK ==
    /\ {fits, max_size, high} \subseteq Int /\ lost \in Nat
    /\ {low, last_ok} \subseteq Nat
    /\ last_ok >= Smallest

\* The search never claims more than the path carries, and if no ping was lost
\* it finds exactly that.  What it cannot find out is anything below its own
\* smallest size: a host that never answers gets the MTU of 68 bytes of payload.
MtuIsLargest ==
    LET largest == Larger(Smallest, Smaller(fits, max_size))
    IN /\ last_ok <= largest
       /\ Searched /\ lost = 0 => mtu = largest + Headers
=============================================================================
