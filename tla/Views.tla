-------------------------------- MODULE Views --------------------------------
(****************************************************************************)
(* Two computations of the page (src/webui/assets/app.js): the gateway it   *)
(* proposes in the repair dialog, and where the monitor draws its samples.  *)
(*                                                                          *)
(* JavaScript shifts 32 bits and takes a shift distance modulo 32; TLC's    *)
(* integers are too small for that, so an address is its four octets, with  *)
(* the carries between them.  Chart positions are kept as fractions, and    *)
(* 1.08 times a value as 108 times it.                                      *)
(****************************************************************************)
EXTENDS Integers, Sequences, TLC

CONSTANTS Addresses,   \* addresses of the primary interface, as octets
          Prefixes,    \* their prefixes, which the service reads as numbers
          Samples      \* [ts, rtt] of the monitor; rtt 0 stands for null too

\* The page reads no other octets and prefixes (app.js:861-863).
ASSUME ViewsAssumption == Addresses \subseteq [1..4 -> 0..255] /\ Prefixes \subseteq Int

VARIABLE given         \* what one of the two computations is given

----------------------------------------------------------------------------
(* suggestedGateway() *)

\* The octets of the mask (0xffffffff << k) >>> 0 applied to an address.
Masked(addr, k) ==
  LET shift == k % 32
      low(i) == LET n == shift - 8 * (4 - i) IN IF n < 0 THEN 0 ELSE IF n > 8 THEN 8 ELSE n
  IN [i \in 1..4 |-> (addr[i] \div 2^low(i)) * 2^low(i)]

\* One more, as octets; after 255.255.255.255 comes 0.0.0.0.
Successor(addr) ==
  [i \in 1..4 |-> IF \A j \in (i + 1)..4 : addr[j] = 255
                  THEN (addr[i] + 1) % 256 ELSE addr[i]]

NoGateway == <<>>

\* The address after that of the network.
suggestedGateway_anyprefix(addr, prefix) == Successor(Masked(addr, 32 - prefix))
suggestedGateway(addr, prefix) ==
  IF prefix < 1 \/ prefix > 31 THEN NoGateway
  ELSE Successor(Masked(addr, 32 - prefix))

----------------------------------------------------------------------------
(* niceRttMax() and rttTrendChart() *)

\* The first of 1, 2, 5 and 10 times a power of ten that leaves a margin of 8
\* percent.
niceRttMax(value) ==
  LET target == 108 * (IF value > 10 THEN value ELSE 10)        \* hundredths
      power  == CHOOSE p \in {10^k : k \in 0..6} : 100 * p <= target /\ target < 1000 * p
      m      == CHOOSE x \in {1, 2, 5, 10} :
                  /\ 100 * x * power >= target
                  /\ \A y \in {1, 2, 5, 10} : y < x => 100 * y * power < target
  IN m * power

\* The samples in the order of their times, and the ends of the time axis.
Sorted(list) == SortSeq(list, LAMBDA a, b : a.ts < b.ts)
TimeAxis_asgiven(list) == [first |-> list[1].ts, last |-> list[Len(list)].ts]
TimeAxis(list) == LET s == Sorted(list) IN [first |-> s[1].ts, last |-> s[Len(s)].ts]

Highest(list) == CHOOSE v \in {list[i].rtt : i \in DOMAIN list} :
                   \A i \in DOMAIN list : list[i].rtt <= v

\* Where a sample lies: its part of the width and of the height, over what.
Point(list, sample) ==
  LET axis == TimeAxis(list)
  IN [x    |-> IF axis.first = axis.last THEN 1 ELSE sample.ts - axis.first,
      wide |-> IF axis.first = axis.last THEN 2 ELSE axis.last - axis.first,
      y    |-> sample.rtt,
      high |-> niceRttMax(Highest(list))]

----------------------------------------------------------------------------
ViewInit ==
  \/ \E addr \in Addresses, prefix \in Prefixes :
       given = [view |-> "gateway", addr |-> addr, prefix |-> prefix]
  \/ \E n \in 1..3 : \E list \in [1..n -> Samples] :
       given = [view |-> "chart", samples |-> list]

\* A proposed gateway is an address that a router of the interface's network
\* can have: it is in the network, and neither the network's own address nor,
\* but for a network of two, its broadcast address (app.js:858-870).  It may
\* be the address of the interface itself.
GatewayIsHost ==
  given.view = "gateway" =>
    LET g == suggestedGateway(given.addr, given.prefix)
        p == given.prefix
        \* bits of an address, from the left
        bit(a, i) == (a[((i - 1) \div 8) + 1] \div 2^(7 - ((i - 1) % 8))) % 2
    IN g # NoGateway =>
         /\ p \in 1..31 /\ \A i \in 1..p : bit(g, i) = bit(given.addr, i)
         /\ \E i \in (p + 1)..32 : bit(g, i) = 1
         /\ p = 31 \/ \E i \in (p + 1)..32 : bit(g, i) = 0

\* Whatever the order in which the samples are merged, every one lies within
\* the axes ("deriving the x-axis endpoints from an unsorted array can place
\* points outside the plotted axes", app.js:1207-1209), the highest one has
\* room above it, and the scale is no more than two and a half times too high.
ChartInside ==
  given.view = "chart" =>
    \A i \in DOMAIN given.samples :
      LET p == Point(given.samples, given.samples[i])
          top == Highest(given.samples)
      IN /\ p.wide > 0 /\ 0 <= p.x /\ p.x <= p.wide
         /\ 0 <= p.y /\ p.y < p.high
         /\ top >= 10 => 100 * p.high <= 270 * top
=============================================================================
