-------------------------- MODULE DmaAndPortProofs --------------------------
(***************************************************************************)
(* Proofs about the two parts of the driver that keep no events:           *)
(*   - DmaMemory: the memory of the analog input sequence and the list of  *)
(*     descriptors over it, for every request, every way the allocator     *)
(*     answers and every number of buffers;                                *)
(*   - PortIo: for every set of families, words and arguments, what the    *)
(*     driver knows of the ports of a board is what they have.             *)
(* The modules share no state.  Descriptors defines two values by          *)
(* recursion (Before, Split) and one by concatenation (Whole); what they   *)
(* are for every argument is proved from the least number that would       *)
(* refute it.                                                              *)
(***************************************************************************)
EXTENDS DmaMemory, PortIo, FiniteSetTheorems, SequenceTheorems, TLAPS

-----------------------------------------------------------------------------
(* Numbers *)

(* The natural numbers are well-ordered: the lower bounds of a set have a  *)
(* greatest element, for the successor would inject them into those but 0. *)
LEMMA Least ==
  ASSUME NEW S, S \subseteq Nat, S # {}
  PROVE  \E m \in S : \A n \in S : m <= n
<1> DEFINE Below == {m \in Nat : \A n \in S : m <= n}
<1>1. PICK k \in S : k \in Nat
  OBVIOUS
<1>2. /\ IsFiniteSet(Below) /\ IsFiniteSet(Below \ {0})
      /\ Cardinality(Below) \in Nat
      /\ Cardinality(Below \ {0}) = Cardinality(Below) - 1
  <2>1. Below \in SUBSET Nat /\ (\A m \in Below : m <= k) /\ 0 \in Below
    BY <1>1
  <2> HIDE DEF Below
  <2>2. IsFiniteSet(Below)
    BY <2>1, <1>1, FS_BoundedSetOfNaturals, Zenon
  <2> QED
    BY <2>1, <2>2, FS_RemoveElement, FS_CardinalityType, Zenon
<1>3. PICK m \in Below : m + 1 \notin Below
  <2> SUFFICES ASSUME \A m \in Below : m + 1 \in Below PROVE FALSE
    OBVIOUS
  <2> DEFINE Successor == [m \in Below |-> m + 1]
  <2>1. Successor \in Injection(Below, Below \ {0})
    BY DEF Injection, IsInjective
  <2> HIDE DEF Successor, Below
  <2>2. Cardinality(Below) <= Cardinality(Below \ {0})
    BY <2>1, <1>2, FS_Injection, Zenon
  <2> QED
    BY <1>2, <2>2
<1>4. PICK n \in S : ~(m + 1 <= n)
  BY <1>3
<1> QED
  BY <1>3, <1>4


(* The library's induction takes the property as an operator; for a set    *)
(* it follows from Least.                                                  *)
LEMMA Induction ==
  ASSUME NEW n \in Nat, NEW G, 0 \in G, \A i \in 1 .. n : i - 1 \in G => i \in G
  PROVE  \A i \in 0 .. n : i \in G
<1> SUFFICES ASSUME (0 .. n) \ G # {} PROVE FALSE
  OBVIOUS
<1>1. PICK m \in (0 .. n) \ G : \A i \in (0 .. n) \ G : m <= i
  <2>1. (0 .. n) \ G \subseteq Nat
    OBVIOUS
  <2> QED
    BY <2>1, Least
<1>2. m - 1 \in 0 .. n /\ m - 1 \notin (0 .. n) \ G /\ m \in 1 .. n
  BY <1>1
<1> QED
  BY <1>1, <1>2

(* A function that is defined by a step from each number to the next one   *)
(* exists, and its values are of the type of the steps.                    *)
Steps(S, n) == [1 .. n -> [S -> S]]
Runs(f, S, x, step, n) ==
  /\ f \in [0 .. n -> S]
  /\ f[0] = x
  /\ \A i \in 1 .. n : f[i] = step[i][f[i - 1]]

(* Proved by Induction: what exists of the function is extended by a step. *)
LEMMA Recursion ==
  ASSUME NEW S, NEW x \in S, NEW n \in Nat, NEW step \in Steps(S, n)
  PROVE  \E f : Runs(f, S, x, step, n)
<1> DEFINE Ok(m, f) ==
             /\ f \in [0 .. m -> S]
             /\ \A i \in 0 .. m : f[i] = IF i = 0 THEN x ELSE step[i][f[i - 1]]
           G == {m \in 0 .. n : \E f : Ok(m, f)}
<1>1. 0 \in G
  <2>1. Ok(0, [i \in 0 .. 0 |-> x]) /\ 0 \in 0 .. n
    OBVIOUS
  <2> HIDE DEF Ok
  <2> QED
    BY <2>1
<1>2. ASSUME NEW m \in 1 .. n, m - 1 \in G PROVE m \in G
  <2>1. PICK f : Ok(m - 1, f)
    BY <1>2
  <2>2. f[m - 1] \in S
    BY <2>1
  <2>3. step[m][f[m - 1]] \in S
    BY <2>2 DEF Steps
  <2> DEFINE g == [i \in 0 .. m |-> IF i = m THEN step[m][f[m - 1]] ELSE f[i]]
  <2>4. g \in [0 .. m -> S]
    BY <2>1, <2>3
  <2>5. ASSUME NEW i \in 0 .. m PROVE g[i] = IF i = 0 THEN x ELSE step[i][g[i - 1]]
    <3>1. CASE i = m
      <4>1. g[i - 1] = f[i - 1]
        BY <3>1
      <4> QED
        BY <3>1, <4>1
    <3>2. CASE i # m
      <4>1. i \in 0 .. m - 1 /\ g[i] = f[i] /\ (i # 0 => g[i - 1] = f[i - 1])
        BY <3>2
      <4> QED
        BY <2>1, <4>1
    <3> QED
      BY <3>1, <3>2
  <2>6. Ok(m, g)
    BY <2>4, <2>5
  <2> HIDE DEF g, Ok
  <2> QED
    BY <2>6
<1> HIDE DEF G, Ok
<1>3. n \in G
  <2>1. \A m \in 1 .. n : m - 1 \in G => m \in G
    BY <1>2
  <2>2. \A m \in 0 .. n : m \in G
    BY <1>1, <2>1, Induction
  <2> QED
    BY <2>2
<1>4. PICK f : Ok(n, f)
  BY <1>3 DEF G
<1>5. f \in [0 .. n -> S] /\ \A i \in 0 .. n : f[i] = IF i = 0 THEN x ELSE step[i][f[i - 1]]
  BY <1>4 DEF Ok
<1>6. f[0] = x /\ \A i \in 1 .. n : f[i] = step[i][f[i - 1]]
  BY <1>5
<1> QED
  BY <1>5, <1>6 DEF Runs

-----------------------------------------------------------------------------
(* The place of a buffer in memory *)

Sum(f, sizes, n) == f = [i \in 0 .. n |-> IF i = 0 THEN 0 ELSE f[i - 1] + sizes[i]]

(* Before is the last value of a sum, if there is one.                     *)
LEMMA BeforeIsSum ==
  ASSUME NEW sizes, NEW b, NEW f, Sum(f, sizes, b - 1)
  PROVE  \E g : Sum(g, sizes, b - 1) /\ Before(sizes, b) = g[b - 1]
<1>1. Before(sizes, b) = (CHOOSE g : Sum(g, sizes, b - 1))[b - 1]
  BY Zenon DEF Before, Sum
<1>2. Sum(CHOOSE g : Sum(g, sizes, b - 1), sizes, b - 1)
  BY Zenon
<1> QED
  BY <1>1, <1>2, Zenon

(* The sum of the sizes as Before defines it: an equation for each buffer. *)
LEMMA BeforeGrows ==
  ASSUME NEW sizes \in Seq(Nat)
  PROVE  /\ Before(sizes, 1) = 0
         /\ \A b \in 1 .. Len(sizes) + 1 : Before(sizes, b) \in Nat
         /\ \A b \in 1 .. Len(sizes) : Before(sizes, b + 1) = Before(sizes, b) + sizes[b]
<1> DEFINE N == Len(sizes)
           step == [i \in 1 .. N |-> [v \in Nat |-> v + sizes[i]]]
<1>0. N \in Nat /\ sizes \in [1 .. N -> Nat]
  OBVIOUS
<1> HIDE DEF N
<1>1. step \in Steps(Nat, N)
  BY <1>0 DEF Steps
<1>2. \A i \in 1 .. N, v \in Nat : step[i][v] = v + sizes[i]
  BY <1>0
<1> HIDE DEF step
<1>3. PICK f : Runs(f, Nat, 0, step, N)
  BY <1>0, <1>1, Recursion
<1>4. f[0] = 0 /\ \A i \in 1 .. N : f[i] = f[i - 1] + sizes[i]
  <2>1. \A i \in 1 .. N : f[i - 1] \in Nat
    BY <1>0, <1>3 DEF Runs
  <2> QED
    BY <1>2, <1>3, <2>1 DEF Runs
<1>5. ASSUME NEW b \in 1 .. N + 1 PROVE Before(sizes, b) = f[b - 1]
  <2> DEFINE h == [i \in 0 .. b - 1 |-> f[i]]
  <2>1. Sum(h, sizes, b - 1)
    BY <1>0, <1>4 DEF Sum
  <2> HIDE DEF h
  <2>2. PICK g : Sum(g, sizes, b - 1) /\ Before(sizes, b) = g[b - 1]
    BY <2>1, BeforeIsSum
  <2>3. \A i \in 0 .. b - 1 : g[i] = IF i = 0 THEN 0 ELSE g[i - 1] + sizes[i]
    BY <2>2 DEF Sum
  <2> DEFINE G == {i \in 0 .. b - 1 : g[i] = f[i]}
  <2>4. 0 \in G
    BY <1>0, <1>4, <2>3
  <2>5. ASSUME NEW i \in 1 .. b - 1, i - 1 \in G PROVE i \in G
    BY <1>0, <1>4, <2>3, <2>5
  <2>6. b - 1 \in Nat
    BY <1>0
  <2>7. \A i \in 0 .. b - 1 : i \in G
    <3> HIDE DEF G
    <3> QED
      BY <2>4, <2>5, <2>6, Induction
  <2> QED
    BY <2>2, <2>6, <2>7
<1>6. Before(sizes, 1) = 0
  BY <1>0, <1>4, <1>5
<1>7. ASSUME NEW b \in 1 .. N + 1 PROVE Before(sizes, b) \in Nat
  <2>1. b - 1 \in 0 .. N
    BY <1>0
  <2> QED
    BY <1>3, <1>5, <2>1 DEF Runs
<1>8. ASSUME NEW b \in 1 .. N PROVE Before(sizes, b + 1) = Before(sizes, b) + sizes[b]
  <2>1. Before(sizes, b + 1) = f[b] /\ Before(sizes, b) = f[b - 1]
    BY <1>0, <1>5
  <2> QED
    BY <1>4, <2>1
<1> QED
  BY <1>6, <1>7, <1>8 DEF N

Lengths == Seq(Nat \ {0})

(* The buffers lie one behind the other.                                   *)
LEMMA BeforeOrdered ==
  ASSUME NEW sizes \in Lengths, NEW b \in 1 .. Len(sizes) + 1, NEW a \in 1 .. b - 1
  PROVE  Before(sizes, a + 1) <= Before(sizes, b) /\ Before(sizes, a) < Before(sizes, b)
<1> DEFINE N == Len(sizes)
           G == {k \in 0 .. N : \A c \in 1 .. k : Before(sizes, c + 1) <= Before(sizes, k + 1)}
<1>1. /\ N \in Nat /\ sizes \in Seq(Nat)
      /\ \A c \in 1 .. N : sizes[c] > 0 /\ sizes[c] \in Nat
  BY DEF Lengths
<1>2. /\ \A c \in 1 .. N + 1 : Before(sizes, c) \in Nat
      /\ \A c \in 1 .. N : Before(sizes, c + 1) = Before(sizes, c) + sizes[c]
  BY <1>1, BeforeGrows
<1> HIDE DEF N
<1>3. 0 \in G
  BY <1>1
<1>4. ASSUME NEW k \in 1 .. N, k - 1 \in G PROVE k \in G
  <2>1. ASSUME NEW c \in 1 .. k PROVE Before(sizes, c + 1) <= Before(sizes, k + 1)
    <3>1. Before(sizes, k + 1) = Before(sizes, k) + sizes[k] /\ sizes[k] \in Nat
          /\ Before(sizes, k) \in Nat /\ Before(sizes, k + 1) \in Nat /\ Before(sizes, c + 1) \in Nat
      BY <1>1, <1>2
    <3>2. c < k => Before(sizes, c + 1) <= Before(sizes, k)
      BY <1>4
    <3> QED
      BY <3>1, <3>2
  <2> QED
    BY <2>1
<1>5. b - 1 \in G
  <2> HIDE DEF G
  <2>1. \A k \in 0 .. N : k \in G
    BY <1>1, <1>3, <1>4, Induction
  <2> QED
    BY <1>1, <2>1 DEF N
<1>6. a \in 1 .. N /\ a \in 1 .. b - 1 /\ b \in 1 .. N + 1 /\ (b - 1) + 1 = b
  BY <1>1 DEF N
<1>7. Before(sizes, a + 1) <= Before(sizes, b)
  BY <1>5, <1>6
<1>8. Before(sizes, a + 1) = Before(sizes, a) + sizes[a] /\ sizes[a] > 0 /\ sizes[a] \in Nat
      /\ Before(sizes, a) \in Nat /\ Before(sizes, a + 1) \in Nat /\ Before(sizes, b) \in Nat
  BY <1>1, <1>2, <1>6
<1> QED
  BY <1>7, <1>8

(* A place in memory is in one buffer only.                                *)
LEMMA OneBuffer ==
  ASSUME NEW sizes \in Lengths, NEW a \in 1 .. Len(sizes), NEW b \in 1 .. Len(sizes), NEW at \in Nat,
         Before(sizes, a) <= at, at < Before(sizes, a + 1),
         Before(sizes, b) <= at, at < Before(sizes, b + 1)
  PROVE  a = b
<1>1. /\ Len(sizes) \in Nat
      /\ \A c \in 1 .. Len(sizes) + 1 : Before(sizes, c) \in Nat
  BY BeforeGrows DEF Lengths
<1>2. ASSUME a < b PROVE FALSE
  <2>1. a \in 1 .. b - 1 /\ b \in 1 .. Len(sizes) + 1
    BY <1>1, <1>2
  <2>2. Before(sizes, a + 1) <= Before(sizes, b)
    BY <2>1, BeforeOrdered
  <2> QED
    BY <1>1, <2>2
<1>3. ASSUME b < a PROVE FALSE
  <2>1. b \in 1 .. a - 1 /\ a \in 1 .. Len(sizes) + 1
    BY <1>1, <1>3
  <2>2. Before(sizes, b + 1) <= Before(sizes, a)
    BY <2>1, BeforeOrdered
  <2> QED
    BY <1>1, <2>2
<1> QED
  BY <1>1, <1>2, <1>3

-----------------------------------------------------------------------------
(* Multiples of a single buffer *)

(* What of division and remainder the proofs use.                          *)
LEMMA Division ==
  ASSUME NEW a \in Int, NEW n \in Nat \ {0}
  PROVE  a \div n \in Int /\ a % n \in 0 .. n - 1 /\ a = n * (a \div n) + (a % n)
<1>1. a \div n \in Int
  OBVIOUS
<1>2. a % n \in 0 .. n - 1
  OBVIOUS
<1>3. a = n * (a \div n) + (a % n)
  OBVIOUS
<1> QED
  BY <1>1, <1>2, <1>3

(* The products of a single buffer are ordered as its factors.             *)
LEMMA Multiplied ==
  ASSUME NEW n \in Nat \ {0}, NEW p \in Int, NEW q \in Int
  PROVE  /\ n * p \in Int /\ n * q \in Int /\ p * n = n * p
         /\ n * (p + q) = n * p + n * q
         /\ n * (p + 1) = n * p + n
         /\ n * (p - 1) = n * p - n
         /\ n * 0 = 0 /\ n * 1 = n
         /\ n * p < n * q <=> p < q
         /\ n * p <= n * q <=> p <= q
         /\ n * p = n * q <=> p = q
<1>1. n * p \in Int /\ n * q \in Int /\ p * n = n * p /\ n * 0 = 0 /\ n * 1 = n
  OBVIOUS
<1>2. n * (p + q) = n * p + n * q /\ n * (p + 1) = n * p + n /\ n * (p - 1) = n * p - n
  OBVIOUS
<1>3. ASSUME p < q PROVE n * p < n * q
  <2>1. p + 1 <= q
    BY <1>3
  <2>2. n * (p + 1) <= n * q
    BY <2>1
  <2> QED
    BY <1>1, <1>2, <2>2
<1>4. ASSUME q < p PROVE n * q < n * p
  <2>1. q + 1 <= p
    BY <1>4
  <2>2. n * (q + 1) <= n * p
    BY <2>1
  <2>3. n * (q + 1) = n * q + n
    OBVIOUS
  <2> QED
    BY <1>1, <2>2, <2>3
<1>5. p = q => n * p = n * q
  OBVIOUS
<1>6. /\ n * p < n * q <=> p < q
      /\ n * p <= n * q <=> p <= q
      /\ n * p = n * q <=> p = q
  BY <1>1, <1>3, <1>4, <1>5
<1> QED
  BY <1>1, <1>2, <1>6

(* A number has one quotient and one remainder.                            *)
LEMMA Remainder ==
  ASSUME NEW n \in Nat \ {0}, NEW q \in Int, NEW r \in 0 .. n - 1
  PROVE  (n * q + r) % n = r /\ (n * q + r) \div n = q
<1> DEFINE a == n * q + r
           p == a \div n
           s == a % n
<1>1. a \in Int /\ n * q \in Int
  OBVIOUS
<1>2. p \in Int /\ s \in 0 .. n - 1 /\ a = n * p + s
  BY <1>1, Division
<1> HIDE DEF p, s
<1>3. n * p \in Int /\ n * (p + 1) = n * p + n /\ n * (q + 1) = n * q + n
  BY <1>2, Multiplied
<1>4. n * p < n * (q + 1) /\ n * q < n * (p + 1)
  BY <1>1, <1>2, <1>3
<1>5. p < q + 1 /\ q < p + 1
  BY <1>2, <1>4, Multiplied
<1>6. p = q /\ s = r
  BY <1>1, <1>2, <1>5
<1> QED
  BY <1>6 DEF p, s

(* No remainder means a multiple.                                          *)
LEMMA IsMultiple ==
  ASSUME NEW n \in Nat \ {0}, NEW a \in Int
  PROVE  a % n = 0 <=> \E k \in Int : a = n * k
<1>1. ASSUME a % n = 0 PROVE \E k \in Int : a = n * k
  <2>1. a \div n \in Int /\ a = n * (a \div n) + (a % n)
    BY Division
  <2>2. a = n * (a \div n)
    BY <1>1, <2>1, Multiplied
  <2> QED
    BY <2>1, <2>2
<1>2. ASSUME NEW k \in Int, a = n * k PROVE a % n = 0
  <2>1. 0 \in 0 .. n - 1
    OBVIOUS
  <2>2. (n * k + 0) % n = 0
    BY <2>1, Remainder
  <2>3. n * k + 0 = a
    BY <1>2
  <2> QED
    BY <2>2, <2>3
<1> QED
  BY <1>1, <1>2

(* Between two neighbouring multiples there is none.                       *)
LEMMA NoneBetween ==
  ASSUME NEW n \in Nat \ {0}, NEW k \in Int, NEW a \in Int, n * k < a, a < n * (k + 1)
  PROVE  a % n # 0
<1> SUFFICES ASSUME NEW j \in Int, a = n * j PROVE FALSE
  BY IsMultiple
<1>1. k < j /\ j < k + 1
  BY Multiplied
<1> QED
  BY <1>1
-----------------------------------------------------------------------------
(* Descriptors that cover the memory *)

Descriptor == [buf : Nat, at : Nat, size : Nat, irq : BOOLEAN]

Start(p, i) == IF i = 1 THEN 0 ELSE p[i - 1].at + p[i - 1].size
End(p) == IF Len(p) = 0 THEN 0 ELSE p[Len(p)].at + p[Len(p)].size

(* A descriptor covers memory in one buffer between two neighbouring cuts. *)
Cut(d, sizes, single) ==
  /\ d \in Descriptor
  /\ d.size > 0
  /\ d.buf \in 1 .. Len(sizes)
  /\ Before(sizes, d.buf) <= d.at
  /\ d.at + d.size <= Before(sizes, d.buf + 1)
  /\ \E k \in Nat : single * k <= d.at /\ d.at + d.size <= single * (k + 1)
  /\ d.at + d.size = Before(sizes, d.buf + 1) \/ (d.at + d.size) % single = 0
  /\ d.irq <=> (d.at + d.size) % single = 0

Covers(p, sizes, single, end) ==
  /\ p \in Seq(Descriptor)
  /\ \A i \in 1 .. Len(p) : Cut(p[i], sizes, single) /\ p[i].at = Start(p, i)
  /\ end = End(p)

Wholes(sizes, single, b) ==
  [k \in 1 .. sizes[b] \div single |-> Piece(b, Before(sizes, b) + (k - 1) * single, single, TRUE)]
FromBuffers(f, sizes, single) ==
  f = [b \in 0 .. Len(sizes) |->
         IF b = 0 THEN <<>>
         ELSE f[b - 1] \o
              [k \in 1 .. sizes[b] \div single |->
                 Piece(b, Before(sizes, b) + (k - 1) * single, single, TRUE)]]

(* The recursive function that Whole chooses satisfies its equation, if    *)
(* any function does.                                                      *)
LEMMA WholeIsFrom ==
  ASSUME NEW sizes, NEW single, NEW f, FromBuffers(f, sizes, single)
  PROVE  \E g : FromBuffers(g, sizes, single) /\ Whole(sizes, single) = g[Len(sizes)]
<1>1. Whole(sizes, single) = (CHOOSE g : FromBuffers(g, sizes, single))[Len(sizes)]
  BY Zenon DEF Whole, FromBuffers
<1>2. FromBuffers(CHOOSE g : FromBuffers(g, sizes, single), sizes, single)
  BY Zenon
<1> QED
  BY <1>1, <1>2, Zenon

(* The descriptors of one buffer: as many as single buffers fit into it.   *)
LEMMA WholesOfBuffer ==
  ASSUME NEW sizes \in Lengths, NEW single \in Nat \ {0}, NEW b \in 1 .. Len(sizes)
  PROVE  /\ sizes[b] \div single \in Nat
         /\ Wholes(sizes, single, b) \in Seq(Descriptor)
         /\ Len(Wholes(sizes, single, b)) = sizes[b] \div single
         /\ \A k \in 1 .. sizes[b] \div single :
              Wholes(sizes, single, b)[k] = Piece(b, Before(sizes, b) + (k - 1) * single, single, TRUE)
<1> DEFINE d == sizes[b] \div single
<1>1. Before(sizes, b) \in Nat /\ sizes[b] \in Nat
  BY BeforeGrows DEF Lengths
<1>2. d \in Nat
  BY <1>1
<1> HIDE DEF d
<1>3. ASSUME NEW k \in 1 .. d
      PROVE  Piece(b, Before(sizes, b) + (k - 1) * single, single, TRUE) \in Descriptor
  <2>1. (k - 1) * single \in Nat
    BY <1>2
  <2>2. Before(sizes, b) + (k - 1) * single \in Nat
    BY <1>1, <2>1
  <2> QED
    BY <2>2 DEF Piece, Descriptor
<1>4. Wholes(sizes, single, b)
        = [k \in 1 .. d |-> Piece(b, Before(sizes, b) + (k - 1) * single, single, TRUE)]
  BY DEF Wholes, d
<1>5. Wholes(sizes, single, b) \in [1 .. d -> Descriptor]
  BY <1>3, <1>4
<1>6. Wholes(sizes, single, b) \in Seq(Descriptor) /\ Len(Wholes(sizes, single, b)) = d
  BY <1>2, <1>5
<1>7. \A k \in 1 .. d :
        Wholes(sizes, single, b)[k] = Piece(b, Before(sizes, b) + (k - 1) * single, single, TRUE)
  BY <1>4
<1> QED
  BY <1>2, <1>6, <1>7 DEF d

(* Whole collects the descriptors of one buffer after the other.           *)
Collects(f, sizes, single) ==
  /\ f \in [0 .. Len(sizes) -> Seq(Descriptor)]
  /\ f[0] = <<>>
  /\ \A b \in 1 .. Len(sizes) : f[b] = f[b - 1] \o Wholes(sizes, single, b)

(* Such a function exists, so that Whole is its last value.                *)
LEMMA WholeCollects ==
  ASSUME NEW sizes \in Lengths, NEW single \in Nat \ {0}
  PROVE  \E f : Collects(f, sizes, single) /\ Whole(sizes, single) = f[Len(sizes)]
<1> DEFINE N == Len(sizes)
           step == [b \in 1 .. N |-> [p \in Seq(Descriptor) |-> p \o Wholes(sizes, single, b)]]
<1>0. N \in Nat
  BY DEF Lengths
<1>1. step \in Steps(Seq(Descriptor), N)
  <2>1. ASSUME NEW b \in 1 .. N, NEW p \in Seq(Descriptor)
        PROVE  p \o Wholes(sizes, single, b) \in Seq(Descriptor)
    <3>1. Wholes(sizes, single, b) \in Seq(Descriptor)
      BY WholesOfBuffer
    <3> QED
      BY <3>1
  <2> QED
    BY <2>1 DEF Steps
<1>2. <<>> \in Seq(Descriptor)
  OBVIOUS
<1>3. \A b \in 1 .. N, p \in Seq(Descriptor) : step[b][p] = p \o Wholes(sizes, single, b)
  OBVIOUS
<1> HIDE DEF N, step
<1>4. PICK h : Runs(h, Seq(Descriptor), <<>>, step, N)
  BY <1>0, <1>1, <1>2, Recursion
<1>5. /\ h \in [0 .. N -> Seq(Descriptor)] /\ h[0] = <<>>
      /\ \A b \in 1 .. N : h[b] = h[b - 1] \o Wholes(sizes, single, b)
  <2>1. ASSUME NEW b \in 1 .. N PROVE h[b] = h[b - 1] \o Wholes(sizes, single, b)
    <3>1. h[b - 1] \in Seq(Descriptor) /\ h[b] = step[b][h[b - 1]]
      BY <1>0, <1>4 DEF Runs
    <3> QED
      BY <1>3, <3>1
  <2> QED
    BY <1>4, <2>1 DEF Runs
<1>6. FromBuffers(h, sizes, single)
  <2>0. \A b \in 0 .. N : b = 0 \/ (b # 0 /\ b \in 1 .. N)
    BY <1>0
  <2>1. \A b \in 0 .. N : h[b] = IF b = 0 THEN <<>> ELSE h[b - 1] \o Wholes(sizes, single, b)
    BY <1>5, <2>0, Zenon
  <2>2. h = [b \in 0 .. N |-> IF b = 0 THEN <<>> ELSE h[b - 1] \o Wholes(sizes, single, b)]
    BY <1>5, <2>1, Zenon
  <2> QED
    BY <2>2, Zenon DEF FromBuffers, Wholes, N
<1>7. PICK g : FromBuffers(g, sizes, single) /\ Whole(sizes, single) = g[N]
  BY <1>6, WholeIsFrom DEF N
<1>8. g = [b \in 0 .. N |-> IF b = 0 THEN <<>> ELSE g[b - 1] \o Wholes(sizes, single, b)]
  BY <1>7 DEF FromBuffers, Wholes, N
<1>9. g[0] = <<>> /\ \A b \in 1 .. N : g[b] = g[b - 1] \o Wholes(sizes, single, b)
  <2>1. \A b \in 0 .. N : g[b] = IF b = 0 THEN <<>> ELSE g[b - 1] \o Wholes(sizes, single, b)
    BY <1>8, Zenon
  <2>2. 0 \in 0 .. N /\ \A b \in 1 .. N : b \in 0 .. N /\ b # 0
    BY <1>0
  <2> QED
    BY <2>1, <2>2, Zenon
<1> DEFINE G == {b \in 0 .. N : g[b] \in Seq(Descriptor)}
<1>10. 0 \in G
  <2>1. 0 \in 0 .. N
    BY <1>0
  <2> QED
    BY <1>2, <1>9, <2>1, Zenon
<1>11. ASSUME NEW b \in 1 .. N, b - 1 \in G PROVE b \in G
  <2>1. Wholes(sizes, single, b) \in Seq(Descriptor)
    BY WholesOfBuffer DEF N
  <2>2. g[b - 1] \o Wholes(sizes, single, b) \in Seq(Descriptor)
    BY <1>11, <2>1
  <2>3. g[b] \in Seq(Descriptor)
    BY <1>9, <2>2, Zenon
  <2>4. b \in 0 .. N
    BY <1>0
  <2> QED
    BY <2>3, <2>4
<1>12. \A b \in 0 .. N : g[b] \in Seq(Descriptor)
  <2>1. \A b \in 0 .. N : b \in G
    <3> HIDE DEF G
    <3> QED
      BY <1>0, <1>10, <1>11, Induction
  <2> QED
    BY <2>1
<1>13. g \in [0 .. N -> Seq(Descriptor)]
  BY <1>8, <1>12
<1>14. Collects(g, sizes, single)
  BY <1>9, <1>13 DEF Collects, N
<1> QED
  BY <1>7, <1>14 DEF N

(* What the concatenation of two sequences is.                             *)
LEMMA Joined ==
  ASSUME NEW S, NEW s \in Seq(S), NEW t \in Seq(S)
  PROVE  /\ s \o t \in Seq(S)
         /\ Len(s \o t) = Len(s) + Len(t)
         /\ \A i \in 1 .. Len(s) : (s \o t)[i] = s[i]
         /\ \A i \in 1 .. Len(t) : (s \o t)[Len(s) + i] = t[i]
OBVIOUS

(* How much the whole single buffers of the buffers fill, and that they    *)
(* fill all exactly if every buffer is a number of single buffers.         *)
LEMMA WholeFills ==
  ASSUME NEW sizes \in Lengths, NEW single \in Nat \ {0}, NEW f, Collects(f, sizes, single),
         NEW b \in 0 .. Len(sizes)
  PROVE  /\ single * Len(f[b]) <= Before(sizes, b + 1)
         /\ single * Len(f[b]) = Before(sizes, b + 1) <=> \A c \in 1 .. b : sizes[c] % single = 0
<1> DEFINE N == Len(sizes)
           All(m) == \A c \in 1 .. m : sizes[c] % single = 0
           Fills(m) == /\ single * Len(f[m]) <= Before(sizes, m + 1)
                       /\ single * Len(f[m]) = Before(sizes, m + 1) <=> All(m)
           G == {m \in 0 .. N : Fills(m)}
<1>1. /\ N \in Nat
      /\ Before(sizes, 1) = 0
      /\ \A c \in 1 .. N + 1 : Before(sizes, c) \in Nat
      /\ \A c \in 1 .. N : Before(sizes, c + 1) = Before(sizes, c) + sizes[c] /\ sizes[c] \in Nat
  BY BeforeGrows DEF Lengths
<1>2. ASSUME NEW m \in 0 .. N PROVE f[m] \in Seq(Descriptor) /\ Len(f[m]) \in Nat
  <2>1. f[m] \in Seq(Descriptor)
    BY Zenon DEF Collects
  <2> QED
    BY <2>1
<1> HIDE DEF N
<1>3. 0 \in G
  <2>1. Len(f[0]) = 0
    <3>1. f[0] = <<>>
      BY Zenon DEF Collects
    <3> QED
      BY <3>1
  <2>2. single * 0 = 0
    BY Multiplied
  <2> QED
    BY <1>1, <2>1, <2>2
<1>4. ASSUME NEW m \in 1 .. N, m - 1 \in G PROVE m \in G
  <2> DEFINE d == sizes[m] \div single
             r == sizes[m] % single
             l == Len(f[m - 1])
  <2>1. d \in Nat /\ r \in Nat /\ l \in Nat /\ sizes[m] = single * d + r
    <3>1. sizes[m] \in Nat
      BY <1>1
    <3>2. d \in Nat
      BY <3>1
    <3>3. l \in Nat
      BY <1>1, <1>2
    <3>4. sizes[m] = single * d + r /\ r \in 0 .. single - 1
      <4>1. sizes[m] \in Int
        BY <3>1
      <4> QED
        BY <4>1, Division
    <3> QED
      BY <3>2, <3>3, <3>4
  <2>2. Len(f[m]) = l + d
    <3>1. f[m] = f[m - 1] \o Wholes(sizes, single, m)
      BY DEF Collects, N
    <3>2. Wholes(sizes, single, m) \in Seq(Descriptor) /\ Len(Wholes(sizes, single, m)) = d
      BY WholesOfBuffer DEF N
    <3>3. f[m - 1] \in Seq(Descriptor)
      BY <1>1, <1>2
    <3> HIDE DEF d
    <3> QED
      BY <3>1, <3>2, <3>3, Joined, ZenonT(40)
  <2>3. All(m) <=> All(m - 1) /\ r = 0
    <3>1. \A c \in 1 .. m : c = m \/ c \in 1 .. m - 1
      BY <1>1
    <3>2. \A c \in 1 .. m - 1 : c \in 1 .. m
      BY <1>1
    <3>3. m \in 1 .. m
      BY <1>1
    <3> QED
      BY <3>1, <3>2, <3>3, Zenon
  <2>4. Fills(m - 1)
    BY <1>4
  <2> HIDE DEF d, r, l, All
  <2>5. /\ single * l <= Before(sizes, m)
        /\ single * l = Before(sizes, m) <=> All(m - 1)
    BY <2>4 DEF l
  <2>6. Before(sizes, m + 1) = Before(sizes, m) + sizes[m] /\ Before(sizes, m) \in Nat
    BY <1>1
  <2>7. single * (l + d) = single * l + single * d /\ single * l \in Int /\ single * d \in Int
    BY <2>1, Multiplied
  <2>8. /\ single * Len(f[m]) <= Before(sizes, m + 1)
        /\ single * Len(f[m]) = Before(sizes, m + 1) <=> All(m)
    BY <2>1, <2>2, <2>3, <2>5, <2>6, <2>7
  <2> QED
    BY <1>1, <2>8
<1>5. \A m \in 0 .. N : m \in G
  <2> HIDE DEF G
  <2> QED
    BY <1>1, <1>3, <1>4, Induction
<1>6. Fills(b)
  BY <1>5 DEF N
<1> QED
  BY <1>6

(* If they do, descriptor i is the i-th single buffer of the memory.       *)
LEMMA WholeCuts ==
  ASSUME NEW sizes \in Lengths, NEW single \in Nat \ {0}, NEW f, Collects(f, sizes, single),
         \A c \in 1 .. Len(sizes) : sizes[c] % single = 0, NEW b \in 0 .. Len(sizes)
  PROVE  \A i \in 1 .. Len(f[b]) :
           Cut(f[b][i], sizes, single) /\ f[b][i].at = single * (i - 1) /\ f[b][i].size = single
<1> DEFINE N == Len(sizes)
           Ok(d, i) == Cut(d, sizes, single) /\ d.at = single * (i - 1) /\ d.size = single
           G == {m \in 0 .. N : \A i \in 1 .. Len(f[m]) : Ok(f[m][i], i)}
<1>1. /\ N \in Nat
      /\ Before(sizes, 1) = 0
      /\ \A c \in 1 .. N + 1 : Before(sizes, c) \in Nat
      /\ \A c \in 1 .. N : Before(sizes, c + 1) = Before(sizes, c) + sizes[c] /\ sizes[c] \in Nat
  BY BeforeGrows DEF Lengths
<1>2. ASSUME NEW m \in 0 .. N PROVE f[m] \in Seq(Descriptor) /\ Len(f[m]) \in Nat
  <2>1. f[m] \in Seq(Descriptor)
    BY Zenon DEF Collects
  <2> QED
    BY <2>1
<1>00. \A m \in 0 .. N : single * Len(f[m]) = Before(sizes, m + 1)
  BY WholeFills
<1> HIDE DEF N
<1>3. 0 \in G
  <2>1. Len(f[0]) = 0
    <3>1. f[0] = <<>>
      BY Zenon DEF Collects
    <3> QED
      BY <3>1
  <2> QED
    BY <1>1, <2>1
<1>4. ASSUME NEW m \in 1 .. N, m - 1 \in G PROVE m \in G
  <2> DEFINE d == sizes[m] \div single
             l == Len(f[m - 1])
  <2>1. d \in Nat /\ l \in Nat /\ m - 1 \in 0 .. N
    <3>1. sizes[m] \in Nat /\ m - 1 \in 0 .. N
      BY <1>1
    <3>2. d \in Nat
      BY <3>1
    <3> QED
      BY <1>2, <3>1, <3>2
  <2>2. /\ f[m] = f[m - 1] \o Wholes(sizes, single, m)
        /\ Wholes(sizes, single, m) \in Seq(Descriptor) /\ Len(Wholes(sizes, single, m)) = d
        /\ \A k \in 1 .. d :
             Wholes(sizes, single, m)[k] = Piece(m, Before(sizes, m) + (k - 1) * single, single, TRUE)
    BY WholesOfBuffer DEF N, Collects
  <2>3. f[m - 1] \in Seq(Descriptor)
    BY <1>2, <2>1
  <2> HIDE DEF d
  <2>4. Len(f[m]) = l + d
    BY <2>2, <2>3, Joined, ZenonT(40)
  <2>5. ASSUME NEW i \in 1 .. Len(f[m]) PROVE Ok(f[m][i], i)
    <3>1. CASE i <= l
      <4>1. f[m][i] = f[m - 1][i] /\ i \in 1 .. l
        BY <2>1, <2>2, <2>3, <2>4, <3>1
      <4> QED
        BY <1>4, <4>1
    <3>2. CASE i > l
      <4> DEFINE k == i - l
                 at == Before(sizes, m) + (k - 1) * single
      <4>1. k \in 1 .. d /\ i \in Int
        BY <2>1, <2>4, <3>2
      <4>2. f[m][i] = Piece(m, at, single, TRUE)
        <5>1. f[m][i] = Wholes(sizes, single, m)[k]
          BY <2>1, <2>2, <2>3, <2>4, <3>2
        <5> QED
          BY <2>2, <4>1, <5>1
      <4>3. Before(sizes, m) = single * l /\ Before(sizes, m + 1) = Before(sizes, m) + sizes[m]
        <5>1. single * Len(f[m - 1]) = Before(sizes, (m - 1) + 1)
          BY <1>00, <2>1
        <5> QED
          BY <1>1, <5>1
      <4>4. Before(sizes, m + 1) = single * (l + d) /\ Before(sizes, m + 1) \in Nat
        BY <1>1, <1>00, <2>4
      <4> HIDE DEF k
      <4>5. k - 1 \in Int /\ l \in Int /\ i = l + k /\ i - 1 = l + (k - 1)
        BY <2>1, <4>1 DEF k
      <4>6. /\ single * (l + (k - 1)) = single * l + single * (k - 1)
            /\ (k - 1) * single = single * (k - 1)
            /\ single * l \in Int /\ single * (k - 1) \in Int
        BY <4>5, Multiplied
      <4>7. at = single * (i - 1)
        BY <4>3, <4>5, <4>6
      <4>8. single * i = single * (i - 1) + single /\ single * (i - 1) \in Int
            /\ single * ((i - 1) + 1) = single * i
        <5>1. i - 1 \in Int /\ (i - 1) + 1 = i
          BY <4>1
        <5> QED
          BY <4>1, <5>1, Multiplied
      <4>9. i <= l + d /\ l <= i - 1 /\ i - 1 \in Nat /\ l + d \in Int
        BY <2>1, <2>4, <3>2, <4>1
      <4>10. single * i <= single * (l + d) /\ single * l <= single * (i - 1)
        <5>1. single * i <= single * (l + d)
          BY <4>1, <4>9, Multiplied
        <5>2. i - 1 \in Int
          BY <4>9
        <5>3. single * l <= single * (i - 1)
          BY <4>5, <4>9, <5>2, Multiplied
        <5> QED
          BY <5>1, <5>3
      <4>11. at \in Nat /\ at + single = single * i
        <5>1. single * l \in Nat
          BY <1>1, <4>3
        <5> QED
          BY <4>7, <4>8, <4>10, <5>1, SMTT(30)
      <4>12. (at + single) % single = 0
        <5>1. at + single \in Int /\ i \in Int /\ at + single = single * i
          BY <4>1, <4>11
        <5> QED
          BY <5>1, IsMultiple
      <4> HIDE DEF at
      <4>13. Piece(m, at, single, TRUE) \in Descriptor
        BY <1>1, <4>11 DEF Piece, Descriptor
      <4>14. Cut(Piece(m, at, single, TRUE), sizes, single)
        <5>1. \E j \in Nat : single * j <= at /\ at + single <= single * (j + 1)
          <6>1. single * (i - 1) <= at /\ at + single <= single * ((i - 1) + 1)
            BY <4>7, <4>8, <4>11
          <6> QED
            BY <4>9, <6>1
        <5>2. Before(sizes, m) <= at /\ at + single <= Before(sizes, m + 1)
          BY <4>3, <4>4, <4>7, <4>10, <4>11
        <5>3. m \in 1 .. Len(sizes)
          BY DEF N
        <5> DEFINE p == Piece(m, at, single, TRUE)
        <5>4. p \in Descriptor /\ p.buf = m /\ p.at = at /\ p.size = single /\ p.irq
          BY <4>13 DEF Piece
        <5> HIDE DEF p
        <5>5. (p.at + p.size) % single = 0 /\ p.size > 0
          BY <4>12, <5>4
        <5>6. Cut(p, sizes, single)
          BY <5>1, <5>2, <5>3, <5>4, <5>5 DEF Cut
        <5> QED
          BY <5>6 DEF p
      <4> QED
        BY <4>2, <4>7, <4>14 DEF Piece
    <3> QED
      BY <2>1, <2>4, <3>1, <3>2
  <2> QED
    BY <1>1, <2>5
<1>5. \A m \in 0 .. N : m \in G
  <2> HIDE DEF G
  <2> QED
    BY <1>1, <1>3, <1>4, Induction
<1> QED
  BY <1>5 DEF N
-----------------------------------------------------------------------------
(* The loop that splits single buffers *)

(* A descriptor that begins where the others end covers more of the memory.*)
LEMMA CoversMore ==
  ASSUME NEW p, NEW sizes, NEW single, NEW end \in Nat, Covers(p, sizes, single, end),
         NEW d, Cut(d, sizes, single), d.at = end
  PROVE  Covers(Append(p, d), sizes, single, end + d.size)
<1> DEFINE q == Append(p, d)
<1>1. p \in Seq(Descriptor) /\ d \in Descriptor /\ Len(p) \in Nat
  BY DEF Covers, Cut
<1>2. /\ q \in Seq(Descriptor) /\ Len(q) = Len(p) + 1 /\ q[Len(p) + 1] = d
      /\ \A i \in 1 .. Len(p) : q[i] = p[i]
  BY <1>1
<1> HIDE DEF q
<1>3. ASSUME NEW i \in 1 .. Len(q) PROVE Cut(q[i], sizes, single) /\ q[i].at = Start(q, i)
  <2>1. CASE i \in 1 .. Len(p)
    <3>1. q[i] = p[i] /\ Start(q, i) = Start(p, i)
      BY <1>1, <1>2, <2>1 DEF Start
    <3> QED
      BY <2>1, <3>1 DEF Covers
  <2>2. CASE i = Len(p) + 1
    <3>1. Start(q, i) = End(p)
      BY <1>1, <1>2, <2>2 DEF Start, End
    <3> QED
      BY <1>2, <2>2, <3>1 DEF Covers
  <2> QED
    BY <1>1, <1>2, <2>1, <2>2
<1>4. End(q) = end + d.size
  BY <1>1, <1>2 DEF End
<1> QED
  BY <1>2, <1>3, <1>4 DEF Covers, q

LoopStates == [buf : Nat, room : Nat, left : Nat, done : Nat, pieces : Seq(Descriptor)]
(* What is left of the single buffer ends at the next multiple, and what   *)
(* is left of the buffer at the buffer's end.                              *)
LoopOk(s, sizes, single, mode) ==
  /\ s \in LoopStates
  /\ s.buf <= Len(sizes)
  /\ s.done + s.room = Before(sizes, s.buf + 1)
  /\ s.buf > 0 => Before(sizes, s.buf) <= s.done
  /\ s.left \in 1 .. single
  /\ \E k \in Nat : s.done + s.left = single * (k + 1)
  /\ Covers(s.pieces, sizes, single, s.done)
  /\ mode = CONTINUOUS => s.done <= single

Fits(sizes, single, mode) ==
  /\ sizes \in Lengths
  /\ single \in Nat \ {0}
  /\ mode \in {SINGLE, CONTINUOUS}
  /\ \E q \in Nat \ {0} : Memory(sizes) = single * q /\ (mode = CONTINUOUS => q = 2)

(* The memory ends with its last buffer and holds a single buffer at least.*)
LEMMA MemoryIsNat ==
  ASSUME NEW sizes, NEW single, NEW mode, Fits(sizes, single, mode)
  PROVE  /\ Len(sizes) \in Nat
         /\ Memory(sizes) = Before(sizes, Len(sizes) + 1)
         /\ Memory(sizes) \in Nat /\ single <= Memory(sizes)
         /\ mode = CONTINUOUS => Memory(sizes) = 2 * single
         /\ \A b \in 1 .. Len(sizes) + 1 : Before(sizes, b) \in Nat /\ Before(sizes, b) <= Memory(sizes)
<1>0. sizes \in Lengths /\ single \in Nat \ {0} /\ Len(sizes) \in Nat
  BY DEF Fits, Lengths
<1>1. /\ Memory(sizes) = Before(sizes, Len(sizes) + 1)
      /\ \A b \in 1 .. Len(sizes) + 1 : Before(sizes, b) \in Nat
  BY <1>0, BeforeGrows DEF Memory, Lengths
<1>2. Memory(sizes) \in Nat
  BY <1>0, <1>1
<1>3. PICK q \in Nat \ {0} : Memory(sizes) = single * q /\ (mode = CONTINUOUS => q = 2)
  BY DEF Fits
<1>4. single * 1 = single /\ single * 1 <= single * q
  BY <1>0, <1>3, Multiplied
<1>5. mode = CONTINUOUS => Memory(sizes) = 2 * single
  BY <1>0, <1>3
<1>6. ASSUME NEW b \in 1 .. Len(sizes) + 1 PROVE Before(sizes, b) <= Memory(sizes)
  <2>1. CASE b = Len(sizes) + 1
    BY <1>1, <1>2, <2>1
  <2>2. CASE b \in 1 .. (Len(sizes) + 1) - 1
    <3>1. Len(sizes) + 1 \in 1 .. Len(sizes) + 1
      BY <1>0
    <3>2. Before(sizes, b) < Before(sizes, Len(sizes) + 1)
      BY <1>0, <2>2, <3>1, BeforeOrdered
    <3> QED
      BY <1>1, <1>2, <3>2
  <2> QED
    BY <1>0, <2>1, <2>2
<1> QED
  BY <1>1, <1>2, <1>3, <1>4, <1>5, <1>6

(* One turn of the loop: it places words of one buffer, and not beyond the *)
(* end of the single buffer.                                               *)
LEMMA IterateKeeps ==
  ASSUME NEW sizes, NEW single, NEW mode, Fits(sizes, single, mode),
         NEW s, LoopOk(s, sizes, single, mode), Goes(s, sizes, single, mode)
  PROVE  /\ LoopOk(Iterate(s, sizes, single), sizes, single, mode)
         /\ Iterate(s, sizes, single).done > s.done
<1> DEFINE N == Len(sizes)
           b == IF s.room = 0 THEN s.buf + 1 ELSE s.buf
           r == IF s.room = 0 THEN sizes[b] ELSE s.room
           full == r >= s.left
           size == IF full THEN s.left ELSE r
           d == Piece(b, s.done, size, full)
           t == Iterate(s, sizes, single)
<1>1. /\ sizes \in Lengths /\ single \in Nat \ {0} /\ N \in Nat
      /\ \A c \in 1 .. N + 1 : Before(sizes, c) \in Nat
      /\ \A c \in 1 .. N : /\ Before(sizes, c + 1) = Before(sizes, c) + sizes[c]
                           /\ sizes[c] \in Nat \ {0}
  BY BeforeGrows DEF Fits, Lengths
<1>2. /\ Memory(sizes) = Before(sizes, N + 1) /\ Memory(sizes) \in Nat
      /\ mode = CONTINUOUS => Memory(sizes) = 2 * single
      /\ \A c \in 1 .. N + 1 : Before(sizes, c) <= Memory(sizes)
  BY MemoryIsNat
<1> HIDE DEF N
<1>3. /\ s.buf \in 0 .. N /\ s.room \in Nat /\ s.left \in 1 .. single /\ s.done \in Nat
      /\ s.pieces \in Seq(Descriptor)
      /\ s.done + s.room = Before(sizes, s.buf + 1)
      /\ s.buf > 0 => Before(sizes, s.buf) <= s.done
      /\ Covers(s.pieces, sizes, single, s.done)
      /\ mode = CONTINUOUS => s.done <= single
  BY <1>1 DEF LoopOk, LoopStates, N
<1>4. PICK k \in Nat : s.done + s.left = single * (k + 1)
  BY DEF LoopOk
<1>5. s.done < Memory(sizes) /\ (mode = CONTINUOUS => s.done < single)
  <2>1. mode \in {SINGLE, CONTINUOUS}
    BY DEF Fits
  <2>2. s.done <= Memory(sizes)
    BY <1>1, <1>2, <1>3
  <2> QED
    BY <1>1, <1>2, <1>3, <2>1, <2>2 DEF Goes, SINGLE, CONTINUOUS
<1>6. b \in 1 .. N /\ r \in Nat \ {0} /\ Before(sizes, b) <= s.done /\ s.done + r = Before(sizes, b + 1)
  <2>1. CASE s.room = 0
    <3>1. s.buf # N
      BY <1>2, <1>3, <1>5, <2>1
    <3>2. b = s.buf + 1 /\ r = sizes[b] /\ b \in 1 .. N
      BY <1>1, <1>3, <2>1, <3>1, SMTT(30)
    <3> HIDE DEF b, r
    <3>3. sizes[b] \in Nat \ {0} /\ Before(sizes, b + 1) = Before(sizes, b) + sizes[b]
      BY <1>1, <3>2
    <3>4. s.done = Before(sizes, b)
      BY <1>3, <2>1, <3>2
    <3>5. Before(sizes, b) <= s.done /\ s.done + r = Before(sizes, b + 1)
      BY <1>3, <3>2, <3>3, <3>4
    <3> QED
      BY <3>2, <3>3, <3>5
  <2>2. CASE s.room # 0
    <3>1. s.buf # 0
      <4>1. Before(sizes, 1) = 0
        BY <1>1, BeforeGrows DEF Lengths
      <4> QED
        BY <1>3, <2>2, <4>1
    <3> QED
      BY <1>3, <2>2, <3>1
  <2> QED
    BY <2>1, <2>2
<1>7. t = [ buf |-> b, room |-> r - size, left |-> IF full THEN single ELSE s.left - size,
            done |-> s.done + size, pieces |-> Append(s.pieces, d) ]
  BY DEF Iterate
<1> HIDE DEF b, r, t
<1>8. size \in Nat \ {0} /\ size <= r /\ size <= s.left
  BY <1>3, <1>6
<1>80. (full => size = s.left) /\ (~full => size < s.left) /\ full \in BOOLEAN
  BY <1>3, <1>6
<1> HIDE DEF full, size
<1> DEFINE lo == single * k
           hi == single * (k + 1)
<1>9. lo \in Nat /\ hi = lo + single /\ single * ((k + 1) + 1) = hi + single
  <2>1. k + 1 \in Int /\ k \in Int
    OBVIOUS
  <2>2. single * k \in Nat
    BY <1>1
  <2> QED
    BY <1>1, <2>1, <2>2, Multiplied
<1>00. s.done + s.left = hi
  BY <1>4
<1> HIDE DEF lo, hi
<1>10. /\ d \in Descriptor /\ d.buf = b /\ d.at = s.done /\ d.size = size /\ d.irq = full
  BY <1>3, <1>6, <1>8, <1>80 DEF d, Piece, Descriptor
<1> HIDE DEF d
<1>11. full <=> (s.done + size) % single = 0
  <2>1. CASE full
    <3>1. s.done + size = single * (k + 1) /\ s.done + size \in Int /\ k + 1 \in Int
      BY <1>00, <1>3, <1>8, <1>80, <2>1 DEF hi
    <3> QED
      BY <1>1, <2>1, <3>1, IsMultiple
  <2>2. CASE ~full
    <3>1. lo < s.done + size /\ s.done + size < hi /\ s.done + size \in Int
      BY <1>1, <1>00, <1>3, <1>8, <1>80, <1>9, <2>2, SMTT(30)
    <3>2. (s.done + size) % single # 0
      <4>1. k \in Int
        OBVIOUS
      <4> QED
        BY <1>1, <3>1, <4>1, NoneBetween DEF lo, hi
    <3> QED
      BY <2>2, <3>2
  <2> QED
    BY <2>1, <2>2
<1>12. Cut(d, sizes, single)
  <2>0. lo <= s.done /\ s.done + size <= hi
    BY <1>1, <1>00, <1>3, <1>8, <1>9
  <2>1. single * k <= s.done /\ s.done + size <= single * (k + 1)
    BY <2>0 DEF lo, hi
  <2>2. s.done + size <= Before(sizes, b + 1)
    BY <1>3, <1>6, <1>8
  <2>3. s.done + size = Before(sizes, b + 1) \/ (s.done + size) % single = 0
    <3>1. CASE full
      BY <1>11, <3>1
    <3>2. CASE ~full
      <4>1. size = r
        BY <3>2 DEF size, full
      <4> QED
        BY <1>6, <4>1
    <3> QED
      BY <3>1, <3>2
  <2>4. d.irq <=> (d.at + d.size) % single = 0
    BY <1>10, <1>11
  <2> QED
    BY <1>6, <1>8, <1>10, <2>1, <2>2, <2>3, <2>4 DEF Cut, N
<1>13. Covers(t.pieces, sizes, single, t.done)
  BY <1>3, <1>7, <1>10, <1>12, CoversMore
<1>14. t.done > s.done
  BY <1>3, <1>7, <1>8
<1>15. t \in LoopStates
  <2>1. Append(s.pieces, d) \in Seq(Descriptor)
    BY <1>3, <1>10
  <2>2. r - size \in Nat
    BY <1>6, <1>8
  <2>3. s.left - size \in Nat /\ s.done + size \in Nat /\ single \in Nat
    BY <1>1, <1>3, <1>8
  <2>4. b \in Nat
    BY <1>1, <1>6
  <2>5. (IF full THEN single ELSE s.left - size) \in Nat
    BY <1>80, <2>3
  <2> QED
    BY <1>7, <2>1, <2>2, <2>3, <2>4, <2>5 DEF LoopStates
<1>16. t.left \in 1 .. single
  <2>1. t.left = IF full THEN single ELSE s.left - size
    BY <1>7
  <2> QED
    BY <1>1, <1>3, <1>8, <1>80, <2>1
<1>17. \E j \in Nat : t.done + t.left = single * (j + 1)
  <2>1. CASE full
    <3>0. t.done = s.done + size /\ t.left = single /\ size = s.left /\ k + 1 \in Nat
      BY <1>7, <1>80, <2>1
    <3>1. t.done + t.left = single * ((k + 1) + 1) /\ k + 1 \in Nat
      BY <1>00, <1>1, <1>3, <1>9, <3>0
    <3> QED
      BY <3>1
  <2>2. CASE ~full
    <3>1. t.done + t.left = single * (k + 1)
      BY <1>00, <1>1, <1>3, <1>7, <1>8, <2>2 DEF hi
    <3> QED
      BY <3>1
  <2> QED
    BY <2>1, <2>2
<1>18. mode = CONTINUOUS => t.done <= single
  <2> SUFFICES ASSUME mode = CONTINUOUS PROVE t.done <= single
    OBVIOUS
  <2>0. lo < single
    BY <1>00, <1>1, <1>3, <1>5, <1>9
  <2>1. single * k < single * 1
    BY <1>1, <2>0 DEF lo
  <2>2. k < 1
    BY <1>1, <2>1, Multiplied
  <2>3. lo = 0
    BY <1>1, <2>2 DEF lo
  <2> QED
    BY <1>00, <1>1, <1>3, <1>7, <1>8, <1>9, <2>3
<1>19. /\ t.buf <= Len(sizes)
       /\ t.done + t.room = Before(sizes, t.buf + 1)
       /\ t.buf > 0 => Before(sizes, t.buf) <= t.done
  <2>1. t.buf = b /\ t.done = s.done + size /\ t.room = r - size
    BY <1>7
  <2>2. b <= N /\ b + 1 \in 1 .. N + 1 /\ (s.done + size) + (r - size) = s.done + r
        /\ Before(sizes, b) \in Nat
    BY <1>1, <1>3, <1>6, <1>8
  <2>3. Before(sizes, b) <= s.done + size
    BY <1>3, <1>6, <1>8, <2>2
  <2> QED
    BY <1>6, <2>1, <2>2, <2>3 DEF N
<1>20. LoopOk(t, sizes, single, mode)
  BY <1>13, <1>15, <1>16, <1>17, <1>18, <1>19 DEF LoopOk
<1> QED
  BY <1>14, <1>20 DEF t
(* Split is where the loop ends, if there is a run of it.                  *)
Loops(f, sizes, single, mode) ==
  f = [n \in 0 .. Memory(sizes) |->
         IF n = 0 THEN Loop0(single)
         ELSE LET s == f[n - 1] IN
              IF n = 1 \/ Goes(s, sizes, single, mode) THEN Iterate(s, sizes, single) ELSE s]

(* The recursive function that Split chooses satisfies its equation, if    *)
(* any function does.                                                      *)
LEMMA SplitIsLoop ==
  ASSUME NEW sizes, NEW single, NEW mode, NEW f, Loops(f, sizes, single, mode)
  PROVE  \E g : /\ Loops(g, sizes, single, mode)
                /\ Split(sizes, single, mode) = g[Memory(sizes)].pieces
<1>1. Split(sizes, single, mode) = (CHOOSE g : Loops(g, sizes, single, mode))[Memory(sizes)].pieces
  BY Zenon DEF Split, Loops
<1>2. Loops(CHOOSE g : Loops(g, sizes, single, mode), sizes, single, mode)
  BY Zenon
<1> QED
  BY <1>1, <1>2, Zenon

(* Before the first turn nothing is covered, and there is a first turn.    *)
LEMMA LoopBegins ==
  ASSUME NEW sizes, NEW single, NEW mode, Fits(sizes, single, mode)
  PROVE  LoopOk(Loop0(single), sizes, single, mode) /\ Goes(Loop0(single), sizes, single, mode)
<1> DEFINE s == Loop0(single)
<1>0. single \in Nat \ {0} /\ Len(sizes) \in Nat /\ Before(sizes, 1) = 0 /\ mode \in {SINGLE, CONTINUOUS}
  BY BeforeGrows DEF Fits, Lengths
<1>1. s = [buf |-> 0, room |-> 0, left |-> single, done |-> 0, pieces |-> <<>>] /\ s \in LoopStates
  BY <1>0 DEF Loop0, LoopStates
<1>2. /\ s.buf = 0 /\ s.room = 0 /\ s.left = single /\ s.done = 0 /\ s.pieces = <<>>
  BY <1>1
<1> HIDE DEF s
<1>3. Covers(s.pieces, sizes, single, s.done)
  <2>1. Len(<<>>) = 0 /\ <<>> \in Seq(Descriptor)
    OBVIOUS
  <2> QED
    BY <1>2, <2>1 DEF Covers, End
<1>4. \E k \in Nat : s.done + s.left = single * (k + 1)
  <2>1. s.done + s.left = single * (0 + 1)
    BY <1>0, <1>2
  <2> QED
    BY <2>1
<1>5. LoopOk(s, sizes, single, mode)
  BY <1>0, <1>1, <1>2, <1>3, <1>4 DEF LoopOk
<1>6. Goes(s, sizes, single, mode)
  BY <1>0, <1>2, MemoryIsNat DEF Goes, SINGLE, CONTINUOUS
<1> QED
  BY <1>5, <1>6 DEF s

(* The loop stops exactly when a single acquisition is covered, and after  *)
(* one single buffer of a continuous one.                                  *)
LEMMA SplitCovers ==
  ASSUME NEW sizes, NEW single, NEW mode, Fits(sizes, single, mode)
  PROVE  Covers(Split(sizes, single, mode), sizes, single,
                IF mode = SINGLE THEN Memory(sizes) ELSE single)
<1> DEFINE M == Memory(sizes)
           Go(s) == Goes(s, sizes, single, mode)
           It(s) == Iterate(s, sizes, single)
           Ok(s) == LoopOk(s, sizes, single, mode)
           Good == {s \in LoopStates : Ok(s)}
           step == [n \in 1 .. M |-> [s \in Good |-> IF Go(s) THEN It(s) ELSE s]]
<1>1. M \in Nat /\ single \in Nat \ {0} /\ single <= M /\ mode \in {SINGLE, CONTINUOUS}
      /\ (mode = CONTINUOUS => M = 2 * single)
  BY MemoryIsNat DEF Fits
<1>2. Ok(Loop0(single)) /\ Go(Loop0(single))
  BY LoopBegins
<1>3. ASSUME NEW s, Ok(s) PROVE s \in LoopStates /\ (Go(s) => Ok(It(s)) /\ It(s).done > s.done)
  BY <1>3, IterateKeeps DEF LoopOk
<1> HIDE DEF M, Go, It, Ok
<1>4. step \in Steps(Good, M)
  BY <1>3 DEF Steps
<1>5. \A n \in 1 .. M : \A s \in Good : step[n][s] = IF Go(s) THEN It(s) ELSE s
  OBVIOUS
<1>6. \A s : s \in Good <=> Ok(s)
  BY <1>3
<1> HIDE DEF Good, step
<1>7. PICK h : Runs(h, Good, Loop0(single), step, M)
  BY <1>1, <1>2, <1>4, <1>6, Recursion
<1> DEFINE After(f, n) == IF n = 0 THEN Loop0(single)
                          ELSE IF n = 1 \/ Go(f[n - 1]) THEN It(f[n - 1]) ELSE f[n - 1]
<1>8. h = [n \in 0 .. M |-> After(h, n)]
  <2>1. ASSUME NEW n \in 0 .. M PROVE h[n] = After(h, n)
    <3>1. CASE n = 0
      BY <1>7, <3>1 DEF Runs
    <3>2. CASE n \in 1 .. M
      <4>1. n - 1 \in 0 .. M /\ n # 0
        BY <1>1, <3>2
      <4>2. h[n - 1] \in Good /\ h[n] = step[n][h[n - 1]]
        BY <1>7, <3>2, <4>1 DEF Runs
      <4>3. h[n] = IF Go(h[n - 1]) THEN It(h[n - 1]) ELSE h[n - 1]
        BY <1>5, <3>2, <4>2
      <4>4. n = 1 => Go(h[n - 1])
        BY <1>2, <1>7 DEF Runs
      <4> QED
        BY <4>1, <4>3, <4>4
    <3> QED
      BY <1>1, <3>1, <3>2
  <2>2. h = [n \in 0 .. M |-> h[n]]
    BY <1>7 DEF Runs
  <2> HIDE DEF After
  <2> QED
    BY <2>1, <2>2, Zenon
<1>9. Loops(h, sizes, single, mode)
  BY <1>8, Zenon DEF Loops, M, Go, It
<1>10. PICK g : Loops(g, sizes, single, mode) /\ Split(sizes, single, mode) = g[M].pieces
  BY <1>9, SplitIsLoop, Zenon DEF M
<1>11. g = [n \in 0 .. M |-> After(g, n)]
  BY <1>10, Zenon DEF Loops, M, Go, It
<1>12. \A n \in 0 .. M : g[n] = After(g, n)
  <2> HIDE DEF After
  <2> QED
    BY <1>11, Zenon
(* The loop places a word at least in each turn, until it ends.            *)
<1> DEFINE G == {n \in 0 .. M : Ok(g[n]) /\ (Go(g[n]) => g[n].done >= n)}
<1>13. 0 \in G
  <2>1. g[0] = Loop0(single) /\ 0 \in 0 .. M
    BY <1>1, <1>12
  <2>2. Loop0(single).done = 0
    BY DEF Loop0
  <2> QED
    BY <1>2, <2>1, <2>2
<1>14. ASSUME NEW n \in 1 .. M, n - 1 \in G PROVE n \in G
  <2>1. n \in 0 .. M /\ n # 0 /\ n \in Nat /\ n - 1 \in 0 .. M
    BY <1>1
  <2>2. Ok(g[n - 1]) /\ (Go(g[n - 1]) => g[n - 1].done >= n - 1)
    BY <1>14
  <2>3. n = 1 => Go(g[n - 1])
    BY <1>2, <1>12, <2>1
  <2>4. g[n] = IF Go(g[n - 1]) THEN It(g[n - 1]) ELSE g[n - 1]
    BY <1>12, <2>1, <2>3
  <2>5. CASE Go(g[n - 1])
    <3>1. g[n] = It(g[n - 1]) /\ Ok(g[n]) /\ g[n].done > g[n - 1].done
      BY <1>3, <2>2, <2>4, <2>5
    <3>2. g[n].done \in Nat /\ g[n - 1].done \in Nat
      BY <1>3, <2>2, <3>1 DEF LoopStates
    <3> QED
      BY <2>1, <2>2, <2>5, <3>1, <3>2
  <2>6. CASE ~Go(g[n - 1])
    BY <2>1, <2>2, <2>4, <2>6
  <2> QED
    BY <2>5, <2>6
<1>15. Ok(g[M]) /\ (Go(g[M]) => g[M].done >= M)
  <2>1. \A n \in 0 .. M : n \in G
    <3> HIDE DEF G
    <3> QED
      BY <1>1, <1>13, <1>14, Induction
  <2>2. M \in 0 .. M
    BY <1>1
  <2> QED
    BY <2>1, <2>2
<1>16. /\ Covers(g[M].pieces, sizes, single, g[M].done)
       /\ g[M].done \in Nat /\ g[M].done <= M
       /\ mode = CONTINUOUS => g[M].done <= single
  <2>1. /\ Covers(g[M].pieces, sizes, single, g[M].done)
        /\ g[M] \in LoopStates /\ g[M].buf <= Len(sizes)
        /\ g[M].done + g[M].room = Before(sizes, g[M].buf + 1)
        /\ mode = CONTINUOUS => g[M].done <= single
    BY <1>15 DEF Ok, LoopOk
  <2>2. /\ g[M].buf \in Nat /\ g[M].done \in Nat /\ g[M].room \in Nat
    BY <2>1 DEF LoopStates
  <2>3. g[M].buf + 1 \in 1 .. Len(sizes) + 1
    BY <2>1, <2>2, MemoryIsNat
  <2>4. Before(sizes, g[M].buf + 1) \in Nat /\ Before(sizes, g[M].buf + 1) <= M
    BY <2>3, MemoryIsNat DEF M
  <2> QED
    BY <1>1, <2>1, <2>2, <2>4
<1>17. g[M].done = IF mode = SINGLE THEN M ELSE single
  BY <1>1, <1>15, <1>16 DEF Go, Goes, M, SINGLE, CONTINUOUS
<1> QED
  BY <1>10, <1>16, <1>17 DEF M

(* Together: the list covers the memory, or the first single buffer.       *)
LEMMA PiecesCover ==
  ASSUME NEW sizes, NEW single, NEW mode, Fits(sizes, single, mode)
  PROVE  Covers(Pieces(sizes, single, mode), sizes, single,
                IF mode = SINGLE \/ (\A b \in 1 .. Len(sizes) : sizes[b] % single = 0)
                THEN Memory(sizes) ELSE single)
<1> DEFINE N == Len(sizes)
           M == Memory(sizes)
           All == \A b \in 1 .. N : sizes[b] % single = 0
<1>1. /\ sizes \in Lengths /\ single \in Nat \ {0} /\ mode \in {SINGLE, CONTINUOUS}
      /\ N \in Nat /\ M \in Nat /\ M = Before(sizes, N + 1)
  BY MemoryIsNat DEF Fits
<1>2. PICK q \in Nat \ {0} : M = single * q
  BY DEF Fits
<1>3. M \div single = q
  <2>1. 0 \in 0 .. single - 1 /\ q \in Int
    BY <1>1
  <2>2. (single * q + 0) \div single = q
    BY <1>1, <2>1, Remainder
  <2>3. single * q + 0 = M
    BY <1>1, <1>2
  <2> QED
    BY <2>2, <2>3
<1>4. PICK f : Collects(f, sizes, single) /\ Whole(sizes, single) = f[N]
  BY <1>1, WholeCollects
<1> DEFINE l == Len(f[N])
<1>5. f[N] \in Seq(Descriptor) /\ l \in Nat
  <2>1. N \in 0 .. N
    BY <1>1
  <2>2. f[N] \in Seq(Descriptor)
    BY <1>4, <2>1, Zenon DEF Collects
  <2> QED
    BY <2>2
<1>6. single * l <= M /\ (single * l = M <=> All)
  <2>1. N \in 0 .. N
    BY <1>1
  <2> QED
    BY <1>1, <1>4, <2>1, WholeFills
<1> HIDE DEF M, N, l, All
<1>7. Enough(sizes, single) <=> All
  <2>1. Enough(sizes, single) <=> l >= q
    BY <1>3, <1>4 DEF Enough, M, l
  <2>2. single * l <= single * q /\ (single * l = single * q <=> All)
    BY <1>2, <1>6
  <2>3. l <= q /\ (l = q <=> All)
    <3>1. l \in Int /\ q \in Int
      BY <1>5
    <3> QED
      BY <1>1, <2>2, <3>1, Multiplied
  <2> QED
    BY <1>5, <2>1, <2>3
<1>8. CASE All
  <2>1. Pieces(sizes, single, mode) = f[N]
    BY <1>4, <1>7, <1>8 DEF Pieces
  <2>2. \A i \in 1 .. l : Cut(f[N][i], sizes, single) /\ f[N][i].at = single * (i - 1) /\ f[N][i].size = single
    <3>1. N \in 0 .. Len(sizes) /\ \A c \in 1 .. Len(sizes) : sizes[c] % single = 0
      BY <1>1, <1>8 DEF N, All
    <3> QED
      BY <1>1, <1>4, <3>1, WholeCuts DEF l
  <2>3. l = q
    <3>1. single * l = single * q /\ l \in Int /\ q \in Int
      BY <1>2, <1>5, <1>6, <1>8
    <3> QED
      BY <1>1, <3>1, Multiplied
  <2>4. ASSUME NEW i \in 1 .. l PROVE f[N][i].at = Start(f[N], i)
    <3>1. CASE i = 1
      <4>1. f[N][i].at = single * (1 - 1) /\ single * 0 = 0
        BY <1>1, <2>2, <3>1
      <4> QED
        BY <3>1, <4>1 DEF Start
    <3>2. CASE i # 1
      <4>1. i - 1 \in 1 .. l /\ i - 1 \in Int /\ i - 2 \in Int
        BY <1>5, <3>2
      <4>2. f[N][i - 1].at = single * ((i - 1) - 1) /\ f[N][i - 1].size = single
        BY <2>2, <4>1
      <4>3. single * ((i - 1) - 1) = single * (i - 1) - single /\ single * (i - 1) \in Int
        BY <1>1, <4>1, Multiplied
      <4>4. f[N][i].at = f[N][i - 1].at + f[N][i - 1].size
        BY <1>1, <2>2, <4>2, <4>3
      <4> QED
        BY <3>2, <4>4 DEF Start
    <3> QED
      BY <3>1, <3>2
  <2>5. End(f[N]) = M
    <3>1. l \in 1 .. l /\ Len(f[N]) # 0
      BY <1>5, <2>3 DEF l
    <3>2. f[N][l].at = single * (l - 1) /\ f[N][l].size = single
      BY <2>2, <3>1
    <3>3. single * (l - 1) = single * l - single /\ single * l = M
      <4>1. l \in Int
        BY <1>5
      <4> QED
        BY <1>1, <1>6, <1>8, <4>1, Multiplied
    <3> QED
      BY <1>1, <3>1, <3>2, <3>3 DEF End, l
  <2>6. Covers(f[N], sizes, single, M)
    BY <1>5, <2>2, <2>4, <2>5 DEF Covers, l
  <2> QED
    BY <1>8, <2>1, <2>6 DEF All, M, N
<1>9. CASE ~All
  <2>1. Pieces(sizes, single, mode) = Split(sizes, single, mode)
    BY <1>7, <1>9 DEF Pieces
  <2> QED
    BY <1>9, <2>1, SplitCovers DEF All, N
<1> QED
  BY <1>8, <1>9
-----------------------------------------------------------------------------
(* The reference *)

(* The minimum of a set is its least element.                              *)
LEMMA MinIs ==
  ASSUME NEW S, S \subseteq Int, NEW m \in S, \A n \in S : m <= n
  PROVE  Min(S) = m
<1>1. \E k \in S : \A n \in S : k =< n
  OBVIOUS
<1>2. Min(S) \in S /\ \A n \in S : Min(S) =< n
  BY <1>1 DEF Min
<1> DEFINE k == Min(S)
<1> HIDE DEF k
<1>3. k \in S /\ \A n \in S : k =< n
  BY <1>2 DEF k
<1>4. k \in Int /\ m \in Int /\ k <= m /\ m <= k
  BY <1>3
<1>5. k = m
  BY <1>4
<1> QED
  BY <1>5 DEF k

(* The i-th of the values of an increasing sequence has i - 1 below it.    *)
Increasing(a, n) == {a[j] : j \in 1 .. n}
LEMMA Ranks ==
  ASSUME NEW n \in Nat, NEW a \in [1 .. n -> Nat],
         \A i \in 1 .. n : \A j \in 1 .. n : i < j => a[i] < a[j]
  PROVE  /\ Cardinality(Increasing(a, n)) = n
         /\ \A i \in 1 .. n :
              (CHOOSE c \in Increasing(a, n) :
                 Cardinality({d \in Increasing(a, n) : d < c}) = i - 1) = a[i]
<1> DEFINE S == Increasing(a, n)
           Below(c) == {d \in S : d < c}
<1>1. \A i \in 1 .. n : \A j \in 1 .. n : a[i] = a[j] => i = j
  OBVIOUS
<1>2. ASSUME NEW m \in 0 .. n, NEW U, U = {a[j] : j \in 1 .. m} PROVE Cardinality(U) = m
  <2> DEFINE f == [j \in 1 .. m |-> a[j]]
  <2>1. f \in [1 .. m -> U]
    <3>1. \A j \in 1 .. m : a[j] \in U
      BY <1>2, Zenon
    <3> QED
      BY <3>1
  <2>2. \A i \in 1 .. m : \A j \in 1 .. m : f[i] = f[j] => i = j
    BY <1>1
  <2>3. \A t \in U : \E j \in 1 .. m : f[j] = t
    <3>1. \A j \in 1 .. m : f[j] = a[j]
      OBVIOUS
    <3> HIDE DEF f
    <3> QED
      BY <1>2, <3>1, Zenon
  <2> HIDE DEF f
  <2>4. f \in Bijection(1 .. m, U)
    BY <2>1, <2>2, <2>3 DEF Bijection, Injection, IsInjective, Surjection
  <2>5. ExistsBijection(1 .. m, U)
    BY <2>4 DEF ExistsBijection
  <2>6. m \in Nat
    OBVIOUS
  <2> QED
    BY <2>5, <2>6, FS_CountingElements
<1>3. Cardinality(S) = n
  <2>1. n \in 0 .. n /\ S = {a[j] : j \in 1 .. n}
    BY DEF Increasing
  <2> QED
    BY <1>2, <2>1
<1>4. ASSUME NEW i \in 1 .. n PROVE a[i] \in S /\ Cardinality(Below(a[i])) = i - 1
  <2>1. Below(a[i]) = {a[j] : j \in 1 .. i - 1}
    <3>1. ASSUME NEW d \in Below(a[i]) PROVE d \in {a[j] : j \in 1 .. i - 1}
      <4>1. PICK j \in 1 .. n : d = a[j] /\ a[j] < a[i]
        BY DEF Increasing
      <4>2. j < i
        <5>1. a[i] \in Nat /\ a[j] \in Nat /\ (i < j => a[i] < a[j]) /\ (i = j => a[i] = a[j])
          OBVIOUS
        <5> QED
          BY <4>1, <5>1
      <4> QED
        BY <4>1, <4>2
    <3>2. ASSUME NEW j \in 1 .. i - 1 PROVE a[j] \in Below(a[i])
      BY DEF Increasing
    <3> QED
      BY <3>1, <3>2
  <2>2. i - 1 \in 0 .. n
    OBVIOUS
  <2>3. a[i] \in S
    BY DEF Increasing
  <2> HIDE DEF Below
  <2>4. Cardinality(Below(a[i])) = i - 1
    BY <1>2, <2>1, <2>2
  <2> QED
    BY <2>3, <2>4
<1>5. ASSUME NEW i \in 1 .. n
      PROVE  (CHOOSE c \in S : Cardinality(Below(c)) = i - 1) = a[i]
  <2>0. S = {a[j] : j \in 1 .. n}
    BY DEF Increasing
  <2> HIDE DEF S, Below
  <2>1. \E c \in S : Cardinality(Below(c)) = i - 1
    BY <1>4
  <2> DEFINE c == CHOOSE x \in S : Cardinality(Below(x)) = i - 1
  <2>2. c \in S /\ Cardinality(Below(c)) = i - 1
    BY <2>1
  <2> HIDE DEF c
  <2>3. PICK j \in 1 .. n : c = a[j]
    BY <2>0, <2>2
  <2>4. j - 1 = i - 1
    BY <1>4, <2>2, <2>3
  <2>5. c = a[i]
    BY <2>3, <2>4
  <2> QED
    BY <2>5 DEF c
<1> QED
  BY <1>3, <1>5

(* The descriptors follow each other from the beginning to the end.        *)
LEMMA CoversInOrder ==
  ASSUME NEW p, NEW sizes \in Lengths, NEW single, NEW end \in Nat, Covers(p, sizes, single, end)
  PROVE  /\ p \in Seq(Descriptor) /\ Len(p) \in Nat
         /\ \A i \in 1 .. Len(p) : p[i] \in Descriptor /\ p[i].size > 0
         /\ \A i \in 1 .. Len(p), j \in 1 .. Len(p) : i < j => p[i].at + p[i].size <= p[j].at
         /\ \A i \in 1 .. Len(p) : p[i].at + p[i].size <= end
         /\ \A c \in Nat : c < end => \E i \in 1 .. Len(p) : p[i].at <= c /\ c < p[i].at + p[i].size
<1> DEFINE n == Len(p)
           stop(i) == IF i = 0 THEN 0 ELSE p[i].at + p[i].size
<1>1. p \in Seq(Descriptor) /\ n \in Nat /\ \A i \in 1 .. n : p[i] \in Descriptor /\ p[i].size > 0
  BY DEF Covers, Cut
<1>2. /\ \A i \in 1 .. n : p[i].at = stop(i - 1) /\ p[i].at \in Nat /\ p[i].size \in Nat \ {0}
      /\ end = stop(n)
  <2>1. \A i \in 1 .. n : p[i].at \in Nat /\ p[i].size \in Nat \ {0}
    BY <1>1 DEF Descriptor
  <2>2. \A i \in 1 .. n : p[i].at = Start(p, i)
    BY DEF Covers
  <2>3. \A i \in 1 .. n : Start(p, i) = stop(i - 1)
    BY <1>1 DEF Start
  <2>4. end = stop(n)
    BY DEF Covers, End
  <2> QED
    BY <2>1, <2>2, <2>3, <2>4
<1>3. \A i \in 0 .. n : stop(i) \in Nat
  BY <1>1, <1>2
<1>4. \A i \in 1 .. n : stop(i) = stop(i - 1) + p[i].size /\ stop(i) = p[i].at + p[i].size
  BY <1>1, <1>2
<1> HIDE DEF stop, n
<1> DEFINE G == {j \in 0 .. n : \A i \in 0 .. j : stop(i) <= stop(j)}
<1>5. \A j \in 0 .. n : j \in G
  <2>1. 0 \in G
    BY <1>1, <1>3
  <2>2. ASSUME NEW j \in 1 .. n, j - 1 \in G PROVE j \in G
    <3>0. j \in 0 .. n /\ j - 1 \in 0 .. n
      BY <1>1
    <3>1. stop(j - 1) \in Nat /\ stop(j) \in Nat /\ stop(j - 1) <= stop(j)
      BY <1>2, <1>3, <1>4, <3>0
    <3>2. ASSUME NEW i \in 0 .. j PROVE stop(i) <= stop(j)
      <4>1. CASE i = j
        BY <3>1, <4>1
      <4>2. CASE i # j
        <5>1. i \in 0 .. j - 1 /\ i \in 0 .. n
          BY <1>1, <4>2
        <5>2. stop(i) <= stop(j - 1) /\ stop(i) \in Nat
          BY <1>3, <2>2, <5>1
        <5> QED
          BY <3>1, <5>2
      <4> QED
        BY <4>1, <4>2
    <3> QED
      BY <3>0, <3>2
  <2> HIDE DEF G
  <2> QED
    BY <1>1, <2>1, <2>2, Induction
<1>6. ASSUME NEW i \in 1 .. n, NEW j \in 1 .. n, i < j PROVE p[i].at + p[i].size <= p[j].at
  <2>1. j - 1 \in G /\ i \in 0 .. j - 1
    BY <1>1, <1>5, <1>6
  <2> QED
    BY <1>2, <1>4, <2>1
<1>7. ASSUME NEW i \in 1 .. n PROVE p[i].at + p[i].size <= end
  <2>1. n \in G /\ i \in 0 .. n
    BY <1>1, <1>5
  <2> QED
    BY <1>2, <1>4, <2>1
<1> DEFINE In(c, i) == p[i].at <= c /\ c < p[i].at + p[i].size
           H == {j \in 0 .. n : \A c \in Nat : c < stop(j) => \E i \in 1 .. j : In(c, i)}
<1>8. \A j \in 0 .. n : j \in H
  <2>1. 0 \in H
    BY <1>1 DEF stop
  <2>2. ASSUME NEW j \in 1 .. n, j - 1 \in H PROVE j \in H
    <3>1. ASSUME NEW c \in Nat, c < stop(j) PROVE \E i \in 1 .. j : In(c, i)
      <4>0. j \in 1 .. j /\ j - 1 \in 0 .. n /\ stop(j - 1) \in Nat
        BY <1>1, <1>3
      <4>1. CASE c < stop(j - 1)
        <5>1. PICK i \in 1 .. j - 1 : In(c, i)
          BY <2>2, <4>1
        <5>2. i \in 1 .. j
          BY <1>1
        <5> QED
          BY <5>1, <5>2
      <4>2. CASE ~(c < stop(j - 1))
        <5>1. In(c, j)
          BY <1>2, <1>4, <3>1, <4>0, <4>2
        <5> QED
          BY <4>0, <5>1
      <4> QED
        BY <4>1, <4>2
    <3>2. j \in 0 .. n
      BY <1>1
    <3> QED
      BY <3>1, <3>2
  <2> HIDE DEF H
  <2> QED
    BY <1>1, <2>1, <2>2, Induction
<1>9. ASSUME NEW c \in Nat, c < end PROVE \E i \in 1 .. n : In(c, i)
  <2>1. n \in H
    BY <1>1, <1>8
  <2> QED
    BY <1>2, <1>9, <2>1
<1> QED
  BY <1>1, <1>6, <1>7, <1>9 DEF n

(* A descriptor begins and ends at a cut, and no cut is inside it.         *)
LEMMA CutsBound ==
  ASSUME NEW p, NEW sizes \in Lengths, NEW single \in Nat \ {0}, NEW end \in Nat,
         Covers(p, sizes, single, end), end <= Memory(sizes), NEW i \in 1 .. Len(p)
  PROVE  /\ p[i].at \in Cuts(sizes, single, end)
         /\ p[i].at + p[i].size \in Cuts(sizes, single, end)
         /\ \A c \in Cuts(sizes, single, end) : c <= p[i].at \/ p[i].at + p[i].size <= c
<1> DEFINE N == Len(sizes)
           M == Memory(sizes)
           C == Cuts(sizes, single, end)
<1>1. /\ N \in Nat /\ Before(sizes, 1) = 0 /\ M = Before(sizes, N + 1)
      /\ \A b \in 1 .. N + 1 : Before(sizes, b) \in Nat
  BY BeforeGrows DEF Lengths, Memory
<1>2. M \in Nat /\ M \div single \in Int
  <2>1. M \in Nat
    BY <1>1
  <2> QED
    BY <2>1, Division
<1>3. C = {Before(sizes, b) : b \in 1 .. N} \cup {k * single : k \in 0 .. M \div single} \cup {end}
  BY DEF Cuts
<1> HIDE DEF N, M, C
<1>4. ASSUME NEW j \in 1 .. Len(p)
      PROVE  /\ p[j].at \in Nat /\ p[j].size \in Nat \ {0} /\ p[j].at + p[j].size <= end
             /\ Cut(p[j], sizes, single)
  <2>1. p[j] \in Descriptor /\ p[j].size > 0 /\ p[j].at + p[j].size <= end
    BY CoversInOrder
  <2>2. Cut(p[j], sizes, single)
    BY DEF Covers
  <2> QED
    BY <2>1, <2>2 DEF Descriptor
<1>5. ASSUME NEW j \in 1 .. Len(p) PROVE p[j].at + p[j].size \in C
  <2> DEFINE e == p[j].at + p[j].size
             b == p[j].buf
  <2>1. e \in Nat /\ e <= end /\ e <= M
    BY <1>2, <1>4 DEF M
  <2>2. b \in 1 .. N /\ (e = Before(sizes, b + 1) \/ e % single = 0)
    BY <1>4 DEF Cut, N
  <2> HIDE DEF e, b
  <2>3. CASE e = Before(sizes, b + 1)
    <3>1. CASE b = N
      <4>1. e = end
        BY <1>1, <1>2, <2>1, <2>3, <3>1 DEF M
      <4> QED
        BY <1>3, <4>1 DEF e
    <3>2. CASE b # N
      <4>1. b + 1 \in 1 .. N
        BY <1>1, <2>2, <3>2
      <4> QED
        BY <1>3, <2>3, <4>1 DEF e
    <3> QED
      BY <3>1, <3>2
  <2>4. CASE e % single = 0
    <3>0. e \in Int /\ M \in Int
      BY <1>2, <2>1
    <3>1. PICK k \in Int : e = single * k
      BY <2>4, <3>0, IsMultiple, Zenon
    <3> DEFINE q == M \div single
    <3>2. q \in Int /\ M % single \in 0 .. single - 1 /\ M = single * q + (M % single)
      BY <3>0, Division, Zenon
    <3> HIDE DEF q
    <3>3. single * (q + 1) = single * q + single /\ single * q \in Int /\ single * 0 = 0
          /\ k * single = single * k /\ single * k \in Int
      BY <3>2, Multiplied
    <3>4. single * k < single * (q + 1) /\ single * 0 <= single * k
      BY <1>2, <2>1, <3>1, <3>2, <3>3
    <3>5. k < q + 1 /\ 0 <= k
      BY <3>2, <3>4, Multiplied
    <3>6. k \in 0 .. q /\ e = k * single
      BY <3>1, <3>2, <3>3, <3>5
    <3> QED
      BY <1>3, <3>6 DEF q, e
  <2> QED
    BY <2>2, <2>3, <2>4
<1>6. p[i].at \in C
  <2>0. p[i].at = Start(p, i)
    BY DEF Covers
  <2>1. CASE i = 1
    <3>1. 1 \in 1 .. N
      <4>1. p[i].buf \in 1 .. N
        BY <1>4 DEF Cut, N
      <4> QED
        BY <1>1, <4>1
    <3>2. p[i].at = Before(sizes, 1)
      BY <1>1, <2>0, <2>1 DEF Start
    <3> QED
      BY <1>3, <3>1, <3>2
  <2>2. CASE i # 1
    <3>1. i - 1 \in 1 .. Len(p)
      BY <2>2, CoversInOrder
    <3>2. p[i].at = p[i - 1].at + p[i - 1].size
      BY <2>0, <2>2 DEF Start
    <3> QED
      BY <1>5, <3>1, <3>2
  <2> QED
    BY <2>1, <2>2
<1> DEFINE at == p[i].at
           e == p[i].at + p[i].size
           b == p[i].buf
<1>7. /\ at \in Nat /\ e \in Nat /\ b \in 1 .. N /\ e <= end
      /\ Before(sizes, b) <= at /\ e <= Before(sizes, b + 1)
      /\ \E k \in Nat : single * k <= at /\ e <= single * (k + 1)
  <2>1. Cut(p[i], sizes, single)
    BY <1>4
  <2>2. at \in Nat /\ e \in Nat /\ e <= end
    BY <1>4
  <2>3. \E k \in Nat : single * k <= at /\ e <= single * (k + 1)
    BY <2>1, Zenon DEF Cut
  <2>4. b \in 1 .. N /\ Before(sizes, b) <= at /\ e <= Before(sizes, b + 1)
    BY <2>1 DEF Cut, N
  <2> QED
    BY <2>2, <2>3, <2>4
<1> HIDE DEF at, e, b
<1>8. ASSUME NEW c \in C PROVE c <= at \/ e <= c
  <2>1. CASE c = end
    BY <1>7, <2>1
  <2>2. ASSUME NEW a \in 1 .. N, c = Before(sizes, a) PROVE c <= at \/ e <= c
    <3>0. c \in Nat /\ Before(sizes, b) \in Nat /\ Before(sizes, b + 1) \in Nat
      BY <1>1, <1>7, <2>2
    <3>1. CASE a = b
      BY <1>7, <2>2, <3>1
    <3>2. CASE a < b
      <4>1. b \in 1 .. Len(sizes) + 1 /\ a \in 1 .. b - 1
        BY <1>1, <1>7, <3>2 DEF N
      <4>2. Before(sizes, a) < Before(sizes, b)
        BY <4>1, BeforeOrdered
      <4> QED
        BY <1>7, <2>2, <3>0, <4>2
    <3>3. CASE b < a
      <4>1. a \in 1 .. Len(sizes) + 1 /\ b \in 1 .. a - 1
        BY <1>1, <1>7, <3>3 DEF N
      <4>2. Before(sizes, b + 1) <= Before(sizes, a)
        BY <4>1, BeforeOrdered
      <4> QED
        BY <1>7, <2>2, <3>0, <4>2
    <3> QED
      BY <1>1, <1>7, <3>1, <3>2, <3>3
  <2>3. ASSUME NEW j \in 0 .. M \div single, c = j * single PROVE c <= at \/ e <= c
    <3>1. PICK k \in Nat : single * k <= at /\ e <= single * (k + 1)
      BY <1>7
    <3>2. j \in Int /\ k \in Int /\ k + 1 \in Int
      BY <1>2
    <3>3. /\ single * j \in Int /\ j * single = single * j /\ single * k \in Int /\ single * (k + 1) \in Int
          /\ j <= k => single * j <= single * k
          /\ k + 1 <= j => single * (k + 1) <= single * j
      BY <3>2, Multiplied
    <3>4. j <= k \/ k + 1 <= j
      BY <3>2
    <3> QED
      BY <1>7, <2>3, <3>1, <3>3, <3>4
  <2> QED
    BY <1>3, <2>1, <2>2, <2>3
<1> QED
  BY <1>5, <1>6, <1>8 DEF at, e, C

(* Descriptors that cover the memory are what cutting it gives.            *)
LEMMA CoversIsReference ==
  ASSUME NEW p, NEW sizes \in Lengths, NEW single \in Nat \ {0}, NEW end \in Nat,
         Covers(p, sizes, single, end), end <= Memory(sizes)
  PROVE  p = ReferenceSplit(sizes, single, end)
<1> DEFINE n == Len(p)
           C == Cuts(sizes, single, end)
           starts == {c \in C : c < end}
           nth(i) == CHOOSE c \in starts : Cardinality({d \in starts : d < c}) = i - 1
           stop(c) == Min({d \in C : d > c})
           a == [i \in 1 .. n |-> p[i].at]
<1>1. /\ p \in Seq(Descriptor) /\ n \in Nat
      /\ \A i \in 1 .. n : p[i] \in Descriptor /\ p[i].size > 0
      /\ \A i \in 1 .. n, j \in 1 .. n : i < j => p[i].at + p[i].size <= p[j].at
      /\ \A i \in 1 .. n : p[i].at + p[i].size <= end
      /\ \A c \in Nat : c < end => \E i \in 1 .. n : p[i].at <= c /\ c < p[i].at + p[i].size
  BY CoversInOrder
<1>2. /\ \A i \in 1 .. n : p[i].at \in C /\ p[i].at + p[i].size \in C
      /\ \A i \in 1 .. n : \A c \in C : c <= p[i].at \/ p[i].at + p[i].size <= c
  BY CutsBound
<1>3. \A i \in 1 .. n : p[i].at \in Nat /\ p[i].size \in Nat \ {0}
  BY <1>1 DEF Descriptor
<1>4. C \subseteq Nat
  <2>1. \A b \in 1 .. Len(sizes) : Before(sizes, b) \in Nat
    BY BeforeGrows DEF Lengths
  <2>2. \A k \in 0 .. Memory(sizes) \div single : k * single \in Nat
    OBVIOUS
  <2> QED
    BY <2>1, <2>2 DEF Cuts
<1> HIDE DEF n, C
<1>5. a \in [1 .. n -> Nat] /\ \A i \in 1 .. n : \A j \in 1 .. n : i < j => a[i] < a[j]
  <2>1. a \in [1 .. n -> Nat]
    BY <1>3
  <2>2. ASSUME NEW i \in 1 .. n, NEW j \in 1 .. n, i < j PROVE a[i] < a[j]
    <3>1. p[i].at + p[i].size <= p[j].at
      BY <1>1, <2>2
    <3> QED
      BY <1>3, <3>1
  <2> QED
    BY <2>1, <2>2
<1>6. starts = Increasing(a, n)
  <2>1. ASSUME NEW c \in starts PROVE c \in Increasing(a, n)
    <3>1. PICK i \in 1 .. n : p[i].at <= c /\ c < p[i].at + p[i].size
      BY <1>1, <1>4
    <3>2. c \in Nat /\ (c <= p[i].at \/ p[i].at + p[i].size <= c)
      BY <1>2, <1>4
    <3>3. c = p[i].at
      BY <1>3, <3>1, <3>2
    <3> QED
      BY <3>3 DEF Increasing
  <2>2. ASSUME NEW i \in 1 .. n PROVE a[i] \in starts
    <3>1. p[i].at + p[i].size <= end /\ p[i].at \in Nat /\ p[i].size \in Nat \ {0}
      BY <1>1, <1>3
    <3>2. p[i].at < end
      BY <3>1
    <3> QED
      BY <1>2, <3>2
  <2> QED
    BY <2>1, <2>2 DEF Increasing
<1>7. Cardinality(starts) = n /\ \A i \in 1 .. n : nth(i) = p[i].at
  <2>1. \A i \in 1 .. n : a[i] = p[i].at
    OBVIOUS
  <2>2. /\ Cardinality(Increasing(a, n)) = n
        /\ \A i \in 1 .. n :
             (CHOOSE c \in Increasing(a, n) :
                Cardinality({d \in Increasing(a, n) : d < c}) = i - 1) = a[i]
    <3> HIDE DEF a
    <3> QED
      BY <1>1, <1>5, Ranks
  <2> HIDE DEF a, starts
  <2> QED
    BY <1>6, <2>1, <2>2
<1>8. ASSUME NEW i \in 1 .. n PROVE stop(p[i].at) = p[i].at + p[i].size
  <2> DEFINE S == {d \in C : d > p[i].at}
  <2>0. p[i].at \in Nat /\ p[i].size \in Nat \ {0}
        /\ p[i].at + p[i].size \in C /\ \A c \in C : c <= p[i].at \/ p[i].at + p[i].size <= c
    BY <1>2, <1>3
  <2> DEFINE x == p[i].at
             e == p[i].at + p[i].size
  <2>a. x \in Nat /\ e \in C /\ e > x /\ \A c \in C : c <= x \/ e <= c
    BY <2>0
  <2> HIDE DEF x, e
  <2>b. S = {d \in C : d > x}
    BY DEF x
  <2> HIDE DEF S
  <2>c. S \subseteq Int /\ e \in S
    <3>1. e \in S
      BY <2>a, <2>b, Zenon
    <3>2. S \subseteq C /\ Nat \subseteq Int
      <4>1. S \subseteq C
        BY <2>b, Zenon
      <4> QED
        BY <4>1
    <3> QED
      BY <1>4, <3>1, <3>2, Zenon
  <2>1. S \subseteq Int /\ p[i].at + p[i].size \in S
    BY <2>c DEF e
  <2>2. \A d \in S : p[i].at + p[i].size <= d
    <3>1. \A d \in S : d \in Nat /\ d > x /\ (d <= x \/ e <= d)
      BY <1>4, <2>a, <2>b
    <3>2. \A d \in S : e <= d
      BY <2>a, <3>1
    <3> QED
      BY <3>2 DEF e
  <2> HIDE DEF S
  <2>3. Min(S) = p[i].at + p[i].size
    BY <2>1, <2>2, MinIs
  <2> QED
    BY <2>3 DEF S
<1>9. ASSUME NEW i \in 1 .. n
      PROVE  (CHOOSE b \in 1 .. Len(sizes) :
                Before(sizes, b) <= p[i].at /\ p[i].at < Before(sizes, b + 1)) = p[i].buf
  <2> DEFINE In(b) == Before(sizes, b) <= p[i].at /\ p[i].at < Before(sizes, b + 1)
             x == CHOOSE b \in 1 .. Len(sizes) : In(b)
  <2>1. Cut(p[i], sizes, single)
    BY DEF Covers, n
  <2>2. p[i].buf \in 1 .. Len(sizes) /\ In(p[i].buf)
    <3>1. p[i].buf \in 1 .. Len(sizes) /\ Before(sizes, p[i].buf) <= p[i].at
          /\ p[i].at + p[i].size <= Before(sizes, p[i].buf + 1)
      BY <2>1 DEF Cut
    <3>2. Before(sizes, p[i].buf + 1) \in Nat
      BY <3>1, BeforeGrows DEF Lengths
    <3> QED
      BY <1>3, <3>1, <3>2
  <2> HIDE DEF In
  <2>3. x \in 1 .. Len(sizes) /\ In(x)
    BY <2>2
  <2> HIDE DEF x
  <2>4. x = p[i].buf
    BY <1>3, <2>2, <2>3, OneBuffer DEF In
  <2> QED
    BY <2>4 DEF x, In
<1> DEFINE r(i) == Piece(CHOOSE b \in 1 .. Len(sizes) :
                           Before(sizes, b) <= nth(i) /\ nth(i) < Before(sizes, b + 1),
                         nth(i), stop(nth(i)) - nth(i), stop(nth(i)) % single = 0)
<1>10. ReferenceSplit(sizes, single, end) = [i \in 1 .. Cardinality(starts) |-> r(i)]
  BY DEF ReferenceSplit, C
<1>11. ASSUME NEW i \in 1 .. n PROVE r(i) = p[i]
  <2>1. r(i) = Piece(CHOOSE b \in 1 .. Len(sizes) :
                       Before(sizes, b) <= p[i].at /\ p[i].at < Before(sizes, b + 1),
                     p[i].at, stop(p[i].at) - p[i].at, stop(p[i].at) % single = 0)
    <3> HIDE DEF nth, stop
    <3> QED
      BY <1>7
  <2> HIDE DEF stop, r
  <2>2. stop(p[i].at) - p[i].at = p[i].size
    BY <1>3, <1>8
  <2>3. (stop(p[i].at) % single = 0) = p[i].irq
    <3>1. p[i].irq <=> (p[i].at + p[i].size) % single = 0
      BY DEF Covers, Cut, n
    <3>2. p[i].irq \in BOOLEAN
      BY <1>1 DEF Descriptor
    <3> QED
      BY <1>8, <3>1, <3>2
  <2>4. r(i) = Piece(p[i].buf, p[i].at, p[i].size, p[i].irq)
    BY <1>9, <2>1, <2>2, <2>3
  <2>5. p[i] = [buf |-> p[i].buf, at |-> p[i].at, size |-> p[i].size, irq |-> p[i].irq]
    BY <1>1 DEF Descriptor
  <2> QED
    BY <2>4, <2>5 DEF Piece
<1>12. p = [i \in 1 .. n |-> p[i]]
  BY <1>1 DEF n
<1> HIDE DEF r, starts
<1> QED
  BY <1>7, <1>10, <1>11, <1>12
-----------------------------------------------------------------------------
(* The last descriptor of an event completes it.                           *)
LEMMA CoversEvents ==
  ASSUME NEW p, NEW sizes \in Lengths, NEW single \in Nat \ {0}, NEW end \in Nat,
         Covers(p, sizes, single, end), end % single = 0, NEW i \in 1 .. Len(p)
  PROVE  /\ i > 1 => p[i].at = p[i - 1].at + p[i - 1].size
         /\ p[i].irq <=> (p[i].at + p[i].size) % single = 0
         /\ i = Len(p) => p[i].irq
<1>1. Len(p) \in Nat
  BY CoversInOrder
<1>2. p[i].at = Start(p, i) /\ Cut(p[i], sizes, single)
  BY DEF Covers
<1>3. i > 1 => p[i].at = p[i - 1].at + p[i - 1].size
  BY <1>2 DEF Start
<1>4. p[i].irq <=> (p[i].at + p[i].size) % single = 0
  BY <1>2 DEF Cut
<1>5. i = Len(p) => p[i].at + p[i].size = end
  BY <1>1 DEF Covers, End
<1> QED
  BY <1>3, <1>4, <1>5

-----------------------------------------------------------------------------
(* The memory that was granted *)

(* Every set of sizes has a minimum.                                       *)
LEMMA MinOf ==
  ASSUME NEW S, S \subseteq Nat, S # {}
  PROVE  Min(S) \in S /\ \A n \in S : Min(S) <= n
<1>1. PICK m \in S : \A n \in S : m <= n
  BY Least
<1>2. Min(S) = m
  <2>1. S \subseteq Int
    OBVIOUS
  <2> QED
    BY <1>1, <2>1, MinIs
<1> QED
  BY <1>1, <1>2

(* A further buffer adds its size to the memory.                           *)
LEMMA MemoryGrows ==
  ASSUME NEW sizes \in Lengths, NEW n \in Nat \ {0}
  PROVE  /\ Memory(sizes) \in Nat
         /\ Append(sizes, n) \in Lengths
         /\ Memory(Append(sizes, n)) = Memory(sizes) + n
<1> DEFINE N == Len(sizes)
           more == Append(sizes, n)
<1>1. /\ N \in Nat /\ more \in Lengths /\ Len(more) = N + 1 /\ more[N + 1] = n
      /\ \A b \in 1 .. N : more[b] = sizes[b]
  BY DEF Lengths
<1>2. /\ Before(sizes, 1) = 0
      /\ \A b \in 1 .. N + 1 : Before(sizes, b) \in Nat
      /\ \A b \in 1 .. N : Before(sizes, b + 1) = Before(sizes, b) + sizes[b]
  BY BeforeGrows DEF Lengths
<1>3. /\ Before(more, 1) = 0
      /\ \A b \in 1 .. N + 1 : Before(more, b + 1) = Before(more, b) + more[b]
  <2>1. more \in Seq(Nat)
    BY <1>1 DEF Lengths
  <2> HIDE DEF more
  <2> QED
    BY <1>1, <2>1, BeforeGrows
<1>4. Memory(sizes) = Before(sizes, N + 1) /\ Memory(more) = Before(more, (N + 1) + 1)
  BY <1>1 DEF Memory
<1> HIDE DEF N, more
<1> DEFINE G == {b \in 0 .. N : Before(more, b + 1) = Before(sizes, b + 1)}
<1>5. 0 \in G
  BY <1>1, <1>2, <1>3
<1>6. ASSUME NEW b \in 1 .. N, b - 1 \in G PROVE b \in G
  <2>1. b \in 0 .. N /\ b \in 1 .. N + 1 /\ (b - 1) + 1 = b
    BY <1>1
  <2>2. Before(more, b) = Before(sizes, b)
    BY <1>6, <2>1
  <2> QED
    BY <1>1, <1>2, <1>3, <2>1, <2>2
<1>7. N \in G
  <2>1. \A b \in 0 .. N : b \in G
    <3> HIDE DEF G
    <3> QED
      BY <1>1, <1>5, <1>6, Induction
  <2>2. N \in 0 .. N
    BY <1>1
  <2> QED
    BY <2>1, <2>2
<1>8. N + 1 \in 1 .. N + 1
  BY <1>1
<1> QED
  BY <1>1, <1>2, <1>3, <1>4, <1>7, <1>8 DEF more

Buffer == [block : 1 .. Blocks, size : Nat \ {0}]

(* The sizes and the blocks of buffers.                                    *)
LEMMA BuffersHaveSizes ==
  ASSUME NEW bs \in Seq(Buffer)
  PROVE  /\ Sizes(bs) \in Lengths /\ Len(Sizes(bs)) = Len(bs)
         /\ Memory(Sizes(bs)) \in Nat
         /\ BlocksOf(bs) \subseteq 1 .. Blocks
<1>1. Len(bs) \in Nat /\ \A b \in 1 .. Len(bs) : bs[b] \in Buffer
  OBVIOUS
<1>2. \A b \in 1 .. Len(bs) : bs[b].size \in Nat \ {0} /\ bs[b].block \in 1 .. Blocks
  BY <1>1 DEF Buffer
<1>3. Sizes(bs) \in [1 .. Len(bs) -> Nat \ {0}]
  BY <1>2 DEF Sizes
<1>4. Sizes(bs) \in Lengths /\ Len(Sizes(bs)) = Len(bs)
  BY <1>1, <1>3 DEF Lengths
<1>5. BlocksOf(bs) \subseteq 1 .. Blocks
  BY <1>2 DEF BlocksOf
<1>6. Memory(Sizes(bs)) \in Nat
  <2>1. 1 \in Nat \ {0}
    OBVIOUS
  <2> QED
    BY <1>4, <2>1, MemoryGrows
<1> QED
  BY <1>4, <1>5, <1>6

(* Without buffers there is no memory.                                     *)
LEMMA NoBuffers ==
  Sizes(<<>>) \in Lengths /\ Memory(Sizes(<<>>)) = 0 /\ BlocksOf(<<>>) = {}
<1>1. <<>> \in Seq(Buffer) /\ Len(<<>>) = 0
  OBVIOUS
<1>2. Sizes(<<>>) \in Lengths /\ Len(Sizes(<<>>)) = 0
  BY <1>1, BuffersHaveSizes
<1>3. Memory(Sizes(<<>>)) = Before(Sizes(<<>>), 1)
  BY <1>2 DEF Memory
<1>4. Before(Sizes(<<>>), 1) = 0
  BY <1>2, BeforeGrows DEF Lengths
<1>5. BlocksOf(<<>>) = {}
  BY <1>1 DEF BlocksOf
<1> QED
  BY <1>2, <1>3, <1>4, <1>5

(* A buffer that is appended adds its size and its block.                  *)
LEMMA OneMoreBuffer ==
  ASSUME NEW bs \in Seq(Buffer), NEW r \in Buffer
  PROVE  /\ Append(bs, r) \in Seq(Buffer)
         /\ Memory(Sizes(Append(bs, r))) = Memory(Sizes(bs)) + r.size
         /\ BlocksOf(Append(bs, r)) = BlocksOf(bs) \cup {r.block}
<1> DEFINE more == Append(bs, r)
<1>1. /\ Len(bs) \in Nat /\ more \in Seq(Buffer) /\ Len(more) = Len(bs) + 1
      /\ more[Len(bs) + 1] = r
      /\ \A b \in 1 .. Len(bs) : more[b] = bs[b]
  OBVIOUS
<1> HIDE DEF more
<1>2. r.size \in Nat \ {0}
  BY DEF Buffer
<1>3. Sizes(bs) \in Lengths /\ Len(Sizes(bs)) = Len(bs) /\ \A b \in 1 .. Len(bs) : Sizes(bs)[b] = bs[b].size
  <2>1. Sizes(bs) \in Lengths /\ Len(Sizes(bs)) = Len(bs)
    BY BuffersHaveSizes
  <2>2. \A b \in 1 .. Len(bs) : Sizes(bs)[b] = bs[b].size
    BY DEF Sizes
  <2> QED
    BY <2>1, <2>2
<1>4. Sizes(more) = Append(Sizes(bs), r.size)
  <2> DEFINE s == Append(Sizes(bs), r.size)
             N == Len(bs) + 1
  <2>1. s \in [1 .. N -> Nat \ {0}] /\ s[N] = r.size /\ \A b \in 1 .. Len(bs) : s[b] = bs[b].size
    <3> DEFINE z == Sizes(bs)
               k == r.size
    <3>1. z \in Seq(Nat \ {0}) /\ k \in Nat \ {0} /\ Len(z) = Len(bs)
      BY <1>2, <1>3 DEF Lengths
    <3>2. \A b \in 1 .. Len(bs) : z[b] = bs[b].size
      BY <1>3
    <3> HIDE DEF z, k
    <3>3. Append(z, k) \in Seq(Nat \ {0}) /\ Len(Append(z, k)) = Len(bs) + 1
          /\ Append(z, k)[Len(bs) + 1] = k
      BY <1>1, <3>1
    <3>4. \A b \in 1 .. Len(bs) : Append(z, k)[b] = z[b]
      BY <1>1, <3>1
    <3> DEFINE y == Append(z, k)
    <3>5. y \in Seq(Nat \ {0}) /\ Len(y) = N
      BY <3>3
    <3>6. y[N] = k /\ \A b \in 1 .. Len(bs) : y[b] = bs[b].size
      BY <3>2, <3>3, <3>4
    <3>7. s = y
      BY DEF z, k
    <3> HIDE DEF s, y, N
    <3>8. s \in [1 .. N -> Nat \ {0}]
      BY <3>5, <3>7
    <3> QED
      BY <3>6, <3>7, <3>8 DEF k
  <2>2. Sizes(more) = [b \in 1 .. N |-> more[b].size]
    BY <1>1 DEF Sizes
  <2> HIDE DEF s
  <2>3. \A b \in 1 .. N : more[b].size = s[b]
    <3>1. \A b \in 1 .. N : b \in 1 .. Len(bs) \/ b = N
      BY <1>1
    <3> QED
      BY <1>1, <2>1, <3>1
  <2>4. s = [b \in 1 .. N |-> s[b]]
    BY <2>1
  <2>5. Sizes(more) = s
    BY <2>2, <2>3, <2>4
  <2> QED
    BY <2>5 DEF s
<1>5. Memory(Sizes(more)) = Memory(Sizes(bs)) + r.size
  BY <1>2, <1>3, <1>4, MemoryGrows
<1>6. BlocksOf(more) = BlocksOf(bs) \cup {r.block}
  <2>1. \A b \in 1 .. Len(more) : b \in 1 .. Len(bs) \/ b = Len(bs) + 1
    BY <1>1
  <2>2. Len(bs) + 1 \in 1 .. Len(more) /\ \A b \in 1 .. Len(bs) : b \in 1 .. Len(more)
    BY <1>1
  <2> QED
    BY <1>1, <2>1, <2>2 DEF BlocksOf
<1> QED
  BY <1>1, <1>5, <1>6 DEF more

(* A part of what is wanted is not more than that.                         *)
LEMMA PartIsLess ==
  ASSUME NEW w \in Nat, NEW t \in 0 .. Tests - 1
  PROVE  (w * (Tests - t)) \div Tests \in Int /\ (w * (Tests - t)) \div Tests <= w
<1> DEFINE a == w * (Tests - t)
           q == a \div Tests
<1>0. Tests \in Nat \ {0}
  BY DmaAssumption
<1>1. a \in Int /\ a <= Tests * w /\ Tests * w \in Int
  <2> DEFINE u == Tests - t
  <2>1. u \in Nat /\ u <= Tests
    BY <1>0
  <2> HIDE DEF u
  <2>2. w * u \in Int /\ w * u <= Tests * w
    <3>1. CASE w = 0
      BY <1>0, <2>1, <3>1
    <3>2. CASE w # 0
      <4>1. w \in Nat \ {0} /\ u \in Int /\ Tests \in Int
        BY <1>0, <2>1, <3>2
      <4>2. w * u \in Int /\ w * Tests \in Int /\ Tests * w = w * Tests /\ (w * u <= w * Tests <=> u <= Tests)
        BY <4>1, Multiplied
      <4> QED
        BY <2>1, <4>2
    <3> QED
      BY <3>1, <3>2
  <2>3. Tests * w \in Int
    BY <1>0
  <2> QED
    BY <2>2, <2>3 DEF u
<1> HIDE DEF a
<1>2. q \in Int /\ a % Tests \in 0 .. Tests - 1 /\ a = Tests * q + (a % Tests)
  BY <1>0, <1>1, Division, Zenon
<1> HIDE DEF q
<1>3. Tests * q \in Int /\ (Tests * q <= Tests * w <=> q <= w)
  BY <1>0, <1>2, Multiplied
<1>4. Tests * q <= Tests * w
  BY <1>0, <1>1, <1>2, <1>3
<1> QED
  BY <1>2, <1>3, <1>4 DEF q, a

(* There are only as many free blocks as there are blocks.                 *)
LEMMA FreeIsFinite == IsFiniteSet(Free) /\ Free \subseteq Nat /\ Cardinality(Free) \in Nat
<1>1. Blocks \in Int /\ 1 \in Int /\ Free \subseteq 1 .. Blocks
  BY DmaAssumption DEF Free
<1>2. IsFiniteSet(1 .. Blocks)
  BY <1>1, FS_Interval, Zenon
<1>3. IsFiniteSet(Free)
  BY <1>1, <1>2, FS_Subset, Zenon
<1>4. Cardinality(Free) \in Nat
  BY <1>3, FS_CardinalityType, Zenon
<1> QED
  BY <1>1, <1>3, <1>4

(* There are as many lowest free blocks as there are free blocks.          *)
LEMMA FreshIsFree ==
  ASSUME NEW n \in Nat, n <= Cardinality(Free)
  PROVE  /\ Cardinality(Free) \in Nat
         /\ Fresh(n) \in [1 .. n -> Free]
<1> DEFINE Below(b) == {f \in Free : f < b}
           C == Cardinality(Free)
<1>1. IsFiniteSet(Free) /\ Free \subseteq Nat /\ C \in Nat
  BY FreeIsFinite
<1>2. ASSUME NEW b \in Free
      PROVE  /\ Cardinality(Below(b)) \in 0 .. C - 1
             /\ IsFiniteSet(Below(b))
  <2>1. Below(b) \subseteq Free \ {b}
    BY <1>1
  <2>2. IsFiniteSet(Free \ {b}) /\ Cardinality(Free \ {b}) = C - 1
    BY <1>1, FS_RemoveElement, Zenon
  <2> HIDE DEF Below
  <2>3. IsFiniteSet(Below(b)) /\ Cardinality(Below(b)) <= C - 1
    BY <2>1, <2>2, FS_Subset
  <2>4. Cardinality(Below(b)) \in Nat
    BY <2>3, FS_CardinalityType
  <2> QED
    BY <1>1, <2>3, <2>4
<1>3. ASSUME NEW a \in Free, NEW b \in Free, a < b
      PROVE  Cardinality(Below(a)) < Cardinality(Below(b))
  <2>1. Below(a) \subseteq Below(b) \ {a} /\ a \in Below(b)
    <3>1. a \in Below(b)
      BY <1>3
    <3>2. \A f \in Free : f < a => f < b /\ f # a
      BY <1>1, <1>3
    <3>3. Below(a) \subseteq Below(b) \ {a}
      BY <3>2
    <3> QED
      BY <3>1, <3>3
  <2>2. IsFiniteSet(Below(b)) /\ Cardinality(Below(b)) \in Nat /\ Cardinality(Below(a)) \in Nat
    BY <1>2
  <2> HIDE DEF Below
  <2>3. IsFiniteSet(Below(b) \ {a}) /\ Cardinality(Below(b) \ {a}) = Cardinality(Below(b)) - 1
    BY <2>1, <2>2, FS_RemoveElement
  <2>4. Cardinality(Below(a)) <= Cardinality(Below(b) \ {a})
    BY <2>1, <2>3, FS_Subset
  <2> QED
    BY <2>2, <2>3, <2>4
<1> DEFINE rank == [b \in Free |-> Cardinality(Below(b))]
<1>4. rank \in [Free -> 0 .. C - 1]
  BY <1>2
<1>5. \A a \in Free : \A b \in Free : rank[a] = rank[b] => a = b
  <2> SUFFICES ASSUME NEW a \in Free, NEW b \in Free, rank[a] = rank[b], a # b PROVE FALSE
    BY Zenon
  <2>1. rank[a] = Cardinality(Below(a)) /\ rank[b] = Cardinality(Below(b))
    OBVIOUS
  <2>2. Cardinality(Below(a)) \in Nat /\ Cardinality(Below(b)) \in Nat /\ (a < b \/ b < a)
    BY <1>1, <1>2
  <2> HIDE DEF rank, Below
  <2>3. Cardinality(Below(a)) = Cardinality(Below(b))
    BY <2>1
  <2> QED
    BY <1>3, <2>2, <2>3
<1>6. rank \in Surjection(Free, 0 .. C - 1)
  <2> HIDE DEF rank
  <2>1. rank \in Injection(Free, 0 .. C - 1)
    BY <1>4, <1>5 DEF Injection, IsInjective
  <2>2. IsFiniteSet(0 .. C - 1) /\ Cardinality(0 .. C - 1) = C
    <3>1. 0 \in Int /\ C - 1 \in Int
      BY <1>1
    <3>2. IsFiniteSet(0 .. C - 1) /\ Cardinality(0 .. C - 1) = IF 0 > C - 1 THEN 0 ELSE (C - 1) - 0 + 1
      BY <3>1, FS_Interval
    <3> HIDE DEF C
    <3> QED
      BY <1>1, <3>2
  <2> QED
    BY <2>1, <2>2, FS_Injection
<1>7. ASSUME NEW i \in 1 .. n PROVE \E b \in Free : Cardinality(Below(b)) = i - 1
  <2>1. i - 1 \in 0 .. C - 1
    BY <1>1
  <2>2. PICK b \in Free : rank[b] = i - 1
    BY <1>6, <2>1 DEF Surjection
  <2> QED
    BY <2>2
<1>8. Fresh(n) = [i \in 1 .. n |-> CHOOSE b \in Free : Cardinality(Below(b)) = i - 1]
  BY DEF Fresh
<1> HIDE DEF Below
<1> QED
  BY <1>1, <1>7, <1>8
-----------------------------------------------------------------------------
(* Memory and list over the calls, in whatever order they come *)

Multiple(total, single, mode) ==
  \E q \in Nat \ {0} : total = single * q /\ (mode = CONTINUOUS => q = 2)

DmaTypeOK ==
  /\ live \subseteq 1 .. Blocks
  /\ buffers \in Seq(Buffer)
  /\ desc \in DescriptorLists \cup {NULL}
  /\ init \in Requests \cup {NULL}
  /\ dma \in [enable : BOOLEAN, irq : BOOLEAN, mode : BOOLEAN]
  /\ initialised \in BOOLEAN /\ started \in BOOLEAN /\ unlisted \in BOOLEAN /\ wrong \in BOOLEAN

(* No more is granted than was asked for.                                  *)
Asked ==
  ~Idle => /\ init.single > 0
           /\ Multiple(init.total, init.single, init.mode)
           /\ Memory(Sizes(buffers)) <= init.total

(* What is noted is allocated; an Init that is repeated overwrites the     *)
(* notes of the one before, and until it ends no list is used.             *)
ListMemory == BlocksOf(buffers) \cup ListBlocks(desc) \cup {desc.block}
Held ==
  /\ ~Idle => BlocksOf(buffers) \subseteq live
  /\ Idle /\ desc # NULL => ListMemory \subseteq live
  /\ started => Idle /\ desc # NULL
  /\ dma.enable => started

DmaInv == DmaTypeOK /\ Asked /\ Held

(* Neither a request nor a list is the null pointer.                       *)
LEMMA NotNull ==
  ASSUME NEW x, x \in Requests \cup DescriptorLists
  PROVE  x # NULL
BY DmaAssumption

LEMMA DmaInitInv == DmaInit => DmaInv
<1> SUFFICES ASSUME DmaInit PROVE DmaInv
  OBVIOUS
<1>1. DmaTypeOK
  <2>1. <<>> \in Seq(Buffer)
    OBVIOUS
  <2>2. dma \in [enable : BOOLEAN, irq : BOOLEAN, mode : BOOLEAN]
    BY DEF DmaInit, DmaOff
  <2> QED
    BY <2>1, <2>2 DEF DmaInit, DmaTypeOK
<1>2. Asked
  BY DEF DmaInit, Asked, Idle
<1>3. Held
  BY DEF DmaInit, Held, Idle, DmaOff
<1> QED
  BY <1>1, <1>2, <1>3 DEF DmaInv

(* An Init notes what is asked for, and no memory yet.                     *)
LEMMA InitDMAKeeps ==
  ASSUME DmaInv, NEW single \in Singles, NEW count \in Counts, InitDMA(single, count)
  PROVE  DmaInv' /\ ~Idle'
<1>1. /\ DmaTypeOK /\ Held /\ buffers' = <<>> /\ ~started
      /\ UNCHANGED <<live, desc, initialised, started, dma, unlisted, wrong>>
  BY DEF DmaInv, InitDMA
<1>2. single \in Nat \ {0} /\ count \in Nat /\ MaxSize \in Nat
  BY DmaAssumption
<1> DEFINE mode == IF count = 0 THEN CONTINUOUS ELSE SINGLE
           total == IF count = 0 THEN 2 * single ELSE count * single
<1>3. mode \in {SINGLE, CONTINUOUS} /\ total \in Nat /\ Multiple(total, single, mode)
  <2>1. CASE count = 0
    <3>1. total = single * 2 /\ total \in Nat /\ mode = CONTINUOUS /\ 2 \in Nat \ {0}
      BY <1>2, <2>1
    <3> HIDE DEF total, mode
    <3> QED
      BY <3>1 DEF Multiple
  <2>2. CASE count # 0
    <3>1. total = single * count /\ mode = SINGLE /\ count \in Nat \ {0}
      BY <1>2, <2>2
    <3>2. total \in Nat
      BY <1>2, <2>2
    <3> HIDE DEF total, mode
    <3> QED
      BY <3>1, <3>2 DEF Multiple, SINGLE, CONTINUOUS
  <2> QED
    BY <2>1, <2>2
<1>4. init' = [single |-> single, mode |-> mode, total |-> total, last |-> MaxSize]
  BY DEF InitDMA
<1> HIDE DEF mode, total
<1>5. init' \in Requests
  BY <1>2, <1>3, <1>4 DEF Requests
<1>6. ~Idle'
  BY <1>5, NotNull DEF Idle
<1>7. DmaTypeOK'
  BY <1>1, <1>5 DEF DmaTypeOK
<1>8. Asked'
  <2>1. Memory(Sizes(buffers'))  = 0
    BY <1>1, NoBuffers
  <2> QED
    BY <1>2, <1>3, <1>4, <2>1 DEF Asked
<1>9. Held'
  <2>1. BlocksOf(buffers') = {}
    BY <1>1, NoBuffers
  <2> QED
    BY <1>1, <1>6, <2>1 DEF Held
<1> QED
  BY <1>6, <1>7, <1>8, <1>9 DEF DmaInv

(* The lowest free block is a block and free.                              *)
LEMMA OneFresh ==
  ASSUME DmaTypeOK, Free # {}
  PROVE  Fresh(1)[1] \in 1 .. Blocks /\ Fresh(1)[1] \notin live
<1>1. IsFiniteSet(Free) /\ Cardinality(Free) \in Nat
  BY FreeIsFinite
<1>2. 1 <= Cardinality(Free) /\ 1 \in Nat
  BY <1>1, FS_EmptySet
<1>3. Fresh(1) \in [1 .. 1 -> Free]
  BY <1>2, FreshIsFree
<1> QED
  BY <1>3 DEF Free

(* What kmalloc grants is not more than what is missing.                   *)
LEMMA GrantKeeps ==
  ASSUME DmaInv, Grant
  PROVE  DmaInv' /\ ~Idle' /\ BlocksOf(buffers') = BlocksOf(buffers) \cup {Fresh(1)[1]}
<1> DEFINE b == Fresh(1)[1]
<1>1. /\ DmaTypeOK /\ Asked /\ Held /\ ~Idle
      /\ Missing > 0 /\ Free # {}
      /\ live' = live \cup {b}
      /\ UNCHANGED <<desc, initialised, started, dma, unlisted, wrong>>
  BY DEF DmaInv, Grant
<1>2. PICK t \in 0 .. Tests - 1 :
        LET size == (Wanted * (Tests - t)) \div Tests IN
        /\ size > 0
        /\ buffers' = Append(buffers, [block |-> b, size |-> size])
        /\ init' = [init EXCEPT !.last = size]
  BY DEF Grant
<1>3. b \in 1 .. Blocks
  BY <1>1, OneFresh
<1> HIDE DEF b
<1>4. init \in Requests /\ buffers \in Seq(Buffer) /\ Memory(Sizes(buffers)) \in Nat
  <2>1. init \in Requests /\ buffers \in Seq(Buffer)
    BY <1>1 DEF DmaTypeOK, Idle
  <2> QED
    BY <2>1, BuffersHaveSizes
<1> DEFINE size == (Wanted * (Tests - t)) \div Tests
<1>5. size \in Nat \ {0} /\ size <= Missing /\ Missing = init.total - Memory(Sizes(buffers))
      /\ init.total \in Nat
  <2>1. Missing \in Nat /\ MaxSize \in Nat /\ init.last \in Nat /\ init.total \in Nat
    BY <1>1, <1>4, DmaAssumption DEF Missing, Requests
  <2> DEFINE S == {Missing, MaxSize, init.last}
  <2>2. S \subseteq Nat /\ S # {} /\ Missing \in S
    BY <2>1
  <2>3. Wanted = Min(S)
    BY DEF Wanted
  <2> HIDE DEF S
  <2>4. Wanted \in S /\ \A n \in S : Wanted <= n
    BY <2>2, <2>3, MinOf
  <2>5. Wanted \in Nat /\ Wanted <= Missing
    BY <2>2, <2>4
  <2>6. size \in Int /\ size <= Wanted
    BY <2>5, PartIsLess
  <2>7. size > 0
    BY <1>2
  <2> HIDE DEF size
  <2>8. size \in Nat \ {0} /\ size <= Missing
    BY <2>1, <2>5, <2>6, <2>7
  <2> QED
    BY <2>1, <2>8 DEF Missing
<1>6. buffers' = Append(buffers, [block |-> b, size |-> size]) /\ init' = [init EXCEPT !.last = size]
  BY <1>2
<1> HIDE DEF size
<1> DEFINE r == [block |-> b, size |-> size]
<1>7. r \in Buffer /\ r.block = b /\ r.size = size
  BY <1>3, <1>5 DEF Buffer
<1>8. buffers' = Append(buffers, r)
  BY <1>6
<1> HIDE DEF r
<1>9. /\ buffers' \in Seq(Buffer)
      /\ Memory(Sizes(buffers')) = Memory(Sizes(buffers)) + size
      /\ BlocksOf(buffers') = BlocksOf(buffers) \cup {b}
  BY <1>4, <1>7, <1>8, OneMoreBuffer
<1>10. /\ init' \in Requests /\ init'.single = init.single /\ init'.mode = init.mode
       /\ init'.total = init.total
  BY <1>4, <1>5, <1>6 DEF Requests
<1>11. ~Idle'
  BY <1>10, NotNull DEF Idle
<1>12. DmaTypeOK'
  BY <1>1, <1>3, <1>9, <1>10 DEF DmaTypeOK
<1>13. Asked'
  <2>1. Memory(Sizes(buffers')) <= init.total
    BY <1>4, <1>5, <1>9
  <2> QED
    BY <1>1, <1>10, <1>11, <2>1 DEF Asked
<1>14. Held'
  <2>1. BlocksOf(buffers') \subseteq live'
    BY <1>1, <1>9 DEF Held
  <2> QED
    BY <1>1, <1>11, <2>1 DEF Held
<1> QED
  BY <1>9, <1>11, <1>12, <1>13, <1>14 DEF DmaInv, b

(* After a release, whatever it frees, nothing is noted as in use.         *)
LEMMA ReleasedKeeps ==
  ASSUME DmaInv, NEW gone, ReleaseDMA(desc, buffers, gone), ~started,
         init' = NULL, UNCHANGED <<started, dma>>,
         initialised' \in BOOLEAN, unlisted' \in BOOLEAN
  PROVE  DmaInv'
<1>1. /\ DmaTypeOK /\ Held
      /\ live' \subseteq live /\ desc' = NULL /\ wrong' \in BOOLEAN
      /\ buffers' = buffers \/ buffers' = <<>>
  BY DEF DmaInv, ReleaseDMA
<1>2. Idle'
  BY DEF Idle
<1>3. DmaTypeOK'
  <2>1. buffers \in Seq(Buffer) /\ <<>> \in Seq(Buffer)
    BY <1>1 DEF DmaTypeOK
  <2>2. buffers' \in Seq(Buffer)
    BY <1>1, <2>1, Zenon
  <2> QED
    BY <1>1, <2>2 DEF DmaTypeOK
<1>4. Asked'
  BY <1>2 DEF Asked
<1>5. Held'
  BY <1>1, <1>2 DEF Held
<1> QED
  BY <1>3, <1>4, <1>5 DEF DmaInv

(* A list is laid over all the memory that was asked for.                  *)
LEMMA NewPiecesFit ==
  ASSUME DmaInv, ~Idle, Missing = 0
  PROVE  /\ init \in Requests
         /\ Fits(Sizes(buffers), init.single, init.mode)
         /\ NewPieces \in Seq(Descriptor)
         /\ Lists(Len(NewPieces)) \in Nat \ {0}
<1>1. init \in Requests /\ buffers \in Seq(Buffer) /\ Asked
  BY DEF DmaInv, DmaTypeOK, Idle
<1>2. /\ Sizes(buffers) \in Lengths /\ Memory(Sizes(buffers)) \in Nat
  BY <1>1, BuffersHaveSizes
<1>3. /\ init.single \in Nat /\ init.total \in Nat /\ init.mode \in {SINGLE, CONTINUOUS}
      /\ init.single > 0 /\ Multiple(init.total, init.single, init.mode)
  BY <1>1 DEF Requests, Asked
<1>4. Memory(Sizes(buffers)) = init.total
  BY <1>2, <1>3 DEF Missing
<1>5. Fits(Sizes(buffers), init.single, init.mode)
  <2>1. init.single \in Nat \ {0}
    BY <1>3
  <2>2. \E q \in Nat \ {0} : Memory(Sizes(buffers)) = init.single * q /\ (init.mode = CONTINUOUS => q = 2)
    BY <1>3, <1>4, Zenon DEF Multiple
  <2> QED
    BY <1>2, <1>3, <2>1, <2>2, Zenon DEF Fits
<1>6. NewPieces \in Seq(Descriptor)
  BY <1>5, PiecesCover DEF NewPieces, Covers
<1>7. Lists(Len(NewPieces)) \in Nat \ {0}
  <2>1. Len(NewPieces) # 0
    <3> DEFINE all == init.mode = SINGLE
                      \/ (\A b \in 1 .. Len(Sizes(buffers)) : Sizes(buffers)[b] % init.single = 0)
               end == IF all THEN Memory(Sizes(buffers)) ELSE init.single
    <3>1. end = End(NewPieces)
      BY <1>5, PiecesCover, ZenonT(40) DEF NewPieces, Covers
    <3>2. init.single <= Memory(Sizes(buffers))
      BY <1>5, MemoryIsNat
    <3> HIDE DEF all
    <3>3. end # 0
      BY <1>2, <1>3, <3>2
    <3> HIDE DEF end
    <3> QED
      BY <3>1, <3>3 DEF End
  <2>2. Len(NewPieces) \in Nat \ {0}
    BY <1>6, <2>1
  <2> QED
    BY <2>2, DescriptorsAssumption DEF Lists
<1> QED
  BY <1>1, <1>5, <1>6, <1>7

(* A list whose blocks are refused is not used.                            *)
LEMMA ListFailsKeeps ==
  ASSUME DmaInv, ListFails
  PROVE  DmaInv'
<1>1. /\ DmaTypeOK /\ Held /\ ~Idle /\ Missing = 0
      /\ desc' = NULL /\ unlisted' = TRUE /\ init' = NULL
      /\ UNCHANGED <<initialised, started, dma, buffers, wrong>>
  BY DEF DmaInv, ListFails, InitEnds
<1>2. PICK k \in 0 .. Min({Lists(Len(NewPieces)) - 1, Cardinality(Free)}) :
        live' = live \cup {Fresh(k)[i] : i \in 1 .. k}
  BY DEF ListFails
<1>3. k \in Nat /\ k <= Cardinality(Free)
  <2> DEFINE n == Lists(Len(NewPieces))
             S == {n - 1, Cardinality(Free)}
  <2>1. n \in Nat \ {0} /\ Cardinality(Free) \in Nat
    <3>2. Cardinality(Free) \in Nat
      BY FreeIsFinite
    <3>3. n \in Nat \ {0}
      BY <1>1, NewPiecesFit
    <3> QED
      BY <3>2, <3>3
  <2>2. S \subseteq Nat /\ S # {} /\ Cardinality(Free) \in S
    BY <2>1
  <2> HIDE DEF n
  <2>3. Min(S) \in Nat /\ Min(S) <= Cardinality(Free)
    <3> HIDE DEF S
    <3> QED
      BY <2>2, MinOf
  <2>4. k \in 0 .. Min(S)
    BY DEF n
  <2> HIDE DEF S
  <2> QED
    BY <2>1, <2>3, <2>4
<1>4. live' \subseteq 1 .. Blocks
  <2>1. Fresh(k) \in [1 .. k -> Free]
    BY <1>3, FreshIsFree
  <2> QED
    BY <1>1, <1>2, <2>1 DEF Free, DmaTypeOK
<1>5. Idle'
  BY <1>1 DEF Idle
<1>6. DmaTypeOK'
  BY <1>1, <1>4 DEF DmaTypeOK
<1>7. Asked'
  BY <1>5 DEF Asked
<1>8. Held'
  BY <1>1, <1>5 DEF Held
<1> QED
  BY <1>6, <1>7, <1>8 DEF DmaInv

(* A list with a descriptor that is too big is not used.                   *)
LEMMA ListTooBigKeeps ==
  ASSUME DmaInv, ListTooBig
  PROVE  DmaInv'
<1> DEFINE n == Lists(Len(NewPieces))
<1>1. /\ DmaTypeOK /\ Held /\ ~Idle /\ Missing = 0 /\ n + 1 <= Cardinality(Free)
      /\ live' \subseteq live \cup {Fresh(n)[i] : i \in 1 .. n}
      /\ desc' = NULL /\ unlisted' = TRUE /\ init' = NULL /\ buffers' = <<>>
      /\ UNCHANGED <<initialised, started, dma, wrong>>
  BY DEF DmaInv, ListTooBig, InitEnds
<1>2. n \in Nat
  BY <1>1, NewPiecesFit
<1> HIDE DEF n
<1>3. live' \subseteq 1 .. Blocks
  <2>1. Fresh(n) \in [1 .. n -> Free]
    <3>1. Cardinality(Free) \in Nat
      BY FreeIsFinite
    <3>2. n <= Cardinality(Free)
      BY <1>1, <1>2, <3>1
    <3> QED
      BY <1>2, <3>2, FreshIsFree
  <2>2. {Fresh(n)[i] : i \in 1 .. n} \subseteq 1 .. Blocks
    BY <2>1 DEF Free
  <2> QED
    BY <1>1, <2>2 DEF DmaTypeOK
<1>4. Idle'
  BY <1>1 DEF Idle
<1>5. DmaTypeOK'
  BY <1>1, <1>3 DEF DmaTypeOK
<1>6. Asked'
  BY <1>4 DEF Asked
<1>7. Held'
  BY <1>1, <1>4 DEF Held
<1> QED
  BY <1>5, <1>6, <1>7 DEF DmaInv

(* A list that was made notes the blocks that were allocated for it.       *)
LEMMA ListMadeKeeps ==
  ASSUME DmaInv, ListMade
  PROVE  /\ DmaInv' /\ desc' # NULL
         /\ live' = live \cup ListBlocks(desc') \cup {desc'.block}
<1> DEFINE n == Lists(Len(NewPieces))
<1>1. /\ DmaTypeOK /\ Held /\ ~Idle /\ Missing = 0 /\ n + 1 <= Cardinality(Free)
      /\ live' = live \cup {Fresh(n + 1)[i] : i \in 1 .. n + 1}
      /\ desc' = NewList(n) /\ initialised' = TRUE /\ init' = NULL
      /\ UNCHANGED <<buffers, started, dma, unlisted, wrong>>
  BY DEF DmaInv, ListMade
<1>2. n \in Nat /\ init \in Requests /\ NewPieces \in Seq(Descriptor)
  BY <1>1, NewPiecesFit
<1> HIDE DEF n
<1>3. /\ Fresh(n) \in Seq(Nat) /\ Fresh(n + 1)[n + 1] \in Nat
      /\ {Fresh(n + 1)[i] : i \in 1 .. n + 1} \subseteq 1 .. Blocks
      /\ \A i \in 1 .. n : Fresh(n + 1)[i] = Fresh(n)[i]
  <2>0. Cardinality(Free) \in Nat
    BY FreeIsFinite
  <2>1. n <= Cardinality(Free) /\ n + 1 \in Nat
    BY <1>1, <1>2, <2>0
  <2>2. Fresh(n) \in [1 .. n -> Free] /\ Fresh(n + 1) \in [1 .. n + 1 -> Free]
    BY <1>1, <1>2, <2>1, FreshIsFree
  <2>3. Free \subseteq 1 .. Blocks /\ Free \subseteq Nat
    BY DmaAssumption DEF Free
  <2>4. \A i \in 1 .. n : Fresh(n + 1)[i] = Fresh(n)[i]
    <3> DEFINE th(i) == CHOOSE b \in Free : Cardinality({f \in Free : f < b}) = i - 1
    <3>1. \A i \in 1 .. n : i \in 1 .. n + 1
      BY <1>2
    <3>2. Fresh(n) = [i \in 1 .. n |-> th(i)] /\ Fresh(n + 1) = [i \in 1 .. n + 1 |-> th(i)]
      BY DEF Fresh
    <3> HIDE DEF th
    <3> QED
      BY <3>1, <3>2, Zenon
  <2>5. Fresh(n) \in Seq(Nat)
    <3>1. Fresh(n) \in [1 .. n -> Nat]
      BY <2>2, <2>3
    <3> QED
      BY <1>2, <3>1
  <2>6. Fresh(n + 1)[n + 1] \in Nat
    <3>1. n + 1 \in 1 .. n + 1
      BY <1>2
    <3>2. Fresh(n + 1)[n + 1] \in Free
      BY <2>2, <3>1, Zenon
    <3> QED
      BY <2>3, <3>2, Zenon
  <2>7. {Fresh(n + 1)[i] : i \in 1 .. n + 1} \subseteq 1 .. Blocks
    BY <2>2, <2>3
  <2> QED
    BY <2>4, <2>5, <2>6, <2>7
<1>4. desc' = [ pieces |-> NewPieces, mode |-> init.mode, single |-> init.single,
                lists |-> Fresh(n), known |-> n, block |-> Fresh(n + 1)[n + 1], status |-> 0 ]
  <2>1. NewList(n) = [ pieces |-> NewPieces, mode |-> init.mode, single |-> init.single,
                       lists |-> Fresh(n), known |-> n, block |-> Fresh(n + 1)[n + 1], status |-> 0 ]
    BY DEF NewList, n
  <2> QED
    BY <1>1, <2>1
<1>5. desc' \in DescriptorLists
  <2>1. init.mode \in {SINGLE, CONTINUOUS} /\ init.single \in Nat
    BY <1>2 DEF Requests
  <2>2. NewPieces \in Seq([buf : Nat, at : Nat, size : Nat, irq : BOOLEAN])
    BY <1>2 DEF Descriptor
  <2>3. 0 \in 0 .. 4
    OBVIOUS
  <2> HIDE DEF NewPieces
  <2> QED
    BY <1>2, <1>3, <1>4, <2>1, <2>2, <2>3 DEF DescriptorLists
<1>6. live' = live \cup ListBlocks(desc') \cup {desc'.block}
  <2>1. desc'.lists = Fresh(n) /\ desc'.known = n /\ desc'.block = Fresh(n + 1)[n + 1]
    BY <1>4
  <2>2. ListBlocks(desc') = {Fresh(n + 1)[i] : i \in 1 .. n}
    BY <1>3, <2>1 DEF ListBlocks
  <2>3. \A i : i \in 1 .. n + 1 <=> i \in 1 .. n \/ i = n + 1
    BY <1>2
  <2>4. {Fresh(n + 1)[i] : i \in 1 .. n + 1} = {Fresh(n + 1)[i] : i \in 1 .. n} \cup {Fresh(n + 1)[n + 1]}
    BY <2>3, Zenon
  <2> QED
    BY <1>1, <2>1, <2>2, <2>4
<1>7. desc' # NULL
  BY <1>5, NotNull
<1>8. Idle'
  BY <1>1 DEF Idle
<1>9. DmaTypeOK'
  BY <1>1, <1>3, <1>5 DEF DmaTypeOK
<1>10. Asked'
  BY <1>8 DEF Asked
<1>11. Held'
  <2>1. ListMemory' \subseteq live'
    BY <1>1, <1>6 DEF Held, ListMemory
  <2> QED
    BY <1>1, <1>7, <1>8, <2>1 DEF Held
<1> QED
  BY <1>6, <1>7, <1>9, <1>10, <1>11 DEF DmaInv

(* The controller is turned on and off by its registers, and of the list   *)
(* only the noted state changes.                                           *)
Dmas == [enable : BOOLEAN, irq : BOOLEAN, mode : BOOLEAN]

(* A call of the controller needs a list, and leaves its memory alone.     *)
LEMMA BecomesKeeps ==
  ASSUME DmaInv, Idle, desc # NULL, NEW s, s.dma \in Dmas, s.status \in 0 .. 4, Becomes(s),
         started' \in BOOLEAN, s.dma.enable => started', UNCHANGED initialised
  PROVE  /\ DmaInv' /\ desc' # NULL
         /\ desc'.pieces = desc.pieces /\ desc'.mode = desc.mode /\ desc'.single = desc.single
         /\ ListMemory' = ListMemory
<1>1. /\ DmaTypeOK /\ Held
      /\ dma' = s.dma /\ desc' = [desc EXCEPT !.status = s.status]
      /\ UNCHANGED <<live, buffers, initialised, init, unlisted, wrong>>
  BY DEF DmaInv, Becomes
<1>2. desc \in DescriptorLists
  BY <1>1 DEF DmaTypeOK
<1>3. /\ desc' \in DescriptorLists
      /\ desc'.pieces = desc.pieces /\ desc'.mode = desc.mode /\ desc'.single = desc.single
      /\ desc'.lists = desc.lists /\ desc'.known = desc.known /\ desc'.block = desc.block
  BY <1>1, <1>2 DEF DescriptorLists
<1>4. desc' # NULL /\ Idle'
  BY <1>1, <1>3, NotNull DEF Idle
<1>5. ListMemory' = ListMemory
  BY <1>1, <1>3 DEF ListMemory, ListBlocks
<1>6. DmaTypeOK'
  BY <1>1, <1>3 DEF DmaTypeOK, Dmas
<1>7. Asked'
  BY <1>4 DEF Asked
<1>8. Held'
  BY <1>1, <1>4, <1>5 DEF Held
<1> QED
  BY <1>3, <1>4, <1>5, <1>6, <1>7, <1>8 DEF DmaInv

(* Start turns the transfer on.                                            *)
LEMMA Started ==
  ASSUME dma \in Dmas
  PROVE  LET s == EnableInterrupt(StartTransfer(EnableTransfer(SetList(Controller))))
         IN  s.dma \in Dmas /\ s.dma.enable = TRUE /\ s.status = 3
BY DEF Dmas, EnableInterrupt, StartTransfer, EnableTransfer, SetList, Controller

(* Stop turns the transfer off.                                            *)
LEMMA Stopped ==
  ASSUME dma \in Dmas
  PROVE  LET s == ResetList(PauseTransfer(AbortTransfer(DisableInterrupt(Controller))))
         IN  s.dma \in Dmas /\ s.dma.enable = FALSE /\ s.status = 0
BY DEF Dmas, ResetList, PauseTransfer, AbortTransfer, DisableInterrupt, Controller

(* What no step of the controller, nor Start or Stop, changes.             *)
ListStays ==
  /\ DmaInv'
  /\ desc # NULL /\ desc' # NULL
  /\ desc'.pieces = desc.pieces /\ desc'.mode = desc.mode /\ desc'.single = desc.single
  /\ ListMemory' = ListMemory
  /\ UNCHANGED <<live, buffers, initialised, init, unlisted, wrong>>

(* Start, Stop and the end of an acquisition turn the transfer on only     *)
(* with a list, and change neither memory nor list.                        *)
LEMMA ControllerKeeps ==
  ASSUME DmaInv, StartSequence \/ StopSequence \/ SequenceEnds
  PROVE  ListStays
<1>1. DmaTypeOK /\ Held /\ dma \in Dmas
  BY DEF DmaInv, DmaTypeOK, Dmas
<1>2. CASE StartSequence
  <2> DEFINE s == EnableInterrupt(StartTransfer(EnableTransfer(SetList(Controller))))
  <2>1. /\ Idle /\ desc # NULL /\ Becomes(s) /\ started' = TRUE /\ UNCHANGED initialised
        /\ UNCHANGED <<live, buffers, initialised, init, unlisted, wrong>>
    BY <1>2 DEF StartSequence, StartDMA, Becomes
  <2>2. s.dma \in Dmas /\ s.dma.enable = TRUE /\ s.status \in 0 .. 4
    <3>1. s.dma \in Dmas /\ s.dma.enable = TRUE /\ s.status = 3
      BY <1>1, Started, Zenon
    <3> HIDE DEF s
    <3> QED
      BY <3>1
  <2> HIDE DEF s
  <2> QED
    BY <2>1, <2>2, BecomesKeeps DEF ListStays
<1>3. CASE StopSequence \/ SequenceEnds
  <2> DEFINE s == ResetList(PauseTransfer(AbortTransfer(DisableInterrupt(Controller))))
  <2>1. /\ Idle /\ started /\ Becomes(s) /\ started' = FALSE
    BY <1>3 DEF StopSequence, SequenceEnds, StopDMA
  <2>2. UNCHANGED initialised
    BY <1>3 DEF StopSequence, SequenceEnds, StopDMA, Becomes
  <2>3. s.dma \in Dmas /\ s.dma.enable = FALSE /\ s.status \in 0 .. 4
    <3>1. s.dma \in Dmas /\ s.dma.enable = FALSE /\ s.status = 0
      BY <1>1, Stopped, Zenon
    <3> HIDE DEF s
    <3> QED
      BY <3>1
  <2>4. desc # NULL
    BY <1>1, <2>1 DEF Held
  <2>5. UNCHANGED <<live, buffers, initialised, init, unlisted, wrong>>
    BY <2>1, <2>2 DEF Becomes
  <2> HIDE DEF s
  <2> QED
    BY <2>1, <2>2, <2>3, <2>4, <2>5, BecomesKeeps DEF ListStays
<1> QED
  BY <1>2, <1>3

Kept == <<live, buffers, desc, initialised, started, init, dma, unlisted, wrong>>

(* A step of the controller changes nothing that the invariant speaks of.  *)
LEMMA KeptKeeps ==
  ASSUME DmaInv, UNCHANGED Kept
  PROVE  DmaInv'
BY DEF DmaInv, DmaTypeOK, Asked, Held, Idle, ListMemory, Kept

(* Every step keeps the invariant, in any order of calls.                  *)
LEMMA DmaNextInv == DmaInv /\ [DmaNext]_dmaVars => DmaInv'
<1> SUFFICES ASSUME DmaInv, [DmaNext]_dmaVars PROVE DmaInv'
  OBVIOUS
<1>0. DmaTypeOK /\ Held
  BY DEF DmaInv
<1>1. CASE \E single \in Singles, count \in Counts : InitDMA(single, count)
  BY <1>1, InitDMAKeeps
<1>2. CASE Grant
  BY <1>2, GrantKeeps
<1>3. CASE MemoryFails
  <2>1. /\ ReleaseDMA(desc, buffers, BlocksOf(buffers)) /\ init' = NULL /\ ~started
        /\ initialised' \in BOOLEAN /\ unlisted' \in BOOLEAN /\ UNCHANGED <<started, dma>>
    BY <1>0, <1>3 DEF MemoryFails, InitEnds, Held, DmaTypeOK
  <2> QED
    BY <2>1, ReleasedKeeps
<1>4. CASE ListFails
  BY <1>4, ListFailsKeeps
<1>5. CASE ListTooBig
  BY <1>5, ListTooBigKeeps
<1>6. CASE ListMade
  BY <1>6, ListMadeKeeps
<1>7. CASE StartSequence \/ StopSequence \/ SequenceEnds
  BY <1>7, ControllerKeeps DEF ListStays
<1>8. CASE ReleaseSequence
  <2>1. /\ ReleaseDMA(desc, buffers, {}) /\ init' = NULL /\ ~started
        /\ initialised' \in BOOLEAN /\ unlisted' \in BOOLEAN /\ UNCHANGED <<started, dma>>
    BY <1>0, <1>8 DEF ReleaseSequence, Idle, DmaTypeOK
  <2> QED
    BY <2>1, ReleasedKeeps
<1>9. CASE Transfer \/ UNCHANGED dmaVars
  <2>1. UNCHANGED Kept
    BY <1>9 DEF Transfer, dmaVars, Kept
  <2> QED
    BY <2>1, KeptKeeps
<1> QED
  BY <1>1, <1>2, <1>3, <1>4, <1>5, <1>6, <1>7, <1>8, <1>9 DEF DmaNext

(* In whatever order Init, Start, Stop and Release come, and wherever an   *)
(* allocation is refused: while the transfer is enabled the buffers and    *)
(* the blocks of descriptors are allocated (i_xpci3xxx_StopAnalogInputDMA   *)
(* and the interrupt routine disable it before anything is freed).         *)
THEOREM EnabledIntoMemory == DmaSpec => []TransfersIntoMemory
<1>1. DmaInv => TransfersIntoMemory
  BY DEF DmaInv, Held, TransfersIntoMemory, ListMemory
<1> QED
  BY <1>1, DmaInitInv, DmaNextInv, PTL DEF DmaSpec

(* What a list covers: the whole memory, or its first single buffer.       *)
Covered(sizes, single, mode) ==
  IF mode = SINGLE \/ \A b \in 1 .. Len(sizes) : sizes[b] % single = 0
  THEN Memory(sizes) ELSE single

LEMMA LaidCovers ==
  ASSUME NEW sizes, NEW single, NEW mode, Fits(sizes, single, mode)
  PROVE  LET end == Covered(sizes, single, mode)
         IN  /\ sizes \in Lengths /\ single \in Nat \ {0} /\ end \in Nat
             /\ end <= Memory(sizes) /\ end % single = 0
             /\ Covers(Pieces(sizes, single, mode), sizes, single, end)
<1> DEFINE end == Covered(sizes, single, mode)
<1>1. Covers(Pieces(sizes, single, mode), sizes, single, end)
  BY PiecesCover DEF Covered
<1>2. /\ sizes \in Lengths /\ single \in Nat \ {0} /\ Memory(sizes) \in Nat
      /\ single <= Memory(sizes)
  BY MemoryIsNat DEF Fits
<1>3. Memory(sizes) % single = 0 /\ single % single = 0
  <2>1. PICK q \in Nat : Memory(sizes) = single * q
    BY Zenon DEF Fits
  <2>2. single = single * 1
    BY <1>2
  <2> QED
    BY <1>2, <2>1, <2>2, IsMultiple
<1>4. end = Memory(sizes) \/ end = single
  BY DEF Covered
<1> HIDE DEF end
<1>5. end \in Nat /\ end <= Memory(sizes) /\ end % single = 0
  BY <1>2, <1>3, <1>4
<1> QED
  BY <1>1, <1>2, <1>5 DEF end

(* The list was laid over some memory, although an Init that is repeated   *)
(* may have noted other buffers since.                                     *)
Built ==
  desc # NULL =>
    \E sizes : /\ Fits(sizes, desc.single, desc.mode)
               /\ desc.pieces = Pieces(sizes, desc.single, desc.mode)

LEMMA BuiltNext ==
  ASSUME DmaInv, Built, [DmaNext]_dmaVars
  PROVE  Built'
<1>0. DmaTypeOK /\ Asked /\ Held
  BY DEF DmaInv
<1>1. ASSUME NEW single \in Singles, NEW count \in Counts, InitDMA(single, count)
      PROVE  desc' = desc
  BY <1>1 DEF InitDMA
<1>2. CASE Grant
  BY <1>2 DEF Grant, Built
<1>3. CASE MemoryFails \/ ListFails \/ ListTooBig \/ ReleaseSequence
  <2>1. desc' = NULL
    BY <1>3 DEF MemoryFails, ListFails, ListTooBig, ReleaseSequence, ReleaseDMA
  <2> QED
    BY <2>1 DEF Built
<1>4. CASE ListMade
  <2>1. /\ ~Idle /\ Missing = 0
        /\ desc'.pieces = NewPieces /\ desc'.mode = init.mode /\ desc'.single = init.single
    BY <1>4 DEF ListMade, NewList
  <2>2. Fits(Sizes(buffers), init.single, init.mode)
    BY <1>0, <2>1, NewPiecesFit
  <2>3. /\ Fits(Sizes(buffers), desc'.single, desc'.mode)
        /\ desc'.pieces = Pieces(Sizes(buffers), desc'.single, desc'.mode)
    BY <2>1, <2>2 DEF NewPieces
  <2> QED
    BY <2>3, Zenon DEF Built
<1>5. CASE StartSequence \/ StopSequence \/ SequenceEnds
  <2>1. ListStays
    BY <1>0, <1>5, ControllerKeeps
  <2> QED
    BY <1>0, <2>1 DEF Built, ListStays
<1>6. CASE Transfer \/ UNCHANGED dmaVars
  BY <1>6 DEF Transfer, dmaVars, Built
<1>7. desc' = desc => Built'
  BY DEF Built
<1> QED
  BY <1>1, <1>2, <1>3, <1>4, <1>5, <1>6, <1>7 DEF DmaNext

(* In whatever order the calls come, the descriptors up to one that        *)
(* interrupts are whole single buffers without a gap, and the last one     *)
(* interrupts: what the interrupt routine reports is complete (b_Interrupt *)
(* of i_xpci3xxx_Create9054DescriptorList).                                *)
THEOREM InterruptsAreWhole == DmaSpec => []EventsAreWhole
<1>1. DmaInit => DmaInv /\ Built
  BY DmaInitInv DEF DmaInit, Built
<1>2. DmaInv /\ Built /\ [DmaNext]_dmaVars => (DmaInv /\ Built)'
  BY DmaNextInv, BuiltNext
<1>3. Built => EventsAreWhole
  <2> SUFFICES ASSUME Built, desc # NULL, NEW i \in 1 .. Len(desc.pieces)
      PROVE /\ i > 1 => desc.pieces[i].at = desc.pieces[i - 1].at + desc.pieces[i - 1].size
            /\ desc.pieces[i].irq <=> (desc.pieces[i].at + desc.pieces[i].size) % desc.single = 0
            /\ i = Len(desc.pieces) => desc.pieces[i].irq
    BY DEF EventsAreWhole
  <2>1. PICK sizes : /\ Fits(sizes, desc.single, desc.mode)
                     /\ desc.pieces = Pieces(sizes, desc.single, desc.mode)
    BY DEF Built
  <2> DEFINE end == Covered(sizes, desc.single, desc.mode)
  <2>2. /\ sizes \in Lengths /\ desc.single \in Nat \ {0} /\ end \in Nat /\ end % desc.single = 0
        /\ Covers(desc.pieces, sizes, desc.single, end)
    BY <2>1, LaidCovers
  <2> HIDE DEF end
  <2> QED
    BY <2>2, CoversEvents
<1> QED
  BY <1>1, <1>2, <1>3, PTL DEF DmaSpec

-----------------------------------------------------------------------------
(* Memory and list when an initialised sequence is released before it is   *)
(* initialised again *)

(* All that is allocated is noted, once.                                   *)
Noted ==
  IF ~Idle THEN BlocksOf(buffers) ELSE IF desc = NULL THEN {} ELSE ListMemory
Accounted ==
  /\ ~wrong
  /\ initialised <=> desc # NULL
  /\ initialised => Idle
  /\ ~unlisted => live = Noted

Laid ==
  desc # NULL =>
    /\ Fits(Sizes(buffers), desc.single, desc.mode)
    /\ desc.pieces = Pieces(Sizes(buffers), desc.single, desc.mode)

OrderedInv == DmaInv /\ Accounted /\ Laid

LEMMA OrderedInit == DmaInit => OrderedInv
<1> SUFFICES ASSUME DmaInit PROVE OrderedInv
  OBVIOUS
<1>1. Accounted
  BY DEF DmaInit, Accounted, Noted, Idle
<1>2. Laid
  BY DEF DmaInit, Laid
<1> QED
  BY <1>1, <1>2, DmaInitInv DEF OrderedInv

(* Every step accounts for the memory: Init begins without a list, and     *)
(* what an Init or Release frees is what was noted.                        *)
LEMMA OrderedNext ==
  ASSUME ~Again
  PROVE  OrderedInv /\ [DmaNext]_dmaVars => OrderedInv'
<1> SUFFICES ASSUME OrderedInv, [DmaNext]_dmaVars PROVE Accounted' /\ Laid'
  BY DmaNextInv DEF OrderedInv
<1>0. /\ DmaInv /\ DmaTypeOK /\ Held /\ Accounted /\ Laid
      /\ ~Idle => desc = NULL /\ ~initialised
  BY DEF OrderedInv, DmaInv, Accounted
<1>1. ASSUME NEW single \in Singles, NEW count \in Counts, InitDMA(single, count)
      PROVE  Accounted' /\ Laid'
  <2>1. /\ Idle /\ desc = NULL /\ ~initialised /\ buffers' = <<>>
        /\ UNCHANGED <<live, desc, initialised, unlisted, wrong>>
    BY <1>0, <1>1 DEF InitDMA, Accounted
  <2>2. ~Idle'
    BY <1>0, <1>1, InitDMAKeeps
  <2>3. BlocksOf(buffers') = {}
    BY <2>1, NoBuffers
  <2>4. Accounted'
    BY <1>0, <2>1, <2>2, <2>3 DEF Accounted, Noted
  <2>5. Laid'
    BY <2>1 DEF Laid
  <2> QED
    BY <2>4, <2>5
<1>2. CASE Grant
  <2>1. BlocksOf(buffers') = BlocksOf(buffers) \cup {Fresh(1)[1]}
    BY <1>0, <1>2, GrantKeeps
  <2>2. /\ ~Idle /\ live' = live \cup {Fresh(1)[1]} /\ desc = NULL /\ ~initialised
        /\ UNCHANGED <<desc, initialised, unlisted, wrong>>
    BY <1>0, <1>2 DEF Grant
  <2>3. ~Idle'
    BY <1>0, <1>2, GrantKeeps
  <2>4. Accounted'
    BY <1>0, <2>1, <2>2, <2>3 DEF Accounted, Noted
  <2>5. Laid'
    BY <2>2 DEF Laid
  <2> QED
    BY <2>4, <2>5
<1>3. CASE MemoryFails
  <2>1. /\ ~Idle /\ desc = NULL /\ ~initialised
        /\ ReleaseDMA(desc, buffers, BlocksOf(buffers))
        /\ init' = NULL /\ UNCHANGED <<initialised, unlisted>>
    BY <1>0, <1>3 DEF MemoryFails, InitEnds
  <2>2. live' = live \ BlocksOf(buffers) /\ desc' = NULL /\ ~wrong'
    BY <1>0, <2>1 DEF ReleaseDMA, Accounted
  <2>3. Accounted'
    BY <1>0, <2>1, <2>2 DEF Accounted, Noted, Idle
  <2>4. Laid'
    BY <2>2 DEF Laid
  <2> QED
    BY <2>3, <2>4
<1>4. CASE ListFails \/ ListTooBig
  <2>1. desc' = NULL /\ unlisted' = TRUE /\ init' = NULL /\ ~initialised
        /\ UNCHANGED <<initialised, wrong>>
    BY <1>0, <1>4 DEF ListFails, ListTooBig, InitEnds
  <2>2. Accounted'
    BY <1>0, <2>1 DEF Accounted, Idle
  <2>3. Laid'
    BY <2>1 DEF Laid
  <2> QED
    BY <2>2, <2>3
<1>5. CASE ListMade
  <2>1. desc' # NULL /\ live' = live \cup ListBlocks(desc') \cup {desc'.block}
    BY <1>0, <1>5, ListMadeKeeps
  <2>2. /\ ~Idle /\ Missing = 0 /\ initialised' = TRUE /\ init' = NULL
        /\ UNCHANGED <<buffers, unlisted, wrong>>
        /\ desc'.pieces = NewPieces /\ desc'.mode = init.mode /\ desc'.single = init.single
    BY <1>5 DEF ListMade, NewList
  <2>3. Accounted'
    <3>1. ListMemory' = BlocksOf(buffers) \cup ListBlocks(desc') \cup {desc'.block}
      BY <2>2 DEF ListMemory
    <3>2. ~unlisted => live' = ListMemory'
      BY <1>0, <2>1, <2>2, <3>1 DEF Accounted, Noted
    <3> QED
      BY <1>0, <2>1, <2>2, <3>2 DEF Accounted, Noted, Idle
  <2>4. Laid'
    <3>1. Fits(Sizes(buffers), init.single, init.mode)
      BY <1>0, <2>2, NewPiecesFit
    <3> QED
      BY <2>2, <3>1 DEF Laid, NewPieces
  <2> QED
    BY <2>3, <2>4
<1>6. CASE StartSequence \/ StopSequence \/ SequenceEnds
  <2>1. ListStays
    BY <1>0, <1>6, ControllerKeeps
  <2>2. Accounted'
    BY <1>0, <2>1 DEF Accounted, Noted, ListStays, Idle
  <2>3. Laid'
    BY <1>0, <2>1 DEF Laid, ListStays
  <2> QED
    BY <2>2, <2>3
<1>7. CASE ReleaseSequence
  <2>1. /\ Idle /\ desc # NULL /\ ReleaseDMA(desc, buffers, {}) /\ initialised' = FALSE
        /\ UNCHANGED <<init, unlisted>>
    BY <1>0, <1>7 DEF ReleaseSequence, Accounted
  <2>2. live' = live \ ListMemory /\ desc' = NULL
    BY <2>1 DEF ReleaseDMA, ListMemory
  <2>3. ~wrong'
    <3>1. ListMemory \subseteq live /\ ~wrong
      BY <1>0, <2>1 DEF Held, Accounted
    <3> QED
      BY <2>1, <3>1 DEF ReleaseDMA, ListMemory
  <2>4. Accounted'
    BY <1>0, <2>1, <2>2, <2>3 DEF Accounted, Noted, Idle
  <2>5. Laid'
    BY <2>2 DEF Laid
  <2> QED
    BY <2>4, <2>5
<1>8. CASE Transfer \/ UNCHANGED dmaVars
  <2>1. UNCHANGED Kept
    BY <1>8 DEF Transfer, dmaVars, Kept
  <2> QED
    BY <1>0, <2>1 DEF Accounted, Noted, ListMemory, Laid, Idle, Kept
<1> QED
  BY <1>1, <1>2, <1>3, <1>4, <1>5, <1>6, <1>7, <1>8 DEF DmaNext

LEMMA OrderedAlways ==
  ASSUME ~Again
  PROVE  DmaSpec => []OrderedInv
<1>1. DmaInit => OrderedInv
  BY OrderedInit
<1>2. OrderedInv /\ [DmaNext]_dmaVars => OrderedInv'
  BY OrderedNext
<1> QED
  BY <1>1, <1>2, PTL DEF DmaSpec

(* When an initialised sequence is released before the next Init: whatever *)
(* allocations of buffers were refused, no block is freed that is not      *)
(* allocated, and without an initialised sequence nothing is, unless a     *)
(* list could not be built (i_xpci3xxx_ReleaseAnalogInputDMA,              *)
(* i_xpci3xxx_CreateScatterGatherMemory).                                  *)
THEOREM MemoryComesBack ==
  ASSUME ~Again
  PROVE  DmaSpec => []NothingLeaks
<1>1. OrderedInv => NothingLeaks
  BY DEF OrderedInv, Accounted, Noted, NothingLeaks, FreedOnce
<1> QED
  BY <1>1, OrderedAlways, PTL

(* The list of a sequence covers the memory it is laid over.               *)
LEMMA ListCovers ==
  ASSUME OrderedInv, desc # NULL
  PROVE  LET sizes == Sizes(buffers)
             end == Covered(sizes, desc.single, desc.mode)
         IN  /\ sizes \in Lengths /\ desc.single \in Nat \ {0} /\ end \in Nat
             /\ end <= Memory(sizes)
             /\ Covers(desc.pieces, sizes, desc.single, end)
<1>1. /\ Fits(Sizes(buffers), desc.single, desc.mode)
      /\ desc.pieces = Pieces(Sizes(buffers), desc.single, desc.mode)
  BY DEF OrderedInv, Laid
<1> QED
  BY <1>1, LaidCovers

(* For every request and every way the allocator answers it, the two       *)
(* passes of i_xpci3xxx_Create9054DescriptorList give the descriptors that *)
(* cutting the memory at the ends of buffers and of single buffers gives.  *)
THEOREM ListsAreCuts ==
  ASSUME ~Again
  PROVE  DmaSpec => []ListIsReference
<1>1. OrderedInv => ListIsReference
  <2> SUFFICES ASSUME OrderedInv, desc # NULL
      PROVE LET sizes == Sizes(buffers)
                all == desc.mode = SINGLE \/ \A b \in 1 .. Len(sizes) : sizes[b] % desc.single = 0
            IN desc.pieces =
                 ReferenceSplit(sizes, desc.single, IF all THEN Memory(sizes) ELSE desc.single)
    BY DEF ListIsReference
  <2> DEFINE sizes == Sizes(buffers)
             end == Covered(sizes, desc.single, desc.mode)
  <2>1. /\ sizes \in Lengths /\ desc.single \in Nat \ {0} /\ end \in Nat
        /\ end <= Memory(sizes) /\ Covers(desc.pieces, sizes, desc.single, end)
    BY ListCovers
  <2> HIDE DEF end
  <2>2. desc.pieces = ReferenceSplit(sizes, desc.single, end)
    BY <2>1, CoversIsReference
  <2> QED
    BY <2>2 DEF end, Covered
<1> QED
  BY <1>1, OrderedAlways, PTL

-----------------------------------------------------------------------------
(* Ports *)

History == {"word", "second port", "direction", "mode"}

PortTypeOK ==
  /\ family \in Families
  /\ priv \in [word : SUBSET (0 .. 31), memory : BOOLEAN,
               direction : {0, 1}, voltage : {0, 1}]
  /\ ports \in SUBSET (0 .. 31)
  /\ direction \in {0, 1}
  /\ voltage \in {0, 1}
  /\ level \in [0 .. 7 -> [value : Nat, polarity : {0, 1}]]
  /\ known \in SUBSET History
  /\ written \in SUBSET (0 .. 7)

(* The lines of a port have the bits of the word the driver keeps.         *)
Agree(lines) == ports \cap lines = priv.word \cap lines

(* What the calls since the probe have settled.                            *)
PortsKnown ==
  /\ "word" \in known => /\ family.digital => Agree(Digital)
                         /\ family.ttl => Agree(TTL0)
  /\ "second port" \in known => priv.direction = OUTPUT
  /\ {"word", "second port"} \subseteq known /\ family.ttl => Agree(TTL2)
  /\ "direction" \in known => direction = priv.direction
  /\ "mode" \in known => voltage = priv.voltage
  /\ ValuesFitMode

PortInv == PortTypeOK /\ PortsKnown

-----------------------------------------------------------------------------
(* Writing some lines sets them and leaves all others.                     *)
LEMMA WriteLines ==
  ASSUME NEW lines, NEW word, NEW out, NEW other, lines \cap other = {}
  PROVE  /\ Write(lines, word, out) \cap lines = word \cap lines
         /\ Write(lines, word, out) \cap other = out \cap other
  BY DEF Write

LEMMA Disjoint ==
  /\ Digital \cap TTL0 = {} /\ Digital \cap TTL2 = {} /\ TTL0 \cap TTL2 = {}
  /\ TTL0 \cap Digital = {} /\ TTL2 \cap Digital = {} /\ TTL2 \cap TTL0 = {}
  BY DEF Digital, TTL0, TTL2

(* The registers after a word was written to all ports that are outputs.   *)
LEMMA PortsSet ==
  ASSUME NEW p
  PROVE  /\ family.digital => SetPorts(p) \cap Digital = p.word \cap Digital
         /\ family.ttl => SetPorts(p) \cap TTL0 = p.word \cap TTL0
         /\ family.ttl /\ p.direction = OUTPUT => SetPorts(p) \cap TTL2 = p.word \cap TTL2
  <1> DEFINE first == Write(TTL0, p.word, ports)
             ttl == IF family.ttl THEN SetTTLOutputPort(p, ports) ELSE ports
  <1>1. family.ttl => ttl \cap TTL0 = p.word \cap TTL0
    BY WriteLines, Disjoint DEF SetTTLOutputPort
  <1>2. family.ttl /\ p.direction = OUTPUT => ttl \cap TTL2 = p.word \cap TTL2
    BY WriteLines, Disjoint DEF SetTTLOutputPort
  <1>3. SetPorts(p) = IF family.digital THEN Write(Digital, p.word, ttl) ELSE ttl
    BY DEF SetPorts, SetDigitalOutputPort
  <1> HIDE DEF ttl
  <1> QED
    BY <1>1, <1>2, <1>3, WriteLines, Disjoint

LEMMA PortsType ==
  ASSUME NEW p, p.word \in SUBSET (0 .. 31), ports \in SUBSET (0 .. 31)
  PROVE  SetPorts(p) \in SUBSET (0 .. 31)
  BY DEF SetPorts, SetTTLOutputPort, SetDigitalOutputPort, Write

(* A call that leaves the analog outputs alone keeps their values in range.*)
LEMMA SameValues ==
  ASSUME ValuesFitMode, UNCHANGED <<family, voltage, level, written>>,
         "mode" \in known' => "mode" \in known
  PROVE  ValuesFitMode'
  <1>1. Unipolar' = Unipolar
    BY DEF Unipolar
  <1> QED
    BY <1>1 DEF ValuesFitMode, Largest

LEMMA SwitchesKnown ==
  ASSUME PortInv, NEW w \in SUBSET (0 .. 31), Switches(w)
  PROVE  PortInv'
  <1>1. /\ priv' = [priv EXCEPT !.word = w]
        /\ priv'.word = w /\ priv'.direction = priv.direction /\ priv'.voltage = priv.voltage
        /\ ports' = SetPorts(priv')
        /\ UNCHANGED <<family, direction, voltage, level, written>>
    BY DEF Switches, PortInv, PortTypeOK, analog
  <1>2. known' = known \cup {"word"} \cup (IF priv.direction = OUTPUT THEN {"second port"} ELSE {})
    BY DEF Switches
  <1>3. PortTypeOK'
    BY <1>1, <1>2, PortsType DEF PortInv, PortTypeOK, History
  <1>4. /\ family.digital => Agree(Digital)'
        /\ family.ttl => Agree(TTL0)'
        /\ family.ttl /\ priv.direction = OUTPUT => Agree(TTL2)'
    BY <1>1, PortsSet DEF Agree
  <1>5. ValuesFitMode'
    BY <1>1, <1>2, SameValues DEF PortInv, PortsKnown
  <1> QED
    BY <1>1, <1>2, <1>3, <1>4, <1>5 DEF PortInv, PortsKnown

(* The limit of an analog output is one of the families' channel numbers. *)
LEMMA FamilyBound ==
  ASSUME family \in Families
  PROVE  Channels \in 0 .. 8
  <1>1. family \in AllFamilies
    BY PortAssumption
  <1>2. family.outputs \in {{0}, {4}, {8}, {4, 8}}
    <2>1. /\ xPCIe3021.outputs = {0} /\ xPCI3002.outputs = {0} /\ xPCI3002Audi.outputs = {0}
          /\ xPCI3016.outputs = {0} /\ xPCI3006.outputs = {0}
      BY DEF xPCIe3021, xPCI3002, xPCI3002Audi, xPCI3016, xPCI3006
    <2>2. /\ xPCI3116.outputs = {4} /\ xPCI3106.outputs = {4} /\ xPCI3500.outputs = {4}
          /\ xPCI3009.outputs = {4} /\ xPCI3501.outputs = {8}
      BY DEF xPCI3116, xPCI3106, xPCI3500, xPCI3009, xPCI3501
    <2>3. xPCIe3521.outputs = {4, 8} /\ xPCIe3121.outputs = {4, 8}
      BY DEF xPCIe3521, xPCIe3121
    <2> QED
      BY <1>1, <2>1, <2>2, <2>3, Zenon DEF AllFamilies
  <1>3. \E n \in family.outputs : \A o \in family.outputs : o <= n
    BY <1>2
  <1> QED
    BY <1>2, <1>3 DEF Channels

LEMMA InitPortInv == PortInit => PortInv
  BY DEF PortInit, PortInv, PortTypeOK, PortsKnown, ValuesFitMode, NewPriv, None, BIPOLAR

LEMMA NextPortInv == PortInv /\ [PortNext]_portVars => PortInv'
  <1> SUFFICES ASSUME PortInv, [PortNext]_portVars
               PROVE  PortInv'
    OBVIOUS
  <1>0. /\ priv \in [word : SUBSET (0 .. 31), memory : BOOLEAN,
                     direction : {0, 1}, voltage : {0, 1}]
        /\ level \in [0 .. 7 -> [value : Nat, polarity : {0, 1}]]
        /\ ports \in SUBSET (0 .. 31)
        /\ known \in SUBSET History /\ written \in SUBSET (0 .. 7)
        /\ ValuesFitMode
    BY DEF PortInv, PortTypeOK, PortsKnown
  <1>1. ASSUME NEW w \in Words,
               Set32DigitalOutputsOn(w) \/ Set32DigitalOutputsOff(w), ~UNCHANGED portVars
        PROVE  PortInv'
    <2>1. \E word \in SUBSET (0 .. 31) : Switches(word)
      BY <1>0, <1>1, PortAssumption
         DEF Set32DigitalOutputsOn, Set32DigitalOutputsOff, Returns
    <2> QED
      BY <2>1, SwitchesKnown
  <1>2. CASE SetDigitalOutputMemoryOn \/ SetDigitalOutputMemoryOff
    <2>1. /\ UNCHANGED <<family, ports, direction, voltage, level, written, known>>
          /\ \E on \in BOOLEAN : priv' = [priv EXCEPT !.memory = on]
      BY <1>2 DEF SetDigitalOutputMemoryOn, SetDigitalOutputMemoryOff,
         SetDigitalOutputMemory, analog
    <2> QED
      BY <1>0, <2>1, SameValues DEF PortInv, PortTypeOK, PortsKnown, Agree
  <1>3. ASSUME NEW f \in Flags, NEW r \in Reloads, InitDigitalInputModuleFilter(f, r),
               ~UNCHANGED portVars
        PROVE  PortInv'
    <2>1. UNCHANGED <<family, priv, ports, direction, voltage, level, written, known>>
      BY <1>3 DEF InitDigitalInputModuleFilter, Returns, analog
    <2> QED
      BY <2>1, SameValues, ZenonT(40) DEF PortInv, PortTypeOK, PortsKnown, Agree
  <1>4. ASSUME NEW d \in Directions, SetTTLPortConfiguration(d), ~UNCHANGED portVars
        PROVE  PortInv'
    <2>1. /\ d \in {0, 1} /\ direction' = d /\ priv' = [priv EXCEPT !.direction = d]
          /\ known' = (known \ {"second port"}) \cup {"direction"}
          /\ UNCHANGED <<family, ports, voltage, level, written>>
      BY <1>4 DEF SetTTLPortConfiguration, Returns, analog
    <2> QED
      BY <1>0, <2>1, SameValues DEF PortInv, PortTypeOK, PortsKnown, Agree, History
  <1>5. ASSUME NEW c \in AnalogOutputs, NEW m \in VoltageModes, InitAnalogOutput(c, m),
               ~UNCHANGED portVars
        PROVE  PortInv'
    <2>1. /\ m \in {0, 1} /\ voltage' = m /\ priv' = [priv EXCEPT !.voltage = m]
          /\ known' = known \cup {"mode"} /\ written' = {}
          /\ UNCHANGED <<family, ports, direction, level>>
      BY <1>5, PortAssumption DEF InitAnalogOutput, Returns
    <2>2. ValuesFitMode'
      BY <2>1 DEF ValuesFitMode
    <2> QED
      BY <1>0, <2>1, <2>2 DEF PortInv, PortTypeOK, PortsKnown, Agree, History
  <1>6. ASSUME NEW c \in AnalogOutputs, NEW v \in Values, WriteAnalogOutputValue(c, v),
               ~UNCHANGED portVars
        PROVE  PortInv'
    <2>1. /\ c < Channels /\ v <= Largest(priv.voltage)
          /\ level' = [level EXCEPT ![c] = [value |-> v, polarity |-> priv.voltage]]
          /\ written' = written \cup {c}
          /\ UNCHANGED <<family, priv, ports, direction, voltage, known>>
      BY <1>6 DEF WriteAnalogOutputValue, Returns
    <2>2. c \in 0 .. 7 /\ v \in Nat
      BY <2>1, FamilyBound, PortAssumption DEF PortInv, PortTypeOK
    <2>3. Unipolar' = Unipolar
      BY <2>1 DEF Unipolar
    <2>4. level'[c] = [value |-> v, polarity |-> priv.voltage]
          /\ \A o \in written \ {c} : level'[o] = level[o]
      BY <1>0, <2>1, <2>2
    <2>5. ValuesFitMode'
      <3>1. level'[c].value = v /\ level'[c].polarity = priv.voltage
        BY <2>4
      <3>2. "mode" \in known' => voltage' = priv.voltage
        BY <2>1 DEF PortInv, PortsKnown
      <3>3. v <= Largest(priv.voltage)'
        BY <2>1, <2>3 DEF Largest
      <3>4. ASSUME NEW o \in written \ {c}
            PROVE  /\ level'[o].value <= Largest(level[o].polarity)'
                   /\ "mode" \in known' => level'[o].polarity = voltage'
        BY <1>0, <2>1, <2>3, <2>4 DEF ValuesFitMode, Largest
      <3> QED
        BY <2>1, <2>3, <2>4, <3>1, <3>2, <3>3, <3>4 DEF ValuesFitMode, Largest
    <2>6. level' \in [0 .. 7 -> [value : Nat, polarity : {0, 1}]]
      BY <1>0, <2>1, <2>2
    <2> QED
      BY <1>0, <2>1, <2>2, <2>5, <2>6, ZenonT(40) DEF PortInv, PortTypeOK, PortsKnown, Agree
  <1>7. ASSUME NEW lines, NEW w \in Words, OUTPORTDW(lines, w)
        PROVE  PortInv'
    <2>1. /\ ports' = Write(lines, w, ports) /\ known' = known \ {"word", "second port"}
          /\ UNCHANGED <<family, priv, direction, voltage, level, written>>
      BY <1>7 DEF OUTPORTDW, analog
    <2>2. ports' \in SUBSET (0 .. 31)
      BY <1>0, <2>1, PortAssumption DEF Write
    <2> QED
      BY <1>0, <2>1, <2>2, SameValues DEF PortInv, PortTypeOK, PortsKnown
  <1>8. ASSUME NEW d \in Directions \cap {0, 1}, OUTPORTDW_Direction(d)
        PROVE  PortInv'
    <2>1. /\ direction' = d /\ known' = known \ {"direction"}
          /\ UNCHANGED <<family, priv, ports, voltage, level, written>>
      BY <1>8 DEF OUTPORTDW_Direction, analog
    <2> QED
      BY <1>0, <2>1, SameValues DEF PortInv, PortTypeOK, PortsKnown, Agree
  <1>9. CASE Reload
    <2>1. /\ priv' = NewPriv /\ known' = {} /\ written' = {}
          /\ UNCHANGED <<family, ports, direction, voltage, level>>
      BY <1>9 DEF Reload
    <2>2. ValuesFitMode'
      BY <2>1 DEF ValuesFitMode
    <2> QED
      BY <1>0, <2>1, <2>2 DEF PortInv, PortTypeOK, PortsKnown, NewPriv, BIPOLAR
  <1>10. CASE UNCHANGED portVars
    <2>1. UNCHANGED <<family, priv, ports, direction, voltage, level, written, known>>
      BY <1>10 DEF portVars
    <2> QED
      BY <2>1, SameValues, ZenonT(40) DEF PortInv, PortTypeOK, PortsKnown, Agree
  <1> QED
    BY <1>1, <1>2, <1>3, <1>4, <1>5, <1>6, <1>7, <1>8, <1>9, <1>10
       DEF PortNext, DigitalCommands, AnalogCommands, AccessCommands

(* The state of the ports, of the registers and of the driver's words have *)
(* their types, and what calls have settled stays settled.                 *)
LEMMA PortInvariant == PortSpec => []PortInv
  BY InitPortInv, NextPortInv, PTL DEF PortSpec

(* The status read back is the word the driver keeps, and the second TTL   *)
(* port is read as an input exactly if it does not drive its lines         *)
(* (primary_do.c, primary_ttl.c), for boards of every family.              *)
THEOREM StatusAndDirection == PortSpec => []StatusIsWord
  <1>1. PortInv => StatusIsWord
    <2> SUFFICES ASSUME PortInv
                 PROVE  StatusIsWord
      OBVIOUS
    <2>1. ASSUME "word" \in known
          PROVE  Get32DigitalOutputStatus \cap Switched = priv.word \cap Outputs \cap Switched
      <3>1. /\ family.digital => Agree(Digital)
            /\ family.ttl => Agree(TTL0)
            /\ family.ttl /\ "second port" \in known => priv.direction = OUTPUT /\ Agree(TTL2)
        BY <2>1 DEF PortInv, PortsKnown
      <3>2. "second port" \notin known => TTL2 \cap Switched = {}
        <4>1. "second port" \notin known => Switched = 0 .. 23
          BY DEF Switched
        <4>2. TTL2 \cap (0 .. 23) = {}
          BY DEF TTL2
        <4> QED
          BY <4>1, <4>2
      <3> QED
        BY <3>1, <3>2 DEF Get32DigitalOutputStatus, GetTTLOutputPort, GetDigitalOutputPort,
           Outputs, Agree
    <2>2. ASSUME "direction" \in known, family.ttl
          PROVE  TTL2 \subseteq Read32DigitalInputs <=> direction # OUTPUT
      <3>1. direction = priv.direction
        BY <2>2 DEF PortInv, PortsKnown
      <3>2. 24 \in TTL2 /\ 24 \notin TTL0 /\ 24 \notin Digital
        BY DEF TTL0, TTL2, Digital
      <3> QED
        BY <2>2, <3>1, <3>2 DEF Read32DigitalInputs, ReadTTLInputPort, ReadDigitalInputPort
    <2> QED
      BY <2>1, <2>2 DEF StatusIsWord
  <1> QED
    BY <1>1, PortInvariant, PTL

(* Values written since the voltage mode was set have the polarity of the  *)
(* mode and fit it (primary_ao.c), for boards of every family.             *)
THEOREM AnalogValues == PortSpec => []ValuesFitMode
  <1>1. PortInv => ValuesFitMode
    BY DEF PortInv, PortsKnown
  <1> QED
    BY <1>1, PortInvariant, PTL
=============================================================================
