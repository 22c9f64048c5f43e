---------------------------- MODULE EmacTxProofs ----------------------------
(***************************************************************************)
(* Proofs about EmacTx: the references the transmit ring, the stack and a  *)
(* frame about to be queued have to each pbuf are counted exactly, round   *)
(* a ring of any size.                                                     *)
(***************************************************************************)
EXTENDS EmacTx, FiniteSetTheorems, WellFoundedInduction, TLAPS

-----------------------------------------------------------------------------
(* Induction *)

\* A set of numbers has a least one.
LEMMA Least == ASSUME NEW T, T \subseteq Nat, T # {} PROVE \E x \in T : \A y \in T : x <= y
<1> DEFINE Below == {p \in Nat \X Nat : p[1] < p[2]}
<1>1. IsWellFoundedOn(Below, Nat)
  BY NatLessThanWellFounded DEF OpToRel
<1>2. PICK x \in T : \A y \in T : <<y, x>> \notin Below
  <2> HIDE DEF Below
  <2> QED BY <1>1, WFMin, Zenon
<1>3. \A y \in T : x <= y
  <2> TAKE y \in T
  <2>1. <<y, x>> \in Nat \X Nat
    OBVIOUS
  <2>2. ~(y < x)
    BY <1>2, <2>1
  <2> QED BY <2>2
<1> QED BY <1>3

\* What holds of 0, and of n + 1 when of n, holds of every number.
LEMMA Induct == ASSUME NEW S, 0 \in S, \A n \in Nat : n \in S => n + 1 \in S PROVE Nat \subseteq S
<1> SUFFICES ASSUME Nat \ S # {} PROVE FALSE
  OBVIOUS
<1>1. PICK n \in Nat \ S : \A m \in Nat \ S : n <= m
  BY Least, Zenon
<1>2. n # 0 /\ n - 1 \in Nat
  OBVIOUS
<1>3. n - 1 \in S
  BY <1>1, <1>2
<1> QED BY <1>2, <1>3

-----------------------------------------------------------------------------
(* Going round the transmit ring *)

TxAhead(a, b) == (b - a) % TxN

\* The distance from one descriptor to another.
LEMMA TxAheadInRing ==
    ASSUME NEW a \in TxSlots, NEW b \in TxSlots
    PROVE  /\ TxAhead(a, b) = IF a <= b THEN b - a ELSE b - a + TxN
           /\ TxAhead(a, b) \in 0 .. TxN - 1
<1>1. TxAhead(a, b) = IF a <= b THEN b - a ELSE b - a + TxN
  BY TxAssumption DEF TxAhead, TxSlots
<1> QED BY <1>1, TxAssumption DEF TxSlots

\* The index after the last is 0.
LEMMA AfterInRing ==
    ASSUME NEW i \in TxSlots
    PROVE  After(i) \in TxSlots /\ After(i) = IF i = TxN - 1 THEN 0 ELSE i + 1
BY TxAssumption DEF After, TxSlots

\* n descriptors from i on
Run(i, n) == {k \in TxSlots : TxAhead(i, k) < n}

\* Between, as a number of descriptors.
LEMMA RunBetween ==
    ASSUME NEW i \in TxSlots, NEW j \in TxSlots
    PROVE  Between(i, j) = Run(i, TxAhead(i, j))
BY DEF Between, Run, TxAhead

\* The n-th descriptor after i
LEMMA SlotInRing ==
    ASSUME NEW i \in TxSlots, NEW n \in 0 .. TxN
    PROVE  /\ (i + n) % TxN = IF i + n < TxN THEN i + n ELSE i + n - TxN
           /\ (i + n) % TxN \in TxSlots
<1>1. (i + n) % TxN = IF i + n < TxN THEN i + n ELSE i + n - TxN
  BY TxAssumption DEF TxSlots
<1> QED BY <1>1, TxAssumption DEF TxSlots

\* A run is one descriptor longer than the one before it.
LEMMA RunStep ==
    ASSUME NEW i \in TxSlots, NEW n \in 1 .. TxN
    PROVE  Run(i, n) = Run(i, n - 1) \cup {(i + n - 1) % TxN} /\ (i + n - 1) % TxN \in TxSlots \ Run(i, n - 1)
<1>1. PICK s : s = (i + n - 1) % TxN
  OBVIOUS
<1>2. s \in TxSlots /\ s = IF i + n - 1 < TxN THEN i + n - 1 ELSE i + n - 1 - TxN
  <2>1. n - 1 \in 0 .. TxN /\ i + (n - 1) = i + n - 1
    BY TxAssumption DEF TxSlots
  <2> QED BY <1>1, <2>1, SlotInRing
<1>3. \A k \in TxSlots : TxAhead(i, k) = IF i <= k THEN k - i ELSE k - i + TxN
  BY TxAheadInRing
<1>4. ASSUME NEW k \in TxSlots
      PROVE  TxAhead(i, k) < n <=> (TxAhead(i, k) < n - 1 \/ k = s)
  BY <1>2, <1>3, TxAssumption DEF TxSlots
<1>5. ~(TxAhead(i, s) < n - 1)
  BY <1>2, <1>3, TxAssumption DEF TxSlots
<1> QED BY <1>1, <1>2, <1>4, <1>5, Zenon DEF Run

\* TxN descriptors are all of them.
LEMMA RunAll ==
    ASSUME NEW i \in TxSlots
    PROVE  Run(i, TxN) = TxSlots /\ Run(i, 0) = {}
<1>1. \A k \in TxSlots : TxAhead(i, k) < TxN /\ ~(TxAhead(i, k) < 0)
  BY TxAheadInRing, TxAssumption
<1> QED BY <1>1 DEF Run

\* The ring has TxN descriptors.
LEMMA TxSlotsFinite == IsFiniteSet(TxSlots) /\ Cardinality(TxSlots) = TxN
BY FS_Interval, TxAssumption DEF TxSlots

\* A run has as many descriptors as it says.
LEMMA RunCount ==
    ASSUME NEW i \in TxSlots, NEW n \in 0 .. TxN
    PROVE  Cardinality(Run(i, n)) = n
<1>1. \A k \in TxSlots : TxAhead(i, k) = IF i <= k THEN k - i ELSE k - i + TxN
  BY TxAheadInRing
<1>2. CASE i + n <= TxN
  <2>1. Run(i, n) = i .. i + n - 1
    BY <1>1, <1>2, TxAssumption DEF Run, TxSlots
  <2> QED BY <2>1, FS_Interval, TxAssumption DEF TxSlots
<1>3. CASE ~(i + n <= TxN)
  <2> DEFINE a == i .. TxN - 1
             b == 0 .. i + n - TxN - 1
  <2>1. Run(i, n) = a \cup b
    BY <1>1, <1>3, TxAssumption DEF Run, TxSlots
  <2>2. a \cap b = {}
    BY TxAssumption DEF TxSlots
  <2>3. IsFiniteSet(a) /\ Cardinality(a) = TxN - i
    BY FS_Interval, TxAssumption DEF TxSlots
  <2>4. IsFiniteSet(b) /\ Cardinality(b) = i + n - TxN
    BY <1>3, FS_Interval, TxAssumption DEF TxSlots
  <2>5. Cardinality(a \cup b) = Cardinality(a) + Cardinality(b) - Cardinality(a \cap b)
    <3> HIDE DEF a, b
    <3> QED BY <2>3, <2>4, FS_Union
  <2>6. Cardinality(a \cap b) = 0
    BY <2>2, FS_EmptySet
  <2> QED BY <2>1, <2>3, <2>4, <2>5, <2>6, TxAssumption DEF TxSlots
<1> QED BY <1>2, <1>3

-----------------------------------------------------------------------------
(* References *)

Ring == [TxSlots -> TxPbufs \cup {NoPbuf}]
Counts == [TxPbufs -> Nat]

\* NoPbuf is not one of the pbufs.
LEMMA NotAPbuf == NoPbuf \notin TxPbufs
BY DEF NoPbuf, TxPbufs

\* Descriptors with b
Slotted(ring, b) == {i \in TxSlots : ring[i] = b}

\* The descriptors with b are finitely many.
LEMMA SlottedFinite ==
    ASSUME NEW ring, NEW b
    PROVE  IsFiniteSet(Slotted(ring, b)) /\ Cardinality(Slotted(ring, b)) \in Nat
BY TxSlotsFinite, FS_Subset, FS_CardinalityType DEF Slotted

One(c) == IF c THEN 1 ELSE 0

\* References to each pbuf other than from the pbuf before it
Refers(ring, h, s) ==
    [b \in TxPbufs |-> Cardinality(Slotted(ring, b)) + One(b[2] = 1 /\ b[1] \in h) + One(s.copied /\ s.chain[1] = b)]

\* The counts r are at least, or if e holds exactly, what the references c and
\* those within chains come to.
Balanced(c, r, e) ==
    /\ c \in Counts /\ r \in Counts
    /\ \A f \in TxFrames :
         LET link == One(r[<<f, 1>>] > 0 /\ r[<<f, 2>>] > 0)
         IN  /\ r[<<f, 1>>] >= c[<<f, 1>>] /\ r[<<f, 2>>] >= c[<<f, 2>>] + link
             /\ e => r[<<f, 1>>] = c[<<f, 1>>] /\ r[<<f, 2>>] = c[<<f, 2>>] + link

\* The second pbuf of a frame still referred to stays.
Stays(c, r, r2) ==
    \A f \in TxFrames : c[<<f, 1>>] > 0 /\ r[<<f, 2>>] > 0 => r2[<<f, 2>>] > 0

\* References are counted by numbers.
LEMMA RefersType == ASSUME NEW ring, NEW h, NEW s PROVE Refers(ring, h, s) \in Counts
<1>1. \A b \in TxPbufs : Cardinality(Slotted(ring, b)) \in Nat
  BY SlottedFinite
<1> QED BY <1>1 DEF Refers, Counts, One

\* pbuf_free drops one reference.
LEMMA FreeBalances ==
    ASSUME NEW e, NEW c, NEW r, Balanced(c, r, e), NEW b \in TxPbufs, c[b] > 0
    PROVE  /\ Balanced([c EXCEPT ![b] = @ - 1], pbuf_free(r, b), e)
           /\ Stays([c EXCEPT ![b] = @ - 1], r, pbuf_free(r, b))
<1>1. PICK g \in TxFrames, i \in {1, 2} : b = <<g, i>>
  BY DEF TxPbufs
<1>2. PICK d, q : d = [c EXCEPT ![b] = @ - 1] /\ q = pbuf_free(r, b)
  BY Zenon
<1>3. c \in Counts /\ r \in Counts
  BY DEF Balanced
<1>4. \A f \in TxFrames : \A j \in {1, 2} : <<f, j>> \in TxPbufs /\ c[<<f, j>>] \in Nat /\ r[<<f, j>>] \in Nat
  BY <1>3 DEF TxPbufs, Counts
<1>5. \A f \in TxFrames : \A j \in {1, 2} : d[<<f, j>>] = IF f = g /\ j = i THEN c[<<f, j>>] - 1 ELSE c[<<f, j>>]
  BY <1>1, <1>2, <1>3, <1>4 DEF Counts
<1>6. d \in Counts
  BY <1>1, <1>2, <1>3, <1>4 DEF Counts
<1>7. CASE i = 2
  <2>1. q = Drop(r, b)
    BY <1>1, <1>2, <1>7 DEF pbuf_free
  <2>2. \A f \in TxFrames : q[<<f, 1>>] = r[<<f, 1>>] /\ q[<<f, 2>>] = IF f = g THEN r[<<f, 2>>] - 1 ELSE r[<<f, 2>>]
    <3>1. q = [r EXCEPT ![<<g, 2>>] = r[<<g, 2>>] - 1]
      BY <1>1, <1>7, <2>1 DEF Drop
    <3> SUFFICES ASSUME NEW f \in TxFrames
                 PROVE  q[<<f, 1>>] = r[<<f, 1>>] /\ q[<<f, 2>>] = IF f = g THEN r[<<f, 2>>] - 1 ELSE r[<<f, 2>>]
      BY Zenon
    <3>2. <<f, 1>> # <<g, 2>> /\ (<<f, 2>> = <<g, 2>> <=> f = g)
      OBVIOUS
    <3>3. <<f, 1>> \in TxPbufs /\ <<f, 2>> \in TxPbufs
      BY <1>4
    <3> QED BY <1>3, <3>1, <3>2, <3>3 DEF Counts
  <2>3. c[<<g, 2>>] > 0
    BY <1>1, <1>7
  <2>4. r[<<g, 2>>] >= c[<<g, 2>>] + One(r[<<g, 1>>] > 0 /\ r[<<g, 2>>] > 0)
    BY DEF Balanced
  <2>5. r[<<g, 2>>] > 0 /\ (r[<<g, 1>>] > 0 => r[<<g, 2>>] > 1)
    BY <1>4, <2>3, <2>4 DEF One
  <2>6. q \in Counts
    BY <1>1, <1>3, <1>4, <1>7, <2>1, <2>5 DEF Drop, Counts
  <2>7. Balanced(d, q, e)
    <3> SUFFICES ASSUME NEW f \in TxFrames
                 PROVE  LET link == One(q[<<f, 1>>] > 0 /\ q[<<f, 2>>] > 0)
                        IN  /\ q[<<f, 1>>] >= d[<<f, 1>>] /\ q[<<f, 2>>] >= d[<<f, 2>>] + link
                            /\ e => q[<<f, 1>>] = d[<<f, 1>>] /\ q[<<f, 2>>] = d[<<f, 2>>] + link
      BY <1>6, <2>6 DEF Balanced
    <3>1. /\ r[<<f, 1>>] >= c[<<f, 1>>] /\ r[<<f, 2>>] >= c[<<f, 2>>] + One(r[<<f, 1>>] > 0 /\ r[<<f, 2>>] > 0)
          /\ e => r[<<f, 1>>] = c[<<f, 1>>] /\ r[<<f, 2>>] = c[<<f, 2>>] + One(r[<<f, 1>>] > 0 /\ r[<<f, 2>>] > 0)
      BY DEF Balanced
    <3> QED BY <1>4, <1>5, <1>7, <2>2, <2>5, <3>1 DEF One
  <2>8. Stays(d, r, q)
    <3> SUFFICES ASSUME NEW f \in TxFrames, d[<<f, 1>>] > 0, r[<<f, 2>>] > 0 PROVE q[<<f, 2>>] > 0
      BY DEF Stays
    <3>1. d[<<f, 1>>] = c[<<f, 1>>] /\ r[<<f, 1>>] >= c[<<f, 1>>]
      BY <1>5, <1>7 DEF Balanced
    <3>2. r[<<f, 1>>] > 0
      BY <1>4, <3>1
    <3> QED BY <1>4, <2>2, <2>5, <3>2
  <2> QED BY <1>2, <2>7, <2>8
<1>8. CASE i = 1
  <2>1. c[<<g, 1>>] > 0 /\ r[<<g, 1>>] >= c[<<g, 1>>] /\ r[<<g, 1>>] > 0
    <3>1. c[<<g, 1>>] > 0
      BY <1>1, <1>8
    <3>2. r[<<g, 1>>] >= c[<<g, 1>>]
      BY Zenon DEF Balanced
    <3>3. c[<<g, 1>>] \in Nat /\ r[<<g, 1>>] \in Nat
      BY <1>4, Zenon
    <3> QED BY <3>1, <3>2, <3>3
  <2>2. PICK u : u = Drop(r, b)
    OBVIOUS
  <2>3. /\ u \in Counts
        /\ \A f \in TxFrames : u[<<f, 2>>] = r[<<f, 2>>] /\ u[<<f, 1>>] = IF f = g THEN r[<<f, 1>>] - 1 ELSE r[<<f, 1>>]
    BY <1>1, <1>3, <1>4, <1>8, <2>1, <2>2 DEF Drop, Counts
  <2>4. CASE r[<<g, 1>>] = 1 /\ r[<<g, 2>>] > 0
    <3>1. q = Drop(u, <<g, 2>>)
      BY <1>1, <1>2, <1>8, <2>2, <2>4 DEF pbuf_free
    <3>2. /\ q \in Counts
          /\ \A f \in TxFrames : q[<<f, 1>>] = u[<<f, 1>>] /\ q[<<f, 2>>] = IF f = g THEN u[<<f, 2>>] - 1 ELSE u[<<f, 2>>]
      BY <1>4, <2>3, <2>4, <3>1 DEF Drop, Counts
    <3>3. Balanced(d, q, e)
      <4> SUFFICES ASSUME NEW f \in TxFrames
                   PROVE  LET link == One(q[<<f, 1>>] > 0 /\ q[<<f, 2>>] > 0)
                          IN  /\ q[<<f, 1>>] >= d[<<f, 1>>] /\ q[<<f, 2>>] >= d[<<f, 2>>] + link
                              /\ e => q[<<f, 1>>] = d[<<f, 1>>] /\ q[<<f, 2>>] = d[<<f, 2>>] + link
        BY <1>6, <3>2 DEF Balanced
      <4>1. /\ r[<<f, 1>>] >= c[<<f, 1>>] /\ r[<<f, 2>>] >= c[<<f, 2>>] + One(r[<<f, 1>>] > 0 /\ r[<<f, 2>>] > 0)
            /\ e => r[<<f, 1>>] = c[<<f, 1>>] /\ r[<<f, 2>>] = c[<<f, 2>>] + One(r[<<f, 1>>] > 0 /\ r[<<f, 2>>] > 0)
        BY DEF Balanced
      <4> QED BY <1>4, <1>5, <1>8, <2>1, <2>3, <2>4, <3>2, <4>1 DEF One
    <3>4. Stays(d, r, q)
      <4> SUFFICES ASSUME NEW f \in TxFrames, d[<<f, 1>>] > 0, r[<<f, 2>>] > 0 PROVE q[<<f, 2>>] > 0
        BY DEF Stays
      <4>1. f # g
        BY <1>4, <1>5, <1>8, <2>1, <2>4
      <4> QED BY <2>3, <3>2, <4>1
    <3> QED BY <1>2, <3>3, <3>4
  <2>5. CASE ~(r[<<g, 1>>] = 1 /\ r[<<g, 2>>] > 0)
    <3>1. q = u
      BY <1>1, <1>2, <1>8, <2>2, <2>5 DEF pbuf_free
    <3>2. Balanced(d, q, e)
      <4> SUFFICES ASSUME NEW f \in TxFrames
                   PROVE  LET link == One(q[<<f, 1>>] > 0 /\ q[<<f, 2>>] > 0)
                          IN  /\ q[<<f, 1>>] >= d[<<f, 1>>] /\ q[<<f, 2>>] >= d[<<f, 2>>] + link
                              /\ e => q[<<f, 1>>] = d[<<f, 1>>] /\ q[<<f, 2>>] = d[<<f, 2>>] + link
        BY <1>6, <2>3, <3>1 DEF Balanced
      <4>1. /\ r[<<f, 1>>] >= c[<<f, 1>>] /\ r[<<f, 2>>] >= c[<<f, 2>>] + One(r[<<f, 1>>] > 0 /\ r[<<f, 2>>] > 0)
            /\ e => r[<<f, 1>>] = c[<<f, 1>>] /\ r[<<f, 2>>] = c[<<f, 2>>] + One(r[<<f, 1>>] > 0 /\ r[<<f, 2>>] > 0)
        BY DEF Balanced
      <4> QED BY <1>4, <1>5, <1>8, <2>1, <2>3, <2>5, <3>1, <4>1 DEF One
    <3>3. Stays(d, r, q)
      BY <2>3, <3>1 DEF Stays
    <3> QED BY <1>2, <3>2, <3>3
  <2> QED BY <2>4, <2>5
<1> QED BY <1>1, <1>7, <1>8

-----------------------------------------------------------------------------
(* Freeing the pbufs of descriptors one after the other *)

\* Without the pbufs of n descriptors from first on
Cleared(ring, first, n) == [i \in TxSlots |-> IF i \in Run(first, n) THEN NoPbuf ELSE ring[i]]

\* d has one reference to b less than c.
OneLess(c, d, b) == d = [c EXCEPT ![b] = @ - 1]

\* A descriptor is cleared: its reference goes.
LEMMA ClearCounts ==
    ASSUME NEW ring \in Ring, NEW s \in TxSlots, NEW h, NEW m,
           NEW ring2, ring2 = [ring EXCEPT ![s] = NoPbuf]
    PROVE  /\ ring[s] = NoPbuf => ring2 = ring
           /\ ring[s] # NoPbuf => /\ ring[s] \in TxPbufs /\ Refers(ring, h, m)[ring[s]] > 0
                                  /\ OneLess(Refers(ring, h, m), Refers(ring2, h, m), ring[s])
<1>1. ring[s] = NoPbuf => ring2 = ring
  BY DEF Ring
<1>2. ASSUME ring[s] # NoPbuf
      PROVE  /\ ring[s] \in TxPbufs /\ Refers(ring, h, m)[ring[s]] > 0
             /\ OneLess(Refers(ring, h, m), Refers(ring2, h, m), ring[s])
  <2>1. PICK b : b = ring[s]
    OBVIOUS
  <2>2. b \in TxPbufs
    BY <1>2, <2>1 DEF Ring
  <2>3. \A a \in TxPbufs \ {b} : Slotted(ring2, a) = Slotted(ring, a)
    BY <2>1, NotAPbuf DEF Slotted, Ring
  <2>4. Slotted(ring2, b) = Slotted(ring, b) \ {s} /\ s \in Slotted(ring, b)
    BY <2>1, <2>2, NotAPbuf DEF Slotted, Ring
  <2>5. IsFiniteSet(Slotted(ring, b)) /\ Cardinality(Slotted(ring, b)) \in Nat
    BY SlottedFinite
  <2>6. Cardinality(Slotted(ring2, b)) = Cardinality(Slotted(ring, b)) - 1
    BY <2>4, <2>5, FS_RemoveElement, Zenon
  <2>7. Cardinality(Slotted(ring2, b)) \in Nat
    BY SlottedFinite
  <2>8. PICK c, d : c = Refers(ring, h, m) /\ d = Refers(ring2, h, m)
    OBVIOUS
  <2>9. c \in Counts /\ d \in Counts
    BY <2>8, RefersType
  <2>10. \A a \in TxPbufs \ {b} : d[a] = c[a]
    BY <2>3, <2>8, Zenon DEF Refers
  <2>11. c[b] > 0 /\ d[b] = c[b] - 1
    BY <2>2, <2>5, <2>6, <2>7, <2>8 DEF Refers, One
  <2>12. OneLess(c, d, b)
    BY <2>2, <2>9, <2>10, <2>11 DEF Counts, OneLess
  <2> QED BY <2>1, <2>2, <2>8, <2>11, <2>12
<1> QED BY <1>1, <1>2

FreedStep(first, n, r) ==
    LET i == (first + n - 1) % TxN
    IN  IF txb[i] = NoPbuf THEN r ELSE pbuf_free(r, txb[i])
Frees(g, first, m) == g = [n \in 0 .. m |-> IF n = 0 THEN refs ELSE FreedStep(first, n, g[n - 1])]

\* The recursion of FreeFrom defines a function.
LEMMA FreesExists ==
    ASSUME NEW first
    PROVE  \A m \in Nat : \E g : Frees(g, first, m)
<1> DEFINE S == {m \in Nat : \E g : Frees(g, first, m)}
<1>1. 0 \in S
  <2>1. Frees([n \in 0 .. 0 |-> refs], first, 0)
    BY DEF Frees
  <2> QED BY <2>1
<1>2. ASSUME NEW m \in Nat, m \in S PROVE m + 1 \in S
  <2>1. PICK g : Frees(g, first, m)
    BY <1>2
  <2>2. PICK x : x = FreedStep(first, m + 1, g[m])
    OBVIOUS
  <2> DEFINE k == [n \in 0 .. m + 1 |-> IF n = m + 1 THEN x ELSE g[n]]
  <2>3. \A n \in 0 .. m : g[n] = IF n = 0 THEN refs ELSE FreedStep(first, n, g[n - 1])
    BY <2>1 DEF Frees
  <2>4. \A n \in 0 .. m + 1 : k[n] = IF n = 0 THEN refs ELSE FreedStep(first, n, k[n - 1])
    <3> SUFFICES ASSUME NEW n \in 0 .. m + 1
                 PROVE  k[n] = IF n = 0 THEN refs ELSE FreedStep(first, n, k[n - 1])
      OBVIOUS
    <3>1. CASE n = m + 1
      <4>1. n # 0 /\ k[n - 1] = g[m] /\ k[n] = x
        BY <3>1
      <4> QED BY <2>2, <3>1, <4>1
    <3>2. CASE n \in 0 .. m
      <4>1. k[n] = g[n] /\ (n # 0 => k[n - 1] = g[n - 1])
        BY <3>2
      <4> QED BY <2>3, <3>2, <4>1
    <3> QED BY <3>1, <3>2
  <2>5. k = [n \in 0 .. m + 1 |-> k[n]]
    OBVIOUS
  <2> HIDE DEF k
  <2>6. Frees(k, first, m + 1)
    BY <2>4, <2>5, Zenon DEF Frees
  <2> QED BY <2>6
<1> HIDE DEF S
<1>3. Nat \subseteq S
  BY <1>1, <1>2, Induct
<1> QED BY <1>3 DEF S

\* The counts after FreeFrom, for any number of descriptors
LEMMA FreeFromBalances ==
    ASSUME txb \in Ring, NEW first \in TxSlots, NEW count \in 0 .. TxN, NEW h, NEW m, NEW e,
           Balanced(Refers(txb, h, m), refs, e)
    PROVE  /\ Balanced(Refers(Cleared(txb, first, count), h, m), FreeFrom(first, count), e)
           /\ \A f \in h \cap TxFrames : refs[<<f, 2>>] > 0 => FreeFrom(first, count)[<<f, 2>>] > 0
<1> DEFINE P(g) == g = [n \in 0 .. TxN |-> IF n = 0 THEN refs
                          ELSE LET i == (first + n - 1) % TxN
                               IN  IF txb[i] = NoPbuf THEN g[n - 1] ELSE pbuf_free(g[n - 1], txb[i])]
<1>1. PICK F : F = CHOOSE g : P(g)
  OBVIOUS
<1>2. FreeFrom(first, count) = F[count]
  BY <1>1 DEF FreeFrom
<1>3. Frees(F, first, TxN)
  <2>1. \A g : P(g) <=> Frees(g, first, TxN)
    BY DEF Frees, FreedStep
  <2>2. \E g : Frees(g, first, TxN)
    BY FreesExists, TxAssumption
  <2> HIDE DEF P
  <2> QED BY <1>1, <2>1, <2>2
<1>4. F[0] = refs /\ \A n \in 1 .. TxN : F[n] = FreedStep(first, n, F[n - 1])
  BY <1>3, TxAssumption DEF Frees
<1> DEFINE Good(n) == /\ Balanced(Refers(Cleared(txb, first, n), h, m), F[n], e)
                      /\ \A f \in h \cap TxFrames : refs[<<f, 2>>] > 0 => F[n][<<f, 2>>] > 0
           S == {n \in Nat : n <= TxN => Good(n)}
<1>5. 0 \in S
  <2>1. Cleared(txb, first, 0) = txb
    BY RunAll DEF Cleared, Ring
  <2> QED BY <1>4, <2>1
<1>6. ASSUME NEW n \in Nat, n \in S PROVE n + 1 \in S
  <2> SUFFICES ASSUME n + 1 <= TxN PROVE Good(n + 1)
    OBVIOUS
  <2>1. Good(n) /\ n + 1 \in 1 .. TxN
    BY <1>6, TxAssumption
  <2>2. PICK s : s = (first + (n + 1) - 1) % TxN
    OBVIOUS
  <2>3. Run(first, n + 1) = Run(first, n) \cup {s} /\ s \in TxSlots \ Run(first, n)
    <3>1. (n + 1) - 1 = n
      OBVIOUS
    <3> QED BY <2>1, <2>2, <3>1, RunStep
  <2>4. PICK a, b : a = Cleared(txb, first, n) /\ b = Cleared(txb, first, n + 1)
    OBVIOUS
  <2>5. a \in Ring /\ a[s] = txb[s]
    BY <2>3, <2>4 DEF Cleared, Ring
  <2>6. b = [a EXCEPT ![s] = NoPbuf]
    BY <2>3, <2>4 DEF Cleared
  <2>7. PICK c, r : c = Refers(a, h, m) /\ r = F[n]
    OBVIOUS
  <2>8. Balanced(c, r, e)
    BY <2>1, <2>4, <2>7
  <2>9. F[n + 1] = IF txb[s] = NoPbuf THEN r ELSE pbuf_free(r, txb[s])
    <3>1. F[n + 1] = FreedStep(first, n + 1, F[(n + 1) - 1]) /\ (n + 1) - 1 = n
      BY <1>4, <2>1
    <3> QED BY <2>2, <2>7, <3>1 DEF FreedStep
  <2>10. CASE txb[s] = NoPbuf
    <3>1. b = a
      BY <2>3, <2>5, <2>6, <2>10, ClearCounts
    <3> QED BY <2>1, <2>4, <2>7, <2>9, <2>10, <3>1
  <2>11. CASE txb[s] # NoPbuf
    <3>1. PICK p : p = txb[s]
      OBVIOUS
    <3>2. p \in TxPbufs /\ c[p] > 0 /\ Refers(b, h, m) = [c EXCEPT ![p] = @ - 1]
      <4>1. s \in TxSlots /\ a[s] # NoPbuf /\ p = a[s]
        BY <2>3, <2>5, <2>11, <3>1
      <4>2. /\ a[s] \in TxPbufs /\ Refers(a, h, m)[a[s]] > 0
            /\ OneLess(Refers(a, h, m), Refers(b, h, m), a[s])
        BY <2>5, <2>6, <4>1, ClearCounts, Zenon
      <4> QED BY <2>7, <4>1, <4>2 DEF OneLess
    <3>3. PICK d, q : d = [c EXCEPT ![p] = @ - 1] /\ q = pbuf_free(r, p)
      BY Zenon
    <3>4. Balanced(d, q, e) /\ Stays(d, r, q)
      BY <2>8, <3>2, <3>3, FreeBalances, Zenon
    <3>5. F[n + 1] = q /\ Refers(b, h, m) = d
      BY <2>9, <2>11, <3>1, <3>2, <3>3
    <3>6. ASSUME NEW f \in h \cap TxFrames, refs[<<f, 2>>] > 0 PROVE q[<<f, 2>>] > 0
      <4>1. r[<<f, 2>>] > 0
        BY <2>1, <2>7, <3>6
      <4>2. d[<<f, 1>>] > 0
        <5>1. <<f, 1>> \in TxPbufs /\ Cardinality(Slotted(b, <<f, 1>>)) \in Nat
          BY SlottedFinite DEF TxPbufs
        <5>2. d[<<f, 1>>] = Cardinality(Slotted(b, <<f, 1>>)) + One(TRUE) + One(m.copied /\ m.chain[1] = <<f, 1>>)
          BY <3>5, <3>6, <5>1 DEF Refers, One
        <5> QED BY <5>1, <5>2 DEF One
      <4> QED BY <3>4, <4>1, <4>2 DEF Stays
    <3> QED BY <2>4, <3>4, <3>5, <3>6
  <2> QED BY <2>10, <2>11
<1>7. Nat \subseteq S
  <2> HIDE DEF S
  <2> QED BY <1>5, <1>6, Induct
<1>8. Good(count)
  BY <1>7, TxAssumption
<1> QED BY <1>2, <1>8

-----------------------------------------------------------------------------
(* The inductive invariant *)

\* What lpc_low_level_output is about to queue: pbufs of a frame that the stack
\* refers to, or a copy.
Sendable(s, r, h) ==
    \/ s = Idle
    \/ \E f \in TxFrames :
         \/ f \in h /\ s = [chain |-> <<<<f, 1>>>>, copied |-> FALSE]
         \/ f \in h /\ r[<<f, 2>>] > 0 /\ s = [chain |-> <<<<f, 1>>, <<f, 2>>>>, copied |-> FALSE]
         \/ s = [chain |-> <<<<f, 1>>>>, copied |-> TRUE]

\* lpc_last_tx_idx, TxConsumeIndex and TxProduceIndex follow one another round
\* the ring, and descriptors the EMAC has yet to read hold pbufs.
Ordered(ring, l, c, p, e) ==
    /\ ring \in Ring /\ l \in TxSlots /\ c \in TxSlots /\ p \in TxSlots
    /\ TxAhead(l, c) + TxAhead(c, p) < TxN
    /\ \A i \in Run(c, TxAhead(c, p)) : ring[i] # NoPbuf
    /\ e => \A i \in TxSlots : ring[i] # NoPbuf => i \in Run(l, TxAhead(l, c)) \cup Run(c, TxAhead(c, p))

\* The ring has had room for all that was queued.
Kept == ~overfilled

\* What only other parts of the state change leaves it as it is.
LEMMA KeptStays == Kept \in BOOLEAN /\ (overfilled' = overfilled => Kept' = Kept)
BY DEF Kept

\* The counts come to the references known.
TxInv ==
    /\ Ordered(txb, lpc_last_tx_idx, TxConsumeIndex, TxProduceIndex, Kept)
    /\ underrun \in BOOLEAN /\ overfilled \in BOOLEAN /\ tx_held \subseteq TxFrames
    /\ Balanced(Refers(txb, tx_held, sending), refs, Kept)
    /\ Sendable(sending, refs, tx_held)

\* Taking the descriptors before TxConsumeIndex out of the ring
LEMMA ReclaimOrders ==
    ASSUME NEW ring, NEW l, NEW c, NEW p, NEW e, Ordered(ring, l, c, p, e)
    PROVE  /\ Ordered(Cleared(ring, l, TxAhead(l, c)), c, c, p, e)
           /\ e => \A i \in TxSlots : Cleared(ring, l, TxAhead(l, c))[i] # NoPbuf => i \in Run(c, TxAhead(c, p))
<1>1. PICK a, b, d : a = TxAhead(l, c) /\ b = TxAhead(c, p) /\ d = Cleared(ring, l, a)
  OBVIOUS
<1>2. l \in TxSlots /\ c \in TxSlots /\ p \in TxSlots /\ ring \in Ring /\ a \in 0 .. TxN - 1 /\ b \in 0 .. TxN - 1 /\ a + b < TxN
  BY <1>1, TxAheadInRing DEF Ordered
<1>3. TxAhead(c, c) = 0
  BY <1>2, TxAheadInRing, TxAssumption DEF TxSlots
<1>4. Run(l, a) \cap Run(c, b) = {}
  <2> SUFFICES ASSUME NEW i \in TxSlots, TxAhead(l, i) < a, TxAhead(c, i) < b PROVE FALSE
    BY DEF Run
  <2>1. /\ TxAhead(l, i) = IF l <= i THEN i - l ELSE i - l + TxN
        /\ TxAhead(c, i) = IF c <= i THEN i - c ELSE i - c + TxN
        /\ a = IF l <= c THEN c - l ELSE c - l + TxN
    BY <1>1, <1>2, TxAheadInRing
  <2> QED BY <1>2, <2>1, TxAssumption DEF TxSlots
<1>5. d \in Ring /\ \A i \in TxSlots : d[i] = IF i \in Run(l, a) THEN NoPbuf ELSE ring[i]
  BY <1>1, <1>2 DEF Cleared, Ring
<1>6. \A i \in Run(c, b) : d[i] # NoPbuf
  <2>1. \A i \in Run(c, b) : ring[i] # NoPbuf /\ i \in TxSlots
    BY <1>1 DEF Ordered, Run
  <2> QED BY <1>4, <1>5, <2>1
<1>7. e => \A i \in TxSlots : d[i] # NoPbuf => i \in Run(c, b)
  <2>1. e => \A i \in TxSlots : ring[i] # NoPbuf => i \in Run(l, a) \cup Run(c, b)
    BY <1>1 DEF Ordered
  <2> QED BY <1>5, <2>1
<1>8. Ordered(d, c, c, p, e)
  <2>1. TxAhead(c, c) + b < TxN
    BY <1>2, <1>3, TxAssumption
  <2>2. e => \A i \in TxSlots : d[i] # NoPbuf => i \in Run(c, TxAhead(c, c)) \cup Run(c, b)
    BY <1>7
  <2> QED BY <1>1, <1>2, <1>5, <1>6, <2>1, <2>2 DEF Ordered
<1> QED BY <1>1, <1>7, <1>8

\* lpc_tx_reclaim_st clears what the EMAC has read and drops the references to it.
LEMMA Reclaims ==
    ASSUME TxInv
    PROVE  /\ Ordered(ReclaimedTxb, TxConsumeIndex, TxConsumeIndex, TxProduceIndex, Kept)
           /\ Kept => \A i \in TxSlots : ReclaimedTxb[i] # NoPbuf => i \in Run(TxConsumeIndex, TxAhead(TxConsumeIndex, TxProduceIndex))
           /\ Balanced(Refers(ReclaimedTxb, tx_held, sending), ReclaimedRefs, Kept)
           /\ Sendable(sending, ReclaimedRefs, tx_held)
<1>1. /\ txb \in Ring /\ lpc_last_tx_idx \in TxSlots /\ TxConsumeIndex \in TxSlots /\ Kept \in BOOLEAN
      /\ TxAhead(lpc_last_tx_idx, TxConsumeIndex) \in 0 .. TxN
      /\ Ordered(txb, lpc_last_tx_idx, TxConsumeIndex, TxProduceIndex, Kept)
  <2>1. /\ txb \in Ring /\ lpc_last_tx_idx \in TxSlots /\ TxConsumeIndex \in TxSlots /\ Kept \in BOOLEAN
        /\ Ordered(txb, lpc_last_tx_idx, TxConsumeIndex, TxProduceIndex, Kept)
    BY KeptStays DEF TxInv, Ordered
  <2>2. TxAhead(lpc_last_tx_idx, TxConsumeIndex) \in 0 .. TxN - 1
    BY <2>1, TxAheadInRing
  <2> QED BY <2>1, <2>2, TxAssumption
<1>2. ReclaimedTxb = Cleared(txb, lpc_last_tx_idx, TxAhead(lpc_last_tx_idx, TxConsumeIndex))
  BY <1>1, RunBetween DEF ReclaimedTxb, Cleared
<1>3. ReclaimedRefs = FreeFrom(lpc_last_tx_idx, TxAhead(lpc_last_tx_idx, TxConsumeIndex))
  BY DEF ReclaimedRefs, TxAhead
<1>4. Balanced(Refers(txb, tx_held, sending), refs, Kept) /\ tx_held \subseteq TxFrames
  BY DEF TxInv
<1>5. /\ Balanced(Refers(ReclaimedTxb, tx_held, sending), ReclaimedRefs, Kept)
      /\ \A f \in tx_held \cap TxFrames : refs[<<f, 2>>] > 0 => ReclaimedRefs[<<f, 2>>] > 0
  BY <1>1, <1>2, <1>3, <1>4, FreeFromBalances
<1>6. Sendable(sending, ReclaimedRefs, tx_held)
  BY <1>5, Zenon DEF TxInv, Sendable
<1> QED BY <1>1, <1>2, <1>5, <1>6, ReclaimOrders

\* A call of it keeps the invariant, from net_service or from the waiting loop.
LEMMA ReclaimKeeps ==
    ASSUME TxInv, refs' = ReclaimedRefs, txb' = ReclaimedTxb, lpc_last_tx_idx' = TxConsumeIndex,
           UNCHANGED <<TxProduceIndex, TxConsumeIndex, underrun, tx_held, sending, overfilled>>
    PROVE  TxInv'
BY Reclaims, KeptStays DEF TxInv

-----------------------------------------------------------------------------
(* The stack and the EMAC *)

\* The pbufs of a frame nobody refers to
LEMMA FreeFrameUnreferred ==
    ASSUME NEW ring, NEW h, NEW s, NEW r, NEW e, Balanced(Refers(ring, h, s), r, e), NEW f \in TxFrames,
           r[<<f, 1>>] = 0, r[<<f, 2>>] = 0
    PROVE  /\ Refers(ring, h, s)[<<f, 1>>] = 0 /\ Refers(ring, h, s)[<<f, 2>>] = 0 /\ f \notin h
           /\ Cardinality(Slotted(ring, <<f, 1>>)) = 0
<1>1. PICK c : c = Refers(ring, h, s)
  OBVIOUS
<1>2. <<f, 1>> \in TxPbufs /\ <<f, 2>> \in TxPbufs
  BY DEF TxPbufs
<1>3. c[<<f, 1>>] \in Nat /\ c[<<f, 2>>] \in Nat
  BY <1>1, <1>2, RefersType DEF Counts
<1>4. c[<<f, 1>>] = 0 /\ c[<<f, 2>>] = 0
  <2>1. 0 >= c[<<f, 1>>] /\ 0 >= c[<<f, 2>>] + One(r[<<f, 1>>] > 0 /\ r[<<f, 2>>] > 0)
    BY <1>1 DEF Balanced
  <2> QED BY <1>3, <2>1 DEF One
<1>5. Cardinality(Slotted(ring, <<f, 1>>)) \in Nat
  BY SlottedFinite
<1>6. c[<<f, 1>>] = Cardinality(Slotted(ring, <<f, 1>>)) + One(f \in h) + One(s.copied /\ s.chain[1] = <<f, 1>>)
  BY <1>1, <1>2 DEF Refers, One
<1> QED BY <1>1, <1>4, <1>5, <1>6 DEF One

\* pbuf_alloc: the first pbuf of a new frame has one reference.
LEMMA AllocBalances ==
    ASSUME NEW c, NEW r, NEW e, Balanced(c, r, e), NEW f \in TxFrames, r[<<f, 1>>] = 0, r[<<f, 2>>] = 0,
           c[<<f, 2>>] = 0, NEW n \in {1, 2}, NEW d \in Counts, d[<<f, 1>>] = 1,
           \A b \in TxPbufs \ {<<f, 1>>} : d[b] = c[b]
    PROVE  Balanced(d, Alloc(r, f, n), e)
<1>1. PICK q, q1 : q = Alloc(r, f, n) /\ q1 = [r EXCEPT ![<<f, 1>>] = 1]
  BY Zenon
<1>2. q = [q1 EXCEPT ![<<f, 2>>] = n - 1]
  BY <1>1 DEF Alloc
<1>3. r \in Counts /\ c \in Counts
  BY DEF Balanced
<1>4. \A g \in TxFrames : <<g, 1>> \in TxPbufs /\ <<g, 2>> \in TxPbufs /\ <<g, 1>> # <<f, 2>> /\ <<g, 2>> # <<f, 1>>
  BY DEF TxPbufs
<1>5. q1 \in Counts /\ q1[<<f, 1>>] = 1 /\ \A b \in TxPbufs \ {<<f, 1>>} : q1[b] = r[b]
  BY <1>1, <1>3, <1>4 DEF Counts
<1>6. q \in Counts /\ q[<<f, 2>>] = n - 1 /\ \A b \in TxPbufs \ {<<f, 2>>} : q[b] = q1[b]
  BY <1>2, <1>4, <1>5 DEF Counts
<1>7. ASSUME NEW g \in TxFrames
      PROVE  LET link == One(q[<<g, 1>>] > 0 /\ q[<<g, 2>>] > 0)
             IN  /\ q[<<g, 1>>] >= d[<<g, 1>>] /\ q[<<g, 2>>] >= d[<<g, 2>>] + link
                 /\ e => q[<<g, 1>>] = d[<<g, 1>>] /\ q[<<g, 2>>] = d[<<g, 2>>] + link
  <2>1. CASE g = f
    <3>1. q[<<g, 1>>] = 1 /\ q[<<g, 2>>] = n - 1 /\ d[<<g, 1>>] = 1 /\ d[<<g, 2>>] = 0
      BY <1>4, <1>5, <1>6, <2>1
    <3> QED BY <3>1 DEF One
  <2>2. CASE g # f
    <3>1. q[<<g, 1>>] = r[<<g, 1>>] /\ q[<<g, 2>>] = r[<<g, 2>>] /\ d[<<g, 1>>] = c[<<g, 1>>] /\ d[<<g, 2>>] = c[<<g, 2>>]
      <4>1. <<g, 1>> # <<f, 1>> /\ <<g, 2>> # <<f, 2>>
        BY <2>2
      <4> QED BY <1>4, <1>5, <1>6, <4>1
    <3> QED BY <3>1 DEF Balanced
  <2> QED BY <2>1, <2>2
<1> QED BY <1>1, <1>6, <1>7 DEF Balanced

\* A new frame has the reference of the stack.
LEMMA MakesKeeps == ASSUME TxInv, StackMakes PROVE TxInv'
<1>1. PICK f \in FreeFrames, n \in {1, 2} : refs' = Alloc(refs, f, n) /\ tx_held' = tx_held \cup {f}
  BY DEF StackMakes
<1>2. UNCHANGED <<txb, TxProduceIndex, TxConsumeIndex, underrun, lpc_last_tx_idx, sending, overfilled>> /\ sending = Idle
  BY DEF StackMakes
<1>3. f \in TxFrames /\ refs[<<f, 1>>] = 0 /\ refs[<<f, 2>>] = 0
  BY <1>1 DEF FreeFrames
<1>4. PICK c, d : c = Refers(txb, tx_held, Idle) /\ d = Refers(txb, tx_held \cup {f}, Idle)
  OBVIOUS
<1>5. Balanced(c, refs, Kept)
  BY <1>2, <1>4 DEF TxInv
<1>6. c[<<f, 1>>] = 0 /\ c[<<f, 2>>] = 0 /\ f \notin tx_held /\ Cardinality(Slotted(txb, <<f, 1>>)) = 0
  <2>1. Balanced(Refers(txb, tx_held, Idle), refs, Kept)
    BY <1>4, <1>5
  <2>2. /\ Refers(txb, tx_held, Idle)[<<f, 1>>] = 0 /\ Refers(txb, tx_held, Idle)[<<f, 2>>] = 0
        /\ f \notin tx_held /\ Cardinality(Slotted(txb, <<f, 1>>)) = 0
    BY <1>3, <2>1, FreeFrameUnreferred
  <2> QED BY <1>4, <2>2
<1>7. d \in Counts
  BY <1>4, RefersType
<1>8. d[<<f, 1>>] = 1
  BY <1>3, <1>4, <1>6 DEF Refers, One, Idle, TxPbufs
<1>9. ASSUME NEW b \in TxPbufs \ {<<f, 1>>} PROVE d[b] = c[b]
  <2>1. (b[2] = 1 /\ b[1] \in tx_held \cup {f}) <=> (b[2] = 1 /\ b[1] \in tx_held)
    BY <1>9 DEF TxPbufs
  <2> QED BY <1>4, <2>1 DEF Refers, One
<1>10. Balanced(d, refs', Kept)
  BY <1>1, <1>3, <1>5, <1>6, <1>7, <1>8, <1>9, AllocBalances
<1> QED BY <1>1, <1>2, <1>3, <1>4, <1>10, KeptStays DEF TxInv, Sendable

\* A frame the stack drops stays for as long as the ring refers to it.
LEMMA DropsKeeps == ASSUME TxInv, StackDrops PROVE TxInv'
<1>1. PICK f \in tx_held : refs' = pbuf_free(refs, <<f, 1>>) /\ tx_held' = tx_held \ {f}
  BY DEF StackDrops
<1>2. UNCHANGED <<txb, TxProduceIndex, TxConsumeIndex, underrun, lpc_last_tx_idx, sending, overfilled>> /\ sending = Idle
  BY DEF StackDrops
<1>3. f \in TxFrames /\ <<f, 1>> \in TxPbufs
  BY <1>1 DEF TxInv, TxPbufs
<1>4. PICK c, d : c = Refers(txb, tx_held, Idle) /\ d = Refers(txb, tx_held \ {f}, Idle)
  OBVIOUS
<1>5. Balanced(c, refs, Kept)
  BY <1>2, <1>4 DEF TxInv
<1>6. c \in Counts /\ d \in Counts
  BY <1>4, RefersType
<1>7. c[<<f, 1>>] > 0 /\ d[<<f, 1>>] = c[<<f, 1>>] - 1
  <2>1. Cardinality(Slotted(txb, <<f, 1>>)) \in Nat
    BY SlottedFinite
  <2>2. c[<<f, 1>>] = Cardinality(Slotted(txb, <<f, 1>>)) + 1 /\ d[<<f, 1>>] = Cardinality(Slotted(txb, <<f, 1>>))
    BY <1>1, <1>3, <1>4, <2>1 DEF Refers, One, Idle
  <2> QED BY <2>1, <2>2
<1>8. ASSUME NEW b \in TxPbufs \ {<<f, 1>>} PROVE d[b] = c[b]
  <2>1. (b[2] = 1 /\ b[1] \in tx_held \ {f}) <=> (b[2] = 1 /\ b[1] \in tx_held)
    BY <1>8 DEF TxPbufs
  <2> QED BY <1>4, <2>1 DEF Refers, One
<1>9. d = [c EXCEPT ![<<f, 1>>] = @ - 1]
  BY <1>3, <1>6, <1>7, <1>8 DEF Counts
<1>10. Balanced(d, refs', Kept)
  BY <1>1, <1>3, <1>5, <1>7, <1>9, FreeBalances, Zenon
<1> QED BY <1>1, <1>2, <1>4, <1>10, KeptStays DEF TxInv, Sendable

\* The EMAC goes on to the next descriptor.
LEMMA TransmitKeeps == ASSUME TxInv, HwTransmit PROVE TxInv'
<1>1. /\ TxConsumeIndex # TxProduceIndex /\ TxConsumeIndex' = After(TxConsumeIndex)
      /\ UNCHANGED <<txb, TxProduceIndex, underrun, lpc_last_tx_idx, txrefs, sending, overfilled>>
  BY DEF HwTransmit
<1>2. PICK l, c, p, n : l = lpc_last_tx_idx /\ c = TxConsumeIndex /\ p = TxProduceIndex /\ n = After(c)
  OBVIOUS
<1>3. /\ Ordered(txb, l, c, p, Kept) /\ l \in TxSlots /\ c \in TxSlots /\ p \in TxSlots /\ c # p
      /\ n \in TxSlots /\ n = IF c = TxN - 1 THEN 0 ELSE c + 1
  BY <1>1, <1>2, AfterInRing DEF TxInv, Ordered
<1>4. \A i \in TxSlots : /\ TxAhead(c, i) = IF c <= i THEN i - c ELSE i - c + TxN
                         /\ TxAhead(n, i) = IF n <= i THEN i - n ELSE i - n + TxN
                         /\ TxAhead(l, i) = IF l <= i THEN i - l ELSE i - l + TxN
  BY <1>3, TxAheadInRing
<1>5. TxAhead(l, c) + TxAhead(c, p) < TxN
  BY <1>3 DEF Ordered
<1>6. TxAhead(l, n) = TxAhead(l, c) + 1 /\ TxAhead(n, p) = TxAhead(c, p) - 1
  <2>1. /\ TxAhead(c, p) = IF c <= p THEN p - c ELSE p - c + TxN
        /\ TxAhead(n, p) = IF n <= p THEN p - n ELSE p - n + TxN
        /\ TxAhead(l, c) = IF l <= c THEN c - l ELSE c - l + TxN
        /\ TxAhead(l, n) = IF l <= n THEN n - l ELSE n - l + TxN
    BY <1>3, <1>4
  <2>2. l \in Int /\ c \in Int /\ p \in Int /\ n \in Int /\ TxN \in Int
    BY <1>3, TxAssumption DEF TxSlots
  <2>3. 0 <= l /\ l < TxN /\ 0 <= c /\ c < TxN /\ 0 <= p /\ p < TxN
    BY <1>3, TxAssumption DEF TxSlots
  <2>4. CASE c = TxN - 1
    BY <1>3, <1>5, <2>1, <2>2, <2>3, <2>4
  <2>5. CASE c # TxN - 1
    BY <1>3, <1>5, <2>1, <2>2, <2>3, <2>5
  <2> QED BY <2>4, <2>5
<1>7. TxAhead(l, c) \in 0 .. TxN - 1 /\ TxAhead(c, p) \in 0 .. TxN - 1
  BY <1>3, TxAheadInRing
<1>8. Run(n, TxAhead(n, p)) \subseteq Run(c, TxAhead(c, p))
  <2> SUFFICES ASSUME NEW i \in TxSlots, TxAhead(n, i) < TxAhead(n, p) PROVE TxAhead(c, i) < TxAhead(c, p)
    BY DEF Run
  <2> QED BY <1>3, <1>4, TxAssumption DEF TxSlots
<1>9. Run(l, TxAhead(l, c)) \cup Run(c, TxAhead(c, p)) \subseteq Run(l, TxAhead(l, n)) \cup Run(n, TxAhead(n, p))
  <2>1. ASSUME NEW i \in TxSlots, TxAhead(l, i) < TxAhead(l, c) PROVE TxAhead(l, i) < TxAhead(l, n)
    BY <1>6, <1>7, <2>1, TxAheadInRing, <1>3, TxAssumption
  <2>2. ASSUME NEW i \in TxSlots, TxAhead(c, i) < TxAhead(c, p)
        PROVE  TxAhead(l, i) < TxAhead(l, n) \/ TxAhead(n, i) < TxAhead(n, p)
    <3>1. CASE i = c
      <4>1. TxAhead(l, i) \in Int
        BY <1>7, <3>1
      <4> QED BY <1>6, <1>7, <3>1, <4>1
    <3>2. CASE i # c
      <4>1. TxAhead(n, i) = TxAhead(c, i) - 1
        <5>1. TxAhead(c, i) = IF c <= i THEN i - c ELSE i - c + TxN
          BY <1>4
        <5>2. TxAhead(n, i) = IF n <= i THEN i - n ELSE i - n + TxN
          BY <1>4
        <5>3. c \in 0 .. TxN - 1 /\ i \in 0 .. TxN - 1 /\ TxN \in Nat
          BY <1>3, TxAssumption DEF TxSlots
        <5> QED BY <1>3, <3>2, <5>1, <5>2, <5>3
      <4>2. TxAhead(c, i) \in Int
        BY <1>3, TxAheadInRing, TxAssumption
      <4> QED BY <1>6, <1>7, <2>2, <4>1, <4>2
    <3> QED BY <3>1, <3>2
  <2> QED BY <2>1, <2>2 DEF Run
<1>10. TxAhead(l, n) + TxAhead(n, p) < TxN
  BY <1>5, <1>6, <1>7, TxAssumption
<1>11. Ordered(txb, l, n, p, Kept)
  BY <1>3, <1>8, <1>9, <1>10 DEF Ordered
<1> QED BY <1>1, <1>2, <1>11, KeptStays DEF TxInv, txrefs

-----------------------------------------------------------------------------
(* lpc_low_level_output *)

\* Up to its wait, before a chain has been chosen: after an underrun all
\* descriptors are empty, and the counts still come to the references.
LEMMA ResetBalances ==
    ASSUME TxInv, LowLevelOutput, NEW before, before = IF underrun THEN ResetRefs ELSE refs
    PROVE  /\ Ordered(txb', lpc_last_tx_idx', TxConsumeIndex', TxProduceIndex', Kept)
           /\ Balanced(Refers(txb', tx_held, Idle), before, Kept)
           /\ \A f \in tx_held : refs[<<f, 2>>] > 0 => before[<<f, 2>>] > 0
<1>1. /\ txb \in Ring /\ Balanced(Refers(txb, tx_held, Idle), refs, Kept) /\ tx_held \subseteq TxFrames
      /\ TxConsumeIndex \in TxSlots /\ TxProduceIndex \in TxSlots
  BY DEF TxInv, Ordered, LowLevelOutput
<1>2. CASE underrun
  <2>1. txb' = [i \in TxSlots |-> NoPbuf] /\ TxProduceIndex' = 0 /\ TxConsumeIndex' = 0 /\ lpc_last_tx_idx' = 0
    BY <1>2 DEF LowLevelOutput
  <2>2. before = FreeFrom(0, TxN) /\ 0 \in TxSlots /\ TxN \in 0 .. TxN
    BY <1>2, TxAssumption DEF ResetRefs, TxSlots
  <2>3. txb' = Cleared(txb, 0, TxN)
    BY <2>1, <2>2, RunAll DEF Cleared
  <2>4. /\ Balanced(Refers(Cleared(txb, 0, TxN), tx_held, Idle), FreeFrom(0, TxN), Kept)
        /\ \A f \in tx_held \cap TxFrames : refs[<<f, 2>>] > 0 => FreeFrom(0, TxN)[<<f, 2>>] > 0
    BY <1>1, <2>2, FreeFromBalances
  <2>5. TxAhead(0, 0) = 0
    BY <2>2, TxAheadInRing
  <2>6. Ordered([i \in TxSlots |-> NoPbuf], 0, 0, 0, Kept)
    <3>1. Run(0, 0) = {}
      BY <2>2, RunAll
    <3> QED BY <2>2, <2>5, <3>1, TxAssumption DEF Ordered, Ring
  <2> QED BY <1>1, <1>2, <2>1, <2>2, <2>3, <2>4, <2>5, <2>6
<1>3. CASE ~underrun
  <2>1. UNCHANGED <<txb, TxProduceIndex, TxConsumeIndex, lpc_last_tx_idx>>
    BY <1>3 DEF LowLevelOutput
  <2> QED BY <1>1, <1>3, <2>1 DEF TxInv
<1> QED BY <1>2, <1>3

\* lpc_low_level_output, up to its wait, keeps the invariant.
LEMMA OutputKeeps == ASSUME TxInv, LowLevelOutput PROVE TxInv'
<1>1. PICK before : before = IF underrun THEN ResetRefs ELSE refs
  OBVIOUS
<1>2. /\ Ordered(txb', lpc_last_tx_idx', TxConsumeIndex', TxProduceIndex', Kept)
      /\ Balanced(Refers(txb', tx_held, Idle), before, Kept)
      /\ \A f \in tx_held : refs[<<f, 2>>] > 0 => before[<<f, 2>>] > 0
  BY <1>1, ResetBalances
<1>3. Kept' = Kept /\ overfilled' = overfilled /\ tx_held' = tx_held /\ underrun' = FALSE
  BY KeptStays DEF LowLevelOutput
<1>4. tx_held \subseteq TxFrames /\ overfilled \in BOOLEAN
  BY DEF TxInv
<1>5. SUFFICES Balanced(Refers(txb', tx_held, sending'), refs', Kept) /\ Sendable(sending', refs', tx_held)
  BY <1>2, <1>3, <1>4, Zenon DEF TxInv
<1>6. PICK f \in tx_held :
        \/ sending' = [chain |-> Chain(f), copied |-> FALSE] /\ refs' = before
        \/ \E g \in TxFrames :
             /\ \A i \in {1, 2} : before[<<g, i>>] = 0
             /\ sending' = [chain |-> <<<<g, 1>>>>, copied |-> TRUE]
             /\ refs' = Alloc(before, g, 1)
        \/ sending' = Idle /\ refs' = before
  BY <1>1, Zenon DEF LowLevelOutput
<1>7. CASE sending' = [chain |-> Chain(f), copied |-> FALSE] /\ refs' = before
  <2>1. Refers(txb', tx_held, sending') = Refers(txb', tx_held, Idle)
    BY <1>7 DEF Refers, Idle, One
  <2>2. Sendable(sending', refs', tx_held)
    BY <1>2, <1>4, <1>6, <1>7, Zenon DEF Sendable, Chain
  <2> QED BY <1>2, <1>7, <2>1, <2>2
<1>8. CASE \E g \in TxFrames :
             /\ \A i \in {1, 2} : before[<<g, i>>] = 0
             /\ sending' = [chain |-> <<<<g, 1>>>>, copied |-> TRUE]
             /\ refs' = Alloc(before, g, 1)
  <2>1. PICK g \in TxFrames :
             /\ \A i \in {1, 2} : before[<<g, i>>] = 0
             /\ sending' = [chain |-> <<<<g, 1>>>>, copied |-> TRUE]
             /\ refs' = Alloc(before, g, 1)
    BY <1>8, Zenon
  <2>2. Sendable(sending', refs', tx_held)
    BY <2>1, Zenon DEF Sendable
  <2>3. PICK ring, s, c, d : ring = txb' /\ s = sending' /\ c = Refers(ring, tx_held, Idle) /\ d = Refers(ring, tx_held, s)
    OBVIOUS
  <2>4. before[<<g, 1>>] = 0 /\ before[<<g, 2>>] = 0 /\ Balanced(c, before, Kept)
    BY <1>2, <2>1, <2>3
  <2>5. c[<<g, 1>>] = 0 /\ c[<<g, 2>>] = 0 /\ g \notin tx_held /\ Cardinality(Slotted(ring, <<g, 1>>)) = 0
    <3>1. Balanced(Refers(ring, tx_held, Idle), before, Kept)
      BY <2>3, <2>4
    <3>2. /\ Refers(ring, tx_held, Idle)[<<g, 1>>] = 0 /\ Refers(ring, tx_held, Idle)[<<g, 2>>] = 0
          /\ g \notin tx_held /\ Cardinality(Slotted(ring, <<g, 1>>)) = 0
      BY <2>4, <3>1, FreeFrameUnreferred
    <3> QED BY <2>3, <3>2
  <2>6. d \in Counts
    BY <2>3, RefersType
  <2>7. s.copied = TRUE /\ s.chain[1] = <<g, 1>>
    BY <2>1, <2>3
  <2>8. d[<<g, 1>>] = 1
    BY <2>3, <2>5, <2>7 DEF Refers, One, TxPbufs
  <2>9. ASSUME NEW b \in TxPbufs \ {<<g, 1>>} PROVE d[b] = c[b]
    <3>1. s.chain[1] # b
      BY <2>7
    <3>2. ~(Idle.copied /\ Idle.chain[1] = b)
      BY DEF Idle
    <3> QED BY <2>3, <3>1, <3>2 DEF Refers, One
  <2>10. Balanced(d, Alloc(before, g, 1), Kept)
    BY <2>4, <2>5, <2>6, <2>8, <2>9, AllocBalances
  <2> QED BY <2>1, <2>2, <2>3, <2>10
<1>9. CASE sending' = Idle /\ refs' = before
  BY <1>2, <1>9, Zenon DEF Sendable
<1> QED BY <1>6, <1>7, <1>8, <1>9, Zenon

\* One descriptor more holds x.
PutAt(ring, ring2, s, x) == ring2 = [ring EXCEPT ![s] = x]

\* The reference to x is one more, and none is lost when the descriptor was empty.
LEMMA PutCounts ==
    ASSUME NEW ring \in Ring, NEW s \in TxSlots, NEW x \in TxPbufs, NEW ring2, PutAt(ring, ring2, s, x), NEW b \in TxPbufs
    PROVE  /\ Cardinality(Slotted(ring2, b)) <= Cardinality(Slotted(ring, b)) + One(b = x)
           /\ ring[s] = NoPbuf => Cardinality(Slotted(ring2, b)) = Cardinality(Slotted(ring, b)) + One(b = x)
<1>1. PICK u, v : u = Slotted(ring, b) /\ v = Slotted(ring2, b)
  OBVIOUS
<1>2. IsFiniteSet(u) /\ Cardinality(u) \in Nat /\ IsFiniteSet(v) /\ Cardinality(v) \in Nat
  BY <1>1, SlottedFinite
<1>3. \A i \in TxSlots : ring2[i] = IF i = s THEN x ELSE ring[i]
  BY DEF PutAt, Ring
<1>4. CASE b = x
  <2>1. v = u \cup {s} /\ (ring[s] = NoPbuf => s \notin u)
    BY <1>1, <1>3, <1>4, NotAPbuf DEF Slotted
  <2>2. Cardinality(u \cup {s}) = IF s \in u THEN Cardinality(u) ELSE Cardinality(u) + 1
    BY <1>2, FS_AddElement, Zenon
  <2> QED BY <1>1, <1>2, <1>4, <2>1, <2>2 DEF One
<1>5. CASE b # x
  <2>1. v \subseteq u /\ (ring[s] = NoPbuf => v = u)
    BY <1>1, <1>3, <1>5, NotAPbuf DEF Slotted
  <2>2. Cardinality(v) <= Cardinality(u)
    BY <1>2, <2>1, FS_Subset
  <2> QED BY <1>1, <1>2, <1>5, <2>1, <2>2 DEF One
<1> QED BY <1>4, <1>5

\* The descriptor at TxProduceIndex is given to the EMAC; it was empty if there was room.
LEMMA PutOrders ==
    ASSUME NEW ring, NEW c, NEW p, NEW e, Ordered(ring, c, c, p, e), NEW x \in TxPbufs, NEW ring2, PutAt(ring, ring2, p, x)
    PROVE  /\ Ordered(ring2, c, c, After(p), e) \/ (e /\ TxAhead(c, p) + 1 >= TxN)
           /\ TxAhead(c, p) + 1 < TxN => TxAhead(c, After(p)) = TxAhead(c, p) + 1
           /\ e => ring[p] = NoPbuf
<1>1. PICK a, q, n : a = TxAhead(c, p) /\ q = After(p) /\ n = TxAhead(c, q)
  OBVIOUS
<1>2. ring \in Ring /\ c \in TxSlots /\ p \in TxSlots /\ q \in TxSlots /\ q = IF p = TxN - 1 THEN 0 ELSE p + 1
  BY <1>1, AfterInRing DEF Ordered
<1>3. TxAhead(c, c) = 0 /\ Run(c, 0) = {}
  BY <1>2, TxAheadInRing, RunAll, TxAssumption DEF TxSlots
<1>4. a \in 0 .. TxN - 1 /\ n \in 0 .. TxN - 1 /\ a = (IF c <= p THEN p - c ELSE p - c + TxN)
      /\ n = (IF c <= q THEN q - c ELSE q - c + TxN)
  BY <1>1, <1>2, TxAheadInRing
<1>5. n = IF a + 1 < TxN THEN a + 1 ELSE 0
  BY <1>2, <1>4, TxAssumption DEF TxSlots
<1>6. e => ring[p] = NoPbuf
  <2>1. p \notin Run(c, a)
    <3>1. ~(a < a)
      BY <1>4, TxAssumption
    <3> QED BY <1>1, <3>1 DEF Run
  <2> QED BY <1>1, <1>2, <1>3, <2>1 DEF Ordered
<1>7. ring2 \in Ring /\ \A i \in TxSlots : ring2[i] = IF i = p THEN x ELSE ring[i]
  BY <1>2 DEF PutAt, Ring
<1>8. \A i \in TxSlots : TxAhead(c, i) < a + 1 <=> (TxAhead(c, i) < a \/ i = p)
  <2> SUFFICES ASSUME NEW i \in TxSlots PROVE TxAhead(c, i) < a + 1 <=> (TxAhead(c, i) < a \/ i = p)
    OBVIOUS
  <2>1. TxAhead(c, i) = IF c <= i THEN i - c ELSE i - c + TxN
    BY <1>2, TxAheadInRing
  <2> QED BY <1>2, <1>4, <2>1, TxAssumption DEF TxSlots
<1>9. ASSUME e => a + 1 < TxN PROVE Ordered(ring2, c, c, q, e)
  <2>1. \A i \in Run(c, n) : ring2[i] # NoPbuf
    <3> SUFFICES ASSUME NEW i \in TxSlots, TxAhead(c, i) < n PROVE ring2[i] # NoPbuf
      BY DEF Run
    <3>1. TxAhead(c, i) \in 0 .. TxN - 1
      BY <1>2, TxAheadInRing
    <3>2. TxAhead(c, i) < a + 1
      BY <1>4, <1>5, <3>1, TxAssumption
    <3>3. TxAhead(c, i) < a => ring[i] # NoPbuf
      BY <1>1 DEF Ordered, Run
    <3> QED BY <1>7, <1>8, <3>2, <3>3, NotAPbuf
  <2>2. ASSUME e, NEW i \in TxSlots, ring2[i] # NoPbuf PROVE i \in Run(c, n)
    <3>1. n = a + 1
      BY <1>5, <1>9, <2>2
    <3>2. CASE i = p
      BY <1>8, <3>1, <3>2 DEF Run
    <3>3. CASE i # p
      <4>1. i \in Run(c, a)
        BY <1>1, <1>3, <1>7, <2>2, <3>3 DEF Ordered
      <4> QED BY <1>8, <3>1, <4>1 DEF Run
    <3> QED BY <3>2, <3>3
  <2>3. TxAhead(c, c) + TxAhead(c, q) < TxN
    BY <1>1, <1>3, <1>4, TxAssumption
  <2> QED BY <1>1, <1>2, <1>7, <2>1, <2>2, <2>3 DEF Ordered
<1>10. TxAhead(c, p) \in Int /\ TxN \in Int
  BY <1>1, <1>4, TxAssumption
<1>11. (e => a + 1 < TxN) \/ (e /\ TxAhead(c, p) + 1 >= TxN)
  BY <1>1, <1>10
<1> QED BY <1>1, <1>5, <1>6, <1>9, <1>11

\* The counts rise with the references, for pbufs that had one.
LEMMA QueueBalances ==
    ASSUME NEW c, NEW r, NEW e, Balanced(c, r, e), NEW c2 \in Counts, NEW r2 \in Counts, NEW m \in Counts,
           \A b \in TxPbufs : /\ r2[b] = r[b] + m[b] /\ c2[b] <= c[b] + m[b] /\ (e => c2[b] = c[b] + m[b])
                              /\ m[b] > 0 => r[b] > 0
    PROVE  Balanced(c2, r2, e)
<1> SUFFICES ASSUME NEW f \in TxFrames
             PROVE  LET link == One(r2[<<f, 1>>] > 0 /\ r2[<<f, 2>>] > 0)
                    IN  /\ r2[<<f, 1>>] >= c2[<<f, 1>>] /\ r2[<<f, 2>>] >= c2[<<f, 2>>] + link
                        /\ e => r2[<<f, 1>>] = c2[<<f, 1>>] /\ r2[<<f, 2>>] = c2[<<f, 2>>] + link
  BY DEF Balanced
<1>1. <<f, 1>> \in TxPbufs /\ <<f, 2>> \in TxPbufs
  BY DEF TxPbufs
<1>2. \A b \in TxPbufs : {c[b], r[b], m[b], c2[b], r2[b]} \subseteq Nat
  BY DEF Balanced, Counts
<1>0. ASSUME NEW b \in TxPbufs PROVE r2[b] > 0 <=> r[b] > 0
  <2>1. r2[b] = r[b] + m[b] /\ (m[b] > 0 => r[b] > 0)
    OBVIOUS
  <2>2. r[b] \in Nat /\ m[b] \in Nat
    BY <1>2
  <2>3. PICK u, v \in Nat : u = r[b] /\ v = m[b]
    BY <2>2, Zenon
  <2>4. u + v > 0 <=> u > 0 \/ v > 0
    BY <2>3
  <2> QED BY <2>1, <2>3, <2>4, Zenon
<1>3. r2[<<f, 1>>] > 0 <=> r[<<f, 1>>] > 0
  BY <1>0, <1>1
<1>4. r2[<<f, 2>>] > 0 <=> r[<<f, 2>>] > 0
  BY <1>0, <1>1
<1>5. PICK k \in {0, 1} : k = One(r[<<f, 1>>] > 0 /\ r[<<f, 2>>] > 0) /\ k = One(r2[<<f, 1>>] > 0 /\ r2[<<f, 2>>] > 0)
  BY <1>3, <1>4 DEF One
<1>6. /\ r[<<f, 1>>] >= c[<<f, 1>>] /\ r[<<f, 2>>] >= c[<<f, 2>>] + k
      /\ e => r[<<f, 1>>] = c[<<f, 1>>] /\ r[<<f, 2>>] = c[<<f, 2>>] + k
  BY <1>5 DEF Balanced
<1>7. r2[<<f, 1>>] >= c2[<<f, 1>>] /\ r2[<<f, 2>>] >= c2[<<f, 2>>] + k
  BY <1>1, <1>2, <1>6
<1>8. e => r2[<<f, 1>>] = c2[<<f, 1>>] /\ r2[<<f, 2>>] = c2[<<f, 2>>] + k
  BY <1>1, <1>2, <1>6
<1> QED BY <1>5, <1>7, <1>8

\* What the queueing of a chain of one, or of two, comes to
LEMMA QueueOne ==
    ASSUME TxInv, OutputQueue, NEW x \in TxPbufs, sending.chain = <<x>>, ReclaimedRefs \in Counts
    PROVE  /\ PutAt(ReclaimedTxb, txb', TxProduceIndex, x) /\ TxProduceIndex' = After(TxProduceIndex)
           /\ refs' = [b \in TxPbufs |-> ReclaimedRefs[b] + IF sending.copied THEN 0 ELSE One(b = x)]
<1>1. PICK p : p = TxProduceIndex
  OBVIOUS
<1>2. p \in TxSlots /\ Len(sending.chain) = 1 /\ sending.chain[1] = x
  <2>1. p \in TxSlots
    BY <1>1, Zenon DEF TxInv, Ordered
  <2>2. Len(<<x>>) = 1 /\ <<x>>[1] = x
    OBVIOUS
  <2> QED BY <2>1, <2>2
<1>3. (p + 1 - 1) % TxN = p
  BY <1>2, TxAssumption DEF TxSlots
<1>4. (p + (1 + 1) - 1) % TxN = After(p)
  <2>1. (p + 1) % TxN = IF p + 1 < TxN THEN p + 1 ELSE p + 1 - TxN
    BY <1>2, SlotInRing, TxAssumption
  <2>2. p + (1 + 1) - 1 = p + 1
    BY <1>2 DEF TxSlots
  <2> QED BY <1>2, <2>1, <2>2, TxAssumption DEF After, TxSlots
<1>5. TxProduceIndex' = After(TxProduceIndex)
  BY <1>1, <1>2, <1>4 DEF OutputQueue
<1>6. PutAt(ReclaimedTxb, txb', p, x)
  <2>1. txb' = [i \in TxSlots |->
                  IF \E k \in 1 .. 1 : i = (p + k - 1) % TxN
                  THEN sending.chain[CHOOSE k \in 1 .. 1 : i = (p + k - 1) % TxN]
                  ELSE ReclaimedTxb[i]]
    BY <1>1, <1>2 DEF OutputQueue
  <2>2. \A i \in TxSlots : (\E k \in 1 .. 1 : i = (p + k - 1) % TxN) <=> i = p
    BY <1>3
  <2>3. \A i \in TxSlots : i = p => (CHOOSE k \in 1 .. 1 : i = (p + k - 1) % TxN) = 1
    BY <1>3
  <2>4. txb' = [i \in TxSlots |-> IF i = p THEN x ELSE ReclaimedTxb[i]]
    BY <1>2, <2>1, <2>2, <2>3
  <2>5. ReclaimedTxb = [i \in TxSlots |-> ReclaimedTxb[i]]
    BY DEF ReclaimedTxb
  <2> QED BY <1>2, <2>4, <2>5 DEF PutAt
<1>7. ASSUME NEW b \in TxPbufs PROVE Cardinality({k \in 1 .. 1 : sending.chain[k] = b}) = One(b = x)
  <2>1. CASE b = x
    <3>1. {k \in 1 .. 1 : sending.chain[k] = b} = {1}
      BY <1>2, <2>1
    <3> QED BY <2>1, <3>1, FS_Singleton DEF One
  <2>2. CASE b # x
    <3>1. {k \in 1 .. 1 : sending.chain[k] = b} = {}
      BY <1>2, <2>2
    <3> QED BY <2>2, <3>1, FS_EmptySet DEF One
  <2> QED BY <2>1, <2>2
<1>8. refs' = [b \in TxPbufs |-> ReclaimedRefs[b] + IF sending.copied THEN 0 ELSE Cardinality({k \in 1 .. 1 : sending.chain[k] = b})]
  BY <1>2 DEF OutputQueue
<1> QED BY <1>1, <1>5, <1>6, <1>7, <1>8

\* The same of a chain of two.
LEMMA QueueTwo ==
    ASSUME TxInv, OutputQueue, NEW x \in TxPbufs, NEW y \in TxPbufs, x # y, sending.chain = <<x, y>>,
           ~sending.copied
    PROVE  /\ \E mid : PutAt(ReclaimedTxb, mid, TxProduceIndex, x) /\ PutAt(mid, txb', After(TxProduceIndex), y)
           /\ TxProduceIndex' = After(After(TxProduceIndex))
           /\ refs' = [b \in TxPbufs |-> ReclaimedRefs[b] + (One(b = x) + One(b = y))]
<1>1. PICK p, q : p = TxProduceIndex /\ q = After(p)
  OBVIOUS
<1>2. p \in TxSlots /\ q \in TxSlots /\ Len(sending.chain) = 2 /\ sending.chain[1] = x /\ sending.chain[2] = y
  <2>1. p \in TxSlots
    BY <1>1 DEF TxInv, Ordered
  <2>2. q \in TxSlots
    BY <1>1, <2>1, AfterInRing
  <2>3. Len(<<x, y>>) = 2 /\ <<x, y>>[1] = x /\ <<x, y>>[2] = y
    OBVIOUS
  <2> QED BY <2>1, <2>2, <2>3
<1>3. (p + 1 - 1) % TxN = p
  BY <1>2, TxAssumption DEF TxSlots
<1>4. (p + 2 - 1) % TxN = q /\ p # q
  <2>1. (p + 1) % TxN = IF p + 1 < TxN THEN p + 1 ELSE p + 1 - TxN
    BY <1>2, SlotInRing, TxAssumption
  <2>2. p + 2 - 1 = p + 1
    BY <1>2 DEF TxSlots
  <2> QED BY <1>1, <1>2, <2>1, <2>2, TxAssumption DEF After, TxSlots
<1>5. (p + (2 + 1) - 1) % TxN = After(q)
  <2>1. (p + 2) % TxN = IF p + 2 < TxN THEN p + 2 ELSE p + 2 - TxN
    BY <1>2, SlotInRing, TxAssumption
  <2>2. p + (2 + 1) - 1 = p + 2
    BY <1>2 DEF TxSlots
  <2> QED BY <1>1, <1>2, <2>1, <2>2, TxAssumption DEF After, TxSlots
<1>6. TxProduceIndex' = After(q)
  BY <1>1, <1>2, <1>5 DEF OutputQueue
<1>7. \E mid : PutAt(ReclaimedTxb, mid, p, x) /\ PutAt(mid, txb', q, y)
  <2>1. txb' = [i \in TxSlots |->
                  IF \E k \in 1 .. 2 : i = (p + k - 1) % TxN
                  THEN sending.chain[CHOOSE k \in 1 .. 2 : i = (p + k - 1) % TxN]
                  ELSE ReclaimedTxb[i]]
    BY <1>1, <1>2 DEF OutputQueue
  <2>2. \A k \in 1 .. 2 : k = 1 \/ k = 2
    OBVIOUS
  <2>3. \A i \in TxSlots : (\E k \in 1 .. 2 : i = (p + k - 1) % TxN) <=> i = p \/ i = q
    BY <1>3, <1>4, <2>2
  <2>4. (CHOOSE k \in 1 .. 2 : p = (p + k - 1) % TxN) = 1
    BY <1>3, <1>4, <2>2
  <2>5. (CHOOSE k \in 1 .. 2 : q = (p + k - 1) % TxN) = 2
    BY <1>3, <1>4, <2>2
  <2>6. txb' = [i \in TxSlots |-> IF i = q THEN y ELSE IF i = p THEN x ELSE ReclaimedTxb[i]]
    <3>1. \A i \in TxSlots : txb'[i] = IF i = q THEN y ELSE IF i = p THEN x ELSE ReclaimedTxb[i]
      <4> SUFFICES ASSUME NEW i \in TxSlots PROVE txb'[i] = IF i = q THEN y ELSE IF i = p THEN x ELSE ReclaimedTxb[i]
        OBVIOUS
      <4>1. CASE i = p
        BY <1>2, <1>4, <2>1, <2>3, <2>4, <4>1
      <4>2. CASE i = q
        BY <1>2, <1>4, <2>1, <2>3, <2>5, <4>2
      <4>3. CASE i # p /\ i # q
        BY <2>1, <2>3, <4>3
      <4> QED BY <4>1, <4>2, <4>3
    <3> QED BY <2>1, <3>1, Zenon
  <2>7. PICK ring : ring = ReclaimedTxb
    OBVIOUS
  <2>8. ring = [i \in TxSlots |-> ring[i]]
    BY <2>7 DEF ReclaimedTxb
  <2>9. PICK mid : mid = [ring EXCEPT ![p] = x]
    BY Zenon
  <2>10. mid = [i \in TxSlots |-> IF i = p THEN x ELSE ring[i]]
    BY <2>8, <2>9
  <2>11. txb' = [mid EXCEPT ![q] = y]
    BY <2>6, <2>7, <2>10
  <2> QED BY <2>7, <2>9, <2>11, Zenon DEF PutAt
<1>8. ASSUME NEW b \in TxPbufs PROVE Cardinality({k \in 1 .. 2 : sending.chain[k] = b}) = One(b = x) + One(b = y)
  <2>0. 1 .. 2 = {1, 2}
    OBVIOUS
  <2>1. CASE b = x
    <3>1. {k \in 1 .. 2 : sending.chain[k] = b} = {1}
      BY <1>2, <2>0, <2>1
    <3> QED BY <2>1, <3>1, FS_Singleton DEF One
  <2>2. CASE b = y
    <3>1. {k \in 1 .. 2 : sending.chain[k] = b} = {2}
      BY <1>2, <2>0, <2>2
    <3>2. Cardinality({2}) = 1
      BY FS_Singleton
    <3>3. One(b = x) = 0 /\ One(b = y) = 1
      BY <2>2 DEF One
    <3> QED BY <3>1, <3>2, <3>3
  <2>3. CASE b # x /\ b # y
    <3>1. {k \in 1 .. 2 : sending.chain[k] = b} = {}
      BY <1>2, <2>0, <2>3
    <3> QED BY <2>3, <3>1, FS_EmptySet DEF One
  <2> QED BY <2>1, <2>2, <2>3
<1>9. refs' = [b \in TxPbufs |-> ReclaimedRefs[b] + Cardinality({k \in 1 .. 2 : sending.chain[k] = b})]
  BY <1>2 DEF OutputQueue
<1> QED BY <1>1, <1>6, <1>7, <1>8, <1>9

\* The queueing of a chain keeps the invariant.
LEMMA QueueKeeps == ASSUME TxInv, OutputQueue PROVE TxInv'
<1>1. PICK ring, r, p, k : ring = ReclaimedTxb /\ r = ReclaimedRefs /\ p = TxProduceIndex /\ k = TxConsumeIndex
  OBVIOUS
<1>2. /\ lpc_last_tx_idx' = k /\ sending' = Idle /\ TxConsumeIndex' = k /\ sending # Idle
      /\ UNCHANGED <<underrun, tx_held>>
      /\ overfilled' = (overfilled \/ ~HasRoom(Len(sending.chain)))
  BY <1>1 DEF OutputQueue
<1>3. PICK e \in BOOLEAN : e = Kept'
  BY KeptStays DEF Kept
<1>4. /\ underrun \in BOOLEAN /\ overfilled' \in BOOLEAN /\ tx_held \subseteq TxFrames
      /\ Ordered(ring, k, k, p, e) /\ Balanced(Refers(ring, tx_held, sending), r, e)
      /\ Sendable(sending, r, tx_held)
      /\ e => TxAhead(k, p) + Len(sending.chain) < TxN
  <2>1. underrun \in BOOLEAN /\ overfilled' \in BOOLEAN /\ tx_held \subseteq TxFrames
    BY <1>2 DEF TxInv
  <2>2. /\ Ordered(ring, k, k, p, Kept) /\ Balanced(Refers(ring, tx_held, sending), r, Kept)
        /\ Sendable(sending, r, tx_held)
    BY <1>1, Reclaims
  <2>3. e => Kept /\ HasRoom(Len(sending.chain))
    BY <1>2, <1>3 DEF Kept
  <2>4. PICK n : n = TxAhead(k, p)
    OBVIOUS
  <2>5. k \in TxSlots /\ p \in TxSlots
    BY <2>2 DEF Ordered
  <2>6. n \in 0 .. TxN - 1
    BY <2>4, <2>5, TxAheadInRing
  <2>7. Cardinality(Owned) = n
    <3>1. n \in 0 .. TxN
      BY <2>6, TxAssumption
    <3> QED BY <1>1, <2>4, <2>5, <3>1, RunBetween, RunCount DEF Owned
  <2>8. Len(sending.chain) \in Nat
    <3>1. PICK f \in TxFrames :
            \/ sending = [chain |-> <<<<f, 1>>>>, copied |-> FALSE]
            \/ sending = [chain |-> <<<<f, 1>>, <<f, 2>>>>, copied |-> FALSE]
            \/ sending = [chain |-> <<<<f, 1>>>>, copied |-> TRUE]
      BY <1>2, <2>2, Zenon DEF Sendable
    <3>2. sending.chain = <<<<f, 1>>>> \/ sending.chain = <<<<f, 1>>, <<f, 2>>>>
      BY <3>1
    <3>3. Len(<<<<f, 1>>>>) = 1 /\ Len(<<<<f, 1>>, <<f, 2>>>>) = 2
      OBVIOUS
    <3> QED BY <3>2, <3>3
  <2>9. e => n + Len(sending.chain) < TxN
    BY <2>3, <2>6, <2>7, <2>8, TxAssumption DEF HasRoom
  <2>10. Ordered(ring, k, k, p, e)
    BY <2>2, <2>3, Zenon DEF Ordered
  <2>11. Balanced(Refers(ring, tx_held, sending), r, e)
    BY <2>2, <2>3, Zenon DEF Balanced
  <2> QED BY <2>1, <2>2, <2>4, <2>9, <2>10, <2>11
<1>5. PICK c, c2 : c = Refers(ring, tx_held, sending) /\ c2 = Refers(txb', tx_held, Idle)
  OBVIOUS
<1>6. c \in Counts /\ c2 \in Counts /\ r \in Counts /\ ring \in Ring /\ p \in TxSlots /\ k \in TxSlots
  BY <1>4, <1>5, RefersType DEF Balanced, Ordered
<1>7. TxAhead(k, p) \in 0 .. TxN - 1
  BY <1>6, TxAheadInRing
<1>8. SUFFICES Ordered(txb', k, k, TxProduceIndex', e) /\ Balanced(c2, refs', e)
  BY <1>2, <1>3, <1>4, <1>5, Zenon DEF TxInv, Sendable
<1>9. \A b \in TxPbufs : /\ c[b] = Cardinality(Slotted(ring, b)) + One(b[2] = 1 /\ b[1] \in tx_held) + One(sending.copied /\ sending.chain[1] = b)
                         /\ c2[b] = Cardinality(Slotted(txb', b)) + One(b[2] = 1 /\ b[1] \in tx_held)
                         /\ Cardinality(Slotted(ring, b)) \in Nat /\ Cardinality(Slotted(txb', b)) \in Nat
  <2> SUFFICES ASSUME NEW b \in TxPbufs
               PROVE  /\ c[b] = Cardinality(Slotted(ring, b)) + One(b[2] = 1 /\ b[1] \in tx_held) + One(sending.copied /\ sending.chain[1] = b)
                      /\ c2[b] = Cardinality(Slotted(txb', b)) + One(b[2] = 1 /\ b[1] \in tx_held)
                      /\ Cardinality(Slotted(ring, b)) \in Nat /\ Cardinality(Slotted(txb', b)) \in Nat
    OBVIOUS
  <2>1. c[b] = Cardinality(Slotted(ring, b)) + One(b[2] = 1 /\ b[1] \in tx_held) + One(sending.copied /\ sending.chain[1] = b)
    BY <1>5 DEF Refers
  <2>2. c2[b] = Cardinality(Slotted(txb', b)) + One(b[2] = 1 /\ b[1] \in tx_held) + One(Idle.copied /\ Idle.chain[1] = b)
    BY <1>5 DEF Refers
  <2>3. One(Idle.copied /\ Idle.chain[1] = b) = 0 /\ One(b[2] = 1 /\ b[1] \in tx_held) \in Nat
    BY DEF Idle, One
  <2>4. Cardinality(Slotted(ring, b)) \in Nat /\ Cardinality(Slotted(txb', b)) \in Nat
    BY SlottedFinite
  <2>5. c2[b] = Cardinality(Slotted(txb', b)) + One(b[2] = 1 /\ b[1] \in tx_held)
    <3>1. PICK u, v, w : /\ u = Cardinality(Slotted(txb', b)) /\ v = One(b[2] = 1 /\ b[1] \in tx_held)
                         /\ w = One(Idle.copied /\ Idle.chain[1] = b)
      OBVIOUS
    <3>2. c2[b] = u + v + w /\ w = 0 /\ u \in Nat /\ v \in Nat
      BY <2>2, <2>3, <2>4, <3>1, Zenon
    <3>3. c2[b] = u + v
      BY <3>2
    <3> QED BY <3>1, <3>3, Zenon
  <2> QED BY <2>1, <2>4, <2>5, Zenon
<1>10. ASSUME NEW x \in TxPbufs, sending.chain = <<x>>, sending.copied \in BOOLEAN, sending.copied \/ (x[2] = 1 /\ x[1] \in tx_held)
       PROVE  Ordered(txb', k, k, TxProduceIndex', e) /\ Balanced(c2, refs', e)
  <2>1. /\ PutAt(ring, txb', p, x) /\ TxProduceIndex' = After(p)
        /\ refs' = [b \in TxPbufs |-> r[b] + IF sending.copied THEN 0 ELSE One(b = x)]
    BY <1>1, <1>6, <1>10, QueueOne
  <2>2. e => TxAhead(k, p) + 1 < TxN
    BY <1>4, <1>10
  <2>3. Ordered(txb', k, k, After(p), e) /\ (e => ring[p] = NoPbuf)
    <3>1. /\ Ordered(txb', k, k, After(p), e) \/ (e /\ TxAhead(k, p) + 1 >= TxN)
          /\ e => ring[p] = NoPbuf
      BY <1>4, <1>10, <2>1, PutOrders, Zenon
    <3>2. ~(e /\ TxAhead(k, p) + 1 >= TxN)
      BY <1>7, <2>2, TxAssumption
    <3> QED BY <3>1, <3>2
  <2>4. PICK m : m = [b \in TxPbufs |-> IF sending.copied THEN 0 ELSE One(b = x)]
    BY Zenon
  <2>5. m \in Counts
    BY <2>4 DEF Counts, One
  <2>6. refs' \in Counts /\ \A b \in TxPbufs : refs'[b] = r[b] + m[b]
    BY <1>6, <2>1, <2>4, <2>5 DEF Counts
  <2>7. ASSUME NEW b \in TxPbufs
        PROVE  c2[b] <= c[b] + m[b] /\ (e => c2[b] = c[b] + m[b]) /\ (m[b] > 0 => r[b] > 0)
    <3>1. /\ Cardinality(Slotted(txb', b)) <= Cardinality(Slotted(ring, b)) + One(b = x)
          /\ ring[p] = NoPbuf => Cardinality(Slotted(txb', b)) = Cardinality(Slotted(ring, b)) + One(b = x)
      <4>1. PICK ring2 : ring2 = txb'
        OBVIOUS
      <4>2. PutAt(ring, ring2, p, x)
        BY <2>1, <4>1
      <4>3. /\ Cardinality(Slotted(ring2, b)) <= Cardinality(Slotted(ring, b)) + One(b = x)
            /\ ring[p] = NoPbuf => Cardinality(Slotted(ring2, b)) = Cardinality(Slotted(ring, b)) + One(b = x)
        BY <1>6, <4>2, PutCounts
      <4> QED BY <4>1, <4>3
    <3>2. One(b = x) = m[b] + One(sending.copied /\ sending.chain[1] = b)
      BY <1>10, <2>4 DEF One
    <3>3. m[b] \in Nat /\ One(sending.copied /\ sending.chain[1] = b) \in Nat /\ One(b[2] = 1 /\ b[1] \in tx_held) \in Nat
      BY <2>5 DEF Counts, One
    <3>4. c2[b] <= c[b] + m[b] /\ (e => c2[b] = c[b] + m[b])
      <4>1. PICK n, n2, o, w, z : /\ n = Cardinality(Slotted(ring, b)) /\ n2 = Cardinality(Slotted(txb', b))
                                  /\ o = One(b[2] = 1 /\ b[1] \in tx_held) /\ w = One(b = x)
                                  /\ z = One(sending.copied /\ sending.chain[1] = b)
        OBVIOUS
      <4>2. c[b] = n + o + z /\ c2[b] = n2 + o /\ n \in Nat /\ n2 \in Nat
        BY <1>9, <4>1
      <4>3. n2 <= n + w /\ (e => n2 = n + w) /\ w = m[b] + z /\ m[b] \in Nat /\ z \in Nat /\ o \in Nat
        BY <2>3, <3>1, <3>2, <3>3, <4>1, Zenon
      <4>4. c2[b] <= c[b] + m[b]
        BY <4>2, <4>3
      <4>5. ASSUME e PROVE c2[b] = c[b] + m[b]
        BY <4>2, <4>3, <4>5
      <4> QED BY <4>4, <4>5
    <3>5. ASSUME m[b] > 0 PROVE r[b] > 0
      <4>1. b = x /\ ~sending.copied
        BY <2>4, <3>5 DEF One
      <4>2. c[b] > 0
        <5>1. PICK n, o, z : /\ n = Cardinality(Slotted(ring, b)) /\ o = One(b[2] = 1 /\ b[1] \in tx_held)
                             /\ z = One(sending.copied /\ sending.chain[1] = b)
          OBVIOUS
        <5>2. c[b] = n + o + z /\ n \in Nat
          BY <1>9, <5>1
        <5>3. o = 1 /\ z \in Nat
          BY <1>10, <4>1, <5>1 DEF One
        <5> QED BY <5>2, <5>3
      <4>3. r[b] >= c[b]
        <5>1. PICK f \in TxFrames : b = <<f, 1>>
          BY <1>10, <4>1 DEF TxPbufs
        <5> QED BY <1>4, <1>5, <5>1, Zenon DEF Balanced
      <4>4. r[b] \in Nat /\ c[b] \in Nat
        BY <1>6 DEF Counts
      <4> QED BY <4>2, <4>3, <4>4
    <3> QED BY <3>4, <3>5
  <2>8. Balanced(c2, refs', e)
    BY <1>4, <1>5, <1>6, <2>5, <2>6, <2>7, QueueBalances
  <2> QED BY <2>1, <2>3, <2>8
<1>11. ASSUME NEW f \in tx_held, r[<<f, 2>>] > 0, sending = [chain |-> <<<<f, 1>>, <<f, 2>>>>, copied |-> FALSE]
       PROVE  Ordered(txb', k, k, TxProduceIndex', e) /\ Balanced(c2, refs', e)
  <2>1. PICK x, y : x = <<f, 1>> /\ y = <<f, 2>>
    BY Zenon
  <2>2. x \in TxPbufs /\ y \in TxPbufs /\ x # y /\ sending.chain = <<x, y>> /\ ~sending.copied /\ f \in TxFrames
    <3>1. f \in TxFrames /\ x \in TxPbufs /\ y \in TxPbufs
      BY <1>4, <2>1 DEF TxPbufs
    <3>2. x # y
      BY <2>1
    <3>3. sending.chain = <<<<f, 1>>, <<f, 2>>>> /\ ~sending.copied
      BY <1>11
    <3> QED BY <2>1, <3>1, <3>2, <3>3, Zenon
  <2>3. /\ \E mid : PutAt(ring, mid, p, x) /\ PutAt(mid, txb', After(p), y)
        /\ TxProduceIndex' = After(After(p))
        /\ refs' = [b \in TxPbufs |-> r[b] + (One(b = x) + One(b = y))]
    <3>1. /\ \E mid : PutAt(ReclaimedTxb, mid, TxProduceIndex, x) /\ PutAt(mid, txb', After(TxProduceIndex), y)
          /\ TxProduceIndex' = After(After(TxProduceIndex))
          /\ refs' = [b \in TxPbufs |-> ReclaimedRefs[b] + (One(b = x) + One(b = y))]
      BY <2>2, QueueTwo
    <3> QED BY <1>1, <3>1
  <2>4. PICK mid : PutAt(ring, mid, p, x) /\ PutAt(mid, txb', After(p), y)
    BY <2>3
  <2>5. e => TxAhead(k, p) + 2 < TxN
    BY <1>4, <2>2
  <2>6. Ordered(mid, k, k, After(p), e) /\ (e => ring[p] = NoPbuf) /\ (e => TxAhead(k, After(p)) + 1 < TxN)
    <3>1. /\ Ordered(mid, k, k, After(p), e) \/ (e /\ TxAhead(k, p) + 1 >= TxN)
          /\ TxAhead(k, p) + 1 < TxN => TxAhead(k, After(p)) = TxAhead(k, p) + 1
          /\ e => ring[p] = NoPbuf
      BY <1>4, <2>2, <2>4, PutOrders, Zenon
    <3> QED BY <1>7, <2>5, <3>1, TxAssumption
  <2>7. After(p) \in TxSlots /\ TxAhead(k, After(p)) \in 0 .. TxN - 1
    BY <1>6, AfterInRing, TxAheadInRing
  <2>8. Ordered(txb', k, k, After(After(p)), e) /\ (e => mid[After(p)] = NoPbuf)
    <3>1. /\ Ordered(txb', k, k, After(After(p)), e) \/ (e /\ TxAhead(k, After(p)) + 1 >= TxN)
          /\ e => mid[After(p)] = NoPbuf
      BY <2>2, <2>4, <2>6, PutOrders
    <3>2. ~(e /\ TxAhead(k, After(p)) + 1 >= TxN)
      <4>1. PICK u : u = TxAhead(k, After(p))
        OBVIOUS
      <4>2. u \in 0 .. TxN - 1 /\ (e => u + 1 < TxN)
        BY <2>6, <2>7, <4>1, Zenon
      <4>3. ~(e /\ u + 1 >= TxN)
        BY <4>2, TxAssumption
      <4> QED BY <4>1, <4>3, Zenon
    <3> QED BY <3>1, <3>2, Zenon
  <2>9. PICK m : m = [b \in TxPbufs |-> One(b = x) + One(b = y)]
    BY Zenon
  <2>10. m \in Counts
    BY <2>9 DEF Counts, One
  <2>11. refs' \in Counts /\ \A b \in TxPbufs : refs'[b] = r[b] + m[b]
    BY <1>6, <2>3, <2>9, <2>10 DEF Counts
  <2>12. mid \in Ring
    BY <2>6 DEF Ordered
  <2>13. ASSUME NEW b \in TxPbufs
         PROVE  c2[b] <= c[b] + m[b] /\ (e => c2[b] = c[b] + m[b]) /\ (m[b] > 0 => r[b] > 0)
    <3>1. /\ Cardinality(Slotted(mid, b)) <= Cardinality(Slotted(ring, b)) + One(b = x)
          /\ ring[p] = NoPbuf => Cardinality(Slotted(mid, b)) = Cardinality(Slotted(ring, b)) + One(b = x)
      <4>1. PutAt(ring, mid, p, x)
        BY <2>4
      <4>2. ring \in Ring /\ p \in TxSlots /\ x \in TxPbufs
        BY <1>6, <2>2
      <4> QED BY <4>1, <4>2, PutCounts
    <3>2. /\ Cardinality(Slotted(txb', b)) <= Cardinality(Slotted(mid, b)) + One(b = y)
          /\ mid[After(p)] = NoPbuf => Cardinality(Slotted(txb', b)) = Cardinality(Slotted(mid, b)) + One(b = y)
      <4>1. PICK q, ring2 : q = After(p) /\ ring2 = txb'
        OBVIOUS
      <4>2. mid \in Ring /\ q \in TxSlots /\ y \in TxPbufs /\ PutAt(mid, ring2, q, y)
        BY <2>2, <2>4, <2>7, <2>12, <4>1
      <4>3. /\ Cardinality(Slotted(ring2, b)) <= Cardinality(Slotted(mid, b)) + One(b = y)
            /\ mid[q] = NoPbuf => Cardinality(Slotted(ring2, b)) = Cardinality(Slotted(mid, b)) + One(b = y)
        BY <4>2, PutCounts
      <4> QED BY <4>1, <4>3
    <3>3. /\ One(b = x) \in Nat /\ One(b = y) \in Nat /\ One(b[2] = 1 /\ b[1] \in tx_held) \in Nat
          /\ Cardinality(Slotted(mid, b)) \in Nat /\ m[b] = One(b = x) + One(b = y)
          /\ One(sending.copied /\ sending.chain[1] = b) = 0
      BY <2>2, <2>9, SlottedFinite DEF One
    <3>4. c2[b] <= c[b] + m[b] /\ (e => c2[b] = c[b] + m[b])
      <4>1. PICK n, n1, n2, o, w, v, z :
              /\ n = Cardinality(Slotted(ring, b)) /\ n1 = Cardinality(Slotted(mid, b)) /\ n2 = Cardinality(Slotted(txb', b))
              /\ o = One(b[2] = 1 /\ b[1] \in tx_held) /\ w = One(b = x) /\ v = One(b = y)
              /\ z = One(sending.copied /\ sending.chain[1] = b)
        OBVIOUS
      <4>2. c[b] = n + o + z /\ c2[b] = n2 + o /\ n \in Nat /\ n2 \in Nat
        BY <1>9, <4>1
      <4>3. n1 <= n + w /\ (e => n1 = n + w) /\ n2 <= n1 + v /\ (e => n2 = n1 + v)
        BY <2>6, <2>8, <3>1, <3>2, <4>1, Zenon
      <4>4. m[b] = w + v /\ z = 0 /\ w \in Nat /\ v \in Nat /\ o \in Nat /\ n1 \in Nat
        BY <3>3, <4>1
      <4> QED BY <4>2, <4>3, <4>4
    <3>5. ASSUME m[b] > 0 PROVE r[b] > 0
      <4>1. b = x \/ b = y
        BY <2>9, <3>5 DEF One
      <4>2. r[x] >= c[x] /\ r[x] \in Nat /\ c[x] \in Nat
        BY <1>4, <1>5, <1>6, <2>1, <2>2, Zenon DEF Balanced, Counts
      <4>3. c[x] > 0
        <5>1. One(x[2] = 1 /\ x[1] \in tx_held) = 1 /\ One(sending.copied /\ sending.chain[1] = x) \in Nat
          BY <1>11, <2>1 DEF One
        <5>2. PICK n, o, z : /\ n = Cardinality(Slotted(ring, x)) /\ o = One(x[2] = 1 /\ x[1] \in tx_held)
                             /\ z = One(sending.copied /\ sending.chain[1] = x)
          BY Zenon
        <5>3. c[x] = n + o + z /\ n \in Nat
          BY <1>9, <2>2, <5>2
        <5>4. o = 1 /\ z \in Nat
          BY <5>1, <5>2
        <5> QED BY <5>3, <5>4
      <4> QED BY <1>11, <2>1, <4>1, <4>2, <4>3
    <3> QED BY <3>4, <3>5
  <2>14. Balanced(c2, refs', e)
    BY <1>4, <1>5, <1>6, <2>10, <2>11, <2>13, QueueBalances
  <2> QED BY <2>3, <2>8, <2>14
<1>12. PICK f \in TxFrames :
         \/ f \in tx_held /\ sending = [chain |-> <<<<f, 1>>>>, copied |-> FALSE]
         \/ f \in tx_held /\ r[<<f, 2>>] > 0 /\ sending = [chain |-> <<<<f, 1>>, <<f, 2>>>>, copied |-> FALSE]
         \/ sending = [chain |-> <<<<f, 1>>>>, copied |-> TRUE]
  BY <1>2, <1>4, Zenon DEF Sendable
<1>13. CASE f \in tx_held /\ sending = [chain |-> <<<<f, 1>>>>, copied |-> FALSE]
  <2>1. <<f, 1>> \in TxPbufs /\ sending.chain = <<<<f, 1>>>> /\ sending.copied \in BOOLEAN
    BY <1>13 DEF TxPbufs
  <2> QED BY <1>10, <1>13, <2>1
<1>14. CASE sending = [chain |-> <<<<f, 1>>>>, copied |-> TRUE]
  <2>1. <<f, 1>> \in TxPbufs /\ sending.chain = <<<<f, 1>>>> /\ sending.copied = TRUE
    BY <1>14 DEF TxPbufs
  <2> QED BY <1>10, <2>1, Zenon
<1> QED BY <1>11, <1>12, <1>13, <1>14

-----------------------------------------------------------------------------

\* Every step of the stack, the driver and the EMAC keeps the reference counts at
\* the references there are, and the EMAC's descriptors full.
THEOREM TxInvariance == SpecTx => []TxInv
<1>1. ASSUME InitTx PROVE TxInv
  <2>1. 0 \in TxSlots /\ TxAhead(0, 0) = 0 /\ Run(0, 0) = {}
    <3>1. 0 \in TxSlots
      BY TxAssumption DEF TxSlots
    <3> QED BY <3>1, TxAheadInRing, RunAll
  <2>2. Ordered(txb, 0, 0, 0, Kept)
    BY <1>1, <2>1, TxAssumption DEF InitTx, Ordered, Ring
  <2>3. PICK c : c = Refers(txb, {}, Idle)
    OBVIOUS
  <2>4. \A b \in TxPbufs : c[b] = 0
    <3> SUFFICES ASSUME NEW b \in TxPbufs PROVE c[b] = 0
      OBVIOUS
    <3>1. Slotted(txb, b) = {}
      BY <1>1, NotAPbuf DEF InitTx, Slotted
    <3>2. Cardinality(Slotted(txb, b)) = 0
      BY <3>1, FS_EmptySet
    <3> QED BY <2>3, <3>2 DEF Refers, Idle, One
  <2>5. c \in Counts
    BY <2>3, RefersType
  <2>6. Balanced(c, refs, Kept)
    BY <1>1, <2>4, <2>5 DEF Balanced, InitTx, Counts, TxPbufs, One
  <2> QED BY <1>1, <2>2, <2>3, <2>6, Zenon DEF InitTx, TxInv, Sendable
<1>2. ASSUME TxInv, [NextTx]_txvars PROVE TxInv'
  <2>1. CASE UNCHANGED txvars
    BY <1>2, <2>1, KeptStays DEF TxInv, txvars, txrefs
  <2>2. CASE HwUnderrun
    BY <1>2, <2>2, KeptStays DEF TxInv, HwUnderrun, txrefs
  <2>3. CASE TxReclaim
    BY <1>2, <2>3, ReclaimKeeps DEF TxReclaim
  <2>4. CASE OutputWait
    BY <1>2, <2>4, ReclaimKeeps DEF OutputWait
  <2> QED BY <1>2, <2>1, <2>2, <2>3, <2>4, MakesKeeps, DropsKeeps, TransmitKeeps, OutputKeeps, QueueKeeps DEF NextTx
<1> QED BY <1>1, <1>2, PTL DEF SpecTx

\* TxSound at all times, for a ring of any size and any number of frames: what
\* the EMAC may still read has not been freed, no pbuf is freed more often than
\* it was referred to, and no reference is lost until a chain is queued that the
\* ring has no room for.
THEOREM TxIsSound == SpecTx => []TxSound
<1>1. ASSUME TxInv PROVE TxSound
  <2>1. PICK c : c = Refers(txb, tx_held, sending)
    OBVIOUS
  <2>2. /\ txb \in Ring /\ TxConsumeIndex \in TxSlots /\ TxProduceIndex \in TxSlots /\ lpc_last_tx_idx \in TxSlots
        /\ Balanced(c, refs, Kept) /\ c \in Counts /\ refs \in Counts
        /\ \A i \in Run(TxConsumeIndex, TxAhead(TxConsumeIndex, TxProduceIndex)) : txb[i] # NoPbuf
    BY <1>1, <2>1, Zenon DEF TxInv, Ordered, Balanced
  <2>3. TxTypeOK
    <3>1. Len(sending.chain) \in 0 .. 2 /\ sending.copied \in BOOLEAN
      <4>1. Sendable(sending, refs, tx_held)
        BY <1>1 DEF TxInv
      <4>2. CASE sending = Idle
        BY <4>2 DEF Idle
      <4>3. CASE sending # Idle
        <5>1. PICK f \in TxFrames :
                \/ sending = [chain |-> <<<<f, 1>>>>, copied |-> FALSE]
                \/ sending = [chain |-> <<<<f, 1>>, <<f, 2>>>>, copied |-> FALSE]
                \/ sending = [chain |-> <<<<f, 1>>>>, copied |-> TRUE]
          BY <4>1, <4>3, Zenon DEF Sendable
        <5>2. Len(<<<<f, 1>>>>) = 1 /\ Len(<<<<f, 1>>, <<f, 2>>>>) = 2
          OBVIOUS
        <5>3. sending.chain = <<<<f, 1>>>> \/ sending.chain = <<<<f, 1>>, <<f, 2>>>>
          BY <5>1
        <5>4. Len(sending.chain) = 1 \/ Len(sending.chain) = 2
          BY <5>2, <5>3
        <5>5. sending.copied \in BOOLEAN
          <6>1. CASE sending = [chain |-> <<<<f, 1>>>>, copied |-> FALSE]
            BY <6>1
          <6>2. CASE sending = [chain |-> <<<<f, 1>>, <<f, 2>>>>, copied |-> FALSE]
            BY <6>2
          <6>3. CASE sending = [chain |-> <<<<f, 1>>>>, copied |-> TRUE]
            BY <6>3
          <6> QED BY <5>1, <6>1, <6>2, <6>3
        <5> QED BY <5>4, <5>5
      <4> QED BY <4>2, <4>3
    <3> QED BY <1>1, <2>2, <3>1 DEF TxInv, TxTypeOK, Ring, Counts
  <2>4. \A b \in TxPbufs : /\ c[b] = Cardinality(Slotted(txb, b)) + One(b[2] = 1 /\ b[1] \in tx_held) + One(sending.copied /\ sending.chain[1] = b)
                           /\ Cardinality(Slotted(txb, b)) \in Nat
    BY <2>1, SlottedFinite DEF Refers
  <2>5. \A b \in TxPbufs : refs[b] >= c[b]
    <3> SUFFICES ASSUME NEW b \in TxPbufs PROVE refs[b] >= c[b]
      OBVIOUS
    <3>1. PICK f \in TxFrames : b = <<f, 1>> \/ b = <<f, 2>>
      BY DEF TxPbufs
    <3>2. refs[b] \in Nat /\ c[b] \in Nat
      BY <2>2 DEF Counts
    <3>3. refs[<<f, 1>>] >= c[<<f, 1>>] /\ refs[<<f, 2>>] >= c[<<f, 2>>] + One(refs[<<f, 1>>] > 0 /\ refs[<<f, 2>>] > 0)
      BY <2>2 DEF Balanced
    <3> QED BY <3>1, <3>2, <3>3 DEF One
  <2>6. ReadsLivePbufs
    <3> SUFFICES ASSUME NEW i \in Owned PROVE txb[i] # NoPbuf /\ refs[txb[i]] > 0
      BY DEF ReadsLivePbufs
    <3>1. i \in TxSlots /\ txb[i] # NoPbuf
      BY <2>2, RunBetween DEF Owned, Run
    <3>2. PICK b \in TxPbufs : b = txb[i]
      BY <2>2, <3>1 DEF Ring
    <3>3. PICK S : S = Slotted(txb, b)
      OBVIOUS
    <3>4. i \in S /\ IsFiniteSet(S) /\ Cardinality(S) \in Nat
      BY <3>1, <3>2, <3>3, SlottedFinite, Zenon DEF Slotted
    <3>5. Cardinality(S) > 0
      <4>1. Cardinality(S) = 0 => S = {}
        BY <3>4, FS_EmptySet
      <4> QED BY <3>4, <4>1
    <3>6. c[b] > 0
      <4>1. PICK x, y : /\ x = One(b[2] = 1 /\ b[1] \in tx_held)
                        /\ y = One(sending.copied /\ sending.chain[1] = b)
        OBVIOUS
      <4>2. x \in {0, 1} /\ y \in {0, 1}
        BY <4>1 DEF One
      <4>3. c[b] = Cardinality(S) + x + y
        BY <2>4, <3>3, <4>1, Zenon
      <4> QED BY <3>4, <3>5, <4>2, <4>3
    <3>7. refs[b] \in Nat /\ c[b] \in Nat
      BY <2>2 DEF Counts
    <3> QED BY <2>5, <3>1, <3>2, <3>6, <3>7
  <2>7. NoLostReference
    <3> SUFFICES ASSUME Kept, NEW b \in TxPbufs PROVE refs[b] = Known(b)
      BY DEF NoLostReference, Kept
    <3>1. PICK n : n = Cardinality(Slotted(txb, b)) /\ n = Cardinality({i \in TxSlots : txb[i] = b})
      BY DEF Slotted
    <3>2. PICK f \in TxFrames : b = <<f, 1>> \/ b = <<f, 2>>
      BY DEF TxPbufs
    <3>3. refs[<<f, 1>>] = c[<<f, 1>>] /\ refs[<<f, 2>>] = c[<<f, 2>>] + One(refs[<<f, 1>>] > 0 /\ refs[<<f, 2>>] > 0)
      BY <2>2 DEF Balanced
    <3>4. n \in Nat /\ c[b] = n + One(b[2] = 1 /\ b[1] \in tx_held) + One(sending.copied /\ sending.chain[1] = b)
      BY <2>4, <3>1, Zenon
    <3>5. Known(b) = n + One(b[2] = 1 /\ b[1] \in tx_held) + One(b[2] = 2 /\ refs[<<b[1], 1>>] > 0 /\ refs[b] > 0)
                       + One(sending.copied /\ sending.chain[1] = b)
      BY <3>1 DEF Known, One
    <3>6. CASE b = <<f, 1>>
      BY <3>3, <3>4, <3>5, <3>6 DEF One
    <3>7. CASE b = <<f, 2>>
      <4>1. One(b[2] = 2 /\ refs[<<b[1], 1>>] > 0 /\ refs[b] > 0) = One(refs[<<f, 1>>] > 0 /\ refs[<<f, 2>>] > 0)
        BY <3>7 DEF One
      <4>2. One(b[2] = 1 /\ b[1] \in tx_held) \in Nat /\ One(sending.copied /\ sending.chain[1] = b) \in Nat
            /\ One(refs[<<f, 1>>] > 0 /\ refs[<<f, 2>>] > 0) \in Nat
        BY DEF One
      <4>3. PICK o, z, l : /\ o = One(b[2] = 1 /\ b[1] \in tx_held) /\ z = One(sending.copied /\ sending.chain[1] = b)
                           /\ l = One(refs[<<f, 1>>] > 0 /\ refs[<<f, 2>>] > 0)
        OBVIOUS
      <4>4. Known(b) = n + o + l + z /\ c[b] = n + o + z /\ refs[b] = c[b] + l
        BY <3>3, <3>4, <3>5, <3>7, <4>1, <4>3
      <4>5. o \in Nat /\ z \in Nat /\ l \in Nat /\ n \in Nat
        BY <3>4, <4>2, <4>3
      <4> QED BY <4>4, <4>5
    <3> QED BY <3>2, <3>6, <3>7
  <2> QED BY <2>3, <2>6, <2>7 DEF TxSound
<1> QED BY <1>1, TxInvariance, PTL
=============================================================================
