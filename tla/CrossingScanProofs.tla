-------------------------- MODULE CrossingScanProofs --------------------------
(***************************************************************************)
(* A scan of any source by any threads, of any units and chunks: the        *)
(* inductive invariant Inv of CrossingScan and the safety properties that   *)
(* follow from it.                                                          *)
(***************************************************************************)
EXTENDS CrossingScan, FiniteSetTheorems, TLAPS

\* Batches dealt in turn: partition p gets p, p + n, p + 2n and so on.
LEMMA Remainder ==
  ASSUME NEW n \in Nat \ {0}, NEW u \in Nat
  PROVE  u % n \in 0 .. (n - 1) /\ u \div n \in Nat /\ u = n * (u \div n) + (u % n)
  OBVIOUS

LEMMA SameRemainder ==
  ASSUME NEW n \in Nat \ {0}, NEW a \in Int, NEW b \in Int,
         NEW r \in 0 .. (n - 1), NEW s \in 0 .. (n - 1), n * a + r = n * b + s
  PROVE  r = s
  OBVIOUS

LEMMA FirstDealt ==
  ASSUME NEW n \in Nat \ {0}, NEW p \in 0 .. (n - 1)
  PROVE  p % n = p
  OBVIOUS

LEMMA NextDealt ==
  ASSUME NEW n \in Nat \ {0}, NEW u \in Nat, NEW v \in Nat, v = u + n
  PROVE  v % n = u % n
  <1> DEFINE a == u \div n
             b == v \div n
  <1>1. u % n \in 0 .. (n - 1) /\ a \in Nat /\ u = n * a + (u % n)
    BY Remainder
  <1>2. v % n \in 0 .. (n - 1) /\ b \in Nat /\ v = n * b + (v % n)
    BY Remainder
  <1> HIDE DEF a, b
  <1>3. n * (a + 1) = n * a + n /\ n * a \in Int /\ n * b \in Int
    BY <1>1, <1>2
  <1>4. n * (a + 1) + (u % n) = n * b + (v % n)
    BY <1>1, <1>2, <1>3
  <1> DEFINE c == a + 1
             r == u % n
             s == v % n
  <1>5. /\ c \in Int /\ r \in 0 .. (n - 1) /\ s \in 0 .. (n - 1)
        /\ n * c + r = n * b + s
    BY <1>1, <1>2, <1>4
  <1>6. b \in Int
    BY <1>2
  <1> HIDE DEF c, r, s
  <1>7. r = s
    BY <1>5, <1>6, SameRemainder
  <1> QED
    BY <1>7 DEF r, s

\* No unit of a partition is passed over.
LEMMA DealtApart ==
  ASSUME NEW n \in Nat \ {0}, NEW u \in Nat, NEW v \in Nat, u % n = v % n, u < v
  PROVE  u + n <= v
  <1> DEFINE a == u \div n
             b == v \div n
  <1>1. u % n \in 0 .. (n - 1) /\ a \in Nat /\ u = n * a + (u % n)
    BY Remainder
  <1>2. v % n \in 0 .. (n - 1) /\ b \in Nat /\ v = n * b + (v % n)
    BY Remainder
  <1> HIDE DEF a, b
  <1>3. n * a \in Int /\ n * b \in Int
    BY <1>1, <1>2
  <1>4. n * a < n * b
    BY <1>1, <1>2, <1>3
  <1>5. a < b
    BY <1>1, <1>2, <1>4
  <1>6. n * a + n <= n * b
    BY <1>1, <1>2, <1>5
  <1> QED
    BY <1>1, <1>2, <1>3, <1>6

-----------------------------------------------------------------------------
\* Shapes of the source's scan and of its units.
LEMMA ScanShape ==
  ASSUME TypeOK
  PROVE  /\ Units \in Nat /\ DOMAIN Chunks = 0 .. (Units - 1)
         /\ scan.partitions \in Nat \ {0} /\ scan.partitions <= Units
         /\ scan.kind \in Kinds /\ scan.ordered \in BOOLEAN
         /\ Partitions = 0 .. (scan.partitions - 1) /\ Partitions \subseteq DOMAIN Chunks
         /\ \A u \in DOMAIN Chunks :
               /\ Len(Chunks[u]) \in Nat \ {0} /\ DOMAIN Chunks[u] = 1 .. Len(Chunks[u])
               /\ \A k \in DOMAIN Chunks[u] : Chunks[u][k] \in Nat \ {0}
  <1>1. Units \in Nat
    BY ScanAssumption, FS_CardinalityType DEF Units
  <1>2. /\ scan.partitions \in 1 .. MaxPartitions /\ scan.kind \in Kinds /\ scan.ordered \in BOOLEAN
    BY DEF TypeOK, Scans
  <1>3. ASSUME NEW u \in DOMAIN Chunks
        PROVE  /\ Len(Chunks[u]) \in Nat \ {0} /\ DOMAIN Chunks[u] = 1 .. Len(Chunks[u])
               /\ \A k \in DOMAIN Chunks[u] : Chunks[u][k] \in Nat \ {0}
    <2>1. Chunks[u] \in Seq(Nat \ {0}) /\ Chunks[u] # <<>>
      BY <1>3, ScanAssumption
    <2> QED
      BY <2>1
  <1> QED
    BY <1>1, <1>2, <1>3, ScanAssumption DEF Partitions

\* A reader inside its unit has the next chunk of it.
LEMMA GoesOn ==
  ASSUME TypeOK, UnitsHeld, NEW p \in Partitions, unit[p] >= 0, handed[p] < Len(Chunks[unit[p]])
  PROVE  /\ CurrentUnit(p) = unit[p] /\ CurrentChunk(p) = handed[p] + 1
         /\ unit[p] \in DOMAIN Chunks /\ handed[p] + 1 \in DOMAIN Chunks[unit[p]]
         /\ \A q \in Partitions : unit[q] = unit[p] => q = p
  <1>1. unit[p] \in DOMAIN Chunks /\ handed[p] \in Nat
    BY ScanShape DEF TypeOK
  <1>2. DOMAIN Chunks[unit[p]] = 1 .. Len(Chunks[unit[p]]) /\ Len(Chunks[unit[p]]) \in Nat
    BY <1>1, ScanShape
  <1>3. CurrentUnit(p) = unit[p] /\ CurrentChunk(p) = handed[p] + 1
    BY DEF CurrentUnit, CurrentChunk
  <1>4. \A q \in Partitions : unit[q] = unit[p] => q = p
    BY DEF UnitsHeld
  <1> QED
    BY <1>1, <1>2, <1>3, <1>4

\* A reader that is not inside a unit takes one that nobody has begun.
LEMMA TakesNew ==
  ASSUME TypeOK, UnitsHeld, NEW p \in Partitions, CurrentUnit(p) < Units,
         ~(unit[p] >= 0 /\ handed[p] < Len(Chunks[unit[p]]))
  PROVE  /\ CurrentUnit(p) \in DOMAIN Chunks
         /\ CurrentUnit(p) # unit[p] /\ CurrentChunk(p) = 1
         /\ ~Begun(CurrentUnit(p))
         /\ scan.kind = "whole" => unit[p] = -1 /\ CurrentUnit(p) = p
         /\ scan.kind = "counter" => CurrentUnit(p) = next_unit
         /\ scan.kind = "dealt" =>
               /\ CurrentUnit(p) % scan.partitions = p
               /\ \/ unit[p] = -1 /\ CurrentUnit(p) = p
                  \/ unit[p] >= 0 /\ CurrentUnit(p) = unit[p] + scan.partitions
  <1> DEFINE n == scan.partitions
  <1>1. /\ Units \in Nat /\ n \in Nat \ {0} /\ p \in 0 .. (n - 1) /\ scan.kind \in Kinds
        /\ DOMAIN Chunks = 0 .. (Units - 1) /\ unit[p] \in -1 .. (Units - 1) /\ next_unit \in 0 .. Units
    BY ScanShape DEF TypeOK
  <1>2. CASE scan.kind = "whole"
    <2>1. unit[p] = -1 /\ CurrentUnit(p) = p
      BY <1>1, <1>2 DEF CurrentUnit
    <2> QED
      BY <1>1, <1>2, <2>1 DEF CurrentChunk, Begun
  <1>3. CASE scan.kind = "counter"
    <2>1. CurrentUnit(p) = next_unit
      BY <1>1, <1>3 DEF CurrentUnit
    <2>2. ~Begun(CurrentUnit(p))
      BY <1>1, <1>3, <2>1 DEF Begun
    <2>3. CurrentUnit(p) # unit[p]
      BY <1>1, <1>3, <2>1 DEF UnitsHeld, Begun
    <2> QED
      BY <1>1, <1>3, <2>1, <2>2, <2>3 DEF CurrentChunk
  <1>4. CASE scan.kind = "dealt"
    <2>1. \/ unit[p] = -1 /\ CurrentUnit(p) = p
          \/ unit[p] >= 0 /\ CurrentUnit(p) = unit[p] + n
      BY <1>1, <1>4 DEF CurrentUnit
    <2>2. CurrentUnit(p) \in Nat
      BY <1>1, <2>1
    <2>3. CurrentUnit(p) % n = p
      <3>1. CASE unit[p] = -1 /\ CurrentUnit(p) = p
        BY <1>1, <3>1, FirstDealt
      <3>2. CASE unit[p] >= 0 /\ CurrentUnit(p) = unit[p] + n
        <4>1. unit[p] % n = p
          BY <1>4, <3>2 DEF UnitsHeld
        <4>2. unit[p] \in Nat
          BY <1>1, <3>2
        <4> QED
          BY <1>1, <2>2, <3>2, <4>1, <4>2, NextDealt
      <3> QED
        BY <2>1, <3>1, <3>2
    <2>4. CurrentUnit(p) > unit[p]
      BY <1>1, <2>1
    <2>5. ~Begun(CurrentUnit(p))
      BY <1>1, <1>4, <2>2, <2>3, <2>4 DEF Begun
    <2> QED
      BY <1>1, <1>4, <2>1, <2>2, <2>3, <2>4, <2>5 DEF CurrentChunk
  <1> QED
    BY <1>1, <1>2, <1>3, <1>4 DEF Kinds

\* What is begun grows by the unit taken.
LEMMA BegunGrows ==
  ASSUME TypeOK, UnitsHeld, NEW p \in Partitions, CurrentUnit(p) < Units, Advance(p), scan' = scan,
         ~(unit[p] >= 0 /\ handed[p] < Len(Chunks[unit[p]])),
         NEW v \in DOMAIN Chunks
  PROVE  Begun(v)' <=> Begun(v) \/ v = CurrentUnit(p)
  <1> DEFINE u == CurrentUnit(p)
             n == scan.partitions
  <1>1. /\ Units \in Nat /\ n \in Nat \ {0} /\ p \in 0 .. (n - 1) /\ scan.kind \in Kinds
        /\ DOMAIN Chunks = 0 .. (Units - 1) /\ unit \in [0 .. (n - 1) -> -1 .. (Units - 1)]
        /\ next_unit \in 0 .. Units /\ Partitions = 0 .. (n - 1)
    BY ScanShape DEF TypeOK
  <1>2. /\ u \in DOMAIN Chunks /\ u # unit[p]
        /\ scan.kind = "whole" => unit[p] = -1 /\ u = p
        /\ scan.kind = "counter" => u = next_unit
        /\ scan.kind = "dealt" =>
              /\ u % n = p
              /\ (unit[p] = -1 /\ u = p) \/ (unit[p] >= 0 /\ u = unit[p] + n)
    BY TakesNew
  <1>3. /\ unit' = [unit EXCEPT ![p] = u]
        /\ next_unit' = IF scan.kind = "counter" THEN next_unit + 1 ELSE next_unit
        /\ Partitions' = Partitions
    BY <1>2 DEF Advance, Partitions
  <1> SUFFICES Begun(v)' <=> Begun(v) \/ v = u
    OBVIOUS
  <1> HIDE DEF u
  <1>4. CASE scan.kind = "whole"
    BY <1>1, <1>2, <1>3, <1>4 DEF Begun
  <1>5. CASE scan.kind = "counter"
    BY <1>1, <1>2, <1>3, <1>5 DEF Begun
  <1>6. CASE scan.kind = "dealt"
    <2>0. v \in Nat
      BY <1>1
    <2>1. v \in Nat /\ v % n \in 0 .. (n - 1)
      BY <1>1, <2>0, Remainder
    <2>2. CASE v % n # p
      BY <1>1, <1>2, <1>3, <1>6, <2>1, <2>2 DEF Begun
    <2>3. CASE v % n = p
      <3>1. unit'[p] = u /\ (Begun(v)' <=> v <= u) /\ (Begun(v) <=> v <= unit[p])
        BY <1>1, <1>3, <1>6, <2>3 DEF Begun
      <3>2. ASSUME v < u, v > unit[p] PROVE FALSE
        <4>1. CASE unit[p] = -1 /\ u = p
          <5>1. v \in 0 .. (n - 1)
            BY <1>1, <2>1, <3>2, <4>1
          <5> QED
            BY <1>1, <2>3, <3>2, <4>1, <5>1, FirstDealt
        <4>2. CASE unit[p] >= 0 /\ u = unit[p] + n
          <5>1. unit[p] \in Nat /\ unit[p] % n = p
            BY <1>1, <1>6, <4>2 DEF UnitsHeld
          <5>2. unit[p] + n <= v
            BY <1>1, <2>1, <2>3, <3>2, <5>1, DealtApart
          <5> QED
            BY <1>1, <2>1, <3>2, <4>2, <5>1, <5>2
        <4> QED
          BY <1>2, <1>6, <4>1, <4>2
      <3>3. u > unit[p]
        BY <1>1, <1>2, <1>6
      <3>4. v \in Int /\ u \in Int /\ unit[p] \in Int
        BY <1>1, <1>2, <2>0
      <3>5. v <= u <=> v <= unit[p] \/ v = u
        BY <3>2, <3>3, <3>4
      <3> QED
        BY <3>1, <3>5
    <2> QED
      BY <2>2, <2>3
  <1> QED
    BY <1>1, <1>4, <1>5, <1>6 DEF Kinds

\* Handing out a chunk delivers that chunk, which was not delivered, and no other.
LEMMA HandsNextChunk ==
  ASSUME TypeOK, UnitsHeld, NEW p \in Partitions, CurrentUnit(p) < Units, Advance(p), scan' = scan,
         unit[p] >= 0, handed[p] < Len(Chunks[unit[p]])
  PROVE  /\ CurrentUnit(p) \in DOMAIN Chunks /\ CurrentChunk(p) \in DOMAIN Chunks[CurrentUnit(p)]
         /\ \A l \in Nat : Delivered(CurrentUnit(p), l) => l < CurrentChunk(p)
         /\ \A v \in DOMAIN Chunks, l \in Nat :
               Delivered(v, l)' <=> Delivered(v, l) \/ (v = CurrentUnit(p) /\ l = CurrentChunk(p))
         /\ UnitsHeld'
  <1>1. /\ CurrentUnit(p) = unit[p] /\ CurrentChunk(p) = handed[p] + 1
        /\ unit[p] \in DOMAIN Chunks /\ handed[p] + 1 \in DOMAIN Chunks[unit[p]]
        /\ \A q \in Partitions : unit[q] = unit[p] => q = p
    BY GoesOn
  <1>2. /\ unit' = unit /\ next_unit' = next_unit /\ Partitions' = Partitions
        /\ handed' = [handed EXCEPT ![p] = handed[p] + 1]
        /\ handed \in [Partitions -> Nat]
    BY <1>1 DEF Advance, TypeOK, Partitions
  <1>3. \A v : Begun(v)' <=> Begun(v)
    BY <1>2 DEF Begun
  <1>4. ASSUME NEW l \in Nat, Delivered(unit[p], l) PROVE l < handed[p] + 1
    BY <1>2, <1>4 DEF Delivered
  <1>5. ASSUME NEW v \in DOMAIN Chunks, NEW l \in Nat
        PROVE  Delivered(v, l)' <=> Delivered(v, l) \/ (v = unit[p] /\ l = handed[p] + 1)
    <2>1. CASE v = unit[p]
      <3>1. Begun(v)
        BY <2>1 DEF UnitsHeld
      <3>2. Delivered(v, l) <=> l \in DOMAIN Chunks[v] /\ l <= handed[p]
        BY <1>1, <2>1, <3>1 DEF Delivered
      <3>3. Delivered(v, l)' <=> l \in DOMAIN Chunks[v] /\ l <= handed[p] + 1
        BY <1>1, <1>2, <1>3, <2>1, <3>1 DEF Delivered
      <3>4. handed[p] \in Nat
        BY <1>2
      <3> QED
        BY <1>1, <2>1, <3>2, <3>3, <3>4
    <2>2. CASE v # unit[p]
      BY <1>2, <1>3, <2>2 DEF Delivered
    <2> QED
      BY <2>1, <2>2
  <1>6. UnitsHeld'
    BY <1>1, <1>2, <1>3 DEF UnitsHeld
  <1> QED
    BY <1>1, <1>4, <1>5, <1>6

LEMMA HandsNewUnit ==
  ASSUME TypeOK, UnitsHeld, NEW p \in Partitions, CurrentUnit(p) < Units, Advance(p), scan' = scan,
         ~(unit[p] >= 0 /\ handed[p] < Len(Chunks[unit[p]]))
  PROVE  /\ CurrentUnit(p) \in DOMAIN Chunks /\ CurrentChunk(p) \in DOMAIN Chunks[CurrentUnit(p)]
         /\ \A l \in Nat : Delivered(CurrentUnit(p), l) => l < CurrentChunk(p)
         /\ \A v \in DOMAIN Chunks, l \in Nat :
               Delivered(v, l)' <=> Delivered(v, l) \/ (v = CurrentUnit(p) /\ l = CurrentChunk(p))
         /\ UnitsHeld'
  <1> DEFINE u == CurrentUnit(p)
  <1>1. /\ u \in DOMAIN Chunks /\ u # unit[p] /\ CurrentChunk(p) = 1 /\ ~Begun(u)
        /\ scan.kind = "whole" => u = p
        /\ scan.kind = "dealt" => u % scan.partitions = p
    BY TakesNew
  <1>2. /\ unit' = [unit EXCEPT ![p] = u] /\ handed' = [handed EXCEPT ![p] = 1]
        /\ Partitions' = Partitions /\ scan' = scan
        /\ handed \in [Partitions -> Nat] /\ unit \in [Partitions -> -1 .. (Units - 1)]
    BY <1>1 DEF Advance, TypeOK, Partitions
  <1>3. \A v \in DOMAIN Chunks : Begun(v)' <=> Begun(v) \/ v = u
    BY BegunGrows
  <1>4. \A q \in Partitions : unit[q] # u
    BY <1>1, ScanShape DEF UnitsHeld
  <1>5. \A v \in DOMAIN Chunks : DOMAIN Chunks[v] = 1 .. Len(Chunks[v]) /\ Len(Chunks[v]) \in Nat \ {0}
    BY ScanShape
  <1>6. /\ Units \in Nat /\ DOMAIN Chunks = 0 .. (Units - 1)
    BY ScanShape
  <1> SUFFICES /\ u \in DOMAIN Chunks /\ 1 \in DOMAIN Chunks[u]
               /\ \A l \in Nat : ~Delivered(u, l)
               /\ \A v \in DOMAIN Chunks, l \in Nat :
                     Delivered(v, l)' <=> Delivered(v, l) \/ (v = u /\ l = 1)
               /\ UnitsHeld'
    BY <1>1
  <1> HIDE DEF u
  <1>7. 1 \in DOMAIN Chunks[u]
    BY <1>1, <1>5
  <1>8. \A l \in Nat : ~Delivered(u, l)
    BY <1>1 DEF Delivered
  <1>9. ASSUME NEW v \in DOMAIN Chunks, NEW l \in Nat
        PROVE  Delivered(v, l)' <=> Delivered(v, l) \/ (v = u /\ l = 1)
    <2>1. CASE v = u
      <3>1. Delivered(v, l)' <=> l \in DOMAIN Chunks[u] /\ l <= 1
        BY <1>1, <1>2, <1>3, <1>4, <2>1 DEF Delivered
      <3>2. l \in DOMAIN Chunks[u] /\ l <= 1 <=> l = 1
        BY <1>1, <1>5
      <3> QED
        BY <1>8, <2>1, <3>1, <3>2
    <2>2. CASE v # u
      <3>1. Begun(v)' <=> Begun(v)
        BY <1>3, <2>2
      <3>2. unit[p] = v /\ l \in DOMAIN Chunks[v] => l <= handed[p]
        BY <1>2, <1>5, <1>6
      <3>3. \A q \in Partitions : q # p => unit'[q] = unit[q] /\ handed'[q] = handed[q]
        BY <1>2
      <3>4. unit'[p] # v
        BY <1>2, <2>2
      <3> QED
        BY <1>2, <2>2, <3>1, <3>2, <3>3, <3>4 DEF Delivered
    <2> QED
      BY <2>1, <2>2
  <1>10. UnitsHeld'
    <2> SUFFICES ASSUME NEW q \in Partitions
                 PROVE  /\ unit'[q] = -1 => handed'[q] = 0
                        /\ unit'[q] >= 0 =>
                              /\ handed'[q] \in DOMAIN Chunks[unit'[q]]
                              /\ Begun(unit[q])'
                              /\ scan.kind = "whole" => unit'[q] = q
                              /\ scan.kind = "dealt" => unit'[q] % scan.partitions = q
                              /\ \A r \in Partitions : unit'[r] = unit'[q] => r = q
      BY <1>2 DEF UnitsHeld
    <2>1. CASE q = p
      <3>1. unit'[q] = u /\ handed'[q] = 1 /\ u >= 0 /\ u # -1
        BY <1>1, <1>2, <1>6, <2>1
      <3>3. Begun(unit[q])'
        BY <1>1, <1>3, <3>1
      <3>2. \A r \in Partitions : unit'[r] = u => r = q
        BY <1>2, <1>4, <2>1
      <3> QED
        BY <1>1, <1>7, <2>1, <3>1, <3>2, <3>3
    <2>2. CASE q # p
      <3>1. unit'[q] = unit[q] /\ handed'[q] = handed[q]
        BY <1>2, <2>2
      <3>2. ASSUME unit[q] >= 0 PROVE Begun(unit[q])'
        <4>1. unit[q] \in DOMAIN Chunks /\ Begun(unit[q])
          BY <1>2, <1>6, <3>2 DEF UnitsHeld
        <4> QED
          BY <1>3, <3>1, <4>1
      <3>3. ASSUME NEW r \in Partitions, unit[q] >= 0, unit'[r] = unit[q] PROVE r = q
        BY <1>2, <1>4, <3>3 DEF UnitsHeld
      <3> QED
        BY <3>1, <3>2, <3>3 DEF UnitsHeld
    <2> QED
      BY <2>1, <2>2
  <1> QED
    BY <1>1, <1>7, <1>8, <1>9, <1>10

\* A pulled reader that has a chunk hands it out: the source's side of a step.
LEMMA Hands ==
  ASSUME TypeOK, UnitsHeld, NEW p \in Partitions, CurrentUnit(p) < Units, Advance(p), scan' = scan
  PROVE  /\ CurrentUnit(p) \in DOMAIN Chunks /\ CurrentChunk(p) \in DOMAIN Chunks[CurrentUnit(p)]
         /\ \A l \in Nat : Delivered(CurrentUnit(p), l) => l < CurrentChunk(p)
         /\ \A v \in DOMAIN Chunks, l \in Nat :
               Delivered(v, l)' <=> Delivered(v, l) \/ (v = CurrentUnit(p) /\ l = CurrentChunk(p))
         /\ UnitsHeld'
         /\ scan.kind = "whole" => CurrentUnit(p) = p
         /\ unit' \in [Partitions -> -1 .. (Units - 1)] /\ handed' \in [Partitions -> Nat]
         /\ next_unit' \in 0 .. Units
         /\ \A q \in Partitions : CurrentUnit(q) = Units => CurrentUnit(q)' = Units
  <1>1. CASE unit[p] >= 0 /\ handed[p] < Len(Chunks[unit[p]])
    <2>1. scan.kind = "whole" => CurrentUnit(p) = p
      BY <1>1, GoesOn DEF UnitsHeld
    <2>2. unit' = unit /\ next_unit' = next_unit /\ handed' = [handed EXCEPT ![p] = handed[p] + 1]
      BY <1>1, GoesOn DEF Advance, TypeOK
    <2>3. \A q \in Partitions : CurrentUnit(q) = Units => q # p
      BY <1>1, ScanShape
    <2>4. \A q \in Partitions : CurrentUnit(q) = Units => CurrentUnit(q)' = Units
      BY <2>2, <2>3 DEF CurrentUnit, TypeOK
    <2> QED
      BY <1>1, <2>1, <2>2, <2>4, HandsNextChunk DEF TypeOK
  <1>2. CASE ~(unit[p] >= 0 /\ handed[p] < Len(Chunks[unit[p]]))
    <2> DEFINE u == CurrentUnit(p)
    <2>1. /\ u \in DOMAIN Chunks /\ u # unit[p] /\ CurrentChunk(p) = 1
          /\ scan.kind = "whole" => u = p
          /\ scan.kind = "counter" => u = next_unit
      BY <1>2, TakesNew
    <2>2. /\ unit' = [unit EXCEPT ![p] = u] /\ handed' = [handed EXCEPT ![p] = 1]
          /\ next_unit' = IF scan.kind = "counter" THEN next_unit + 1 ELSE next_unit
      BY <2>1 DEF Advance
    <2>3. Units \in Nat /\ DOMAIN Chunks = 0 .. (Units - 1) /\ u < Units
      BY ScanShape
    <2>4. /\ unit' \in [Partitions -> -1 .. (Units - 1)] /\ handed' \in [Partitions -> Nat]
          /\ next_unit' \in 0 .. Units
      BY <2>1, <2>2, <2>3 DEF TypeOK
    <2>5. ASSUME NEW q \in Partitions, CurrentUnit(q) = Units PROVE CurrentUnit(q)' = Units
      <3>1. q # p
        BY <2>3, <2>5
      <3>2. unit'[q] = unit[q] /\ handed'[q] = handed[q]
        BY <2>2, <3>1 DEF TypeOK
      <3>3. scan.kind = "counter" /\ next_unit >= Units => next_unit' >= Units
        BY <2>2, <2>3 DEF TypeOK
      <3>4. \A v \in DOMAIN Chunks : v # Units
        BY <2>3
      <3>5. unit[q] \in -1 .. (Units - 1) /\ q \in 0 .. (scan.partitions - 1) /\ next_unit \in 0 .. Units
        BY ScanShape DEF TypeOK
      <3>6. ~(unit[q] >= 0 /\ handed[q] < Len(Chunks[unit[q]]))
        BY <2>3, <2>5, <3>5 DEF CurrentUnit
      <3>7. scan.kind \in Kinds /\ scan.partitions \in Nat /\ scan.partitions <= Units
        BY ScanShape
      <3>8. CASE scan.kind = "counter"
        <4>1. next_unit = Units
          BY <2>3, <2>5, <3>5, <3>6, <3>8 DEF CurrentUnit
        <4>2. next_unit' = Units
          BY <2>3, <2>4, <3>3, <3>8, <4>1
        <4> QED
          BY <2>3, <3>2, <3>6, <3>8, <4>2 DEF CurrentUnit
      <3>9. CASE scan.kind # "counter"
        BY <2>3, <2>5, <3>2, <3>5, <3>6, <3>7, <3>9 DEF CurrentUnit, Kinds
      <3> QED
        BY <3>8, <3>9
    <2> QED
      BY <1>2, <2>1, <2>4, <2>5, HandsNewUnit
  <1> QED
    BY <1>1, <1>2

-----------------------------------------------------------------------------
\* What DuckDB was handed are records of numbers.
LEMMA OutputShape ==
  ASSUME TypeOK, NEW t \in Threads
  PROVE  /\ output[t] \in Seq([index : Nat, unit : Nat, chunk : Nat, first : Nat])
         /\ Len(output[t]) \in Nat /\ DOMAIN output[t] = 1 .. Len(output[t])
         /\ \A i \in DOMAIN output[t] :
               /\ output[t][i].index \in Nat /\ output[t][i].unit \in Nat
               /\ output[t][i].chunk \in Nat /\ output[t][i].first \in Nat
  <1> DEFINE C == [index : Nat, unit : Nat, chunk : Nat, first : Nat]
  <1>1. output[t] \in Seq(C)
    BY DEF TypeOK
  <1>2. \A c \in C : c.index \in Nat /\ c.unit \in Nat /\ c.chunk \in Nat /\ c.first \in Nat
    OBVIOUS
  <1> HIDE DEF C
  <1>3. Len(output[t]) \in Nat /\ DOMAIN output[t] = 1 .. Len(output[t])
        /\ \A i \in DOMAIN output[t] : output[t][i] \in C
    BY <1>1
  <1> QED
    BY <1>1, <1>2, <1>3 DEF C

\* A step that hands out nothing and gives DuckDB nothing leaves what was delivered.
LEMMA NothingEmitted ==
  ASSUME Inv, UNCHANGED <<scan, rows_emitted, batch_index, refused, source, output>>,
         \A t \in Threads : partition'[t] \in Nat /\ partition'[t] >= partition[t]
  PROVE  /\ UnitsHeld' /\ OutputDelivered' /\ DeliveredOutput' /\ UnitInOrder' /\ IdsReserved'
         /\ PlaceNeverDown'
  <1> USE DEF source
  <1>1. UnitsHeld'
    BY DEF Inv, UnitsHeld, Begun, Partitions
  <1>2. \A u, k : Delivered(u, k)' <=> Delivered(u, k)
    BY DEF Delivered, Begun, Partitions
  <1>3. OutputDelivered'
    <2>1. ASSUME NEW t \in Threads, NEW i \in DOMAIN output[t], ~Indexed
          PROVE  output[t][i].index <= partition'[t]
      <3>1. TypeOK
        BY DEF Inv
      <3>2. output[t][i].index \in Nat
        BY <2>1, <3>1, OutputShape
      <3>3. partition[t] \in Nat
        <4>1. partition[t] \in Partitions
          BY <3>1 DEF TypeOK
        <4>2. Partitions \subseteq Nat
          BY <3>1, ScanShape
        <4> QED
          BY <4>1, <4>2
      <3>4. output[t][i].index <= partition[t]
        BY <2>1 DEF Inv, OutputDelivered
      <3> QED
        BY <3>2, <3>3, <3>4
    <2> QED
      BY <1>2, <2>1 DEF Inv, OutputDelivered, Indexed
  <1>4. DeliveredOutput'
    BY <1>2 DEF Inv, DeliveredOutput
  <1>5. UnitInOrder' /\ IdsReserved' /\ PlaceNeverDown'
    BY DEF Inv, UnitInOrder, IdsReserved, HasId, PlaceNeverDown
  <1> QED
    BY <1>1, <1>3, <1>4, <1>5

-----------------------------------------------------------------------------
\* The chunk a thread hands to DuckDB, and the position it gets.
Emission(t, given) ==
  [index |-> PartitionData(t, given), unit |-> CurrentUnit(reader[t]),
   chunk |-> CurrentChunk(reader[t]), first |-> rows_emitted]

\* A thread whose output grew by c.
Appends(t, c) ==
    /\ \A v \in Threads : \A i \in DOMAIN output[v] :
          i \in DOMAIN output'[v] /\ output'[v][i] = output[v][i]
    /\ \A v \in Threads : \A i \in DOMAIN output'[v] :
          i \in DOMAIN output[v] \/ (v = t /\ i = Len(output[t]) + 1)
    /\ Len(output[t]) + 1 \in DOMAIN output'[t] /\ output'[t][Len(output[t]) + 1] = c
    /\ \A i \in DOMAIN output[t] : i < Len(output[t]) + 1

LEMMA AppendAppends ==
  ASSUME TypeOK, NEW t \in Threads, NEW c \in [index : Nat, unit : Nat, chunk : Nat, first : Nat],
         output' = [output EXCEPT ![t] = Append(@, c)]
  PROVE  /\ Appends(t, c)
         /\ output' \in [Threads -> Seq([index : Nat, unit : Nat, chunk : Nat, first : Nat])]
  <1> DEFINE C == [index : Nat, unit : Nat, chunk : Nat, first : Nat]
  <1>1. output \in [Threads -> Seq(C)] /\ c \in C
    BY DEF TypeOK
  <1> HIDE DEF C
  <1>2. output'[t] = Append(output[t], c) /\ \A v \in Threads : v # t => output'[v] = output[v]
    BY <1>1
  <1>3. /\ Len(output[t]) \in Nat /\ DOMAIN output[t] = 1 .. Len(output[t])
        /\ DOMAIN output'[t] = 1 .. (Len(output[t]) + 1)
        /\ output'[t][Len(output[t]) + 1] = c
        /\ \A i \in 1 .. Len(output[t]) : output'[t][i] = output[t][i]
    BY <1>1, <1>2
  <1>4. output' \in [Threads -> Seq(C)]
    BY <1>1
  <1>5. Appends(t, c)
    BY <1>2, <1>3 DEF Appends
  <1> QED
    BY <1>4, <1>5 DEF C

\* What a thread that pulls its reader has.
LEMMA Pulling ==
  ASSUME Inv, NEW t \in Threads, status[t] = "pulling"
  PROVE  /\ reader[t] \in Partitions /\ partition[t] = reader[t] /\ reader[t] \in Nat
         /\ reader[t] < next_partition
  <1>1. reader[t] \in Partitions \cup {NoReader} /\ TypeOK
    BY DEF Inv, TypeOK
  <1>2. reader[t] # NoReader
    BY DEF Inv, ReadersClaimed
  <1> QED
    BY <1>1, <1>2, ScanShape DEF Inv, ReadersClaimed

\* The source's side of a thread's chunk.
LEMMA EmitSource ==
  ASSUME Inv, NEW t \in Threads, AnswerRows(t), NEW given, EmitChunk(t, given)
  PROVE  LET u == CurrentUnit(reader[t])
             k == CurrentChunk(reader[t])
         IN  /\ u \in DOMAIN Chunks /\ u \in Nat /\ u < Units
             /\ k \in DOMAIN Chunks[u] /\ k \in Nat /\ Chunks[u][k] \in Nat \ {0}
             /\ \A l \in Nat : Delivered(u, l) => l < k
             /\ \A v \in DOMAIN Chunks, l \in Nat :
                   Delivered(v, l)' <=> Delivered(v, l) \/ (v = u /\ l = k)
             /\ UnitsHeld'
             /\ ~Indexed => u = partition[t]
             /\ unit' \in [Partitions -> -1 .. (Units - 1)] /\ handed' \in [Partitions -> Nat]
             /\ next_unit' \in 0 .. Units
             /\ \A q \in Partitions : CurrentUnit(q) = Units => CurrentUnit(q)' = Units
  <1>1. TypeOK /\ UnitsHeld
    BY DEF Inv
  <1>2. /\ status[t] = "pulling" /\ CurrentUnit(reader[t]) < Units /\ scan' = scan
        /\ Advance(reader[t])
    BY DEF AnswerRows, EmitChunk
  <1>3. reader[t] \in Partitions /\ partition[t] = reader[t]
    BY <1>2, Pulling
  <1>4. /\ Units \in Nat /\ DOMAIN Chunks = 0 .. (Units - 1)
        /\ \A u \in DOMAIN Chunks :
              /\ DOMAIN Chunks[u] = 1 .. Len(Chunks[u]) /\ Len(Chunks[u]) \in Nat
              /\ \A k \in DOMAIN Chunks[u] : Chunks[u][k] \in Nat \ {0}
    BY <1>1, ScanShape
  <1>5. scan.kind = "whole" => CurrentUnit(reader[t]) = partition[t]
    BY <1>1, <1>2, <1>3, Hands
  <1> DEFINE u == CurrentUnit(reader[t])
             k == CurrentChunk(reader[t])
  <1>6. /\ u \in DOMAIN Chunks /\ k \in DOMAIN Chunks[u]
        /\ \A l \in Nat : Delivered(u, l) => l < k
        /\ \A v \in DOMAIN Chunks, l \in Nat :
              Delivered(v, l)' <=> Delivered(v, l) \/ (v = u /\ l = k)
        /\ UnitsHeld'
        /\ unit' \in [Partitions -> -1 .. (Units - 1)] /\ handed' \in [Partitions -> Nat]
        /\ next_unit' \in 0 .. Units
        /\ \A q \in Partitions : CurrentUnit(q) = Units => CurrentUnit(q)' = Units
    BY <1>1, <1>2, <1>3, Hands
  <1>7. u \in Nat /\ u < Units /\ k \in Nat /\ Chunks[u][k] \in Nat \ {0}
    BY <1>4, <1>6
  <1> QED
    BY <1>5, <1>6, <1>7 DEF Indexed

\* A chunk whose index is right.
LEMMA EmitAcceptedInv ==
  ASSUME Inv, NEW t \in Threads, AnswerRows(t),
         NEW given, EmitChunk(t, given), CheckBatchIndex(t, given),
         NEW u, u = CurrentUnit(reader[t]), NEW k, k = CurrentChunk(reader[t]),
         NEW m, m = Len(output[t]) + 1,
         Indexed => given \in {u, NoIndex}
  PROVE  Inv'
  <1> DEFINE c == Emission(t, given)
             Reserved == rows_emitted + Chunks[u][k]
  <1>1. /\ TypeOK /\ UnitsHeld /\ ReadersClaimed /\ Drained /\ OutputDelivered /\ DeliveredOutput
        /\ UnitInOrder /\ IdsReserved /\ PlaceNeverDown
    BY DEF Inv
  <1>2. /\ u \in DOMAIN Chunks /\ u \in Nat /\ u < Units
        /\ k \in DOMAIN Chunks[u] /\ k \in Nat /\ Chunks[u][k] \in Nat \ {0}
        /\ \A l \in Nat : Delivered(u, l) => l < k
        /\ \A v \in DOMAIN Chunks, l \in Nat :
              Delivered(v, l)' <=> Delivered(v, l) \/ (v = u /\ l = k)
        /\ UnitsHeld'
        /\ ~Indexed => u = partition[t]
        /\ unit' \in [Partitions -> -1 .. (Units - 1)] /\ handed' \in [Partitions -> Nat]
        /\ next_unit' \in 0 .. Units
        /\ \A q \in Partitions : CurrentUnit(q) = Units => CurrentUnit(q)' = Units
    BY EmitSource
  <1>3. /\ status[t] = "pulling" /\ ~refused
        /\ UNCHANGED <<scan, next_partition, finished_partitions, reader, partition, cancelled, refused>>
        /\ status' = [status EXCEPT ![t] = "running"]
        /\ signal' = [signal EXCEPT ![t] = FALSE]
        /\ batch_index' = [batch_index EXCEPT ![t] = given]
        /\ rows_emitted' = Reserved
        /\ output' = [output EXCEPT ![t] = Append(@, c)]
    BY <1>1 DEF AnswerRows, EmitChunk, Waking!Answer, Emitted, Emission, TypeOK
  <1>4. /\ Indexed' = Indexed /\ Partitions' = Partitions
        /\ CheckScanPartitions(scan)' = CheckScanPartitions(scan)
    BY <1>3 DEF Indexed, Partitions, CheckScanPartitions
  <1>5. IF Indexed THEN given = u /\ given # NoIndex /\ (batch_index[t] = NoIndex \/ u >= batch_index[t])
                   ELSE given = NoIndex
    BY DEF CheckBatchIndex
  <1>6. c.index = u /\ c.unit = u /\ c.chunk = k /\ c.first = rows_emitted
    BY <1>2, <1>5 DEF Emission, PartitionData
  <1>7. rows_emitted \in Nat
    BY <1>1 DEF TypeOK
  <1>8. c \in [index : Nat, unit : Nat, chunk : Nat, first : Nat]
    BY <1>2, <1>5, <1>6, <1>7 DEF Emission, PartitionData
  <1> HIDE DEF c
  <1>9. /\ Appends(t, c)
        /\ output' \in [Threads -> Seq([index : Nat, unit : Nat, chunk : Nat, first : Nat])]
    BY <1>1, <1>3, <1>8, AppendAppends
  <1>10. /\ \A v \in Threads : \A i \in DOMAIN output[v] :
               i \in DOMAIN output'[v] /\ output'[v][i] = output[v][i]
         /\ \A v \in Threads : \A i \in DOMAIN output'[v] :
               i \in DOMAIN output[v] \/ (v = t /\ i = m)
         /\ m \in DOMAIN output'[t] /\ output'[t][m] = c
         /\ \A i \in DOMAIN output[t] : i < m
    BY <1>9 DEF Appends
  <1>11. \A v \in Threads : \A i \in DOMAIN output[v] :
            /\ i \in Nat
            /\ output[v][i].index \in Nat /\ output[v][i].unit \in Nat
            /\ output[v][i].chunk \in Nat /\ output[v][i].first \in Nat
    BY <1>1, OutputShape
  <1>12. \A v \in Threads : \A i \in DOMAIN output[v] :
            /\ output[v][i].index = output[v][i].unit
            /\ output[v][i].unit \in DOMAIN Chunks
            /\ Delivered(output[v][i].unit, output[v][i].chunk)
    BY <1>1, <1>11, ScanShape DEF OutputDelivered
  <1>13. TypeOK'
    <2>1. rows_emitted' \in Nat
      BY <1>2, <1>3, <1>7
    <2>2. batch_index' \in [Threads -> Nat \cup {NoIndex}]
      BY <1>1, <1>2, <1>3, <1>5 DEF TypeOK
    <2>3. status' \in [Threads -> Waking!Statuses] /\ signal' \in [Threads -> BOOLEAN]
      BY <1>1, <1>3 DEF TypeOK, Waking!Statuses
    <2>4. cancelled' \in BOOLEAN /\ refused' \in BOOLEAN
      BY <1>1, <1>3 DEF TypeOK
    <2> QED
      BY <1>1, <1>2, <1>3, <1>4, <1>9, <2>1, <2>2, <2>3, <2>4 DEF TypeOK
  <1>14. ReadersClaimed'
    BY <1>1, <1>3 DEF ReadersClaimed, TypeOK
  <1>15. Drained'
    <2>1. status'[t] # "finished"
      BY <1>1, <1>3 DEF TypeOK
    <2> QED
      BY <1>1, <1>2, <1>3, <1>4, <2>1 DEF Drained
  <1>16. OutputDelivered'
    <2>1. ASSUME NEW v \in Threads, NEW i \in DOMAIN output'[v], NEW d, d = output'[v][i]
          PROVE  /\ d.index = d.unit /\ d.unit < Units /\ Delivered(d.unit, d.chunk)'
                 /\ IF Indexed THEN batch_index'[v] # NoIndex /\ d.index <= batch_index'[v]
                               ELSE d.index <= partition[v]
                 /\ CheckScanPartitions(scan)
      <3>1. CASE i \in DOMAIN output[v]
        <4>1. d = output[v][i]
          BY <1>10, <2>1, <3>1
        <4>2. /\ d.index = d.unit /\ d.unit \in DOMAIN Chunks /\ d.chunk \in Nat /\ d.index \in Nat
              /\ Delivered(d.unit, d.chunk)
          BY <1>11, <1>12, <3>1, <4>1
        <4>3. /\ d.unit < Units /\ CheckScanPartitions(scan)
              /\ IF Indexed THEN batch_index[v] # NoIndex /\ d.index <= batch_index[v]
                            ELSE d.index <= partition[v]
          BY <1>1, <3>1, <4>1 DEF OutputDelivered
        <4>4. Delivered(d.unit, d.chunk)'
          BY <1>2, <4>2
        <4>5. Indexed => batch_index'[v] # NoIndex /\ d.index <= batch_index'[v]
          <5>1. CASE v # t
            BY <1>1, <1>3, <4>3, <5>1 DEF TypeOK
          <5>2. CASE v = t
            <6>1. batch_index[t] \in Nat \cup {NoIndex} /\ (Indexed => batch_index'[t] = u)
              BY <1>1, <1>3, <1>5 DEF TypeOK
            <6> QED
              BY <1>2, <1>5, <4>2, <4>3, <5>2, <6>1, ScanAssumption
          <5> QED
            BY <5>1, <5>2
        <4> QED
          BY <4>2, <4>3, <4>4, <4>5
      <3>2. CASE v = t /\ i = m
        <4>1. Delivered(u, k)'
          BY <1>2
        <4>2. Indexed => batch_index'[t] = u /\ u # NoIndex
          BY <1>1, <1>3, <1>5 DEF TypeOK
        <4>3. d.index = u /\ d.unit = u /\ d.chunk = k
          BY <1>6, <1>10, <2>1, <3>2
        <4>4. CheckScanPartitions(scan)
          BY <1>1, <1>3 DEF DeliveredOutput
        <4> QED
          BY <1>2, <3>2, <4>1, <4>2, <4>3, <4>4
      <3> QED
        BY <1>10, <3>1, <3>2
    <2>2. ASSUME NEW v \in Threads, NEW w \in Threads, NEW i \in DOMAIN output'[v], NEW j \in DOMAIN output'[w],
                 output'[v][i].unit = output'[w][j].unit, output'[v][i].chunk = output'[w][j].chunk
          PROVE  v = w /\ i = j
      <3>1. ASSUME NEW x \in Threads, NEW l \in DOMAIN output[x],
                   output[x][l].unit = u, output[x][l].chunk = k
            PROVE  FALSE
        BY <1>2, <1>11, <1>12, <3>1
      <3>2. CASE i \in DOMAIN output[v] /\ j \in DOMAIN output[w]
        BY <1>1, <1>10, <2>2, <3>2 DEF OutputDelivered
      <3>3. CASE i \in DOMAIN output[v] /\ ~(j \in DOMAIN output[w])
        BY <1>6, <1>10, <2>2, <3>1, <3>3
      <3>4. CASE ~(i \in DOMAIN output[v]) /\ j \in DOMAIN output[w]
        BY <1>6, <1>10, <2>2, <3>1, <3>4
      <3>5. CASE ~(i \in DOMAIN output[v]) /\ ~(j \in DOMAIN output[w])
        BY <1>10, <3>5
      <3> QED
        BY <3>2, <3>3, <3>4, <3>5
    <2> QED
      BY <1>3, <1>4, <2>1, <2>2 DEF OutputDelivered
  <1>17. DeliveredOutput'
    <2>1. ASSUME NEW v \in DOMAIN Chunks, NEW l \in DOMAIN Chunks[v], Delivered(v, l)'
          PROVE  \E x \in Threads : \E i \in DOMAIN output'[x] :
                     output'[x][i].unit = v /\ output'[x][i].chunk = l
      <3>1. l \in Nat
        BY <1>1, ScanShape
      <3>2. CASE Delivered(v, l)
        BY <1>1, <1>3, <1>10, <3>2 DEF DeliveredOutput
      <3>3. CASE v = u /\ l = k
        BY <1>6, <1>10, <3>3
      <3> QED
        BY <1>2, <2>1, <3>1, <3>2, <3>3
    <2> QED
      BY <1>1, <1>3, <1>4, <2>1 DEF DeliveredOutput
  <1>18. UnitInOrder'
    <2>1. ASSUME NEW v \in Threads, NEW i \in DOMAIN output'[v], NEW j \in DOMAIN output'[v], i < j,
                 output'[v][i].unit = output'[v][j].unit
          PROVE  output'[v][i].chunk < output'[v][j].chunk
      <3>1. CASE i \in DOMAIN output[v] /\ j \in DOMAIN output[v]
        BY <1>1, <1>10, <2>1, <3>1 DEF UnitInOrder
      <3>2. CASE i \in DOMAIN output[v] /\ ~(j \in DOMAIN output[v])
        BY <1>2, <1>6, <1>10, <1>11, <1>12, <2>1, <3>2
      <3>3. CASE ~(i \in DOMAIN output[v])
        <4>1. v = t /\ i = m /\ m \in Nat
          BY <1>1, <1>10, <3>3, OutputShape
        <4>2. j = m \/ j < m
          BY <1>10, <4>1
        <4> QED
          BY <1>11, <1>10, <2>1, <4>1, <4>2
      <3> QED
        BY <3>1, <3>2, <3>3
    <2> QED
      BY <2>1 DEF UnitInOrder
  <1>19. PlaceNeverDown'
    <2>1. ASSUME NEW i \in DOMAIN output[t] PROVE output[t][i].index <= u
      <3>1. CASE Indexed
        <4>1. batch_index[t] \in Nat /\ output[t][i].index <= batch_index[t] /\ u >= batch_index[t]
          BY <1>1, <1>5, <3>1 DEF OutputDelivered, TypeOK
        <4> QED
          BY <1>2, <1>11, <4>1
      <3>2. CASE ~Indexed
        BY <1>1, <1>2, <3>2 DEF OutputDelivered
      <3> QED
        BY <3>1, <3>2
    <2>2. ASSUME NEW v \in Threads, NEW i \in DOMAIN output'[v], NEW j \in DOMAIN output'[v], i < j
          PROVE  output'[v][i].index <= output'[v][j].index
      <3>1. CASE i \in DOMAIN output[v] /\ j \in DOMAIN output[v]
        BY <1>1, <1>10, <2>2, <3>1 DEF PlaceNeverDown
      <3>2. CASE i \in DOMAIN output[v] /\ ~(j \in DOMAIN output[v])
        BY <1>6, <1>10, <2>1, <3>2
      <3>3. CASE ~(i \in DOMAIN output[v])
        <4>1. v = t /\ i = m /\ m \in Nat
          BY <1>1, <1>10, <3>3, OutputShape
        <4>2. j = m \/ j < m
          BY <1>10, <4>1
        <4> QED
          BY <1>10, <1>11, <2>2, <4>1, <4>2
      <3> QED
        BY <3>1, <3>2, <3>3
    <2> QED
      BY <2>2 DEF PlaceNeverDown
  <1>20. IdsReserved'
    <2>1. ASSUME NEW v \in Threads, NEW i \in DOMAIN output[v]
          PROVE  /\ Chunks[output[v][i].unit][output[v][i].chunk] \in Nat
                 /\ output[v][i].first + Chunks[output[v][i].unit][output[v][i].chunk] <= rows_emitted
                 /\ \A id \in Int : HasId(v, i, id)' <=> HasId(v, i, id)
      <3>1. Chunks[output[v][i].unit][output[v][i].chunk] \in Nat
        BY <1>1, <1>12, ScanShape DEF Delivered
      <3>2. output[v][i].first + Chunks[output[v][i].unit][output[v][i].chunk] <= rows_emitted
        BY <1>1 DEF IdsReserved
      <3>3. output'[v][i] = output[v][i]
        BY <1>10
      <3>4. \A id \in Int : HasId(v, i, id)' <=> HasId(v, i, id)
        BY <3>3 DEF HasId
      <3> QED
        BY <3>1, <3>2, <3>4
    <2>2. ASSUME NEW id \in Int, NEW v \in Threads, NEW i \in DOMAIN output'[v], HasId(v, i, id)'
          PROVE  \/ i \in DOMAIN output[v] /\ HasId(v, i, id)
                 \/ v = t /\ i = m /\ rows_emitted <= id
      <3>1. CASE i \in DOMAIN output[v]
        BY <2>1, <2>2, <3>1
      <3>2. CASE v = t /\ i = m
        BY <1>6, <1>10, <2>2, <3>2 DEF HasId
      <3> QED
        BY <1>10, <3>1, <3>2
    <2>3. ASSUME NEW id \in 0 .. (rows_emitted' - 1)
          PROVE  \E x \in Threads : \E i \in DOMAIN output'[x] :
                     /\ HasId(x, i, id)'
                     /\ \A y \in Threads : \A j \in DOMAIN output'[y] : HasId(y, j, id)' => y = x /\ j = i
      <3>1. id \in Int /\ id < Reserved /\ Reserved \in Nat
        BY <1>2, <1>3, <1>7
      <3>2. CASE id < rows_emitted
        <4>0. PICK x \in Threads : \E i \in DOMAIN output[x] :
                /\ HasId(x, i, id)
                /\ \A y \in Threads : \A j \in DOMAIN output[y] : HasId(y, j, id) => y = x /\ j = i
          BY <1>1, <1>7, <3>1, <3>2 DEF IdsReserved
        <4>1. PICK i \in DOMAIN output[x] :
                /\ HasId(x, i, id)
                /\ \A y \in Threads : \A j \in DOMAIN output[y] : HasId(y, j, id) => y = x /\ j = i
          BY <4>0
        <4>2. i \in DOMAIN output'[x] /\ HasId(x, i, id)'
          BY <1>10, <2>1, <3>1, <4>1
        <4>3. \A y \in Threads : \A j \in DOMAIN output'[y] : HasId(y, j, id)' => y = x /\ j = i
          BY <1>7, <2>2, <3>1, <3>2, <4>1
        <4> QED
          BY <4>2, <4>3
      <3>3. CASE rows_emitted <= id
        <4>1. HasId(t, m, id)'
          BY <1>6, <1>10, <3>1, <3>3 DEF HasId
        <4>2. ASSUME NEW y \in Threads, NEW j \in DOMAIN output[y], HasId(y, j, id) PROVE FALSE
          BY <1>7, <1>11, <2>1, <3>1, <3>3, <4>2 DEF HasId
        <4> QED
          BY <1>10, <2>2, <3>1, <4>1, <4>2
      <3> QED
        BY <1>7, <3>1, <3>2, <3>3
    <2>4. ASSUME NEW v \in Threads, NEW i \in DOMAIN output'[v], NEW d, d = output'[v][i]
          PROVE  d.first + Chunks[d.unit][d.chunk] <= rows_emitted'
      <3>1. CASE i \in DOMAIN output[v]
        <4>1. d = output[v][i] /\ d.first \in Nat
          BY <1>10, <1>11, <2>4, <3>1
        <4> QED
          BY <1>2, <1>3, <1>7, <2>1, <3>1, <4>1
      <3>2. CASE v = t /\ i = m
        BY <1>2, <1>3, <1>6, <1>7, <1>10, <2>4, <3>2
      <3> QED
        BY <1>10, <3>1, <3>2
    <2> QED
      BY <2>3, <2>4 DEF IdsReserved
  <1> QED
    BY <1>2, <1>13, <1>14, <1>15, <1>16, <1>17, <1>18, <1>19, <1>20 DEF Inv

\* A chunk whose index is wrong: the source handed it out, but the scan throws.
LEMMA EmitRefusedInv ==
  ASSUME Inv, NEW t \in Threads, AnswerRows(t), NEW given, EmitChunk(t, given),
         ~CheckBatchIndex(t, given)
  PROVE  Inv'
  <1>1. /\ TypeOK /\ UnitsHeld /\ ReadersClaimed /\ OutputDelivered /\ UnitInOrder /\ IdsReserved
        /\ PlaceNeverDown
    BY DEF Inv
  <1>2. /\ \A v \in DOMAIN Chunks, l \in Nat : Delivered(v, l) => Delivered(v, l)'
        /\ UnitsHeld'
        /\ unit' \in [Partitions -> -1 .. (Units - 1)] /\ handed' \in [Partitions -> Nat]
        /\ next_unit' \in 0 .. Units
    BY EmitSource
  <1>3. /\ refused'
        /\ UNCHANGED <<scan, global, local, cancelled, output>>
        /\ status' = [status EXCEPT ![t] = "finished"] /\ signal' = [signal EXCEPT ![t] = FALSE]
    BY <1>1 DEF AnswerRows, EmitChunk, Waking!Answer, global, local, TypeOK
  <1>4. Indexed' = Indexed /\ Partitions' = Partitions
    BY <1>3 DEF Indexed, Partitions
  <1>5. TypeOK'
    <2>1. status' \in [Threads -> Waking!Statuses] /\ signal' \in [Threads -> BOOLEAN]
      BY <1>1, <1>3 DEF TypeOK, Waking!Statuses
    <2>2. refused' \in BOOLEAN
      BY DEF AnswerRows, EmitChunk
    <2> QED
      BY <1>1, <1>2, <1>3, <1>4, <2>1, <2>2 DEF TypeOK, global, local
  <1>6. ReadersClaimed'
    BY <1>1, <1>3 DEF ReadersClaimed, TypeOK, global, local
  <1>7. OutputDelivered'
    <2>1. ASSUME NEW v \in Threads, NEW i \in DOMAIN output[v]
          PROVE  Delivered(output[v][i].unit, output[v][i].chunk)'
      <3>1. /\ output[v][i].unit \in DOMAIN Chunks /\ output[v][i].chunk \in Nat
            /\ Delivered(output[v][i].unit, output[v][i].chunk)
        <4>1. output[v][i].unit \in Nat /\ output[v][i].chunk \in Nat
          BY <1>1, OutputShape
        <4>2. output[v][i].unit < Units /\ Delivered(output[v][i].unit, output[v][i].chunk)
          BY <1>1 DEF OutputDelivered
        <4>3. DOMAIN Chunks = 0 .. (Units - 1) /\ Units \in Nat
          BY <1>1, ScanShape
        <4> QED
          BY <4>1, <4>2, <4>3
      <3> QED
        BY <1>2, <1>3, <3>1
    <2> QED
      BY <1>1, <1>3, <1>4, <2>1 DEF OutputDelivered, local, CheckScanPartitions
  <1>8. UnitInOrder' /\ IdsReserved' /\ PlaceNeverDown'
    BY <1>1, <1>3 DEF UnitInOrder, IdsReserved, HasId, PlaceNeverDown, global
  <1> QED
    BY <1>2, <1>3, <1>5, <1>6, <1>7, <1>8 DEF Inv, Drained, DeliveredOutput

LEMMA AnswerRowsInv == ASSUME Inv, NEW t \in Threads, AnswerRows(t) PROVE Inv'
  <1>1. PICK given :
          /\ EmitChunk(t, given)
          /\ Indexed => given \in {CurrentUnit(reader[t]), NoIndex}
    BY DEF AnswerRows
  <1>2. CASE CheckBatchIndex(t, given)
    BY <1>1, <1>2, EmitAcceptedInv
  <1>3. CASE ~CheckBatchIndex(t, given)
    BY <1>1, <1>3, EmitRefusedInv
  <1> QED
    BY <1>2, <1>3

-----------------------------------------------------------------------------
LEMMA InitInv == Init => Inv
  <1> SUFFICES ASSUME Init PROVE Inv
    OBVIOUS
  <1>1. PICK running \in SUBSET Threads :
          /\ Cardinality(running) \in 1 .. scan.partitions
          /\ status = [t \in Threads |-> IF t \in running THEN "running" ELSE "finished"]
    BY DEF Init
  <1>2. TypeOK
    <2>1. scan.partitions \in Nat \ {0} /\ scan \in Scans
      BY ScanAssumption DEF Init, Scans
    <2>2. Units \in Nat
      BY ScanAssumption, FS_CardinalityType DEF Units
    <2>3. status \in [Threads -> Waking!Statuses] /\ signal \in [Threads -> BOOLEAN]
      BY <1>1 DEF Init, Waking!Statuses
    <2>4. cancelled \in BOOLEAN /\ refused \in BOOLEAN
      BY DEF Init, CheckScanPartitions
    <2>5. output \in [Threads -> Seq([index : Nat, unit : Nat, chunk : Nat, first : Nat])]
      <3>1. <<>> \in Seq([index : Nat, unit : Nat, chunk : Nat, first : Nat])
        OBVIOUS
      <3> QED
        BY <3>1 DEF Init
    <2>6. partition \in [Threads -> Partitions] /\ reader \in [Threads -> Partitions \cup {NoReader}]
      BY <2>1 DEF Init, Partitions
    <2>7. unit \in [Partitions -> -1 .. (Units - 1)] /\ handed \in [Partitions -> Nat]
      BY <2>2 DEF Init
    <2> QED
      BY <2>1, <2>2, <2>3, <2>4, <2>5, <2>6, <2>7 DEF Init, TypeOK
  <1>3. ReadersClaimed
    BY <1>1 DEF Init, ReadersClaimed
  <1>4. UnitsHeld
    BY DEF Init, UnitsHeld
  <1>5. Drained
    <2>1. running # {}
      BY <1>1, FS_EmptySet
    <2>2. \E t \in Threads : status[t] # "finished"
      BY <1>1, <2>1
    <2>3. \A p \in Partitions : ~(p < next_partition)
      BY <1>2, ScanShape DEF Init
    <2> QED
      BY <2>2, <2>3 DEF Drained
  <1>6. \A t \in Threads : DOMAIN output[t] = {}
    BY DEF Init
  <1>7. \A u \in DOMAIN Chunks : ~Begun(u)
    <2>1. ASSUME NEW u \in DOMAIN Chunks PROVE ~Begun(u)
      <3>1. /\ u \in Nat /\ scan.partitions \in Nat \ {0} /\ scan.kind \in Kinds
            /\ Partitions = 0 .. (scan.partitions - 1)
        BY <1>2, ScanShape
      <3>2. u % scan.partitions \in Partitions
        BY <3>1, Remainder
      <3>3. \A p \in Partitions : unit[p] = -1
        BY DEF Init
      <3>4. next_unit = 0
        BY DEF Init
      <3>5. CASE scan.kind = "whole"
        BY <3>1, <3>3, <3>5 DEF Begun
      <3>6. CASE scan.kind = "counter"
        BY <3>1, <3>4, <3>6 DEF Begun
      <3>7. CASE scan.kind = "dealt"
        <4>1. unit[u % scan.partitions] = -1
          BY <3>2, <3>3
        <4> QED
          BY <3>1, <3>7, <4>1 DEF Begun
      <3> QED
        BY <3>1, <3>5, <3>6, <3>7 DEF Kinds
    <2> QED
      BY <2>1
  <1>8. OutputDelivered /\ UnitInOrder /\ PlaceNeverDown
    BY <1>6 DEF OutputDelivered, UnitInOrder, PlaceNeverDown
  <1>9. DeliveredOutput
    BY <1>7 DEF Init, DeliveredOutput, Delivered
  <1>10. IdsReserved
    BY <1>6 DEF Init, IdsReserved
  <1> QED
    BY <1>2, <1>3, <1>4, <1>5, <1>8, <1>9, <1>10 DEF Inv

\* A step that only moves threads between running, pulling and sleeping.
LEMMA SleepInv ==
  ASSUME Inv, UNCHANGED <<scan, global, local, refused, source, output>>,
         cancelled' \in BOOLEAN, cancelled => cancelled',
         status' \in [Threads -> Waking!Statuses], signal' \in [Threads -> BOOLEAN],
         \A t \in Threads : status'[t] \in {"pulling", "asleep"} => reader[t] # NoReader,
         \A t \in Threads : status'[t] = "finished" <=> status[t] = "finished"
  PROVE  Inv'
  <1> USE DEF global, local, source
  <1>1. Partitions' = Partitions
    BY DEF Partitions
  <1>2. TypeOK'
    BY <1>1 DEF Inv, TypeOK
  <1>3. ReadersClaimed'
    BY DEF Inv, ReadersClaimed
  <1>4. \A p \in Partitions : CurrentUnit(p)' = CurrentUnit(p)
    BY DEF CurrentUnit
  <1>5. Drained'
    BY <1>1, <1>4 DEF Inv, Drained
  <1>6. \A t \in Threads : partition'[t] \in Nat /\ partition'[t] >= partition[t]
    <2>1. TypeOK /\ partition \in [Threads -> Partitions]
      BY DEF Inv, TypeOK
    <2>2. Partitions \subseteq Nat
      BY <2>1, ScanShape
    <2>3. \A t \in Threads : partition[t] \in Nat /\ partition'[t] = partition[t]
      BY <2>1, <2>2
    <2> QED
      BY <2>3
  <1> QED
    BY <1>2, <1>3, <1>5, <1>6, NothingEmitted DEF Inv

LEMMA ClaimPartitionInv == ASSUME Inv, NEW t \in Threads, ClaimPartition(t) PROVE Inv'
  <1> DEFINE claimed == next_partition
             n == scan.partitions
  <1>1. TypeOK /\ ReadersClaimed /\ Drained
    BY DEF Inv
  <1>2. /\ n \in Nat \ {0} /\ Partitions = 0 .. (n - 1) /\ NoReader \notin Nat /\ claimed \in Nat
        /\ Partitions' = Partitions
    BY <1>1, ScanShape, ScanAssumption DEF TypeOK, ClaimPartition, Partitions
  <1>3. /\ ~refused /\ status[t] = "running" /\ reader[t] = NoReader /\ next_partition' = claimed + 1
        /\ UNCHANGED <<scan, finished_partitions, rows_emitted, batch_index, cancelled, refused,
                       source, output>>
    BY DEF ClaimPartition, ClaimNext
  <1>4. \/ /\ claimed >= n
           /\ status' = [status EXCEPT ![t] = "finished"]
           /\ UNCHANGED <<reader, partition, signal>>
        \/ /\ claimed < n
           /\ reader' = [reader EXCEPT ![t] = claimed] /\ partition' = [partition EXCEPT ![t] = claimed]
           /\ UNCHANGED <<status, signal>>
    BY <1>2 DEF ClaimPartition, Exhausted, Waking!Finish
  <1>5. /\ partition \in [Threads -> Partitions] /\ reader \in [Threads -> Partitions \cup {NoReader}]
        /\ status \in [Threads -> Waking!Statuses]
    BY <1>1 DEF TypeOK
  <1> HIDE DEF n
  <1>6. TypeOK'
    <2>1. next_partition' \in Nat
      BY <1>2, <1>3
    <2>2. partition' \in [Threads -> Partitions] /\ reader' \in [Threads -> Partitions \cup {NoReader}]
      BY <1>2, <1>4, <1>5
    <2>3. status' \in [Threads -> Waking!Statuses] /\ signal' \in [Threads -> BOOLEAN]
      BY <1>1, <1>4, <1>5 DEF TypeOK, Waking!Statuses
    <2> QED
      BY <1>1, <1>2, <1>3, <2>1, <2>2, <2>3 DEF TypeOK, source
  <1>7. ReadersClaimed'
    <2>1. \A v \in Threads : partition[v] \in Nat /\ partition[v] <= claimed
      BY <1>1, <1>2, <1>5 DEF ReadersClaimed
    <2>2. \A v \in Threads : reader[v] # claimed
      BY <1>1, <1>2 DEF ReadersClaimed
    <2>3. ASSUME NEW v \in Threads
          PROVE  /\ status'[v] \in {"pulling", "asleep"} => reader'[v] # NoReader
                 /\ partition'[v] <= next_partition'
                 /\ reader'[v] # NoReader => reader'[v] = partition'[v] /\ reader'[v] < next_partition'
                 /\ status'[v] = "finished" /\ ~refused' => reader'[v] = NoReader
      BY <1>1, <1>2, <1>3, <1>4, <1>5, <2>1 DEF ReadersClaimed
    <2>4. ASSUME NEW v \in Threads, NEW w \in Threads, reader'[v] # NoReader, reader'[w] = reader'[v]
          PROVE  w = v
      BY <1>1, <1>3, <1>4, <1>5, <2>2, <2>4 DEF ReadersClaimed
    <2> QED
      BY <2>3, <2>4 DEF ReadersClaimed
  <1>8. \A p \in Partitions : CurrentUnit(p)' = CurrentUnit(p)
    BY <1>3 DEF CurrentUnit, source
  <1>9. Drained'
    <2>1. ASSUME NEW p \in Partitions, p < next_partition', \A v \in Threads : reader'[v] # p
          PROVE  p < next_partition /\ \A v \in Threads : reader[v] # p
      BY <1>2, <1>3, <1>4, <1>5, <2>1
    <2>2. ASSUME \A v \in Threads : status'[v] = "finished" PROVE next_partition' >= n
      BY <1>2, <1>3, <1>4, <1>5, <2>2
    <2> QED
      BY <1>1, <1>2, <1>3, <1>8, <2>1, <2>2 DEF Drained, n
  <1>10. \A v \in Threads : partition'[v] \in Nat /\ partition'[v] >= partition[v]
    <2>1. \A v \in Threads : partition[v] \in Nat /\ partition[v] <= claimed
      BY <1>1, <1>2, <1>5 DEF ReadersClaimed
    <2> QED
      BY <1>2, <1>4, <1>5, <2>1
  <1> QED
    BY <1>3, <1>6, <1>7, <1>9, <1>10, NothingEmitted DEF Inv

\* A thread lets go of its reader: at the end of the partition, or because DuckDB
\* needs no more rows.
LEMMA DropReaderInv ==
  ASSUME Inv, NEW t \in Threads, status[t] = "pulling", ~refused,
         reader' = [reader EXCEPT ![t] = NoReader],
         NEW then, \/ then = "running" /\ CurrentUnit(reader[t]) = Units
                   \/ then = "finished" /\ cancelled,
         status' = [status EXCEPT ![t] = then], signal' = [signal EXCEPT ![t] = FALSE],
         finished_partitions' \in Nat,
         UNCHANGED <<scan, next_partition, rows_emitted, partition, batch_index, cancelled, refused,
                     source, output>>
  PROVE  Inv'
  <1>1. TypeOK /\ ReadersClaimed /\ Drained
    BY DEF Inv
  <1>2. /\ status \in [Threads -> Waking!Statuses] /\ signal \in [Threads -> BOOLEAN]
        /\ reader \in [Threads -> Partitions \cup {NoReader}] /\ Partitions' = Partitions
    BY <1>1 DEF TypeOK, Partitions
  <1>3. TypeOK'
    <2>1. status' \in [Threads -> Waking!Statuses] /\ signal' \in [Threads -> BOOLEAN]
      BY <1>2 DEF Waking!Statuses
    <2>2. reader' \in [Threads -> Partitions \cup {NoReader}]
      BY <1>2
    <2> QED
      BY <1>1, <1>2, <2>1, <2>2 DEF TypeOK, source
  <1>4. ReadersClaimed'
    BY <1>1, <1>2 DEF ReadersClaimed
  <1>5. \A p \in Partitions : CurrentUnit(p)' = CurrentUnit(p)
    BY DEF CurrentUnit, source
  <1>6. Drained'
    <2>1. ASSUME ~cancelled PROVE then = "running" /\ status'[t] # "finished"
      BY <1>2, <2>1
    <2>2. ASSUME ~cancelled, NEW p \in Partitions, p < next_partition,
                 \A v \in Threads : reader'[v] # p
          PROVE  CurrentUnit(p) = Units
      <3>1. CASE reader[t] = p
        BY <2>2, <3>1
      <3>2. CASE reader[t] # p
        <4>1. \A v \in Threads : reader[v] # p
          BY <1>2, <2>2, <3>2
        <4> QED
          BY <1>1, <2>2, <4>1 DEF Drained
      <3> QED
        BY <3>1, <3>2
    <2> QED
      BY <1>2, <1>5, <2>1, <2>2 DEF Drained
  <1>7. \A v \in Threads : partition'[v] \in Nat /\ partition'[v] >= partition[v]
    <2>1. Partitions \subseteq Nat
      BY <1>1, ScanShape
    <2>2. \A v \in Threads : partition[v] \in Nat /\ partition'[v] = partition[v]
      BY <1>1, <2>1 DEF TypeOK
    <2> QED
      BY <2>2
  <1> QED
    BY <1>3, <1>4, <1>6, <1>7, NothingEmitted DEF Inv

LEMMA AnswerDoneInv == ASSUME Inv, NEW t \in Threads, AnswerDone(t) PROVE Inv'
  <1>1. finished_partitions' \in Nat /\ status' = [status EXCEPT ![t] = "running"]
    BY DEF AnswerDone, Waking!Answer, Inv, TypeOK
  <1> QED
    BY <1>1, DropReaderInv DEF AnswerDone, Waking!Answer

LEMMA AnswerWaitInv == ASSUME Inv, NEW t \in Threads, AnswerWait(t) PROVE Inv'
  <1>1. /\ status \in [Threads -> Waking!Statuses] /\ signal \in [Threads -> BOOLEAN]
        /\ cancelled \in BOOLEAN /\ finished_partitions \in Nat
        /\ \A v \in Threads : status[v] \in {"pulling", "asleep"} => reader[v] # NoReader
    BY DEF Inv, TypeOK, ReadersClaimed
  <1>2. /\ ~refused /\ status[t] = "pulling"
        /\ UNCHANGED <<scan, global, partition, batch_index, cancelled, refused, source, output>>
    BY DEF AnswerWait
  <1>3. CASE Waking!FallAsleep(t) /\ UNCHANGED reader
    BY <1>1, <1>2, <1>3, SleepInv DEF Waking!FallAsleep, Waking!Statuses, local
  <1>4. CASE cancelled /\ Waking!Answer(t) /\ status'[t] = "finished"
             /\ reader' = [reader EXCEPT ![t] = NoReader]
    <2>1. status' = [status EXCEPT ![t] = "finished"]
      BY <1>1, <1>4 DEF Waking!Answer
    <2> QED
      BY <1>1, <1>2, <1>4, <2>1, DropReaderInv DEF Waking!Answer, global
  <1>5. CASE Waking!Answer(t) /\ status'[t] = "running" /\ UNCHANGED reader
    <2>1. status' = [status EXCEPT ![t] = "running"] /\ signal' = [signal EXCEPT ![t] = FALSE]
      BY <1>1, <1>5 DEF Waking!Answer
    <2> QED
      BY <1>1, <1>2, <1>5, <2>1, SleepInv DEF Waking!Statuses, local
  <1> QED
    BY <1>3, <1>4, <1>5 DEF AnswerWait

LEMMA SleepersInv ==
  ASSUME Inv, NEW t \in Threads,
         StartPull(t) \/ SourceWakes(t) \/ Resume(t) \/ CancelWakes(t) \/ Cancel
  PROVE  Inv'
  <1>1. /\ status \in [Threads -> Waking!Statuses] /\ signal \in [Threads -> BOOLEAN]
        /\ cancelled \in BOOLEAN
        /\ \A v \in Threads : status[v] \in {"pulling", "asleep"} => reader[v] # NoReader
    BY DEF Inv, TypeOK, ReadersClaimed
  <1>2. CASE StartPull(t)
    BY <1>1, <1>2, SleepInv DEF StartPull, Waking!Pull, Waking!Statuses
  <1>3. CASE SourceWakes(t)
    BY <1>1, <1>3, SleepInv DEF SourceWakes, Waking!Signal, Quiet
  <1>4. CASE Resume(t)
    BY <1>1, <1>4, SleepInv DEF Resume, Waking!Resume, Quiet, Waking!Statuses
  <1>5. CASE CancelWakes(t)
    BY <1>1, <1>5, SleepInv DEF CancelWakes, Waking!Signal, Quiet
  <1>6. CASE Cancel
    BY <1>1, <1>6, SleepInv DEF Cancel, Quiet
  <1> QED
    BY <1>2, <1>3, <1>4, <1>5, <1>6

LEMMA NextInv == ASSUME Inv, [Next]_vars PROVE Inv'
  <1>1. /\ status \in [Threads -> Waking!Statuses] /\ signal \in [Threads -> BOOLEAN]
        /\ cancelled \in BOOLEAN
        /\ \A v \in Threads : status[v] \in {"pulling", "asleep"} => reader[v] # NoReader
    BY DEF Inv, TypeOK, ReadersClaimed
  <1>2. CASE UNCHANGED vars
    BY <1>1, <1>2, SleepInv DEF vars
  <1>3. CASE Cancel
    BY <1>3, SleepersInv, ScanAssumption
  <1>4. ASSUME NEW t \in Threads,
               \/ ClaimPartition(t) \/ StartPull(t)
               \/ AnswerRows(t) \/ AnswerDone(t) \/ AnswerWait(t)
               \/ SourceWakes(t) \/ Resume(t) \/ CancelWakes(t)
        PROVE  Inv'
    BY <1>4, ClaimPartitionInv, AnswerRowsInv, AnswerDoneInv, AnswerWaitInv, SleepersInv
  <1> QED
    BY <1>2, <1>3, <1>4 DEF Next

\* The inductive invariant holds of every scan, whatever its source offers, however
\* many threads drain it and however they are put to sleep, woken and cancelled.
THEOREM SpecInv == Spec => []Inv
  BY InitInv, NextInv, PTL DEF Spec

\* Every variable keeps its type: claims stay within the partitions, units within
\* the source's.
THEOREM SpecTypeOK == Spec => []TypeOK
  <1>1. Inv => TypeOK
    BY DEF Inv
  <1> QED
    BY <1>1, SpecInv, PTL

\* DuckDB never sees the partition data of a thread go down.
THEOREM SpecPlaceNeverDown == Spec => []PlaceNeverDown
  <1>1. Inv => PlaceNeverDown
    BY DEF Inv
  <1> QED
    BY <1>1, SpecInv, PTL

-----------------------------------------------------------------------------
\* A reader that has nothing left handed out all it began.
LEMMA DrainedReader ==
  ASSUME TypeOK, UnitsHeld, NEW p \in Partitions, CurrentUnit(p) = Units
  PROVE  /\ unit[p] >= 0 => handed[p] >= Len(Chunks[unit[p]])
         /\ scan.kind = "whole" => unit[p] = p
         /\ scan.kind = "counter" => next_unit = Units
         /\ scan.kind = "dealt" => unit[p] >= 0 /\ unit[p] + scan.partitions >= Units
  <1>1. /\ Units \in Nat /\ scan.partitions \in Nat \ {0} /\ scan.partitions <= Units
        /\ Partitions = 0 .. (scan.partitions - 1) /\ DOMAIN Chunks = 0 .. (Units - 1)
        /\ \A u \in DOMAIN Chunks : Len(Chunks[u]) \in Nat
    BY ScanShape
  <1>2. unit[p] \in -1 .. (Units - 1) /\ handed[p] \in Nat /\ next_unit \in 0 .. Units /\ p < Units
    <2>1. unit \in [Partitions -> -1 .. (Units - 1)] /\ handed \in [Partitions -> Nat]
      BY DEF TypeOK
    <2>2. p < Units
      BY <1>1
    <2> QED
      BY <2>1, <2>2 DEF TypeOK
  <1>3. ~(unit[p] >= 0 /\ handed[p] < Len(Chunks[unit[p]]))
    BY <1>1, <1>2 DEF CurrentUnit
  <1>4. unit[p] >= 0 => handed[p] >= Len(Chunks[unit[p]])
    <2>1. unit[p] >= 0 => unit[p] \in DOMAIN Chunks
      BY <1>1, <1>2
    <2> QED
      BY <1>1, <1>2, <1>3, <2>1
  <1>5. scan.kind = "whole" => unit[p] = p
    BY <1>1, <1>2, <1>3 DEF CurrentUnit, UnitsHeld
  <1>6. scan.kind = "counter" => next_unit = Units
    BY <1>1, <1>2, <1>3 DEF CurrentUnit
  <1>7. scan.kind = "dealt" => unit[p] >= 0 /\ unit[p] + scan.partitions >= Units
    BY <1>1, <1>2, <1>3 DEF CurrentUnit
  <1> QED
    BY <1>4, <1>5, <1>6, <1>7

\* When every reader is drained, every chunk was handed out.
LEMMA AllDelivered ==
  ASSUME TypeOK, UnitsHeld, \A p \in Partitions : CurrentUnit(p) = Units,
         NEW u \in ScanUnits, NEW k \in DOMAIN Chunks[u]
  PROVE  u \in DOMAIN Chunks /\ Delivered(u, k)
  <1> DEFINE n == scan.partitions
  <1>1. /\ Units \in Nat /\ n \in Nat \ {0} /\ Partitions = 0 .. (n - 1) /\ n <= Units
        /\ DOMAIN Chunks = 0 .. (Units - 1) /\ scan.kind \in Kinds
        /\ unit \in [Partitions -> -1 .. (Units - 1)]
        /\ handed \in [Partitions -> Nat]
    BY ScanShape DEF TypeOK
  <1>2. u \in DOMAIN Chunks /\ u \in Nat
    BY <1>1 DEF ScanUnits
  <1>3. Begun(u)
    <2>1. CASE scan.kind = "whole"
      BY <2>1, DrainedReader DEF Begun, ScanUnits, Indexed
    <2>2. CASE scan.kind = "counter"
      <3>1. 0 \in Partitions
        BY <1>1
      <3>2. next_unit = Units
        BY <2>2, <3>1, DrainedReader
      <3> QED
        BY <1>1, <1>2, <2>2, <3>2 DEF Begun
    <2>3. CASE scan.kind = "dealt"
      <3>1. u % n \in Partitions
        BY <1>1, <1>2, Remainder
      <3> DEFINE p == u % n
      <3>2. unit[p] >= 0 /\ unit[p] + n >= Units /\ unit[p] % n = p
        BY <2>3, <3>1, DrainedReader DEF UnitsHeld
      <3>3. unit[p] \in Nat
        BY <1>1, <3>1, <3>2
      <3>4. ASSUME unit[p] < u PROVE FALSE
        <4>1. unit[p] + n <= u
          BY <1>1, <1>2, <3>2, <3>3, <3>4, DealtApart
        <4> QED
          BY <1>1, <1>2, <3>2, <3>3, <4>1
      <3> QED
        BY <1>2, <2>3, <3>3, <3>4 DEF Begun
    <2> QED
      BY <1>1, <2>1, <2>2, <2>3 DEF Kinds
  <1>4. ASSUME NEW p \in Partitions, unit[p] = u PROVE k <= handed[p]
    <2>1. handed[p] >= Len(Chunks[u])
      BY <1>2, <1>4, DrainedReader
    <2>2. k \in Nat /\ k <= Len(Chunks[u]) /\ Len(Chunks[u]) \in Nat
      BY <1>2, ScanShape
    <2> QED
      BY <1>1, <2>1, <2>2
  <1> QED
    BY <1>2, <1>3, <1>4 DEF Delivered

\* Each chunk of the source reaches DuckDB exactly once: the claims share out the
\* partitions, a thread stops only past the last of them, and a reader is let go of
\* only when it has nothing left.
THEOREM SpecEveryChunkOnce == Spec => []EveryChunkOnce
  <1>1. Inv => EveryChunkOnce
    <2> SUFFICES ASSUME Inv, Complete, NEW u \in ScanUnits, NEW k \in DOMAIN Chunks[u]
                 PROVE  /\ \E t \in Threads : \E i \in DOMAIN output[t] :
                              output[t][i].unit = u /\ output[t][i].chunk = k
                        /\ \A t, v \in Threads : \A i \in DOMAIN output[t], j \in DOMAIN output[v] :
                              /\ output[t][i].unit = u /\ output[t][i].chunk = k
                              /\ output[v][j].unit = u /\ output[v][j].chunk = k
                              => t = v /\ i = j
      BY DEF EveryChunkOnce
    <2>1. TypeOK /\ UnitsHeld /\ ~refused /\ ~cancelled /\ \A t \in Threads : status[t] = "finished"
      BY DEF Inv, Complete
    <2>2. \A t \in Threads : reader[t] = NoReader
      BY <2>1 DEF Inv, ReadersClaimed
    <2>3. next_partition >= scan.partitions
      BY <2>1 DEF Inv, Drained
    <2>4. ASSUME NEW p \in Partitions PROVE CurrentUnit(p) = Units
      <3>0. Partitions = 0 .. (scan.partitions - 1) /\ scan.partitions \in Nat
        BY <2>1, ScanShape
      <3>1. p \in Nat /\ p < scan.partitions /\ scan.partitions \in Nat /\ next_partition \in Nat
        BY <2>1, <3>0 DEF TypeOK
      <3>2. p < next_partition /\ p # NoReader
        BY <2>3, <3>1, ScanAssumption
      <3> QED
        BY <2>1, <2>2, <3>2 DEF Inv, Drained
    <2>5. u \in DOMAIN Chunks /\ Delivered(u, k)
      BY <2>1, <2>4, AllDelivered
    <2> QED
      BY <2>1, <2>5 DEF Inv, DeliveredOutput, OutputDelivered
  <1> QED
    BY <1>1, SpecInv, PTL

\* What DuckDB makes of the batch indexes is the order the query asked for: a chunk
\* is placed by its unit, a thread gives the chunks of a unit in turn, and an ordered
\* scan without indexes is one partition.
THEOREM SpecOrderKept == Spec => []OrderKept
  <1>1. Inv => OrderKept
    <2> SUFFICES ASSUME Inv, scan.ordered,
                        NEW t \in Threads, NEW v \in Threads,
                        NEW i \in DOMAIN output[t], NEW j \in DOMAIN output[v],
                        \/ output[t][i].index < output[v][j].index
                        \/ output[t][i].index = output[v][j].index /\ t = v /\ i < j
                 PROVE  Before(Rank(output[t][i]), Rank(output[v][j]))
      BY DEF OrderKept
    <2>1. TypeOK
      BY DEF Inv
    <2>2. /\ output[t][i].index \in Nat /\ output[t][i].unit \in Nat /\ output[t][i].chunk \in Nat
          /\ output[v][j].index \in Nat /\ output[v][j].unit \in Nat /\ output[v][j].chunk \in Nat
      BY <2>1, OutputShape
    <2>3. output[t][i].index = output[t][i].unit /\ output[v][j].index = output[v][j].unit
      BY DEF Inv, OutputDelivered
    <2>4. t = v /\ i < j /\ output[t][i].unit = output[v][j].unit
             => output[t][i].chunk < output[v][j].chunk
      BY DEF Inv, UnitInOrder
    <2>5. CASE Indexed
      BY <2>2, <2>3, <2>4, <2>5 DEF Rank, Before
    <2>6. CASE ~Indexed
      <3>1. scan.partitions \in Nat \ {0} /\ Partitions = 0 .. (scan.partitions - 1)
        BY <2>1, ScanShape
      <3>2. scan.partitions = 1
        BY <2>6, <3>1 DEF Inv, OutputDelivered, CheckScanPartitions, Indexed
      <3>3. partition[t] = 0 /\ partition[v] = 0
        BY <2>1, <3>1, <3>2 DEF TypeOK
      <3>4. output[t][i].index <= partition[t] /\ output[v][j].index <= partition[v]
        BY <2>6 DEF Inv, OutputDelivered
      <3>5. output[t][i].index = 0 /\ output[v][j].index = 0
        BY <2>2, <3>3, <3>4
      <3>6. output[t][i].chunk < output[v][j].chunk
        BY <2>3, <2>4, <3>5
      <3> QED
        BY <2>6, <3>6 DEF Rank, Before
    <2> QED
      BY <2>5, <2>6
  <1> QED
    BY <1>1, SpecInv, PTL

\* EmitRowIds gives every id below rows_emitted to exactly one emitted row.
THEOREM SpecRowIdsTile == Spec => []RowIdsTile
  <1>1. Inv => RowIdsTile
    <2> SUFFICES ASSUME Inv, NEW id \in 0 .. (rows_emitted - 1)
                 PROVE  LET emitted == UNION {{<<t, i>> : i \in DOMAIN output[t]} : t \in Threads}
                        IN  Cardinality({e \in emitted : HasId(e[1], e[2], id)}) = 1
      BY DEF RowIdsTile, HasId
    <2> DEFINE emitted == UNION {{<<t, i>> : i \in DOMAIN output[t]} : t \in Threads}
    <2>1. PICK t \in Threads : \E i \in DOMAIN output[t] :
            /\ HasId(t, i, id)
            /\ \A v \in Threads : \A j \in DOMAIN output[v] : HasId(v, j, id) => v = t /\ j = i
      BY DEF Inv, IdsReserved
    <2>2. PICK i \in DOMAIN output[t] :
            /\ HasId(t, i, id)
            /\ \A v \in Threads : \A j \in DOMAIN output[v] : HasId(v, j, id) => v = t /\ j = i
      BY <2>1
    <2>3. {e \in emitted : HasId(e[1], e[2], id)} = {<<t, i>>}
      BY <2>2
    <2> QED
      BY <2>3, FS_Singleton
  <1> QED
    BY <1>1, SpecInv, PTL

=============================================================================
