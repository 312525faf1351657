---------------------------- MODULE NextHopProofs ----------------------------
(* The loop of BestNeighbor finds the lowest TTI in a table of any size, provided no  *)
(* TTI is NaN.                                                                        *)
EXTENDS NextHop, TLAPS

(* What the loop knows after the entries before i. *)
Seen == Better(1..(i - 1))

TableOK ==
  /\ \E n \in 0..MaxNeighbors : tti \in [1..n -> TTIs]
  /\ initialTTI \in TTIs
  /\ pc \in {"start", "loop", "done"}

LoopInv ==
  pc = "loop" =>
    /\ i \in Nat \ {0} /\ (i - 1 = 0 \/ i - 1 \in Entries)
    /\ \/ Seen = {} /\ bestFoundTTI = initialTTI
       \/ /\ bestFoundID \in Seen /\ bestFoundTTI = tti[bestFoundID]
          /\ \A m \in Seen : Precedes(bestFoundID, m)

IInv == TableOK /\ LoopInv /\ LowestTTI

USE NextHopAssumption

(* The invariant holds before the search. *)
LEMMA InitInv == ASSUME TTIs \subseteq Int PROVE Init => IInv
  BY DEF Init, IInv, TableOK, LoopInv, LowestTTI

(* It holds when the node has computed its own TTI. *)
LEMMA BeginInv == ASSUME TTIs \subseteq Int, IInv, Begin PROVE IInv'
<1>1. TableOK'
  BY DEF IInv, TableOK, Begin, Entries
<1>2. LoopInv'
  <2>1. SUFFICES ASSUME pc' = "loop"
                 PROVE  i' = 1 /\ bestFoundTTI' = initialTTI' /\ Seen' = {}
    BY DEF LoopInv
  <2>2. i' = 1 /\ bestFoundTTI' = initialTTI'
    BY <2>1 DEF Begin
  <2> QED BY <2>2 DEF Seen, Better
<1>3. LowestTTI'
  <2>1. CASE Entries = {}
    <3>1. Entries' = {} /\ result' = Zero /\ tti' = tti
      BY <2>1 DEF Begin, Entries
    <3> QED BY <3>1 DEF LowestTTI, Better
  <2>2. CASE Entries # {}
    BY <2>2 DEF Begin, LowestTTI
  <2> QED BY <2>1, <2>2
<1> QED BY <1>1, <1>2, <1>3 DEF IInv

(* Looking at one more entry keeps the best of those seen. *)
LEMMA VisitInv == ASSUME TTIs \subseteq Int, IInv, Visit PROVE IInv'
<1> USE DEF IInv
<1>1. TableOK'
  BY DEF TableOK, Visit
<1>2. PICK n \in 0..MaxNeighbors : tti \in [1..n -> TTIs]
  BY DEF TableOK
<1>3. /\ i \in 1..n /\ i' = i + 1 /\ tti' = tti /\ initialTTI' = initialTTI
      /\ Entries = 1..n /\ Entries' = 1..n
  BY <1>2 DEF Visit, Entries
<1>4. tti[i] \in Int /\ initialTTI \in Int /\ \A m \in 1..n : tti[m] \in Int
  BY <1>2, <1>3 DEF TableOK
<1>5. Seen' = Better(1..i)
  BY <1>3 DEF Seen, Better, Greater
<1>6. Better(1..i) = Seen \cup Better({i})
  BY <1>3 DEF Seen, Better
<1>7. Seen \subseteq 1..n
  BY <1>3 DEF Seen, Better
<1>8. \A m \in Better({i}) : m = i
  BY DEF Better
<1>9. i \in Better({i}) <=> tti[i] # 0 /\ (initialTTI = 0 \/ initialTTI > tti[i])
  BY <1>4 DEF Better, Greater
<1>10. \A m \in Seen : m < i /\ tti[m] # 0 /\ (initialTTI = 0 \/ initialTTI > tti[m])
  BY <1>3, <1>4 DEF Seen, Better, Greater
<1>11. \/ Seen' = {} /\ bestFoundTTI' = initialTTI'
       \/ /\ bestFoundID' \in Seen' /\ bestFoundTTI' = tti[bestFoundID']
          /\ \A m \in Seen' : Precedes(bestFoundID', m)
  <2>1. CASE Seen = {} /\ bestFoundTTI = initialTTI
    <3>1. Improves(bestFoundTTI, tti[i]) <=> i \in Better({i})
      BY <2>1, <1>4, <1>9 DEF Improves, Greater
    <3>2. CASE i \in Better({i})
      <4>1. bestFoundID' = i /\ bestFoundTTI' = tti[i]
        BY <3>1, <3>2 DEF Visit
      <4>2. Seen' = {i}
        BY <2>1, <3>2, <1>5, <1>6, <1>8
      <4> QED BY <4>1, <4>2, <1>3, <1>4 DEF Precedes
    <3>3. CASE i \notin Better({i})
      <4>1. bestFoundTTI' = bestFoundTTI
        BY <3>1, <3>3 DEF Visit
      <4>2. Seen' = {}
        BY <2>1, <3>3, <1>5, <1>6, <1>8
      <4> QED BY <4>1, <4>2, <2>1, <1>3
    <3> QED BY <3>2, <3>3
  <2>2. CASE /\ bestFoundID \in Seen /\ bestFoundTTI = tti[bestFoundID]
             /\ \A m \in Seen : Precedes(bestFoundID, m)
    <3>1. bestFoundID \in 1..n /\ bestFoundTTI \in Int /\ bestFoundTTI # 0 /\ bestFoundID < i
          /\ (initialTTI = 0 \/ initialTTI > bestFoundTTI)
      BY <2>2, <1>4, <1>7, <1>10
    <3>2. Improves(bestFoundTTI, tti[i]) <=> bestFoundTTI > tti[i] /\ tti[i] # 0
      BY <3>1, <1>4 DEF Improves, Greater
    <3>3. \A m \in Seen : tti[m] > bestFoundTTI \/ (tti[m] = bestFoundTTI /\ bestFoundID <= m)
      BY <2>2, <1>4, <1>7 DEF Precedes, Greater
    <3>4. CASE bestFoundTTI > tti[i] /\ tti[i] # 0
      <4>1. bestFoundID' = i /\ bestFoundTTI' = tti[i]
        BY <3>2, <3>4 DEF Visit
      <4>2. i \in Better({i})
        BY <3>1, <3>4, <1>4, <1>9
      <4>3. \A m \in Seen : tti[m] > tti[i]
        BY <3>1, <3>3, <3>4, <1>4, <1>7
      <4>4. \A m \in Seen' : Precedes(i, m)
        <5>1. \A m \in Seen : Precedes(i, m)
          BY <4>3, <1>3, <1>4, <1>7 DEF Precedes, Greater
        <5>2. \A m \in Better({i}) : Precedes(i, m)
          BY <1>3, <1>8 DEF Precedes
        <5> QED BY <5>1, <5>2, <1>5, <1>6
      <4> QED BY <4>1, <4>2, <4>4, <1>3, <1>5, <1>6
    <3>5. CASE ~(bestFoundTTI > tti[i] /\ tti[i] # 0)
      <4>1. bestFoundID' = bestFoundID /\ bestFoundTTI' = bestFoundTTI
        BY <3>2, <3>5 DEF Visit
      <4>2. \A m \in Seen' :
               tti[m] > bestFoundTTI \/ (tti[m] = bestFoundTTI /\ bestFoundID <= m)
        <5>1. \A m \in Better({i}) :
                 tti[m] > bestFoundTTI \/ (tti[m] = bestFoundTTI /\ bestFoundID <= m)
          BY <3>1, <3>5, <1>3, <1>4, <1>8, <1>9
        <5> QED BY <5>1, <3>3, <1>5, <1>6
      <4>3. \A m \in Seen' : Precedes(bestFoundID, m)
        <5>1. \A m \in Seen' : tti[m] \in Int /\ tti[m] # NaN
          BY <1>3, <1>4, <1>5, <1>6, <1>7, <1>8
        <5> QED BY <5>1, <4>2, <2>2, <3>1 DEF Precedes, Greater
      <4> QED BY <4>1, <4>3, <2>2, <1>3, <1>5, <1>6
    <3> QED BY <3>4, <3>5
  <2> QED BY <2>1, <2>2 DEF LoopInv, Visit
<1>12. LoopInv'
  <2>1. i' \in Nat \ {0} /\ i' - 1 \in Entries'
    BY <1>3
  <2> QED BY <2>1, <1>3, <1>11 DEF LoopInv, Precedes, Greater
<1>13. LowestTTI'
  BY DEF Visit, LowestTTI
<1> QED BY <1>1, <1>12, <1>13

(* After the last entry the best of those seen is the best of all. *)
LEMMA DecideInv == ASSUME TTIs \subseteq Int, IInv, Decide PROVE IInv'
<1> USE DEF IInv
<1>1. TableOK' /\ LoopInv'
  BY DEF TableOK, LoopInv, Decide
<1>2. PICK n \in 0..MaxNeighbors : tti \in [1..n -> TTIs]
  BY DEF TableOK
<1>3. i - 1 = n
  <2>1. i \in Nat \ {0} /\ (i - 1 = 0 \/ i - 1 \in Entries) /\ i \notin Entries
    BY DEF LoopInv, Decide
  <2>2. Entries = 1..n
    BY <1>2 DEF Entries
  <2> QED BY <2>1, <2>2
<1>4. Seen = Better(Entries)
  BY <1>2, <1>3 DEF Seen, Entries
<1>5. initialTTI \in Int /\ \A m \in 1..n : tti[m] \in Int
  BY <1>2 DEF TableOK
<1>6. /\ tti' = tti /\ initialTTI' = initialTTI
      /\ result' = IF \/ Greater(initialTTI, bestFoundTTI)
                      \/ initialTTI = 0 /\ bestFoundTTI # 0
                   THEN bestFoundID ELSE Zero
  BY DEF Decide
<1>7. \/ result' = Zero /\ Better(Entries) = {}
      \/ result' \in Better(Entries) /\ \A m \in Better(Entries) : Precedes(result', m)
  <2>1. CASE Seen = {} /\ bestFoundTTI = initialTTI
    BY <2>1, <1>4, <1>5, <1>6 DEF Greater
  <2>2. CASE /\ bestFoundID \in Seen /\ bestFoundTTI = tti[bestFoundID]
             /\ \A m \in Seen : Precedes(bestFoundID, m)
    <3>1. bestFoundTTI \in Int /\ bestFoundTTI # 0
          /\ (initialTTI = 0 \/ initialTTI > bestFoundTTI)
      BY <2>2, <1>2, <1>4, <1>5 DEF Better, Greater, Entries
    <3>2. result' = bestFoundID
      BY <3>1, <1>5, <1>6 DEF Greater
    <3> QED BY <3>2, <2>2, <1>4
  <2> QED BY <2>1, <2>2 DEF LoopInv, Decide
<1>8. LowestTTI'
  BY <1>6, <1>7 DEF LowestTTI, Better, Entries, Precedes, Greater
<1> QED BY <1>1, <1>8

(* BestNeighbor returns the lowest TTI for every table and every own TTI: with no NaN    *)
(* among the TTIs, the choice AeroRouting makes in one step is the choice of this loop.  *)
THEOREM BestNeighborCorrect ==
  ASSUME TTIs \subseteq Int PROVE Spec => []LowestTTI
<1>1. Init => IInv
  BY InitInv
<1>2. IInv /\ [Next]_vars => IInv'
  <2>1. ASSUME IInv, UNCHANGED vars PROVE IInv'
    BY <2>1 DEF IInv, TableOK, LoopInv, LowestTTI, Seen, Better, Precedes, Entries, vars, Greater
  <2> QED BY <2>1, BeginInv, VisitInv, DecideInv DEF Next
<1>3. IInv => LowestTTI
  BY DEF IInv
<1> QED BY <1>1, <1>2, <1>3, PTL DEF Spec
=============================================================================
