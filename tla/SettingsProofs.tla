----------------------------- MODULE SettingsProofs -----------------------------
(***************************************************************************)
(* Proofs about the settings, for every number of networks, any forms and  *)
(* fillings, and any number of power cuts and failing writes.              *)
(***************************************************************************)
EXTENDS SettingsProps, SequenceTheorems, WellFoundedInduction, TLAPS

(* A set of numbers has a smallest. *)
LEMMA SmallestIs ==
  ASSUME NEW T \in SUBSET Nat, T # {}
  PROVE  \E x \in T : \A y \in T : x <= y
<1> DEFINE R == OpToRel(<, Nat)
<1>1. IsWellFoundedOn(R, Nat)
  BY NatLessThanWellFounded
<1>2. \A x, y \in Nat : <<y, x>> \in R <=> y < x
  BY DEF OpToRel
<1> HIDE DEF R
<1>3. PICK x \in T : \A y \in T : ~ (<<y, x>> \in R)
  BY <1>1, WFMin
<1>4. ASSUME NEW y \in T PROVE x <= y
  <2>1. x \in Nat /\ y \in Nat
    OBVIOUS
  <2>2. ~ (y < x)
    BY <1>2, <1>3, <2>1, Zenon
  <2> QED
    BY <2>1, <2>2
<1> QED
  BY <1>4

-----------------------------------------------------------------------------
(* The table of what every turn of the packing loop leaves. *)
Pulls(t, m, g) ==
  /\ g = [n \in 0 .. m |-> g[n]] /\ g[0] = t
  /\ \A n \in 1 .. m : g[n] = Pull(g[n - 1], n - 1)

(* It exists, for any number of turns. *)
LEMMA PullsExist == \A t : \A m \in Nat : \E g : Pulls(t, m, g)
<1> SUFFICES ASSUME NEW t PROVE \A m \in Nat : \E g : Pulls(t, m, g)
  OBVIOUS
<1> DEFINE None == {m \in Nat : ~ \E g : Pulls(t, m, g)}
<1> SUFFICES ASSUME None # {} PROVE FALSE
  OBVIOUS
<1>1. PICK m \in None : \A k \in None : m <= k
  BY SmallestIs
<1>2. CASE m = 0
  <2> DEFINE g == [n \in 0 .. 0 |-> t]
  <2>1. Pulls(t, 0, g)
    BY DEF Pulls
  <2> QED
    BY <1>2, <2>1
<1>3. CASE m # 0
  <2>1. m - 1 \in Nat /\ ~ (m <= m - 1)
    BY <1>3
  <2>2. PICK h : Pulls(t, m - 1, h)
    BY <1>1, <2>1
  <2> DEFINE g == [n \in 0 .. m |-> IF n = m THEN Pull(h[m - 1], m - 1) ELSE h[n]]
  <2>3. g[0] = t
    BY <1>3, <2>2 DEF Pulls
  <2>4. ASSUME NEW n \in 1 .. m PROVE g[n] = Pull(g[n - 1], n - 1)
    <3>1. n - 1 \in 0 .. m /\ n - 1 # m /\ n \in 0 .. m
      OBVIOUS
    <3>2. g[n - 1] = h[n - 1]
      BY <3>1
    <3>3. CASE n = m
      BY <3>1, <3>2, <3>3
    <3>4. CASE n # m
      <4>1. n \in 1 .. m - 1
        BY <3>4
      <4>2. g[n] = h[n]
        BY <3>1, <3>4
      <4> QED
        BY <2>2, <3>2, <4>1, <4>2 DEF Pulls
    <3> QED
      BY <3>3, <3>4
  <2>5. g = [n \in 0 .. m |-> g[n]]
    OBVIOUS
  <2>6. Pulls(t, m, g)
    <3> HIDE DEF g
    <3> QED
      BY <2>3, <2>4, <2>5 DEF Pulls
  <2> QED
    BY <2>6
<1> QED
  BY <1>2, <1>3

(* What the form holds before the loop. *)
Typed(f, filled) ==
  LET Field(i) == IF i \in filled THEN <<f, i>> ELSE Empty
  IN  [token |-> <<f, 0>>, ssid |-> [i \in Slot |-> Field(i)],
       pass |-> [i \in Slot |-> Field(i)], rest |-> <<f, 0>>]

(* parse_and_validate ends with the last entry of that table. *)
LEMMA ParsedIsPulled ==
  \A f, filled : \E g : Pulls(Typed(f, filled), Nets, g) /\ Parsed(f, filled) = g[Nets]
<1> SUFFICES ASSUME NEW f, NEW filled
             PROVE  \E g : Pulls(Typed(f, filled), Nets, g) /\ Parsed(f, filled) = g[Nets]
  OBVIOUS
<1> DEFINE t == Typed(f, filled)
           P(g) == g = [n \in 0 .. Nets |-> IF n = 0 THEN t ELSE Pull(g[n - 1], n - 1)]
           pulled == CHOOSE g : P(g)
<1>1. Parsed(f, filled) = pulled[Nets]
  BY DEF Parsed, Typed
<1>2. PICK h : Pulls(t, Nets, h)
  BY PullsExist, SettingsAssumption
<1>3. P(h)
  <2> HIDE DEF t
  <2>1. h[0] = t /\ \A n \in 1 .. Nets : h[n] = Pull(h[n - 1], n - 1)
    BY <1>2 DEF Pulls
  <2>2. \A n \in 0 .. Nets : n = 0 \/ n \in 1 .. Nets
    BY SettingsAssumption
  <2>3. \A n \in 0 .. Nets : h[n] = IF n = 0 THEN t ELSE Pull(h[n - 1], n - 1)
    BY <2>1, <2>2
  <2> QED
    BY <1>2, <2>3 DEF Pulls
<1>4. P(pulled)
  <2> HIDE DEF P
  <2> QED
    BY <1>3
<1>5. Pulls(t, Nets, pulled)
  <2> HIDE DEF pulled, t
  <2>1. \A n \in 0 .. Nets : pulled[n] = IF n = 0 THEN t ELSE Pull(pulled[n - 1], n - 1)
    BY <1>4
  <2>2. 0 \in 0 .. Nets /\ \A n \in 1 .. Nets : n \in 0 .. Nets /\ n # 0
    BY SettingsAssumption
  <2>3. pulled[0] = t /\ \A n \in 1 .. Nets : pulled[n] = Pull(pulled[n - 1], n - 1)
    BY <2>1, <2>2
  <2>4. pulled = [n \in 0 .. Nets |-> pulled[n]]
    BY <1>4
  <2> QED
    BY <2>3, <2>4 DEF Pulls
<1> QED
  BY <1>1, <1>5

-----------------------------------------------------------------------------
(* A name from a form is never taken for an empty one. *)
LEMMA FormsAreNames ==
  \A f \in {"old"} \cup Forms : \A i : <<f, i>> # Empty /\ <<f, i>> # Absent
  BY SettingsAssumption DEF Empty, Absent

(* The networks filled in on form f, in its order, with gaps; none is behind a *)
(* gap below n.                                                               *)
Ordered(u, f, filled, n) ==
  /\ u \in [Slot -> {Empty} \cup {<<f, j>> : j \in filled}]
  /\ \A j \in filled : \E i \in Slot : u[i] = <<f, j>>
  /\ \A i, k \in Slot : i < k /\ u[i] # Empty /\ u[k] # Empty => u[i][2] < u[k][2]
  /\ \A i, k \in Slot : i < n /\ i < k /\ u[i] = Empty => u[k] = Empty

(* What the first n turns of the packing loop leave. *)
Moved(s, f, filled, n) ==
  /\ s = [token |-> <<f, 0>>, ssid |-> s.ssid, pass |-> s.ssid, rest |-> <<f, 0>>]
  /\ Ordered(s.ssid, f, filled, n)

LEMMA TypedMoved ==
  ASSUME NEW f \in {"old"} \cup Forms, NEW filled \in SUBSET Slot
  PROVE  Moved(Typed(f, filled), f, filled, 0)
<1> DEFINE u == [i \in Slot |-> IF i \in filled THEN <<f, i>> ELSE Empty]
<1>1. Typed(f, filled) = [token |-> <<f, 0>>, ssid |-> u, pass |-> u, rest |-> <<f, 0>>]
  BY DEF Typed
<1>2. u \in [Slot -> {Empty} \cup {<<f, j>> : j \in filled}]
  OBVIOUS
<1>3. \A j \in filled : \E i \in Slot : u[i] = <<f, j>>
  OBVIOUS
<1>4. \A i \in Slot : u[i] # Empty => u[i] = <<f, i>> /\ u[i][2] = i
  OBVIOUS
<1>5. \A i \in Slot : ~ (i < 0)
  BY DEF Slot
<1>6. Ordered(u, f, filled, 0)
  <2> HIDE DEF u
  <2> QED
    BY <1>2, <1>3, <1>4, <1>5 DEF Ordered
<1> QED
  <2> HIDE DEF u
  <2> QED
    BY <1>1, <1>6 DEF Moved

(* One turn fills the gap at n, if anything is left behind it. *)
LEMMA PullKeeps ==
  ASSUME NEW f \in {"old"} \cup Forms, NEW filled \in SUBSET Slot, NEW n \in Slot, NEW s,
         Moved(s, f, filled, n)
  PROVE  Moved(Pull(s, n), f, filled, n + 1)
<1> DEFINE u == s.ssid
           Later == {j \in Slot : j > n /\ u[j] # Empty}
<1>1. Ordered(u, f, filled, n)
  BY DEF Moved
<1>2. s = [token |-> <<f, 0>>, ssid |-> u, pass |-> u, rest |-> <<f, 0>>]
  BY DEF Moved
<1>3. Slot \subseteq Nat
  BY DEF Slot
<1>4. CASE u[n] # Empty \/ Later = {}
  <2>1. Pull(s, n) = s
    BY <1>4 DEF Pull
  <2>2. ASSUME NEW i \in Slot, NEW k \in Slot, i < n + 1, i < k, u[i] = Empty PROVE u[k] = Empty
    <3>1. i < n \/ i = n
      BY <1>3, <2>2
    <3>2. CASE i < n
      BY <1>1, <2>2, <3>2 DEF Ordered
    <3>3. CASE i = n
      BY <1>3, <1>4, <2>2, <3>3
    <3> QED
      BY <3>1, <3>2, <3>3
  <2>3. Ordered(u, f, filled, n + 1)
    <3> HIDE DEF u
    <3> QED
      BY <1>1, <2>2 DEF Ordered
  <2> QED
    BY <1>2, <2>1, <2>3 DEF Moved
<1>5. CASE u[n] = Empty /\ Later # {}
  <2> DEFINE Nearest(j) == \A k \in Later : j <= k
             j == CHOOSE j \in Later : Nearest(j)
             q == [k \in Slot |-> IF k = j THEN Empty ELSE IF k = n THEN u[j] ELSE u[k]]
  <2>1. j \in Later /\ Nearest(j)
    <3>1. \E x \in Later : Nearest(x)
      <4> HIDE DEF Later
      <4>1. Later \in SUBSET Nat
        BY <1>3 DEF Later
      <4> QED
        BY <1>5, <4>1, SmallestIs
    <3> HIDE DEF Later, Nearest
    <3> QED
      BY <3>1
  <2>2. Pull(s, n) = [s EXCEPT !.ssid[n] = u[j], !.pass[n] = s.pass[j],
                               !.ssid[j] = Empty, !.pass[j] = Empty]
    BY <1>5 DEF Pull
  <2> HIDE DEF j
  <2>3. j \in Slot /\ n < j /\ u[j] # Empty /\ u[n] = Empty
    BY <1>3, <1>5, <2>1
  <2>4. \A k \in Slot : n < k /\ k < j => u[k] = Empty
    BY <1>3, <2>1
  <2>5. \A k \in Slot : k < n => u[k] # Empty
    BY <1>1, <1>3, <2>3 DEF Ordered
  <2>6. Pull(s, n) = [token |-> <<f, 0>>, ssid |-> q, pass |-> q, rest |-> <<f, 0>>]
    <3>1. u \in [Slot -> {Empty} \cup {<<f, l>> : l \in filled}]
      BY <1>1 DEF Ordered
    <3>2. [[u EXCEPT ![n] = u[j]] EXCEPT ![j] = Empty] = q
      <4> HIDE DEF u
      <4> QED
        BY <2>3, <3>1
    <3> HIDE DEF u, q
    <3>3. s.ssid = u /\ s.pass = u
      BY <1>2
    <3>4. Pull(s, n) = [token |-> <<f, 0>>, ssid |-> [[u EXCEPT ![n] = u[j]] EXCEPT ![j] = Empty],
                        pass |-> [[u EXCEPT ![n] = u[j]] EXCEPT ![j] = Empty], rest |-> <<f, 0>>]
      BY <1>2, <2>2, <3>3
    <3> QED
      BY <3>2, <3>4
  <2>7. Ordered(q, f, filled, n + 1)
    <3> HIDE DEF u, Later, Nearest
    <3>1. q \in [Slot -> {Empty} \cup {<<f, l>> : l \in filled}]
      BY <1>1, <2>3 DEF Ordered
    <3>2. ASSUME NEW l \in filled PROVE \E i \in Slot : q[i] = <<f, l>>
      <4>1. PICK i \in Slot : u[i] = <<f, l>>
        BY <1>1 DEF Ordered
      <4>2. u[i] # Empty
        BY <4>1, FormsAreNames
      <4>3. CASE i = j
        <5>1. q[n] = u[j]
          BY <1>3, <2>3
        <5> QED
          BY <4>1, <4>3, <5>1
      <4>4. CASE i # j
        <5>1. q[i] = u[i]
          BY <2>3, <4>2, <4>4
        <5> QED
          BY <4>1, <5>1
      <4> QED
        BY <4>3, <4>4
    <3>3. q[j] = Empty /\ q[n] = u[j] /\ \A k \in Slot : k # j /\ k # n => q[k] = u[k]
      BY <1>3, <2>3
    <3> HIDE DEF q
    <3>4. ASSUME NEW i \in Slot, NEW k \in Slot, i < k, q[i] # Empty, q[k] # Empty
          PROVE  q[i][2] < q[k][2]
      <4> DEFINE a == IF i = n THEN j ELSE i
                 b == IF k = n THEN j ELSE k
      <4>1. i # j /\ k # j
        BY <3>3, <3>4
      <4>2. a \in Slot /\ b \in Slot /\ q[i] = u[a] /\ q[k] = u[b]
        BY <2>3, <3>3, <4>1
      <4>3. a < b
        <5>1. CASE i = n
          <6>1. n < k /\ q[k] = u[k] /\ k # n
            BY <1>3, <3>3, <3>4, <4>1, <5>1
          <6>2. ~ (k < j)
            BY <2>4, <3>4, <6>1
          <6> QED
            BY <1>3, <2>3, <4>1, <5>1, <6>1, <6>2
        <5>2. CASE k = n
          BY <1>3, <2>3, <3>4, <5>2
        <5>3. CASE i # n /\ k # n
          BY <3>4, <5>3
        <5> QED
          BY <5>1, <5>2, <5>3
      <4> HIDE DEF a, b
      <4> QED
        BY <1>1, <3>4, <4>2, <4>3 DEF Ordered
    <3>5. ASSUME NEW i \in Slot, NEW k \in Slot, i < n + 1, i < k, q[i] = Empty PROVE q[k] = Empty
      <4>1. i < n \/ i = n
        BY <1>3, <3>5
      <4>2. CASE i < n
        BY <1>3, <2>3, <2>5, <3>3, <3>5, <4>2
      <4>3. CASE i = n
        BY <2>3, <3>3, <3>5, <4>3
      <4> QED
        BY <4>1, <4>2, <4>3
    <3> QED
      BY <3>1, <3>2, <3>4, <3>5 DEF Ordered
  <2> QED
    <3> HIDE DEF q
    <3> QED
      BY <2>6, <2>7 DEF Moved
<1> QED
  BY <1>4, <1>5

(* What parse_and_validate accepts is packed, for any number of networks. *)
LEMMA ParsedMoved ==
  ASSUME NEW f \in {"old"} \cup Forms, NEW filled \in SUBSET Slot
  PROVE  Moved(Parsed(f, filled), f, filled, Nets)
<1>1. PICK g : Pulls(Typed(f, filled), Nets, g) /\ Parsed(f, filled) = g[Nets]
  BY ParsedIsPulled
<1> DEFINE Wrong == {n \in 0 .. Nets : ~ Moved(g[n], f, filled, n)}
<1>2. ASSUME Wrong # {} PROVE FALSE
  <2>1. Wrong \in SUBSET Nat
    BY SettingsAssumption
  <2>2. PICK m \in Wrong : \A k \in Wrong : m <= k
    <3> HIDE DEF Wrong
    <3> QED
      BY <1>2, <2>1, SmallestIs
  <2>3. CASE m = 0
    <3>1. Moved(g[0], f, filled, 0)
      BY <1>1, TypedMoved DEF Pulls
    <3> QED
      BY <2>2, <2>3, <3>1
  <2>4. CASE m # 0
    <3>1. PICK n \in Slot : m = n + 1
      <4>1. m \in 0 .. Nets /\ Nets \in Nat
        BY <2>2, SettingsAssumption
      <4>2. m - 1 \in 0 .. Nets - 1 /\ m = (m - 1) + 1
        BY <2>4, <4>1
      <4> QED
        BY <4>2 DEF Slot
    <3>2. n \in 0 .. Nets /\ ~ (m <= n) /\ m \in 1 .. Nets /\ m - 1 = n
      BY <3>1, SettingsAssumption DEF Slot
    <3>3. Moved(g[n], f, filled, n)
      BY <2>2, <3>2
    <3>4. g[m] = Pull(g[n], n)
      BY <1>1, <3>2 DEF Pulls
    <3>5. Moved(g[m], f, filled, n + 1)
      BY <3>3, <3>4, PullKeeps
    <3> QED
      BY <2>2, <3>1, <3>5
  <2> QED
    BY <2>3, <2>4
<1> QED
  BY <1>1, <1>2, SettingsAssumption

(* A form that names a network is stored packed: every network that was filled *)
(* in, in order, at the front, with its own password (the compaction loop of   *)
(* parse_and_validate).                                                       *)
THEOREM ParsedPacks ==
  \A f \in {"old"} \cup Forms : \A filled \in SUBSET Slot : Packed(Parsed(f, filled), f, filled)
<1> SUFFICES ASSUME NEW f \in {"old"} \cup Forms, NEW filled \in SUBSET Slot
             PROVE  Packed(Parsed(f, filled), f, filled)
  OBVIOUS
<1>1. PICK s : s = Parsed(f, filled)
  OBVIOUS
<1>2. Moved(s, f, filled, Nets)
  BY <1>1, ParsedMoved
<1>3. Ordered(s.ssid, f, filled, Nets)
  BY <1>2 DEF Moved
<1>4. s.token = <<f, 0>> /\ s.rest = <<f, 0>> /\ s.pass = s.ssid
  BY <1>2 DEF Moved
<1>5. \A i \in Slot : i < Nets
  BY SettingsAssumption DEF Slot
<1>6. Packed(s, f, filled)
  BY <1>3, <1>4, <1>5 DEF Ordered, Packed
<1> QED
  BY <1>1, <1>6

-----------------------------------------------------------------------------
(* The writes of a save, by their place. *)
Total == 2 * Nets + 6

WritesAt(w, s) ==
  /\ w \in Seq(Writing) /\ Len(w) = Total
  /\ w[1] = <<"token", 0, s.token>>
  /\ \A i \in Slot : w[2 * i + 2] = <<"ssid", i, s.ssid[i]>> /\ w[2 * i + 3] = <<"pass", i, s.pass[i]>>
  /\ w[2 * Nets + 2] = <<"legacy_ssid", 0, Absent>> /\ w[2 * Nets + 3] = <<"legacy_pass", 0, Absent>>
  /\ w[2 * Nets + 4] = <<"rest", 0, s.rest>>
  /\ w[2 * Nets + 5] = <<"force", 0, Clear>> /\ w[2 * Nets + 6] = <<"provisioned", 0, Set>>

(* Every place is one of those. *)
LEMMA PlacesAre ==
  \A a \in 1 .. Total :
    \/ a = 1
    \/ \E i \in Slot : a = 2 * i + 2 \/ a = 2 * i + 3
    \/ a \in {2 * Nets + 2, 2 * Nets + 3, 2 * Nets + 4, 2 * Nets + 5, 2 * Nets + 6}
<1> SUFFICES ASSUME NEW a \in 1 .. Total, a # 1, a <= 2 * Nets + 1
             PROVE  \E i \in Slot : a = 2 * i + 2 \/ a = 2 * i + 3
  BY SettingsAssumption DEF Total
<1>1. PICK i \in Int : a = 2 * i + 2 \/ a = 2 * i + 3
  <2>1. a \in Int /\ (a - 2) \div 2 \in Int
    BY SettingsAssumption DEF Total
  <2>2. a = 2 * ((a - 2) \div 2) + 2 \/ a = 2 * ((a - 2) \div 2) + 3
    BY <2>1
  <2> QED
    BY <2>1, <2>2
<1>2. a \in Int /\ 2 <= a /\ Nets \in Int
  BY SettingsAssumption DEF Total
<1>3. 0 <= i /\ i <= Nets - 1
  BY <1>1, <1>2
<1> QED
  BY <1>1, <1>2, <1>3 DEF Slot

LEMMA HalvesAre ==
  \A i \in Nat : /\ (2 * i + 1) % 2 = 1 /\ (2 * i + 1 - 1) \div 2 = i
                /\ (2 * i + 2) % 2 # 1 /\ (2 * i + 2 - 1) \div 2 = i
  OBVIOUS

(* No two writes of a save have the same key. *)
LEMMA KeysDiffer ==
  ASSUME NEW w, NEW s, WritesAt(w, s), NEW a \in 1 .. Total, NEW b \in 1 .. Total,
         w[a][1] = w[b][1], w[a][2] = w[b][2]
  PROVE  a = b
<1> DEFINE Place(name, i) ==
      CASE name = "token" -> 1
        [] name = "ssid" -> 2 * i + 2
        [] name = "pass" -> 2 * i + 3
        [] name = "legacy_ssid" -> 2 * Nets + 2
        [] name = "legacy_pass" -> 2 * Nets + 3
        [] name = "rest" -> 2 * Nets + 4
        [] name = "force" -> 2 * Nets + 5
        [] name = "provisioned" -> 2 * Nets + 6
<1>1. \A c \in 1 .. Total : Place(w[c][1], w[c][2]) = c
  <2> SUFFICES ASSUME NEW c \in 1 .. Total PROVE Place(w[c][1], w[c][2]) = c
    OBVIOUS
  <2>1. CASE c = 1
    <3>1. w[c] = <<"token", 0, s.token>>
      BY <2>1 DEF WritesAt
    <3> QED
      BY <2>1, <3>1
  <2>2. ASSUME NEW i \in Slot, c = 2 * i + 2 PROVE Place(w[c][1], w[c][2]) = c
    <3>1. w[c] = <<"ssid", i, s.ssid[i]>>
      BY <2>2 DEF WritesAt
    <3> QED
      BY <2>2, <3>1
  <2>3. ASSUME NEW i \in Slot, c = 2 * i + 3 PROVE Place(w[c][1], w[c][2]) = c
    <3>1. w[c] = <<"pass", i, s.pass[i]>>
      BY <2>3 DEF WritesAt
    <3> QED
      BY <2>3, <3>1
  <2>4. CASE c = 2 * Nets + 2
    <3>1. w[c] = <<"legacy_ssid", 0, Absent>>
      BY <2>4 DEF WritesAt
    <3> QED
      BY <2>4, <3>1
  <2>5. CASE c = 2 * Nets + 3
    <3>1. w[c] = <<"legacy_pass", 0, Absent>>
      BY <2>5 DEF WritesAt
    <3> QED
      BY <2>5, <3>1
  <2>6. CASE c = 2 * Nets + 4
    <3>1. w[c] = <<"rest", 0, s.rest>>
      BY <2>6 DEF WritesAt
    <3> QED
      BY <2>6, <3>1
  <2>7. CASE c = 2 * Nets + 5
    <3>1. w[c] = <<"force", 0, Clear>>
      BY <2>7 DEF WritesAt
    <3> QED
      BY <2>7, <3>1
  <2>8. CASE c = 2 * Nets + 6
    <3>1. w[c] = <<"provisioned", 0, Set>>
      BY <2>8 DEF WritesAt
    <3> QED
      BY <2>8, <3>1
  <2> QED
    BY <2>1, <2>2, <2>3, <2>4, <2>5, <2>6, <2>7, <2>8, PlacesAre
<1> HIDE DEF Place
<1> QED
  BY <1>1

(* The networks, the values and the keys of a packed form. *)
LEMMA PackedValues ==
  ASSUME NEW f \in {"old"} \cup Forms, NEW filled \in SUBSET Slot, NEW s, Packed(s, f, filled)
  PROVE  /\ s.token \in Value /\ s.rest \in Value
         /\ \A i \in Slot : s.ssid[i] \in Value /\ s.pass[i] \in Value
<1>1. Empty \in Value /\ \A j \in Slot : <<f, j>> \in Value
  BY DEF Empty, Value, Slot
<1>2. <<f, 0>> \in Value
  BY DEF Value
<1> QED
  BY <1>1, <1>2 DEF Packed

(* Where the writes of two sequences go in their concatenation. *)
Joined(a, b) ==
  /\ a \o b \in Seq(Writing) /\ Len(a \o b) = Len(a) + Len(b)
  /\ \A k \in 1 .. Len(a) : (a \o b)[k] = a[k]
  /\ \A k \in 1 .. Len(b) : (a \o b)[Len(a) + k] = b[k]

LEMMA JoinIs == \A a, b \in Seq(Writing) : Joined(a, b)
  BY ConcatProperties DEF Joined

LEMMA WritesAre ==
  ASSUME NEW f \in {"old"} \cup Forms, NEW filled \in SUBSET Slot, NEW s, Packed(s, f, filled)
  PROVE  WritesAt(Writes(s), s)
<1> DEFINE one == << <<"token", 0, s.token>> >>
           three == << <<"legacy_ssid", 0, Absent>>, <<"legacy_pass", 0, Absent>>, <<"rest", 0, s.rest>> >>
           mid == Networks(s)
<1>1. /\ s.token \in Value /\ s.rest \in Value /\ Absent \in Value /\ Clear \in Value /\ Set \in Value
      /\ \A i \in Slot : s.ssid[i] \in Value /\ s.pass[i] \in Value
  BY PackedValues DEF Absent, Clear, Set, Value
<1>2. /\ 0 \in Slot
      /\ {"token", "rest", "legacy_ssid", "legacy_pass", "force", "provisioned", "ssid", "pass"}
           \subseteq {k[1] : k \in Key}
  <2>1. 0 \in Slot
    BY SettingsAssumption DEF Slot
  <2>2. \A n \in {"token", "rest", "legacy_ssid", "legacy_pass", "force", "provisioned", "ssid", "pass"} :
          <<n, 0>> \in Key /\ <<n, 0>>[1] = n
    BY <2>1 DEF Key
  <2> QED
    BY <2>1, <2>2
<1>3. \A n \in {"token", "rest", "legacy_ssid", "legacy_pass", "force", "provisioned", "ssid", "pass"} :
        \A i \in Slot : \A v \in Value : <<n, i, v>> \in Writing
  BY <1>2 DEF Writing
<1>4. /\ one \in Seq(Writing) /\ Len(one) = 1
      /\ three \in Seq(Writing) /\ Len(three) = 3
      /\ Flags \in Seq(Writing) /\ Len(Flags) = 2
  <2>1. \A x, y, z \in Writing : /\ <<x>> \in Seq(Writing) /\ Len(<<x>>) = 1
                              /\ <<x, y>> \in Seq(Writing) /\ Len(<<x, y>>) = 2
                              /\ <<x, y, z>> \in Seq(Writing) /\ Len(<<x, y, z>>) = 3
    OBVIOUS
  <2>2. /\ <<"token", 0, s.token>> \in Writing /\ <<"rest", 0, s.rest>> \in Writing
        /\ <<"legacy_ssid", 0, Absent>> \in Writing /\ <<"legacy_pass", 0, Absent>> \in Writing
        /\ <<"force", 0, Clear>> \in Writing /\ <<"provisioned", 0, Set>> \in Writing
    BY <1>1, <1>2, <1>3
  <2> QED
    BY <2>1, <2>2 DEF Flags
<1>5. \A k \in 1 .. 2 * Nets : (k - 1) \div 2 \in Slot
  <2> SUFFICES ASSUME NEW k \in 1 .. 2 * Nets PROVE (k - 1) \div 2 \in Slot
    OBVIOUS
  <2>1. k \in Int /\ 1 <= k /\ k <= 2 * Nets /\ Nets \in Int /\ (k - 1) \div 2 \in Int
    BY SettingsAssumption
  <2>2. 0 <= (k - 1) \div 2 /\ (k - 1) \div 2 <= Nets - 1
    BY <2>1
  <2> QED
    BY <2>1, <2>2 DEF Slot
<1>6. \A k \in 1 .. 2 * Nets : mid[k] \in Writing
  BY <1>1, <1>3, <1>5 DEF Networks
<1>7. mid \in Seq(Writing) /\ Len(mid) = 2 * Nets
  BY <1>6, SettingsAssumption DEF Networks
<1>8. \A i \in Slot : mid[2 * i + 1] = <<"ssid", i, s.ssid[i]>> /\ mid[2 * i + 2] = <<"pass", i, s.pass[i]>>
  <2> SUFFICES ASSUME NEW i \in Slot
               PROVE  mid[2 * i + 1] = <<"ssid", i, s.ssid[i]>> /\ mid[2 * i + 2] = <<"pass", i, s.pass[i]>>
    OBVIOUS
  <2>1. i \in Nat /\ 2 * i + 1 \in 1 .. 2 * Nets /\ 2 * i + 2 \in 1 .. 2 * Nets
    BY SettingsAssumption DEF Slot
  <2>2. /\ (2 * i + 1) % 2 = 1 /\ (2 * i + 1 - 1) \div 2 = i
        /\ (2 * i + 2) % 2 # 1 /\ (2 * i + 2 - 1) \div 2 = i
    BY <2>1, HalvesAre
  <2>3. mid[2 * i + 1] = <<"ssid", i, s.ssid[i]>>
    BY <2>1, <2>2 DEF Networks
  <2>4. mid[2 * i + 2] = <<"pass", i, s.pass[i]>>
    BY <2>1, <2>2 DEF Networks
  <2> QED
    BY <2>3, <2>4
<1> DEFINE w1 == one \o mid
           w2 == w1 \o three
           w == w2 \o Flags
<1>9. Writes(s) = w
  BY DEF Writes, Fields
<1>10. /\ w1 \in Seq(Writing) /\ Len(w1) = 2 * Nets + 1
       /\ w1[1] = one[1] /\ \A k \in 1 .. 2 * Nets : w1[k + 1] = mid[k]
  <2> HIDE DEF mid, one
  <2>1. \A k \in 1 .. 2 * Nets : k + 1 = 1 + k
    BY SettingsAssumption
  <2>2. Joined(one, mid)
    BY <1>4, <1>7, JoinIs
  <2> QED
    BY <1>4, <1>7, <2>1, <2>2, SettingsAssumption DEF Joined
<1>11. /\ w2 \in Seq(Writing) /\ Len(w2) = 2 * Nets + 4
       /\ \A k \in 1 .. 2 * Nets + 1 : w2[k] = w1[k]
       /\ w2[2 * Nets + 2] = three[1] /\ w2[2 * Nets + 3] = three[2] /\ w2[2 * Nets + 4] = three[3]
  <2> HIDE DEF w1, three
  <2>1. /\ 2 * Nets + 2 = 2 * Nets + 1 + 1 /\ 2 * Nets + 3 = 2 * Nets + 1 + 2
        /\ 2 * Nets + 4 = 2 * Nets + 1 + 3
    BY SettingsAssumption
  <2>2. Joined(w1, three)
    BY <1>4, <1>10, JoinIs
  <2> QED
    BY <1>4, <1>10, <2>1, <2>2, SettingsAssumption DEF Joined
<1>12. /\ w \in Seq(Writing) /\ Len(w) = Total
       /\ \A k \in 1 .. 2 * Nets + 4 : w[k] = w2[k]
       /\ w[2 * Nets + 5] = Flags[1] /\ w[2 * Nets + 6] = Flags[2]
  <2> HIDE DEF w2
  <2>1. 2 * Nets + 5 = 2 * Nets + 4 + 1 /\ 2 * Nets + 6 = 2 * Nets + 4 + 2
    BY SettingsAssumption
  <2>2. Joined(w2, Flags)
    BY <1>4, <1>11, JoinIs
  <2> QED
    BY <1>4, <1>11, <2>1, <2>2, SettingsAssumption DEF Total, Joined
<1> HIDE DEF w, w1, w2
<1>13. w[1] = <<"token", 0, s.token>>
  <2>1. 1 \in 1 .. 2 * Nets + 4 /\ 1 \in 1 .. 2 * Nets + 1
    BY SettingsAssumption
  <2> QED
    BY <1>10, <1>11, <1>12, <2>1
<1>14. ASSUME NEW i \in Slot
       PROVE  w[2 * i + 2] = <<"ssid", i, s.ssid[i]>> /\ w[2 * i + 3] = <<"pass", i, s.pass[i]>>
  <2> HIDE DEF mid
  <2>1. PICK a \in 1 .. 2 * Nets, b \in 1 .. 2 * Nets : a = 2 * i + 1 /\ b = 2 * i + 2
    BY SettingsAssumption DEF Slot
  <2>2. /\ a + 1 = 2 * i + 2 /\ b + 1 = 2 * i + 3
        /\ a + 1 \in 1 .. 2 * Nets + 1 /\ b + 1 \in 1 .. 2 * Nets + 1
        /\ a + 1 \in 1 .. 2 * Nets + 4 /\ b + 1 \in 1 .. 2 * Nets + 4
    BY <2>1, SettingsAssumption DEF Slot
  <2>3. w[a + 1] = mid[a] /\ w[b + 1] = mid[b]
    BY <1>10, <1>11, <1>12, <2>2
  <2> QED
    BY <1>8, <2>1, <2>2, <2>3
<1>15. /\ w[2 * Nets + 2] = <<"legacy_ssid", 0, Absent>> /\ w[2 * Nets + 3] = <<"legacy_pass", 0, Absent>>
       /\ w[2 * Nets + 4] = <<"rest", 0, s.rest>>
  <2>1. {2 * Nets + 2, 2 * Nets + 3, 2 * Nets + 4} \subseteq 1 .. 2 * Nets + 4
    BY SettingsAssumption
  <2> QED
    BY <1>11, <1>12, <2>1
<1>16. w[2 * Nets + 5] = <<"force", 0, Clear>> /\ w[2 * Nets + 6] = <<"provisioned", 0, Set>>
  BY <1>12 DEF Flags
<1> QED
  BY <1>9, <1>12, <1>13, <1>14, <1>15, <1>16 DEF WritesAt

(* Every write is to a key of the namespace. *)
LEMMA KeysAre ==
  ASSUME NEW w, NEW s, WritesAt(w, s), NEW a \in 1 .. Total
  PROVE  <<w[a][1], w[a][2]>> \in Key
<1>1. \A i \in Slot : <<"ssid", i>> \in Key /\ <<"pass", i>> \in Key
  BY DEF Key
<1>2. \A n \in {"token", "rest", "legacy_ssid", "legacy_pass", "force", "provisioned"} : <<n, 0>> \in Key
  BY DEF Key
<1>3. ASSUME NEW i \in Slot, a = 2 * i + 2 \/ a = 2 * i + 3 PROVE <<w[a][1], w[a][2]>> \in Key
  <2>1. w[a] = <<"ssid", i, s.ssid[i]>> \/ w[a] = <<"pass", i, s.pass[i]>>
    BY <1>3 DEF WritesAt
  <2>2. w[a][2] = i /\ (w[a][1] = "ssid" \/ w[a][1] = "pass")
    BY <2>1
  <2> QED
    BY <1>1, <2>2
<1>4. ASSUME a \in {1, 2 * Nets + 2, 2 * Nets + 3, 2 * Nets + 4, 2 * Nets + 5, 2 * Nets + 6}
      PROVE  <<w[a][1], w[a][2]>> \in Key
  <2>1. \E n \in {"token", "rest", "legacy_ssid", "legacy_pass", "force", "provisioned"} :
          w[a][1] = n /\ w[a][2] = 0
    BY <1>4 DEF WritesAt
  <2> QED
    BY <1>2, <2>1
<1> QED
  BY <1>3, <1>4, PlacesAre

-----------------------------------------------------------------------------
(* Complete, but for the mark that settings_save writes last. *)
Usable ==
  /\ nvs[<<"token", 0>>] \notin {Absent, Empty} /\ nvs[<<"rest", 0>>] # Absent
  /\ Load.ssid[0] # Empty
  /\ nvs[<<"pass", 0>>] # Absent \/ nvs[<<"legacy_pass", 0>>] # Absent

LEMMA CompleteIs == Complete <=> nvs[<<"provisioned", 0>>] = Set /\ Usable
  BY DEF Complete, Usable

(* What a save has stored, before and after its flags. *)
LEMMA StoredIsWhole ==
  ASSUME NEW f \in {"old"} \cup Forms, NEW filled \in SUBSET Slot, NEW s, NEW w,
         Packed(s, f, filled), s.ssid[0] # Empty, WritesAt(w, s),
         \A k \in 1 .. 2 * Nets + 4 : nvs[<<w[k][1], w[k][2]>>] = w[k][3]
  PROVE  Packed(Load, f, filled) /\ Usable
<1>1. nvs[<<"token", 0>>] = <<f, 0>>
  <2>1. 1 \in 1 .. 2 * Nets + 4
    BY SettingsAssumption
  <2>2. nvs[<<w[1][1], w[1][2]>>] = w[1][3] /\ w[1] = <<"token", 0, s.token>>
    BY <2>1 DEF WritesAt
  <2> QED
    BY <2>2 DEF Packed
<1>2. nvs[<<"rest", 0>>] = <<f, 0>>
  <2> DEFINE r == 2 * Nets + 4
  <2>1. r \in 1 .. 2 * Nets + 4
    BY SettingsAssumption
  <2>2. nvs[<<w[r][1], w[r][2]>>] = w[r][3] /\ w[r] = <<"rest", 0, s.rest>>
    BY <2>1 DEF WritesAt
  <2> HIDE DEF r
  <2> QED
    BY <2>2 DEF Packed
<1>3. ASSUME NEW i \in Slot PROVE nvs[<<"ssid", i>>] = s.ssid[i] /\ nvs[<<"pass", i>>] = s.pass[i]
  <2> DEFINE a == 2 * i + 2
             b == 2 * i + 3
  <2>1. a \in 1 .. 2 * Nets + 4 /\ b \in 1 .. 2 * Nets + 4
    BY SettingsAssumption DEF Slot
  <2>2. w[a] = <<"ssid", i, s.ssid[i]>> /\ w[b] = <<"pass", i, s.pass[i]>>
    BY DEF WritesAt
  <2>3. nvs[<<w[a][1], w[a][2]>>] = w[a][3] /\ nvs[<<w[b][1], w[b][2]>>] = w[b][3]
    BY <2>1
  <2> HIDE DEF a, b
  <2> QED
    BY <2>2, <2>3
<1>4. \A i \in Slot : s.ssid[i] # Absent /\ s.pass[i] # Absent
  <2>1. Empty # Absent
    BY DEF Empty, Absent
  <2>2. \A i \in Slot : s.ssid[i] \in {Empty} \cup {<<f, j>> : j \in filled} /\ s.pass[i] = s.ssid[i]
    BY DEF Packed
  <2> QED
    BY <2>1, <2>2, FormsAreNames
<1>5. 0 \in Slot
  BY SettingsAssumption DEF Slot
<1>6. Load.ssid = [i \in Slot |-> s.ssid[i]] /\ Load.pass = [i \in Slot |-> s.pass[i]]
  <2>1. /\ \A i \in Slot : Read(<<"ssid", i>>) = s.ssid[i] /\ Read(<<"pass", i>>) = s.pass[i]
        /\ First("ssid", "legacy_ssid") = s.ssid[0] /\ First("pass", "legacy_pass") = s.pass[0]
    BY <1>3, <1>4, <1>5 DEF First, Read
  <2>2. /\ Load.ssid = [i \in Slot |-> IF i = 0 THEN First("ssid", "legacy_ssid") ELSE Read(<<"ssid", i>>)]
        /\ Load.pass = [i \in Slot |-> IF i = 0 THEN First("pass", "legacy_pass") ELSE Read(<<"pass", i>>)]
    BY DEF Load
  <2>3. ASSUME NEW i \in Slot
        PROVE  /\ (IF i = 0 THEN First("ssid", "legacy_ssid") ELSE Read(<<"ssid", i>>)) = s.ssid[i]
               /\ (IF i = 0 THEN First("pass", "legacy_pass") ELSE Read(<<"pass", i>>)) = s.pass[i]
    <3>1. CASE i = 0
      BY <2>1, <3>1
    <3>2. CASE i # 0
      BY <2>1, <3>2
    <3> QED
      BY <3>1, <3>2
  <2>4. Load.ssid = [i \in Slot |-> s.ssid[i]]
    BY <2>2, <2>3, Zenon
  <2>5. Load.pass = [i \in Slot |-> s.pass[i]]
    BY <2>2, <2>3, Zenon
  <2> QED
    BY <2>4, <2>5
<1>7. Load.ssid = s.ssid /\ Load.pass = s.ssid
  BY <1>6 DEF Packed
<1>8. Load.token = <<f, 0>> /\ Load.rest = <<f, 0>>
  BY <1>1, <1>2, FormsAreNames DEF Load, Read
<1>9. Packed(Load, f, filled)
  BY <1>7, <1>8 DEF Packed
<1>10. Usable
  <2>1. nvs[<<"pass", 0>>] # Absent
    BY <1>3, <1>4, <1>5
  <2>2. <<f, 0>> # Absent /\ <<f, 0>> # Empty
    BY FormsAreNames
  <2> QED
    BY <1>1, <1>2, <1>7, <2>1, <2>2 DEF Usable
<1> QED
  BY <1>9, <1>10

-----------------------------------------------------------------------------
(* What wifi_manager_connect_sta walks of a packed form are the networks that  *)
(* were filled in.                                                            *)
WalksAll(s, f, filled) ==
  LET tried == Walked(s)
  IN  /\ s.token = <<f, 0>> /\ s.rest = <<f, 0>>
      /\ {tried[i] : i \in DOMAIN tried} = {<< <<f, j>>, <<f, j>> >> : j \in filled}
      /\ \A i, k \in DOMAIN tried : i < k => tried[i][1][2] < tried[k][1][2]

LEMMA PackedWalks ==
  \A s : \A f \in {"old"} \cup Forms : \A filled \in SUBSET Slot :
    Packed(s, f, filled) => WalksAll(s, f, filled)
<1> SUFFICES ASSUME NEW s, NEW f \in {"old"} \cup Forms, NEW filled \in SUBSET Slot, Packed(s, f, filled)
             PROVE  WalksAll(s, f, filled)
  OBVIOUS
<1> DEFINE Gap == {n \in Slot : s.ssid[n] = Empty}
           n == IF Gap = {} THEN Nets ELSE CHOOSE g \in Gap : \A h \in Gap : g <= h
           tried == [i \in 1 .. n |-> <<s.ssid[i - 1], s.pass[i - 1]>>]
<1>1. Slot \subseteq Nat /\ Nets \in Nat /\ \A i \in Slot : i < Nets
  BY SettingsAssumption DEF Slot
<1>2. n \in 0 .. Nets /\ \A i \in Slot : s.ssid[i] # Empty <=> i < n
  <2>1. CASE Gap = {}
    <3>1. n = Nets
      BY <2>1
    <3>2. \A i \in Slot : s.ssid[i] # Empty
      BY <2>1
    <3> HIDE DEF n
    <3> QED
      BY <1>1, <3>1, <3>2
  <2>2. CASE Gap # {}
    <3>1. n = CHOOSE g \in Gap : \A h \in Gap : g <= h
      BY <2>2
    <3> HIDE DEF n
    <3>2. \E g \in Gap : \A h \in Gap : g <= h
      <4>1. Gap \in SUBSET Nat
        BY <1>1
      <4> HIDE DEF Gap
      <4> QED
        BY <2>2, <4>1, SmallestIs
    <3>3. n \in Gap /\ \A h \in Gap : n <= h
      <4> HIDE DEF Gap
      <4> QED
        BY <3>1, <3>2
    <3>4. ASSUME NEW i \in Slot PROVE s.ssid[i] # Empty <=> i < n
      <4>1. n \in Slot /\ s.ssid[n] = Empty
        BY <3>3
      <4>2. CASE i < n
        BY <1>1, <3>3, <4>1, <4>2
      <4>3. CASE ~ (i < n)
        <5>1. n < i \/ n = i
          BY <1>1, <4>1, <4>3
        <5>2. ASSUME n < i PROVE s.ssid[i] = Empty
          BY <4>1, <5>2 DEF Packed
        <5> QED
          BY <4>1, <4>3, <5>1, <5>2
      <4> QED
        BY <4>2, <4>3
    <3>5. n \in 0 .. Nets
      <4>1. n \in Slot
        BY <3>3
      <4> QED
        BY <1>1, <4>1
    <3> QED
      BY <3>4, <3>5
  <2> QED
    BY <2>1, <2>2
<1>3. Walked(s) = tried
  BY DEF Walked
<1> HIDE DEF n
<1>4. \A i \in 1 .. n : i - 1 \in Slot /\ i - 1 < n
  BY <1>1, <1>2 DEF Slot
<1>5. \A i \in 1 .. n : tried[i] = <<s.ssid[i - 1], s.ssid[i - 1]>> /\ s.ssid[i - 1] # Empty
  BY <1>2, <1>4 DEF Packed
<1>6. DOMAIN tried = 1 .. n
  OBVIOUS
<1> HIDE DEF tried
<1>7. ASSUME NEW i \in 1 .. n PROVE \E j \in filled : tried[i] = << <<f, j>>, <<f, j>> >>
  <2>1. s.ssid[i - 1] \in {Empty} \cup {<<f, j>> : j \in filled}
    BY <1>4 DEF Packed
  <2> QED
    BY <1>5, <2>1
<1>8. ASSUME NEW j \in filled PROVE \E i \in 1 .. n : tried[i] = << <<f, j>>, <<f, j>> >>
  <2>1. PICK i \in Slot : s.ssid[i] = <<f, j>>
    BY DEF Packed
  <2>2. i < n
    BY <1>2, <2>1, FormsAreNames
  <2>3. PICK k \in 1 .. n : k - 1 = i
    <3>1. i + 1 \in 1 .. n /\ (i + 1) - 1 = i
      BY <1>1, <1>2, <2>2
    <3> QED
      BY <3>1
  <2> QED
    BY <1>5, <2>1, <2>3
<1>9. ASSUME NEW i \in 1 .. n, NEW k \in 1 .. n, i < k PROVE tried[i][1][2] < tried[k][1][2]
  <2>1. PICK a \in Slot, b \in Slot : a = i - 1 /\ b = k - 1
    BY <1>4
  <2>2. a < b
    BY <1>1, <1>2, <1>9, <2>1
  <2>3. tried[i][1] = s.ssid[a] /\ tried[k][1] = s.ssid[b] /\ s.ssid[b] # Empty
    BY <1>5, <2>1
  <2> QED
    BY <2>2, <2>3 DEF Packed
<1>10. {tried[i] : i \in DOMAIN tried} = {<< <<f, j>>, <<f, j>> >> : j \in filled}
  BY <1>6, <1>7, <1>8
<1>11. s.token = <<f, 0>> /\ s.rest = <<f, 0>>
  BY DEF Packed
<1> QED
  BY <1>3, <1>6, <1>9, <1>10, <1>11 DEF WalksAll

-----------------------------------------------------------------------------
LEMMA SettingsInvInit == Init => SettingsInv
<1> SUFFICES ASSUME Init PROVE SettingsInv
  OBVIOUS
<1>1. 0 \in Slot
  BY SettingsAssumption DEF Slot
<1>2. pc = "off" /\ left = << >> /\ last = <<"old", {0}>> /\ faulty = "none"
  BY DEF Init
<1>3. /\ Absent \in Value /\ Empty \in Value /\ Set \in Value /\ Clear \in Value /\ <<"old", 0>> \in Value
  BY DEF Absent, Empty, Set, Clear, Value
<1>4. nvs \in [Key -> Value]
  <2>1. Fresh \in [Key -> Value]
    BY <1>3 DEF Fresh
  <2>2. Provisioned \in [Key -> Value]
    BY <1>3 DEF Provisioned
  <2>3. Upgraded \in [Key -> Value]
    BY <1>3 DEF Upgraded
  <2> QED
    BY <2>1, <2>2, <2>3 DEF Init
<1>5. TypeOK
  <2>1. left \in Seq(Writing)
    BY <1>2
  <2>2. last \in ({"old"} \cup Forms) \X SUBSET Slot
    BY <1>1, <1>2
  <2> QED
    BY <1>2, <1>4, <2>1, <2>2 DEF TypeOK
<1> DEFINE u == [i \in Slot |-> IF i = 0 THEN <<"old", 0>> ELSE Empty]
<1>6. CASE nvs = Fresh
  <2>1. <<"provisioned", 0>> \in Key
    BY DEF Key
  <2>2. nvs[<<"provisioned", 0>>] = Absent
    BY <1>6, <2>1 DEF Fresh
  <2>3. ~ Flagged
    BY <2>2 DEF Flagged, Absent, Set
  <2> QED
    BY <1>2, <1>5, <2>3 DEF SettingsInv, SaveInOrder, FlagsHonest, InUseIsLast
<1>7. ASSUME nvs = Provisioned \/ nvs = Upgraded
      PROVE  /\ Load = [token |-> <<"old", 0>>, ssid |-> u, pass |-> u, rest |-> <<"old", 0>>]
             /\ Complete
  <2>1. /\ \A n \in {"token", "rest", "legacy_ssid", "legacy_pass", "force", "provisioned"} : <<n, 0>> \in Key
        /\ \A i \in Slot : <<"ssid", i>> \in Key /\ <<"pass", i>> \in Key
    BY DEF Key
  <2>2. <<"old", 0>> # Absent /\ <<"old", 0>> # Empty /\ Empty # Absent
    BY DEF Absent, Empty
  <2>3. /\ nvs[<<"token", 0>>] = <<"old", 0>> /\ nvs[<<"rest", 0>>] = <<"old", 0>>
        /\ nvs[<<"provisioned", 0>>] = Set
    <3>1. CASE nvs = Provisioned
      BY <2>1, <3>1 DEF Provisioned
    <3>2. CASE nvs = Upgraded
      BY <2>1, <3>2 DEF Upgraded
    <3> QED
      BY <1>7, <3>1, <3>2
  <2>4. /\ First("ssid", "legacy_ssid") = <<"old", 0>> /\ First("pass", "legacy_pass") = <<"old", 0>>
        /\ nvs[<<"pass", 0>>] # Absent \/ nvs[<<"legacy_pass", 0>>] # Absent
    <3>1. CASE nvs = Provisioned
      <4>1. nvs[<<"ssid", 0>>] = <<"old", 0>> /\ nvs[<<"pass", 0>>] = <<"old", 0>>
        BY <1>1, <2>1, <3>1 DEF Provisioned
      <4> QED
        BY <2>2, <4>1 DEF First
    <3>2. CASE nvs = Upgraded
      <4>1. nvs[<<"ssid", 0>>] = Absent /\ nvs[<<"pass", 0>>] = Absent
        BY <1>1, <2>1, <3>2 DEF Upgraded
      <4>2. nvs[<<"legacy_ssid", 0>>] = <<"old", 0>> /\ nvs[<<"legacy_pass", 0>>] = <<"old", 0>>
        BY <2>1, <3>2 DEF Upgraded
      <4> QED
        BY <2>2, <4>1, <4>2 DEF First, Read
    <3> QED
      BY <1>7, <3>1, <3>2
  <2>5. \A i \in Slot : i # 0 => Read(<<"ssid", i>>) = Empty /\ Read(<<"pass", i>>) = Empty
    <3>1. CASE nvs = Provisioned
      <4>1. \A i \in Slot : i # 0 => nvs[<<"ssid", i>>] = Empty /\ nvs[<<"pass", i>>] = Empty
        BY <2>1, <3>1 DEF Provisioned
      <4> QED
        BY <2>2, <4>1 DEF Read
    <3>2. CASE nvs = Upgraded
      <4>1. \A i \in Slot : nvs[<<"ssid", i>>] = Absent /\ nvs[<<"pass", i>>] = Absent
        BY <2>1, <3>2 DEF Upgraded
      <4> QED
        BY <4>1 DEF Read
    <3> QED
      BY <1>7, <3>1, <3>2
  <2>6. Load = [token |-> <<"old", 0>>, ssid |-> u, pass |-> u, rest |-> <<"old", 0>>]
    BY <2>2, <2>3, <2>4, <2>5 DEF Load, Read
  <2>7. Load.ssid[0] = <<"old", 0>>
    BY <1>1, <2>6
  <2> QED
    BY <2>2, <2>3, <2>4, <2>6, <2>7 DEF Complete
<1>8. CASE nvs = Provisioned \/ nvs = Upgraded
  <2>1. /\ Load.token = <<"old", 0>> /\ Load.rest = <<"old", 0>>
        /\ Load.ssid = u /\ Load.pass = u
    BY <1>7, <1>8
  <2>2. u \in [Slot -> {Empty} \cup {<<"old", j>> : j \in {0}}]
    OBVIOUS
  <2>3. \A j \in {0} : \E i \in Slot : u[i] = <<"old", j>>
    BY <1>1
  <2>4. \A i, k \in Slot : i < k => u[k] = Empty
    BY DEF Slot
  <2>5. Packed(Load, "old", {0})
    <3> HIDE DEF u
    <3> QED
      BY <2>1, <2>2, <2>3, <2>4 DEF Packed
  <2> QED
    BY <1>2, <1>5, <1>7, <1>8, <2>5 DEF SettingsInv, SaveInOrder, FlagsHonest, InUseIsLast
<1> QED
  BY <1>6, <1>8 DEF Init

-----------------------------------------------------------------------------
(* The save under way, with its books spelled out. *)
LEMMA UnderWay ==
  ASSUME SettingsInv, pc = "save"
  PROVE  /\ last[1] \in Forms /\ last[2] \in SUBSET Slot
         /\ Packed(Parsed(last[1], last[2]), last[1], last[2])
         /\ WritesAt(Submitted, Parsed(last[1], last[2]))
         /\ Done = Total - Len(left) /\ Len(left) \in 0 .. Total /\ Done \in 0 .. Total
<1>1. last[1] \in Forms /\ last[2] \in SUBSET Slot
  BY DEF SettingsInv, TypeOK, SaveInOrder
<1>2. Packed(Parsed(last[1], last[2]), last[1], last[2])
  BY <1>1, ParsedPacks
<1>3. WritesAt(Submitted, Parsed(last[1], last[2]))
  BY <1>1, <1>2, WritesAre DEF Submitted
<1>4. Len(Submitted) = Total /\ Total \in Nat
  BY <1>3, SettingsAssumption DEF WritesAt, Total
<1>5. Len(left) \in Nat /\ Len(left) <= Total
  BY <1>4 DEF SettingsInv, TypeOK, SaveInOrder
<1> QED
  BY <1>1, <1>2, <1>3, <1>4, <1>5 DEF Done

(* Once all fields are stored, flash holds the form. *)
LEMMA FieldsStored ==
  ASSUME SettingsInv, pc = "save", faulty # "this", Len(left) <= 2
  PROVE  Packed(Load, last[1], last[2]) /\ Usable
<1> DEFINE s == Parsed(last[1], last[2])
<1>1. /\ last[1] \in {"old"} \cup Forms /\ last[2] \in SUBSET Slot
      /\ Packed(s, last[1], last[2]) /\ WritesAt(Submitted, s)
  BY UnderWay
<1>2. 2 * Nets + 4 <= Done /\ Done \in Nat
  BY UnderWay, SettingsAssumption DEF Total
<1>3. s.ssid[0] # Empty
  BY DEF SettingsInv, SaveInOrder
<1>4. \A k \in 1 .. Done : nvs[<<Submitted[k][1], Submitted[k][2]>>] = Submitted[k][3]
  BY DEF SettingsInv, SaveInOrder
<1>5. \A k \in 1 .. 2 * Nets + 4 : k \in 1 .. Done
  BY <1>2, SettingsAssumption
<1>6. \A k \in 1 .. 2 * Nets + 4 : nvs[<<Submitted[k][1], Submitted[k][2]>>] = Submitted[k][3]
  BY <1>4, <1>5
<1> HIDE DEF s
<1> QED
  BY <1>1, <1>3, <1>6, StoredIsWhole

(* A step that leaves flash, the form and the history alone, outside a save. *)
LEMMA SameFlash ==
  ASSUME SettingsInv, UNCHANGED <<nvs, last>>, faulty' = faulty
  PROVE  /\ nvs' \in [Key -> Value] /\ Load' = Load
         /\ last' \in ({"old"} \cup Forms) \X SUBSET Slot
         /\ faulty' \in {"this", "older", "none"}
         /\ Flagged' <=> Flagged
         /\ faulty' = "none" /\ Flagged' => Complete' /\ Packed(Load', last'[1], last'[2])
<1>1. Load' = Load
  BY DEF Load, First, Read
<1>2. Complete' <=> Complete
  BY <1>1 DEF Complete
<1>3. Flagged' <=> Flagged
  BY DEF Flagged
<1>4. faulty = "none" /\ Flagged => Complete /\ Packed(Load, last[1], last[2])
  BY DEF SettingsInv, FlagsHonest
<1> QED
  BY <1>1, <1>2, <1>3, <1>4 DEF SettingsInv, TypeOK

(* Steps that leave the device outside a save. *)
LEMMA QuietStep ==
  ASSUME SettingsInv, UNCHANGED <<nvs, last, faulty>>, left' \in Seq(Writing),
         pc' \in {"off", "connect", "run", "portal"},
         pc' = "portal" => ~ Flagged,
         pc' \in {"connect", "run"} /\ faulty = "none" =>
           inUse'.ssid[0] # Empty /\ Packed(inUse', last[1], last[2])
  PROVE  SettingsInv'
<1>1. TypeOK'
  BY SameFlash DEF TypeOK
<1>2. SaveInOrder'
  BY DEF SaveInOrder
<1>3. FlagsHonest'
  <2>1. pc' = "portal" => ~ Flagged'
    BY SameFlash
  <2>2. faulty' = "none" /\ Flagged' => Complete' /\ Packed(Load', last'[1], last'[2])
    BY SameFlash
  <2>3. pc' # "save"
    OBVIOUS
  <2> QED
    BY <2>1, <2>2, <2>3 DEF FlagsHonest
<1>4. InUseIsLast'
  BY DEF InUseIsLast
<1> QED
  BY <1>1, <1>2, <1>3, <1>4 DEF SettingsInv

LEMMA BootStep ==
  ASSUME SettingsInv, Boot
  PROVE  SettingsInv'
<1>1. left' \in Seq(Writing)
  BY DEF SettingsInv, TypeOK, Boot
<1>2. pc' = IF Complete /\ nvs[<<"force", 0>>] # Set THEN "connect" ELSE "portal"
  BY DEF Boot
<1>3. Complete /\ nvs[<<"force", 0>>] # Set => Flagged
  BY DEF Complete, Flagged
<1>4. faulty = "none" /\ Flagged => Complete /\ Packed(Load, last[1], last[2])
  BY DEF SettingsInv, FlagsHonest
<1>5. inUse' = Load /\ UNCHANGED <<nvs, last, faulty>>
  BY DEF Boot, faulted
<1>6. CASE Complete /\ nvs[<<"force", 0>>] # Set
  <2>1. Load.ssid[0] # Empty
    BY <1>6 DEF Complete
  <2> QED
    BY <1>1, <1>2, <1>3, <1>4, <1>5, <1>6, <2>1, QuietStep
<1>7. CASE ~ (Complete /\ nvs[<<"force", 0>>] # Set)
  <2>1. pc' = "portal"
    BY <1>2, <1>7
  <2>2. CASE faulty = "none"
    <3>1. ~ Flagged
      BY <1>4, <1>7, <2>2 DEF Flagged
    <3> QED
      BY <1>1, <1>5, <2>1, <3>1, QuietStep
  <2>3. CASE faulty # "none"
    <3>1. TypeOK'
      BY <1>1, <1>5, <2>1 DEF SettingsInv, TypeOK
    <3> QED
      BY <1>5, <2>1, <2>3, <3>1 DEF SettingsInv, SaveInOrder, FlagsHonest, InUseIsLast
  <2> QED
    BY <2>2, <2>3
<1> QED
  BY <1>6, <1>7

LEMMA BootErasedStep ==
  ASSUME SettingsInv, BootErased
  PROVE  SettingsInv'
<1>1. /\ nvs' = Fresh /\ pc' = "portal" /\ faulty' = "none" /\ left' = left /\ last' = last
  BY DEF BootErased
<1>2. Fresh \in [Key -> Value]
  BY DEF Fresh, Absent, Value
<1>3. TypeOK'
  BY <1>1, <1>2 DEF SettingsInv, TypeOK
<1>4. ~ Flagged'
  <2>1. <<"provisioned", 0>> \in Key
    BY DEF Key
  <2>2. nvs'[<<"provisioned", 0>>] = Absent
    BY <1>1, <2>1 DEF Fresh
  <2> QED
    BY <2>2 DEF Flagged, Absent, Set
<1> QED
  BY <1>1, <1>3, <1>4 DEF SettingsInv, SaveInOrder, FlagsHonest, InUseIsLast

LEMMA RequestApStep ==
  ASSUME SettingsInv, RequestAp
  PROVE  SettingsInv'
<1>1. pc' = "off" /\ UNCHANGED <<inUse, left, last, faulty>> /\ left' \in Seq(Writing)
  BY DEF RequestAp, SettingsInv, TypeOK
<1>2. CASE nvs' = nvs
  BY <1>1, <1>2, QuietStep
<1>3. CASE nvs' = [nvs EXCEPT ![<<"force", 0>>] = Set]
  <2>1. <<"force", 0>> \in Key /\ Set \in Value /\ nvs \in [Key -> Value]
    BY DEF Key, Set, Value, SettingsInv, TypeOK
  <2>2. nvs' \in [Key -> Value] /\ nvs'[<<"force", 0>>] = Set
    BY <1>3, <2>1
  <2>3. TypeOK'
    BY <1>1, <2>2 DEF SettingsInv, TypeOK
  <2>4. ~ Flagged'
    BY <2>2 DEF Flagged
  <2> QED
    BY <1>1, <2>3, <2>4 DEF SettingsInv, SaveInOrder, FlagsHonest, InUseIsLast
<1> QED
  BY <1>2, <1>3 DEF RequestAp

LEMMA SubmitStep ==
  ASSUME SettingsInv, NEW f \in Forms, NEW filled \in Fillings, Submit(f, filled)
  PROVE  SettingsInv'
<1>1. filled \in SUBSET Slot /\ f \in {"old"} \cup Forms
  BY SettingsAssumption DEF Slot
<1>2. /\ pc = "portal" /\ Parsed(f, filled).ssid[0] # Empty
      /\ left' = Writes(Parsed(f, filled)) /\ last' = <<f, filled>> /\ pc' = "save" /\ nvs' = nvs
      /\ faulty' = IF faulty = "none" THEN "none" ELSE "older"
  BY DEF Submit
<1>3. WritesAt(Writes(Parsed(f, filled)), Parsed(f, filled))
  BY <1>1, ParsedPacks, WritesAre
<1>4. last'[1] = f /\ last'[2] = filled
  BY <1>2
<1>5. Submitted' = left' /\ left' \in Seq(Writing) /\ Len(left') = Total /\ Total \in Nat
  BY <1>2, <1>3, <1>4, SettingsAssumption DEF Submitted, WritesAt, Total
<1>6. Done' = 0
  BY <1>5 DEF Done
<1>7. TypeOK'
  BY <1>1, <1>2, <1>5 DEF SettingsInv, TypeOK
<1>8. SaveInOrder'
  <2>1. \A k \in 1 .. Len(left') : 0 + k = k
    OBVIOUS
  <2>2. Len(left') <= Len(Submitted') /\ \A k \in 1 .. Len(left') : left'[k] = Submitted'[Done' + k]
    BY <1>5, <1>6, <2>1
  <2>3. 1 .. Done' = {}
    BY <1>6
  <2> QED
    BY <1>2, <1>4, <2>2, <2>3 DEF SaveInOrder
<1>9. FlagsHonest'
  <2>1. faulty = "none" => ~ Flagged
    BY <1>2 DEF SettingsInv, FlagsHonest
  <2>2. faulty' = "none" => ~ Flagged'
    BY <1>2, <2>1 DEF Flagged
  <2> QED
    BY <2>2 DEF FlagsHonest
<1>10. InUseIsLast'
  BY <1>2 DEF InUseIsLast
<1> QED
  BY <1>7, <1>8, <1>9, <1>10 DEF SettingsInv

(* One write fewer to do, done or failed. *)
LEMMA LeftShrinks ==
  ASSUME SettingsInv, pc = "save", left # << >>, left' = Tail(left), UNCHANGED <<pc, last>>
  PROVE  /\ left' \in Seq(Writing) /\ Len(left') = Len(left) - 1
         /\ Submitted' = Submitted /\ Done' = Done + 1 /\ Done + 1 \in 1 .. Total
         /\ Len(left') <= Len(Submitted') /\ left[1] = Submitted[Done + 1]
         /\ \A k \in 1 .. Len(left') : left'[k] = Submitted'[Done' + k]
<1>1. left \in Seq(Writing)
  BY DEF SettingsInv, TypeOK
<1>2. Submitted' = Submitted
  BY DEF Submitted
<1>3. /\ left' \in Seq(Writing) /\ Len(left') = Len(left) - 1 /\ Len(left) \in Nat \ {0}
      /\ \A k \in 1 .. Len(left) - 1 : left'[k] = left[k + 1]
  BY <1>1, HeadTailProperties, LenProperties, EmptySeq
<1>4. /\ Len(Submitted) = Total /\ Total \in Nat /\ Done = Total - Len(left) /\ Len(left) <= Total
      /\ \A k \in 1 .. Len(left) : left[k] = Submitted[Done + k]
  BY UnderWay, SettingsAssumption DEF WritesAt, Total, SettingsInv, SaveInOrder
<1>5. Done \in Nat /\ Done' = Done + 1 /\ Done + 1 \in 1 .. Total
  BY <1>2, <1>3, <1>4 DEF Done
<1>6. ASSUME NEW k \in 1 .. Len(left') PROVE left'[k] = Submitted'[Done' + k]
  <2>1. k + 1 \in 1 .. Len(left) /\ k \in 1 .. Len(left) - 1
    BY <1>3
  <2>2. left'[k] = Submitted[Done + (k + 1)]
    BY <1>3, <1>4, <2>1
  <2>3. Done + (k + 1) = Done' + k
    BY <1>5
  <2> QED
    BY <1>2, <2>2, <2>3
<1>7. left[1] = Submitted[Done + 1]
  <2>1. 1 \in 1 .. Len(left)
    BY <1>3
  <2> QED
    BY <1>4, <2>1
<1>8. Len(left') <= Len(Submitted')
  BY <1>2, <1>3, <1>4
<1> QED
  BY <1>2, <1>3, <1>5, <1>6, <1>7, <1>8

LEMMA WriteFailsStep ==
  ASSUME SettingsInv, WriteFails
  PROVE  SettingsInv'
<1>1. /\ pc = "save" /\ left # << >> /\ left' = Tail(left) /\ faulty' = "this"
      /\ UNCHANGED <<nvs, inUse, pc, cuts, last>>
  BY DEF WriteFails
<1>2. /\ left' \in Seq(Writing) /\ Len(left') <= Len(Submitted')
      /\ \A k \in 1 .. Len(left') : left'[k] = Submitted'[Done' + k]
  BY <1>1, LeftShrinks
<1>3. TypeOK'
  BY <1>1, <1>2 DEF SettingsInv, TypeOK
<1>4. SaveInOrder'
  BY <1>1, <1>2 DEF SettingsInv, SaveInOrder
<1>5. FlagsHonest' /\ InUseIsLast'
  BY <1>1 DEF FlagsHonest, InUseIsLast
<1> QED
  BY <1>3, <1>4, <1>5 DEF SettingsInv

(* A write touches its own key and none of those written before it. *)
LEMMA WriteKeeps ==
  ASSUME SettingsInv, Write
  PROVE  /\ nvs' \in [Key -> Value]
         /\ nvs'[<<left[1][1], left[1][2]>>] = left[1][3]
         /\ \A k \in Key : k # <<left[1][1], left[1][2]>> => nvs'[k] = nvs[k]
         /\ faulty # "this" => \A k \in 1 .. Done + 1 :
              nvs'[<<Submitted[k][1], Submitted[k][2]>>] = Submitted[k][3]
<1> DEFINE key == <<left[1][1], left[1][2]>>
           s == Parsed(last[1], last[2])
<1>1. /\ pc = "save" /\ left # << >> /\ left' = Tail(left) /\ UNCHANGED <<pc, last>>
      /\ nvs' = [nvs EXCEPT ![key] = left[1][3]]
  <2>1. Head(left) = left[1]
    BY DEF SettingsInv, TypeOK
  <2> QED
    BY <2>1 DEF Write
<1>2. Done + 1 \in 1 .. Total /\ left[1] = Submitted[Done + 1] /\ Done \in Nat
  BY <1>1, LeftShrinks, UnderWay
<1>3. WritesAt(Submitted, s)
  BY <1>1, UnderWay
<1>4. key \in Key
  <2> HIDE DEF s
  <2>1. \A a \in 1 .. Total : <<Submitted[a][1], Submitted[a][2]>> \in Key
    BY <1>3, KeysAre
  <2> QED
    BY <1>2, <2>1
<1>5. left[1][3] \in Value /\ nvs \in [Key -> Value]
  <2>1. left[1] \in Writing
    BY <1>1, EmptySeq, LenProperties DEF SettingsInv, TypeOK
  <2> QED
    BY <2>1 DEF Writing, SettingsInv, TypeOK
<1>6. /\ nvs' \in [Key -> Value] /\ nvs'[key] = left[1][3]
      /\ \A k \in Key : k # key => nvs'[k] = nvs[k]
  <2> HIDE DEF key
  <2> QED
    BY <1>1, <1>4, <1>5
<1>7. ASSUME faulty # "this", NEW k \in 1 .. Done + 1
      PROVE  nvs'[<<Submitted[k][1], Submitted[k][2]>>] = Submitted[k][3]
  <2>1. CASE k = Done + 1
    BY <1>2, <1>6, <2>1
  <2>2. CASE k # Done + 1
    <3>1. k \in 1 .. Done /\ k \in 1 .. Total
      <4>1. Total \in Nat
        BY SettingsAssumption DEF Total
      <4> QED
        BY <1>2, <2>2, <4>1
    <3>2. nvs[<<Submitted[k][1], Submitted[k][2]>>] = Submitted[k][3]
      BY <1>1, <1>7, <3>1 DEF SettingsInv, SaveInOrder
    <3> HIDE DEF s
    <3>3. <<Submitted[k][1], Submitted[k][2]>> \in Key
      BY <1>3, <3>1, KeysAre
    <3>4. PICK n \in 1 .. Total : n = Done + 1
      BY <1>2
    <3>5. ~ (Submitted[k][1] = Submitted[n][1] /\ Submitted[k][2] = Submitted[n][2])
      <4>1. k # n
        BY <2>2, <3>4
      <4> QED
        BY <1>3, <3>1, <4>1, KeysDiffer
    <3>6. <<Submitted[k][1], Submitted[k][2]>> # key
      BY <1>2, <3>4, <3>5
    <3> QED
      BY <1>6, <3>2, <3>3, <3>6
  <2> QED
    BY <2>1, <2>2
<1> QED
  BY <1>6, <1>7

(* A write of a field leaves the flags alone. *)
LEMMA FieldWrite ==
  ASSUME SettingsInv, Write, Len(left) >= 3
  PROVE  Flagged' <=> Flagged
<1>1. /\ pc = "save" /\ left # << >> /\ left' = Tail(left) /\ UNCHANGED <<pc, last>>
  BY DEF Write
<1>2. PICK n \in 1 .. Total : n = Done + 1 /\ left[1] = Submitted[n]
  BY <1>1, LeftShrinks
<1>3. n < 2 * Nets + 5
  <2>1. Done = Total - Len(left)
    BY <1>1, UnderWay
  <2>2. Len(left) \in Nat \ {0}
    BY <1>1, EmptySeq DEF SettingsInv, TypeOK
  <2> QED
    BY <1>2, <2>1, <2>2, SettingsAssumption DEF Total
<1>4. WritesAt(Submitted, Parsed(last[1], last[2]))
  BY <1>1, UnderWay
<1>5. ASSUME NEW x \in {2 * Nets + 5, 2 * Nets + 6}
      PROVE  ~ (Submitted[n][1] = Submitted[x][1] /\ Submitted[n][2] = Submitted[x][2])
  <2>1. x \in 1 .. Total /\ x # n
    BY <1>3, SettingsAssumption DEF Total
  <2> QED
    BY <1>4, <2>1, KeysDiffer
<1>6. /\ Submitted[2 * Nets + 5] = <<"force", 0, Clear>>
      /\ Submitted[2 * Nets + 6] = <<"provisioned", 0, Set>>
  BY <1>4 DEF WritesAt
<1>7. /\ <<left[1][1], left[1][2]>> # <<"force", 0>>
      /\ <<left[1][1], left[1][2]>> # <<"provisioned", 0>>
  BY <1>2, <1>5, <1>6
<1>8. <<"force", 0>> \in Key /\ <<"provisioned", 0>> \in Key
  BY DEF Key
<1>9. nvs'[<<"force", 0>>] = nvs[<<"force", 0>>] /\ nvs'[<<"provisioned", 0>>] = nvs[<<"provisioned", 0>>]
  BY <1>7, <1>8, WriteKeeps
<1> QED
  BY <1>9 DEF Flagged

(* A write of a flag leaves the fields alone. *)
LEMMA FlagWrite ==
  ASSUME SettingsInv, Write, Len(left) <= 2
  PROVE  Load' = Load /\ (Usable => Usable')
<1>1. /\ pc = "save" /\ left # << >> /\ left' = Tail(left) /\ UNCHANGED <<pc, last>>
  BY DEF Write
<1>2. PICK n \in 1 .. Total : n = Done + 1 /\ left[1] = Submitted[n]
  BY <1>1, LeftShrinks
<1>3. n = 2 * Nets + 5 \/ n = 2 * Nets + 6
  <2>1. Done = Total - Len(left)
    BY <1>1, UnderWay
  <2>2. Len(left) \in Nat \ {0}
    BY <1>1, EmptySeq DEF SettingsInv, TypeOK
  <2> QED
    BY <1>2, <2>1, <2>2, SettingsAssumption DEF Total
<1>4. left[1][1] = "force" \/ left[1][1] = "provisioned"
  <2>1. WritesAt(Submitted, Parsed(last[1], last[2]))
    BY <1>1, UnderWay
  <2> QED
    BY <1>2, <1>3, <2>1 DEF WritesAt
<1>5. /\ \A n1 \in {"token", "rest", "legacy_ssid", "legacy_pass"} : <<n1, 0>> \in Key
      /\ \A i \in Slot : <<"ssid", i>> \in Key /\ <<"pass", i>> \in Key
  BY DEF Key
<1>6. /\ \A n1 \in {"token", "rest", "legacy_ssid", "legacy_pass"} : nvs'[<<n1, 0>>] = nvs[<<n1, 0>>]
      /\ \A i \in Slot : nvs'[<<"ssid", i>>] = nvs[<<"ssid", i>>] /\ nvs'[<<"pass", i>>] = nvs[<<"pass", i>>]
  BY <1>4, <1>5, WriteKeeps
<1>7. 0 \in Slot
  BY SettingsAssumption DEF Slot
<1>8. Load' = Load
  <2>1. /\ Read(<<"token", 0>>)' = Read(<<"token", 0>>) /\ Read(<<"rest", 0>>)' = Read(<<"rest", 0>>)
        /\ First("ssid", "legacy_ssid")' = First("ssid", "legacy_ssid")
        /\ First("pass", "legacy_pass")' = First("pass", "legacy_pass")
    BY <1>6, <1>7 DEF Read, First
  <2>2. \A i \in Slot : Read(<<"ssid", i>>)' = Read(<<"ssid", i>>) /\ Read(<<"pass", i>>)' = Read(<<"pass", i>>)
    BY <1>6 DEF Read
  <2> QED
    BY <2>1, <2>2 DEF Load
<1>9. Usable => Usable'
  BY <1>6, <1>7, <1>8 DEF Usable
<1> QED
  BY <1>8, <1>9

LEMMA WriteStep ==
  ASSUME SettingsInv, Write
  PROVE  SettingsInv'
<1>1. /\ pc = "save" /\ left # << >> /\ left' = Tail(left)
      /\ UNCHANGED <<inUse, pc, cuts, last, faulty>>
  BY DEF Write, faulted
<1>2. /\ left' \in Seq(Writing) /\ Len(left') = Len(left) - 1 /\ Submitted' = Submitted /\ Done' = Done + 1
      /\ Len(left') <= Len(Submitted')
      /\ \A k \in 1 .. Len(left') : left'[k] = Submitted'[Done' + k]
  BY <1>1, LeftShrinks
<1>3. TypeOK'
  BY <1>1, <1>2, WriteKeeps DEF SettingsInv, TypeOK
<1>4. SaveInOrder'
  <2>1. faulty' # "this" => \A k \in 1 .. Done' : nvs'[<<Submitted'[k][1], Submitted'[k][2]>>] = Submitted'[k][3]
    BY <1>1, <1>2, WriteKeeps
  <2>2. last'[1] \in Forms /\ Parsed(last'[1], last'[2]).ssid[0] # Empty
    BY <1>1 DEF SettingsInv, SaveInOrder
  <2> QED
    BY <1>2, <2>1, <2>2 DEF SaveInOrder
<1>5. Len(left) \in Nat
  BY DEF SettingsInv, TypeOK
<1>6. ASSUME faulty = "none" PROVE FlagsHonest'
  <2>1. CASE Len(left) >= 3
    <3>1. ~ Flagged
      <4>1. Len(left) >= Len(Flags)
        BY <1>5, <2>1 DEF Flags
      <4> QED
        BY <1>1, <1>6, <4>1 DEF SettingsInv, FlagsHonest
    <3>2. ~ Flagged'
      BY <2>1, <3>1, FieldWrite
    <3> QED
      BY <3>2 DEF FlagsHonest
  <2>2. CASE ~ (Len(left) >= 3)
    <3>1. Len(left) <= 2 /\ ~ (Len(left') >= Len(Flags))
      BY <1>2, <1>5, <2>2 DEF Flags
    <3>2. Packed(Load, last[1], last[2]) /\ Usable
      BY <1>1, <1>6, <3>1, FieldsStored
    <3>3. Packed(Load', last'[1], last'[2]) /\ Usable'
      BY <1>1, <3>1, <3>2, FlagWrite
    <3>4. Flagged' => Complete'
      BY <3>3 DEF Flagged, Complete, Usable
    <3>5. pc' = "save"
      BY <1>1
    <3> QED
      BY <3>1, <3>3, <3>4, <3>5 DEF FlagsHonest
  <2> QED
    BY <2>1, <2>2
<1>7. FlagsHonest'
  <2>1. CASE faulty = "none"
    BY <1>6, <2>1
  <2>2. CASE faulty # "none"
    BY <1>1, <2>2 DEF FlagsHonest
  <2> QED
    BY <2>1, <2>2
<1>8. InUseIsLast'
  BY <1>1 DEF InUseIsLast
<1> QED
  BY <1>3, <1>4, <1>7, <1>8 DEF SettingsInv

LEMMA SavedStep ==
  ASSUME SettingsInv, Saved
  PROVE  SettingsInv'
<1>1. /\ pc = "save" /\ left = << >> /\ pc' = "off"
      /\ faulty' = IF faulty = "older" THEN "none" ELSE faulty
      /\ UNCHANGED <<nvs, inUse, left, cuts, last, faults>>
  BY DEF Saved
<1>2. TypeOK'
  BY <1>1 DEF SettingsInv, TypeOK
<1>3. Load' = Load /\ (Complete' <=> Complete) /\ (Flagged' <=> Flagged)
  BY <1>1 DEF Load, First, Read, Complete, Flagged
<1>4. ASSUME faulty # "this" PROVE Flagged => Complete /\ Packed(Load, last[1], last[2])
  <2>1. Len(left) <= 2
    BY <1>1
  <2>2. Packed(Load, last[1], last[2]) /\ Usable
    BY <1>1, <1>4, <2>1, FieldsStored
  <2> QED
    BY <2>2, CompleteIs DEF Flagged
<1>5. FlagsHonest'
  <2>1. faulty' = "none" => faulty # "this"
    BY <1>1
  <2>2. faulty' = "none" /\ Flagged' => Complete' /\ Packed(Load', last'[1], last'[2])
    BY <1>1, <1>3, <1>4, <2>1
  <2> QED
    BY <1>1, <2>2 DEF FlagsHonest
<1> QED
  BY <1>1, <1>2, <1>5 DEF SettingsInv, SaveInOrder, InUseIsLast

LEMMA SettingsInvStep == SettingsInv /\ [Next]_vars => SettingsInv'
<1> SUFFICES ASSUME SettingsInv, [Next]_vars PROVE SettingsInv'
  OBVIOUS
<1>1. left \in Seq(Writing)
  BY DEF SettingsInv, TypeOK
<1>2. CASE Boot
  BY <1>2, BootStep
<1>3. CASE BootErased
  BY <1>3, BootErasedStep
<1>4. CASE Connected
  <2>1. /\ pc = "connect" /\ pc' = "run" /\ UNCHANGED <<nvs, last, faulty>>
        /\ left' = left /\ inUse' = inUse
    BY <1>4 DEF Connected, faulted
  <2>2. faulty = "none" => inUse.ssid[0] # Empty /\ Packed(inUse, last[1], last[2])
    BY <2>1 DEF SettingsInv, InUseIsLast
  <2> QED
    BY <1>1, <2>1, <2>2, QuietStep
<1>5. CASE ConnectFails \/ Hold
  BY <1>5, RequestApStep DEF ConnectFails, Hold
<1>6. CASE Write
  BY <1>6, WriteStep
<1>7. CASE WriteFails
  BY <1>7, WriteFailsStep
<1>8. CASE Saved
  BY <1>8, SavedStep
<1>9. CASE Cut
  <2>1. pc' = "off" /\ left' = << >> /\ UNCHANGED <<nvs, last, faulty>>
    BY <1>9 DEF Cut, faulted
  <2>2. left' \in Seq(Writing)
    BY <2>1
  <2> QED
    BY <2>1, <2>2, QuietStep
<1>10. ASSUME NEW f \in Forms, NEW filled \in Fillings, Submit(f, filled) PROVE SettingsInv'
  BY <1>10, SubmitStep
<1>11. CASE UNCHANGED vars
  <2>1. UNCHANGED <<nvs, inUse, pc, left, last, faulty>>
    BY <1>11 DEF vars, faulted
  <2>2. TypeOK'
    BY <2>1 DEF SettingsInv, TypeOK
  <2>3. SaveInOrder'
    BY <2>1 DEF SettingsInv, SaveInOrder, Submitted, Done
  <2>4. FlagsHonest'
    <3>1. Load' = Load /\ (Flagged' <=> Flagged)
      BY <2>1 DEF Load, First, Read, Flagged
    <3>2. Complete' <=> Complete
      BY <2>1, <3>1 DEF Complete
    <3> QED
      BY <2>1, <3>1, <3>2 DEF SettingsInv, FlagsHonest
  <2>5. InUseIsLast'
    BY <2>1 DEF SettingsInv, InUseIsLast
  <2> QED
    BY <2>2, <2>3, <2>4, <2>5 DEF SettingsInv
<1> QED
  BY <1>2, <1>3, <1>4, <1>5, <1>6, <1>7, <1>8, <1>9, <1>10, <1>11 DEF Next, DeviceStep

(* Whatever forms are sent, wherever power is cut and whichever writes fail, a *)
(* save is in order, and unless a write was lost the flags of settings.c never *)
(* let a device leave the portal with less than the whole of the last form.   *)
THEOREM SettingsInvariant == Spec => []SettingsInv
  BY SettingsInvInit, SettingsInvStep, PTL DEF Spec

(* What is stored, owed and remembered keeps its type. *)
THEOREM SettingsTypeCorrect == Spec => []TypeOK
<1>1. SettingsInv => TypeOK
  BY DEF SettingsInv
<1> QED
  BY <1>1, SettingsInvariant, PTL

(* What the device connects with is the form last submitted, all of it and    *)
(* nothing of an older one: every network that was filled in, in order, each  *)
(* with its own password, and the token and the rest that came with them.     *)
THEOREM SettingsUsesLastForm == Spec => []UsesLastForm
<1>1. SettingsInv => UsesLastForm
  <2> SUFFICES ASSUME SettingsInv, pc \in {"connect", "run"}, faulty = "none" PROVE UsesLastForm
    BY DEF UsesLastForm
  <2>1. last[1] \in {"old"} \cup Forms /\ last[2] \in SUBSET Slot
    BY DEF SettingsInv, TypeOK
  <2>2. Packed(inUse, last[1], last[2])
    BY DEF SettingsInv, InUseIsLast
  <2>3. WalksAll(inUse, last[1], last[2])
    BY <2>1, <2>2, PackedWalks
  <2> QED
    BY <2>3 DEF WalksAll, UsesLastForm
<1> QED
  BY <1>1, SettingsInvariant, PTL
=============================================================================
