----------------------------- MODULE FrontProofs -----------------------------
(***************************************************************************)
(* Proofs about the key, for every debounce time and every long hold.      *)
(***************************************************************************)
EXTENDS FrontProps, TLAPS

(* A sequence as long as the window is one. *)
LEMMA SeqIsWindow ==
  ASSUME NEW V, NEW w \in Seq(V), Len(w) = LongHold
  PROVE  w \in [1 .. LongHold -> V]
  OBVIOUS

(* The window `next` is the window w without its oldest sample and with x. *)
Shifted(V, w, x, next) ==
  /\ next \in [1 .. LongHold -> V]
  /\ next[LongHold] = x
  /\ \A i \in 1 .. LongHold - 1 : next[i] = w[i + 1]

(* Appending to the tail shifts the window. *)
LEMMA WindowShifts ==
  ASSUME NEW V, NEW w \in [1 .. LongHold -> V], NEW x \in V,
         NEW next, next = Append(Tail(w), x)
  PROVE  Shifted(V, w, x, next)
<1>1. LongHold \in Nat /\ LongHold > 0
  BY FrontAssumption
<1>2. w \in Seq(V) /\ Len(w) = LongHold
  BY <1>1
<1>3. /\ Tail(w) \in Seq(V) /\ Len(Tail(w)) = LongHold - 1
      /\ \A i \in 1 .. LongHold - 1 : Tail(w)[i] = w[i + 1]
  BY <1>1, <1>2
<1>4. /\ next \in Seq(V) /\ Len(next) = LongHold
      /\ next[LongHold] = x
      /\ \A i \in 1 .. LongHold - 1 : next[i] = Tail(w)[i]
  BY <1>1, <1>3
<1>5. next \in [1 .. LongHold -> V]
  BY <1>4, SeqIsWindow
<1>6. \A i \in 1 .. LongHold - 1 : next[i] = w[i + 1]
  BY <1>3, <1>4
<1> QED
  BY <1>4, <1>5, <1>6 DEF Shifted

(* With n samples at last unlike `down`, a sample x and the window it makes:  *)
(* the counter goes on, or is due and the debounce window holds x, and the   *)
(* debounce window holds a level other than `down` only then.                *)
Decided(V, down, n, x, next) ==
  /\ x # down /\ n + 1 < Debounce =>
       /\ next[LongHold - (n + 1)] = down
       /\ \A s \in LongHold - (n + 1) + 1 .. LongHold : next[s] # down
  /\ x # down /\ n + 1 >= Debounce =>
       \A s \in LongHold - Debounce + 1 .. LongHold : next[s] = x
  /\ \A y \in V \ {down} :
       (\A s \in LongHold - Debounce + 1 .. LongHold : next[s] = y) =>
         x = y /\ n + 1 >= Debounce

(* The counter of disagreeing samples tells what the debounce window holds. *)
LEMMA CounterIsWindow ==
  ASSUME NEW V, \A a, b, c \in V : a # c /\ b # c => a = b,
         NEW w, NEW x \in V, NEW down \in V, NEW next, Shifted(V, w, x, next),
         NEW n \in 0 .. Debounce - 1,
         w[LongHold - n] = down,
         \A s \in LongHold - n + 1 .. LongHold : w[s] # down
  PROVE  Decided(V, down, n, x, next)
<1> USE DEF Shifted
<1>1. /\ LongHold \in Nat /\ Debounce \in Nat /\ Debounce > 0 /\ LongHold > Debounce
      /\ n \in Nat /\ n < Debounce
  BY FrontAssumption
<1>2. ASSUME x # down PROVE \A s \in LongHold - n .. LongHold : next[s] # down
  <2> SUFFICES ASSUME NEW s \in LongHold - n .. LongHold PROVE next[s] # down
    OBVIOUS
  <2>1. CASE s = LongHold
    BY <1>2, <2>1
  <2>2. CASE s # LongHold
    <3>1. s \in 1 .. LongHold - 1 /\ s + 1 \in LongHold - n + 1 .. LongHold
      BY <1>1, <2>2
    <3> QED
      BY <3>1
  <2> QED
    BY <2>1, <2>2
<1>3. ASSUME n + 1 < Debounce PROVE next[LongHold - (n + 1)] = down
  <2>1. LongHold - (n + 1) \in 1 .. LongHold - 1 /\ LongHold - (n + 1) + 1 = LongHold - n
    BY <1>1, <1>3
  <2> QED
    BY <2>1
<1>4. x # down /\ n + 1 < Debounce =>
        /\ next[LongHold - (n + 1)] = down
        /\ \A s \in LongHold - (n + 1) + 1 .. LongHold : next[s] # down
  <2>1. LongHold - (n + 1) + 1 = LongHold - n
    BY <1>1
  <2> QED
    BY <1>2, <1>3, <2>1
<1>5. ASSUME x # down, n + 1 >= Debounce
      PROVE  \A s \in LongHold - Debounce + 1 .. LongHold : next[s] = x
  <2> SUFFICES ASSUME NEW s \in LongHold - Debounce + 1 .. LongHold PROVE next[s] = x
    OBVIOUS
  <2>1. s \in 1 .. LongHold /\ s \in LongHold - n .. LongHold
    BY <1>1, <1>5
  <2> QED
    BY <1>2, <1>5, <2>1
<1>6. ASSUME NEW y \in V \ {down},
             \A s \in LongHold - Debounce + 1 .. LongHold : next[s] = y
      PROVE  x = y /\ n + 1 >= Debounce
  <2>1. x = y
    BY <1>1, <1>6
  <2>2. ASSUME n + 1 < Debounce PROVE FALSE
    <3>1. LongHold - (n + 1) \in LongHold - Debounce + 1 .. LongHold
      BY <1>1, <2>2
    <3> QED
      BY <1>3, <1>6, <2>2, <3>1
  <2> QED
    BY <1>1, <2>1, <2>2
<1> QED
  BY <1>4, <1>5, <1>6 DEF Decided

(* The two lemmas for the window of a sample: what the last samples hold      *)
(* decides over the edge.                                                   *)
LEMMA EdgeIsWindow ==
  ASSUME FrontInv, Sample
  PROVE  /\ samples' \in [1 .. LongHold -> BOOLEAN]
         /\ samples'[LongHold] = key
         /\ \A i \in 1 .. LongHold - 1 : samples'[i] = samples[i + 1]
         /\ key # wasDown /\ stable + 1 < Debounce =>
              /\ samples'[LongHold - (stable + 1)] = wasDown
              /\ \A s \in LongHold - (stable + 1) + 1 .. LongHold : samples'[s] # wasDown
         /\ Edge => LastAre(key)'
         /\ \A y \in BOOLEAN \ {wasDown} : LastAre(y)' => key = y /\ Edge
<1>1. key \in BOOLEAN /\ wasDown \in BOOLEAN /\ samples \in [1 .. LongHold -> BOOLEAN]
  BY DEF FrontInv, TypeOK
<1>2. samples' = Append(Tail(samples), key)
  BY DEF Sample, Remember
<1>3. /\ samples' \in [1 .. LongHold -> BOOLEAN]
      /\ samples'[LongHold] = key
      /\ \A i \in 1 .. LongHold - 1 : samples'[i] = samples[i + 1]
  <2>1. Shifted(BOOLEAN, samples, key, samples')
    BY <1>1, <1>2, WindowShifts, Zenon
  <2> QED
    BY <2>1, Zenon DEF Shifted
<1>4. stable \in 0 .. Debounce - 1
  BY DEF FrontInv, TypeOK
<1>5. /\ samples[LongHold - stable] = wasDown
      /\ \A s \in LongHold - stable + 1 .. LongHold : samples[s] # wasDown
  BY DEF FrontInv, Agreed
<1>6. /\ key # wasDown /\ stable + 1 < Debounce =>
           /\ samples'[LongHold - (stable + 1)] = wasDown
           /\ \A s \in LongHold - (stable + 1) + 1 .. LongHold : samples'[s] # wasDown
      /\ key # wasDown /\ stable + 1 >= Debounce =>
           \A s \in LongHold - Debounce + 1 .. LongHold : samples'[s] = key
      /\ \A y \in BOOLEAN \ {wasDown} :
           (\A s \in LongHold - Debounce + 1 .. LongHold : samples'[s] = y) =>
             key = y /\ stable + 1 >= Debounce
  <2>1. \A a, b, c \in BOOLEAN : a # c /\ b # c => a = b
    BY Zenon
  <2>2. Shifted(BOOLEAN, samples, key, samples')
    BY <1>3, Zenon DEF Shifted
  <2>3. Decided(BOOLEAN, wasDown, stable, key, samples')
    BY <1>1, <1>4, <1>5, <2>1, <2>2, CounterIsWindow, Zenon
  <2> QED
    BY <2>3, Zenon DEF Decided
<1>7. Edge <=> key # wasDown /\ stable + 1 >= Debounce
  BY DEF Edge, Stable
<1>8. Edge => LastAre(key)'
  <2>1. key' = key
    BY DEF Sample
  <2> QED
    BY <1>6, <1>7, <2>1, Zenon DEF LastAre
<1>9. ASSUME NEW y \in BOOLEAN \ {wasDown}, LastAre(y)' PROVE key = y /\ Edge
  BY <1>6, <1>7, <1>9 DEF LastAre
<1> QED
  BY <1>3, <1>6, <1>8, <1>9

(* A press is taken exactly when the window says so. *)
LEMMA PressIsWindow ==
  ASSUME FrontInv, Sample
  PROVE  presses' # presses <=> ready /\ LastAre(TRUE)'
<1>1. presses' # presses <=> Pressed
  BY DEF FrontInv, TypeOK, Sample
<1>2. key \in BOOLEAN /\ wasDown \in BOOLEAN /\ key' = key /\ (ready <=> ~ wasDown)
  BY DEF FrontInv, TypeOK, Sample
<1>3. ASSUME Pressed PROVE ready /\ LastAre(TRUE)'
  <2>1. Edge /\ key = TRUE /\ key # wasDown
    BY <1>2, <1>3, Zenon DEF Pressed, Edge
  <2>2. LastAre(key)'
    BY <2>1, EdgeIsWindow
  <2>3. LastAre(TRUE)'
    BY <1>2, <2>1, <2>2, Zenon DEF LastAre
  <2> QED
    BY <1>2, <2>1, <2>3, Zenon
<1>4. ASSUME ready, LastAre(TRUE)' PROVE Pressed
  <2>1. TRUE \in BOOLEAN \ {wasDown}
    BY <1>2, <1>4, Zenon
  <2>2. key = TRUE /\ Edge
    BY <1>4, <2>1, EdgeIsWindow, Zenon
  <2> QED
    BY <2>2, Zenon DEF Pressed
<1> QED
  BY <1>1, <1>3, <1>4, Zenon

(* One sample keeps the invariant. *)
LEMMA SampleKeeps ==
  ASSUME FrontInv, Sample
  PROVE  FrontInv'
<1>1. /\ key \in BOOLEAN /\ wasDown \in BOOLEAN /\ downSince \in BOOLEAN /\ ready \in BOOLEAN
      /\ key' = key /\ (ready <=> ~ wasDown) /\ (downSince <=> wasDown)
  BY DEF FrontInv, TypeOK, Sample
<1>2. /\ LongHold \in Nat /\ Debounce \in Nat /\ Debounce > 0 /\ LongHold > Debounce
      /\ stable \in 0 .. Debounce - 1 /\ hold \in 0 .. LongHold - 1
  BY FrontAssumption DEF FrontInv, TypeOK
<1>3. /\ samples' \in [1 .. LongHold -> BOOLEAN]
      /\ samples'[LongHold] = key
      /\ \A i \in 1 .. LongHold - 1 : samples'[i] = samples[i + 1]
  BY EdgeIsWindow
<1>4. /\ wasDown' = IF Edge THEN key ELSE wasDown
      /\ stable' = IF Edge THEN 0 ELSE Stable
      /\ downSince' = StillDown
      /\ hold' = IF StillDown THEN Held ELSE hold
  BY DEF Sample
<1>5. Edge <=> key # wasDown /\ stable + 1 >= Debounce
  BY DEF Edge, Stable
(* The types.                                                               *)
<1>6. TypeOK'
  <2>1. wasDown' \in BOOLEAN /\ key' \in BOOLEAN
    BY <1>1, <1>4, Zenon
  <2>2. downSince' \in BOOLEAN
    BY <1>1, <1>4, Zenon DEF StillDown
  <2>3. ready' \in BOOLEAN
    BY <1>1, Zenon DEF Sample, Remember
  <2>4. force' \in BOOLEAN
    BY Zenon DEF FrontInv, TypeOK, Sample
  <2>5. stable' \in 0 .. Debounce - 1
    BY <1>2, <1>4, <1>5 DEF Stable
  <2>6. hold' \in 0 .. LongHold - 1
    BY <1>2, <1>4 DEF Sample, LongPress, Held
  <2>7. presses' \in {0, 1}
    BY DEF FrontInv, TypeOK, Sample
  <2> QED
    BY <1>3, <2>1, <2>2, <2>3, <2>4, <2>5, <2>6, <2>7, Zenon DEF TypeOK
(* The counter against the window.                                          *)
<1>7. Agreed'
  <2>1. CASE Edge
    <3>1. stable' = 0 /\ wasDown' = key
      BY <1>4, <2>1, Zenon
    <3>2. LongHold - stable' = LongHold /\ LongHold - stable' + 1 .. LongHold = {}
      BY <1>2, <3>1
    <3> QED
      BY <1>3, <3>1, <3>2, Zenon DEF Agreed
  <2>2. CASE key = wasDown
    <3>1. stable' = 0 /\ wasDown' = key
      BY <1>4, <1>5, <2>2 DEF Stable
    <3>2. LongHold - stable' = LongHold /\ LongHold - stable' + 1 .. LongHold = {}
      BY <1>2, <3>1
    <3> QED
      BY <1>3, <3>1, <3>2, Zenon DEF Agreed
  <2>3. CASE ~ Edge /\ key # wasDown
    <3>1. stable + 1 < Debounce
      BY <1>2, <1>5, <2>3
    <3>2. stable' = stable + 1 /\ wasDown' = wasDown
      BY <1>4, <2>3, Zenon DEF Stable
    <3>3. /\ samples'[LongHold - (stable + 1)] = wasDown
          /\ \A s \in LongHold - (stable + 1) + 1 .. LongHold : samples'[s] # wasDown
      BY <2>3, <3>1, EdgeIsWindow, Zenon
    <3> QED
      BY <3>2, <3>3, Zenon DEF Agreed
  <2> QED
    BY <2>1, <2>2, <2>3, Zenon
(* Since a press, every debounce window holds a sample of it.               *)
<1>8. NoRelease'
  <2>1. CASE Pressed
    <3>1. hold' = 1
      BY <1>2, <1>4, <2>1 DEF Pressed, StillDown, Held
    <3>2. samples'[LongHold]
      BY <1>3, <2>1, Zenon DEF Pressed
    <3> SUFFICES ASSUME NEW s \in LongHold - hold' + 1 .. LongHold - Debounce + 1
                 PROVE  \E k \in s .. s + Debounce - 1 : samples'[k]
      BY Zenon DEF NoRelease
    <3>3. LongHold \in s .. s + Debounce - 1
      BY <1>2, <3>1
    <3> QED
      BY <3>2, <3>3, Zenon
  <2>2. CASE ~ Pressed /\ StillDown
    <3>1. downSince /\ wasDown /\ ~ Edge
      BY <1>1, <1>5, <2>2, Zenon DEF Pressed, StillDown
    <3>2. hold' = hold + 1
      BY <1>4, <2>2, Zenon DEF Held
    <3> SUFFICES ASSUME NEW s \in LongHold - hold' + 1 .. LongHold - Debounce + 1
                 PROVE  \E k \in s .. s + Debounce - 1 : samples'[k]
      BY Zenon DEF NoRelease
    <3>3. CASE s = LongHold - Debounce + 1
      <4>1. s .. s + Debounce - 1 = LongHold - Debounce + 1 .. LongHold
        BY <1>2, <3>3
      <4>2. ASSUME \A k \in s .. s + Debounce - 1 : ~ samples'[k] PROVE FALSE
        <5>1. LongHold - Debounce + 1 .. LongHold \subseteq 1 .. LongHold
          BY <1>2
        <5>2. \A k \in LongHold - Debounce + 1 .. LongHold : samples'[k] \in BOOLEAN
          BY <1>3, <5>1, Zenon
        <5>3. LastAre(FALSE)'
          BY <4>1, <4>2, <5>2, Zenon DEF LastAre
        <5>4. FALSE \in BOOLEAN \ {wasDown}
          BY <1>1, <3>1, Zenon
        <5> QED
          BY <3>1, <5>3, <5>4, EdgeIsWindow, Zenon
      <4> QED
        BY <4>2, Zenon
    <3>4. CASE s # LongHold - Debounce + 1
      <4>1. s + 1 \in LongHold - hold + 1 .. LongHold - Debounce + 1
        BY <1>2, <3>2, <3>4
      <4>2. PICK k \in s + 1 .. (s + 1) + Debounce - 1 : samples[k]
        BY <3>1, <4>1, Zenon DEF FrontInv, NoRelease
      <4>3. k - 1 \in s .. s + Debounce - 1 /\ k - 1 \in 1 .. LongHold - 1 /\ (k - 1) + 1 = k
        BY <1>2, <3>2, <4>1
      <4>4. samples'[k - 1]
        BY <1>3, <4>2, <4>3, Zenon
      <4> QED
        BY <4>3, <4>4, Zenon
    <3> QED
      BY <3>3, <3>4, Zenon
  <2>3. CASE ~ StillDown
    BY <1>4, <2>3, Zenon DEF NoRelease
  <2>4. Pressed => StillDown
    BY Zenon DEF Pressed, StillDown
  <2> QED
    BY <2>1, <2>2, <2>3, Zenon
(* The history of readiness is the level taken.                             *)
<1>9. ready' <=> ~ wasDown'
  <2>1. \A y \in BOOLEAN : LastAre(y)' => key = y
    BY <1>2, <1>3 DEF LastAre
  <2>2. CASE Edge
    <3>1. wasDown' = key
      BY <1>4, <2>2, Zenon
    <3>2. LastAre(key)'
      BY <2>2, EdgeIsWindow, Zenon
    <3>3. CASE key = TRUE
      <4>1. LastAre(TRUE)' /\ ~ LastAre(FALSE)'
        BY <1>1, <2>1, <3>2, <3>3, Zenon DEF LastAre
      <4> QED
        BY <3>1, <3>3, <4>1, Zenon DEF Sample, Remember
    <3>4. CASE key = FALSE
      <4>1. LastAre(FALSE)'
        BY <1>1, <3>2, <3>4, Zenon DEF LastAre
      <4> QED
        BY <3>1, <3>4, <4>1, Zenon DEF Sample, Remember
    <3> QED
      BY <1>1, <3>3, <3>4, Zenon
  <2>3. CASE ~ Edge
    <3>1. wasDown' = wasDown
      BY <1>4, <2>3, Zenon
    <3>2. \A y \in BOOLEAN \ {wasDown} : ~ LastAre(y)'
      BY <2>3, EdgeIsWindow, Zenon
    <3>3. CASE wasDown = TRUE
      <4>1. ~ LastAre(FALSE)'
        BY <3>2, <3>3, Zenon
      <4> QED
        BY <1>1, <3>1, <3>3, <4>1, Zenon DEF Sample, Remember
    <3>4. CASE wasDown = FALSE
      <4>1. ~ LastAre(TRUE)'
        BY <3>2, <3>4, Zenon
      <4> QED
        BY <1>1, <3>1, <3>4, <4>1, Zenon DEF Sample, Remember
    <3> QED
      BY <1>1, <3>3, <3>4, Zenon
  <2> QED
    BY <2>2, <2>3, Zenon
<1>10. downSince' <=> wasDown'
  BY <1>1, <1>4, Zenon DEF StillDown
<1> QED
  BY <1>6, <1>7, <1>8, <1>9, <1>10, Zenon DEF FrontInv

(* A key that starts up and has been up.                                    *)
LEMMA StartKeeps ==
  ASSUME ButtonStart, key' \in BOOLEAN, force' \in BOOLEAN, presses' \in {0, 1}
  PROVE  FrontInv'
<1>1. LongHold \in Nat /\ Debounce \in Nat /\ Debounce > 0 /\ LongHold > Debounce
  BY FrontAssumption
<1>2. /\ wasDown' = FALSE /\ stable' = 0 /\ downSince' = FALSE /\ hold' = 0
      /\ samples' = [s \in 1 .. LongHold |-> FALSE] /\ ready' = TRUE
  BY DEF ButtonStart
<1>3. stable' \in 0 .. Debounce - 1 /\ hold' \in 0 .. LongHold - 1
  BY <1>1, <1>2
<1>4. samples' \in [1 .. LongHold -> BOOLEAN]
  BY <1>2, Zenon
<1>5. TypeOK'
  BY <1>2, <1>3, <1>4, Zenon DEF TypeOK
<1>6. Agreed'
  <2>1. LongHold - stable' \in 1 .. LongHold /\ LongHold - stable' + 1 .. LongHold = {}
    BY <1>1, <1>2
  <2> QED
    BY <1>2, <2>1, Zenon DEF Agreed
<1>7. NoRelease'
  BY <1>2, Zenon DEF NoRelease
<1> QED
  BY <1>2, <1>5, <1>6, <1>7, Zenon DEF FrontInv

LEMMA FrontInvInit == Init => FrontInv
<1> SUFFICES ASSUME Init PROVE FrontInv
  OBVIOUS
<1>1. LongHold \in Nat /\ Debounce \in Nat /\ Debounce > 0 /\ LongHold > Debounce
  BY FrontAssumption
<1>2. /\ wasDown = FALSE /\ stable = 0 /\ downSince = FALSE /\ hold = 0
      /\ samples = [s \in 1 .. LongHold |-> FALSE] /\ ready = TRUE /\ presses = 0
      /\ key = FALSE /\ force = FALSE
  BY DEF Init
<1>3. stable \in 0 .. Debounce - 1 /\ hold \in 0 .. LongHold - 1
  BY <1>1, <1>2
<1>4. samples \in [1 .. LongHold -> BOOLEAN]
  BY <1>2, Zenon
<1>5. TypeOK
  BY <1>2, <1>3, <1>4, Zenon DEF TypeOK
<1>6. Agreed
  <2>1. LongHold - stable \in 1 .. LongHold /\ LongHold - stable + 1 .. LongHold = {}
    BY <1>1, <1>2
  <2> QED
    BY <1>2, <2>1, Zenon DEF Agreed
<1>7. NoRelease
  BY <1>2, Zenon DEF NoRelease
<1> QED
  BY <1>2, <1>5, <1>6, <1>7, Zenon DEF FrontInv

(* A step that leaves the key's task and its history alone. *)
LEMMA OthersKeep ==
  ASSUME FrontInv, UNCHANGED <<button, history>>, key' \in BOOLEAN, force' \in BOOLEAN
  PROVE  FrontInv'
  BY Zenon DEF FrontInv, TypeOK, Agreed, NoRelease, button, history

LEMMA FrontInvStep == FrontInv /\ [Next]_vars => FrontInv'
<1> SUFFICES ASSUME FrontInv, [Next]_vars PROVE FrontInv'
  OBVIOUS
<1>0. key \in BOOLEAN /\ force \in BOOLEAN /\ presses \in {0, 1}
  BY Zenon DEF FrontInv, TypeOK
<1>1. CASE KeyMoves
  BY <1>0, <1>1, OthersKeep, Zenon DEF KeyMoves
<1>2. CASE Push
  BY <1>0, <1>2, OthersKeep, Zenon DEF Push
<1>3. CASE Sample
  BY <1>3, SampleKeeps
<1>4. CASE SampleLong
  BY <1>0, <1>4, StartKeeps, Zenon DEF SampleLong, OnLong
<1>5. CASE LedRead
  BY <1>0, <1>5, OthersKeep, Zenon DEF LedRead
<1>6. CASE LedShow
  BY <1>0, <1>6, OthersKeep, Zenon DEF LedShow
<1>7. CASE LedInit
  BY <1>0, <1>7, OthersKeep, Zenon DEF LedInit
<1>8. CASE BootPortal
  BY <1>0, <1>8, OthersKeep, Zenon DEF BootPortal
<1>9. CASE BootRun
  BY <1>0, <1>9, StartKeeps, Zenon DEF BootRun
<1>10. CASE FormSaved
  BY <1>0, <1>10, OthersKeep, Zenon DEF FormSaved
<1>11. CASE Cut
  BY <1>0, <1>11, StartKeeps, Zenon DEF Cut
<1>12. CASE UNCHANGED vars
  BY <1>0, <1>12, OthersKeep, Zenon DEF vars
<1> QED
  BY <1>1, <1>2, <1>3, <1>4, <1>5, <1>6, <1>7, <1>8, <1>9, <1>10, <1>11, <1>12, Zenon DEF Next

(* Over samples, boots and power cuts, the counters of the key's task tell   *)
(* what the last samples hold: no more of them disagree with the level taken *)
(* than were counted, and since a press no release stood.                    *)
THEOREM FrontInvariant == Spec => []FrontInv
<1> QED
  BY FrontInvInit, FrontInvStep, PTL DEF Spec

(* One stroke of the key is one press, however it bounces.                  *)
THEOREM FrontOnePress == Spec => OnePressPerStroke
<1>1. ASSUME FrontInv, [Next]_vars
      PROVE  [mode = "run" /\ mode' = "run" =>
                (presses' # presses <=> ready /\ LastAre(TRUE)')]_vars
  <2> SUFFICES ASSUME Next, mode = "run", mode' = "run", ~ UNCHANGED vars
               PROVE  presses' # presses <=> ready /\ LastAre(TRUE)'
    BY <1>1, Zenon
  <2>1. CASE Sample
    BY <1>1, <2>1, PressIsWindow, Zenon
  <2>2. CASE ~ Sample
    <3>1. KeyMoves \/ Push \/ LedRead \/ LedShow
      BY <2>2 DEF Next, SampleLong, OnLong, LedInit, BootPortal, BootRun, FormSaved, Cut
    <3>2. presses' = presses /\ samples' = samples
      BY <3>1, Zenon DEF KeyMoves, Push, LedRead, LedShow, history
    <3>3. LastAre(TRUE)' => wasDown
      <4>1. LastAre(TRUE)' => LastAre(TRUE)
        BY <3>2, Zenon DEF LastAre
      <4>2. ASSUME LastAre(TRUE) PROVE wasDown
        <5>1. LongHold - stable \in LongHold - Debounce + 1 .. LongHold
          BY <1>1, FrontAssumption DEF FrontInv, TypeOK
        <5> QED
          BY <1>1, <4>2, <5>1, Zenon DEF FrontInv, Agreed, LastAre
      <4> QED
        BY <4>1, <4>2, Zenon
    <3> QED
      BY <1>1, <3>2, <3>3, Zenon DEF FrontInv
  <2> QED
    BY <2>1, <2>2, Zenon
<1> QED
  BY <1>1, FrontInvariant, PTL DEF Spec, OnePressPerStroke

(* The key only asks for the portal after a hold without a release.         *)
THEOREM FrontLongHoldOnly == Spec => LongHoldOnly
<1>1. ASSUME FrontInv, [Next]_vars
      PROVE  [mode = "run" /\ force' # force =>
                \A s \in 2 .. LongHold - Debounce + 1 :
                  \E k \in s .. s + Debounce - 1 : samples[k]]_vars
  <2> SUFFICES ASSUME Next, mode = "run", force' # force
               PROVE  \A s \in 2 .. LongHold - Debounce + 1 :
                        \E k \in s .. s + Debounce - 1 : samples[k]
    BY <1>1, Zenon DEF vars
  <2>1. SampleLong
    BY DEF Next, KeyMoves, Push, Sample, LedRead, LedShow, LedInit, BootPortal, BootRun,
           FormSaved, Cut
  <2>2. StillDown /\ Held >= LongHold
    BY <2>1, Zenon DEF SampleLong, LongPress
  <2>3. hold \in 0 .. LongHold - 1 /\ LongHold \in Nat /\ LongHold > 1
    BY <1>1, FrontAssumption DEF FrontInv, TypeOK
  <2>4. ~ Pressed /\ hold = LongHold - 1
    BY <2>2, <2>3 DEF Held
  <2>5. downSince
    BY <2>2, <2>4, Zenon DEF StillDown, Pressed
  <2>6. LongHold - hold + 1 = 2
    BY <2>3, <2>4
  <2> QED
    BY <1>1, <2>5, <2>6, Zenon DEF FrontInv, NoRelease
<1> QED
  BY <1>1, FrontInvariant, PTL DEF Spec, LongHoldOnly
=============================================================================
