-------------------------- MODULE RoomWindowProofs --------------------------
(***************************************************************************)
(* Theorems about RoomWindow and the widget TexterUi, for any size of the  *)
(* screen, of the room and of a chunk, and any times of the messages:      *)
(* the messages between bubble_top and bubble_bottom hold the futures that *)
(* become the bubbles once the events in the widget's queue have been      *)
(* handled, and each bubble shows the text of its message.  Neither side   *)
(* knows the other's list; what connects them is that the events lead from *)
(* the one to the other, whatever is done to both meanwhile.  The shape of *)
(* the list that this keeps (at most the two ends wait, the latest text is *)
(* the last) is what the assertions of the widget rely on.  That the       *)
(* widget can always create a future is an assumption of each theorem:     *)
(* Futures bounds how many TLC uses at a time.                             *)
(***************************************************************************)
EXTENDS RoomWindow, SequenceTheorems, FiniteSetTheorems, WellFoundedInduction, TLAPS
-----------------------------------------------------------------------------
(* Numbers and sequences: induction by the least number for which something*)
(* fails, the ends of bounded sets, what is left of a sequence.            *)

(* Induction over the numbers, by the least one for which it fails.        *)
LEMMA LeastOf ==
    ASSUME NEW S \in SUBSET Nat, S # {}
    PROVE  \E m \in S : \A k \in S : m <= k
  <1>1. IsWellFoundedOn(OpToRel(<, Nat), Nat)
    BY NatLessThanWellFounded
  <1>2. PICK m \in S : \A k \in S : <<k, m>> \notin OpToRel(<, Nat)
    BY <1>1, WFMin
  <1>3. \A k \in S : ~(k < m)
    BY <1>2 DEF OpToRel
  <1> QED
    BY <1>3

(* What holds at 0 and is handed on holds up to n.                         *)
LEMMA AllUpTo ==
    ASSUME NEW n \in Nat, NEW S, 0 \in S, \A k \in 1..n : k - 1 \in S => k \in S
    PROVE  0..n \subseteq S
  <1> DEFINE T == {k \in 0..n : k \notin S}
  <1> SUFFICES ASSUME T # {}
               PROVE  FALSE
    OBVIOUS
  <1>1. T \in SUBSET Nat
    OBVIOUS
  <1>2. PICK m \in T : \A k \in T : m <= k
    BY <1>1, LeastOf
  <1>3. m \in 1..n /\ m - 1 \in 0..n /\ m - 1 \notin T
    BY <1>2
  <1> QED
    BY <1>2, <1>3

LEMMA MinIsIn ==
    ASSUME NEW S \in SUBSET Nat, S # {}
    PROVE  Min(S) \in S /\ \A k \in S : Min(S) <= k
  <1>1. PICK m \in S : \A k \in S : m <= k
    BY LeastOf
  <1> QED
    BY <1>1 DEF Min

LEMMA MaxIsIn ==
    ASSUME NEW n \in Nat, NEW S \in SUBSET (0..n), S # {}
    PROVE  Max(S) \in S /\ \A k \in S : k <= Max(S)
  <1> DEFINE T == {j \in Nat : n - j \in S}
  <1>1. T # {}
    <2>1. PICK k \in S : TRUE
      OBVIOUS
    <2>2. n - k \in T
      BY <2>1
    <2> QED
      BY <2>2
  <1>2. PICK m \in T : \A j \in T : m <= j
    BY <1>1, LeastOf
  <1>3. \A k \in S : n - k \in T
    OBVIOUS
  <1>4. n - m \in S /\ \A k \in S : n - m >= k
    BY <1>2, <1>3
  <1> QED
    BY <1>4 DEF Max

LEMMA MaxOfTwo ==
    ASSUME NEW a \in Int, NEW b \in Int
    PROVE  Max({a, b}) = IF a >= b THEN a ELSE b
  <1>1. \A x \in {a, b} : (\A y \in {a, b} : x >= y) <=> x = (IF a >= b THEN a ELSE b)
    OBVIOUS
  <1>2. \E x \in {a, b} : \A y \in {a, b} : x >= y
    OBVIOUS
  <1> QED
    BY <1>1, <1>2 DEF Max

LEMMA MinOfTwo ==
    ASSUME NEW a \in Int, NEW b \in Int
    PROVE  Min({a, b}) = IF a <= b THEN a ELSE b
  <1>1. \A x \in {a, b} : (\A y \in {a, b} : x <= y) <=> x = (IF a <= b THEN a ELSE b)
    OBVIOUS
  <1>2. \E x \in {a, b} : \A y \in {a, b} : x <= y
    OBVIOUS
  <1> QED
    BY <1>1, <1>2 DEF Min

(* Finitely many numbers have a bound: there is always a fresh future.     *)
LEMMA BoundOfSeq ==
    ASSUME NEW s \in Seq(Nat)
    PROVE  \E b \in Nat : \A i \in DOMAIN s : s[i] <= b
  <1> DEFINE n == Len(s)
             S == {k \in 0..n : \E b \in Nat : \A i \in 1..k : s[i] <= b}
  <1>1. n \in Nat /\ DOMAIN s = 1..n /\ \A i \in 1..n : s[i] \in Nat
    BY LenProperties, ElementOfSeq
  <1> HIDE DEF n
  <1>2. 0 \in S
    BY <1>1
  <1>3. \A k \in 1..n : k - 1 \in S => k \in S
    <2> SUFFICES ASSUME NEW k \in 1..n, k - 1 \in S
                 PROVE  k \in S
      OBVIOUS
    <2>1. PICK b \in Nat : \A i \in 1..k - 1 : s[i] <= b
      OBVIOUS
    <2>2. PICK c \in Nat : c >= b /\ c >= s[k]
      <3>1. s[k] \in Nat
        BY <1>1
      <3>2. CASE b >= s[k]
        BY <3>1, <3>2
      <3>3. CASE s[k] >= b
        BY <3>1, <3>3
      <3> QED
        BY <3>1, <3>2, <3>3
    <2>3. \A i \in 1..k : s[i] <= c
      BY <1>1, <2>1, <2>2
    <2>4. k \in 0..n
      BY <1>1
    <2> QED
      BY <2>2, <2>3, <2>4
  <1>4. n \in S
    <2> HIDE DEF S
    <2>1. 0..n \subseteq S
      BY <1>1, <1>2, <1>3, AllUpTo
    <2> QED
      BY <1>1, <2>1
  <1> QED
    BY <1>1, <1>4

(* Sequences.                                                              *)
LEMMA ConsIs ==
    ASSUME NEW S, NEW s \in Seq(S), NEW x \in S
    PROVE  /\ <<x>> \o s \in Seq(S) /\ Len(<<x>> \o s) = Len(s) + 1
           /\ DOMAIN (<<x>> \o s) = 1..Len(s) + 1
           /\ \A i \in 1..Len(s) + 1 : (<<x>> \o s)[i] = IF i = 1 THEN x ELSE s[i - 1]
           /\ Head(<<x>> \o s) = x /\ Tail(<<x>> \o s) = s
  <1>1. Len(s) \in Nat /\ DOMAIN s = 1..Len(s)
    BY LenProperties
  <1>2. <<x>> \in Seq(S) /\ Len(<<x>>) = 1 /\ <<x>>[1] = x
    OBVIOUS
  <1>3. /\ <<x>> \o s \in Seq(S) /\ Len(<<x>> \o s) = Len(s) + 1
        /\ \A i \in 1..Len(s) + 1 : (<<x>> \o s)[i] = IF i = 1 THEN x ELSE s[i - 1]
    BY <1>1, <1>2, ConcatProperties
  <1>4. <<x>> \o s # <<>>
    BY <1>1, <1>3
  <1>5. /\ Tail(<<x>> \o s) \in Seq(S) /\ Len(Tail(<<x>> \o s)) = Len(s)
        /\ \A i \in 1..Len(s) : Tail(<<x>> \o s)[i] = s[i]
    BY <1>1, <1>3, <1>4, HeadTailProperties
  <1>6. Tail(<<x>> \o s) = s
    BY <1>5, SeqEqual
  <1>7. Head(<<x>> \o s) = x
    BY <1>1, <1>3, <1>4
  <1> QED
    BY <1>1, <1>3, <1>6, <1>7, LenProperties

(* Likewise at the end.                                                    *)
LEMMA SnocIs ==
    ASSUME NEW S, NEW s \in Seq(S), NEW x \in S
    PROVE  /\ Append(s, x) \in Seq(S) /\ Len(Append(s, x)) = Len(s) + 1
           /\ DOMAIN Append(s, x) = 1..Len(s) + 1
           /\ \A i \in 1..Len(s) + 1 : Append(s, x)[i] = IF i = Len(s) + 1 THEN x ELSE s[i]
           /\ Last(Append(s, x)) = x /\ Front(Append(s, x)) = s
  <1>1. Len(s) \in Nat /\ DOMAIN s = 1..Len(s)
    BY LenProperties
  <1>2. /\ Append(s, x) \in Seq(S) /\ Len(Append(s, x)) = Len(s) + 1
        /\ \A i \in 1..Len(s) + 1 : Append(s, x)[i] = IF i = Len(s) + 1 THEN x ELSE s[i]
    BY <1>1, AppendProperties
  <1>3. Front(Append(s, x)) = s
    <2>1. \A i \in 1..Len(s) : Append(s, x)[i] \in S
      BY <1>1, <1>2
    <2>2. PICK t : t = Append(s, x)
      OBVIOUS
    <2>3. PICK n \in Nat : n = Len(s)
      BY <1>1
    <2>4. /\ SubSeq(t, 1, n) \in Seq(S) /\ Len(SubSeq(t, 1, n)) = (IF 1 <= n THEN n - 1 + 1 ELSE 0)
          /\ \A i \in 1..n - 1 + 1 : SubSeq(t, 1, n)[i] = t[1 + i - 1]
      BY <2>1, <2>2, <2>3, SubSeqProperties
    <2>5. Len(SubSeq(t, 1, n)) = Len(s) /\ \A i \in 1..Len(s) : SubSeq(t, 1, n)[i] = s[i]
      BY <1>1, <1>2, <2>2, <2>3, <2>4
    <2>6. SubSeq(t, 1, n) = s
      BY <2>4, <2>5, SeqEqual
    <2>7. Len(t) - 1 = n
      BY <1>1, <1>2, <2>2, <2>3
    <2> QED
      BY <2>2, <2>6, <2>7 DEF Front
  <1>4. Last(Append(s, x)) = x
    BY <1>1, <1>2 DEF Last
  <1> QED
    BY <1>1, <1>2, <1>3, <1>4, LenProperties

(* What is left when an element is taken out.                              *)
LEMMA RemovedIs ==
    ASSUME NEW S, NEW s \in Seq(S), NEW k \in 1..Len(s)
    PROVE  /\ RemoveAt(s, k) \in Seq(S) /\ Len(RemoveAt(s, k)) = Len(s) - 1
           /\ DOMAIN RemoveAt(s, k) = 1..Len(s) - 1
           /\ \A i \in 1..Len(s) - 1 : RemoveAt(s, k)[i] = IF i < k THEN s[i] ELSE s[i + 1]
  <1>1. PICK n \in Nat : n = Len(s)
    BY LenProperties
  <1>2. \A i \in 1..n : s[i] \in S
    BY <1>1, ElementOfSeq
  <1>3. PICK a \in Int : a = k - 1
    BY <1>1
  <1>4. PICK b \in Int : b = k + 1
    BY <1>1
  <1>5. /\ SubSeq(s, 1, a) \in Seq(S) /\ Len(SubSeq(s, 1, a)) = (IF 1 <= a THEN a - 1 + 1 ELSE 0)
        /\ \A i \in 1..a - 1 + 1 : SubSeq(s, 1, a)[i] = s[1 + i - 1]
    <2>1. \A i \in 1..a : s[i] \in S
      BY <1>1, <1>2, <1>3
    <2> QED
      BY <2>1, SubSeqProperties
  <1>6. /\ SubSeq(s, b, n) \in Seq(S) /\ Len(SubSeq(s, b, n)) = (IF b <= n THEN n - b + 1 ELSE 0)
        /\ \A i \in 1..n - b + 1 : SubSeq(s, b, n)[i] = s[b + i - 1]
    <2>1. \A i \in b..n : s[i] \in S
      BY <1>1, <1>2, <1>4
    <2> QED
      BY <2>1, SubSeqProperties
  <1>7. RemoveAt(s, k) = SubSeq(s, 1, a) \o SubSeq(s, b, n)
    BY <1>1, <1>3, <1>4 DEF RemoveAt
  <1>8. Len(SubSeq(s, 1, a)) = k - 1 /\ Len(SubSeq(s, b, n)) = n - k
    BY <1>1, <1>3, <1>4, <1>5, <1>6
  <1>9. /\ RemoveAt(s, k) \in Seq(S) /\ Len(RemoveAt(s, k)) = n - 1
        /\ \A i \in 1..n - 1 : RemoveAt(s, k)[i] =
               IF i <= k - 1 THEN SubSeq(s, 1, a)[i] ELSE SubSeq(s, b, n)[i - (k - 1)]
    <2>1. PICK t \in Seq(S) : t = SubSeq(s, 1, a)
      BY <1>5
    <2>2. PICK u \in Seq(S) : u = SubSeq(s, b, n)
      BY <1>6
    <2>3. /\ t \o u \in Seq(S) /\ Len(t \o u) = Len(t) + Len(u)
          /\ \A i \in 1..Len(t) + Len(u) : (t \o u)[i] = IF i <= Len(t) THEN t[i] ELSE u[i - Len(t)]
      BY ConcatProperties
    <2>4. Len(t) = k - 1 /\ Len(u) = n - k /\ Len(t) + Len(u) = n - 1
      <3>1. Len(t) = k - 1
        BY <1>8, <2>1, Zenon
      <3>2. Len(u) = n - k
        BY <1>8, <2>2, Zenon
      <3> QED
        BY <1>1, <3>1, <3>2
    <2>5. RemoveAt(s, k) = t \o u
      BY <1>7, <2>1, <2>2
    <2> QED
      BY <2>1, <2>2, <2>3, <2>4, <2>5
  <1>10. \A i \in 1..n - 1 : RemoveAt(s, k)[i] = IF i < k THEN s[i] ELSE s[i + 1]
    <2> SUFFICES ASSUME NEW i \in 1..n - 1
                 PROVE  RemoveAt(s, k)[i] = IF i < k THEN s[i] ELSE s[i + 1]
      OBVIOUS
    <2>1. CASE i < k
      BY <1>1, <1>3, <1>5, <1>9, <2>1
    <2>2. CASE i >= k
      <3>1. i - (k - 1) \in 1..n - b + 1 /\ b + (i - (k - 1)) - 1 = i + 1 /\ ~(i <= k - 1)
        BY <1>1, <1>4, <2>2
      <3> QED
        BY <1>6, <1>9, <2>2, <3>1
    <2> QED
      BY <1>1, <2>1, <2>2
  <1> QED
    BY <1>1, <1>9, <1>10, LenProperties

LEMMA TailIs ==
    ASSUME NEW S, NEW s \in Seq(S), s # <<>>
    PROVE  /\ Tail(s) \in Seq(S) /\ Len(Tail(s)) = Len(s) - 1 /\ DOMAIN Tail(s) = 1..Len(s) - 1
           /\ \A i \in 1..Len(s) - 1 : Tail(s)[i] = s[i + 1]
           /\ Head(s) = s[1] /\ Len(s) \in Nat \ {0} /\ Tail(s) = RemoveAt(s, 1)
  <1>1. Len(s) \in Nat \ {0}
    BY EmptySeq
  <1>2. /\ Tail(s) \in Seq(S) /\ Len(Tail(s)) = Len(s) - 1
        /\ \A i \in 1..Len(s) - 1 : Tail(s)[i] = s[i + 1]
    BY HeadTailProperties
  <1>3. Head(s) = s[1]
    OBVIOUS
  <1>4. /\ RemoveAt(s, 1) \in Seq(S) /\ Len(RemoveAt(s, 1)) = Len(s) - 1
        /\ \A i \in 1..Len(s) - 1 : RemoveAt(s, 1)[i] = IF i < 1 THEN s[i] ELSE s[i + 1]
    <2>1. 1 \in 1..Len(s)
      BY <1>1
    <2> QED
      BY <2>1, RemovedIs
  <1>5. Tail(s) = RemoveAt(s, 1)
    BY <1>1, <1>2, <1>4, SeqEqual
  <1> QED
    BY <1>1, <1>2, <1>3, <1>5, LenProperties

LEMMA FrontIs ==
    ASSUME NEW S, NEW s \in Seq(S), s # <<>>
    PROVE  /\ Front(s) \in Seq(S) /\ Len(Front(s)) = Len(s) - 1 /\ DOMAIN Front(s) = 1..Len(s) - 1
           /\ \A i \in 1..Len(s) - 1 : Front(s)[i] = s[i]
           /\ Last(s) = s[Len(s)] /\ Len(s) \in Nat \ {0} /\ Front(s) = RemoveAt(s, Len(s))
  <1>1. PICK n \in Nat \ {0} : n = Len(s)
    BY EmptySeq
  <1>2. PICK m \in Int : m = n - 1
    BY <1>1
  <1>3. \A i \in 1..m : s[i] \in S
    BY <1>1, <1>2, ElementOfSeq
  <1>4. /\ SubSeq(s, 1, m) \in Seq(S) /\ Len(SubSeq(s, 1, m)) = (IF 1 <= m THEN m - 1 + 1 ELSE 0)
        /\ \A i \in 1..m - 1 + 1 : SubSeq(s, 1, m)[i] = s[1 + i - 1]
    BY <1>3, SubSeqProperties
  <1>5. Front(s) = SubSeq(s, 1, m)
    BY <1>1, <1>2 DEF Front
  <1>6. /\ Front(s) \in Seq(S) /\ Len(Front(s)) = n - 1
        /\ \A i \in 1..n - 1 : Front(s)[i] = s[i]
    BY <1>1, <1>2, <1>4, <1>5
  <1>7. /\ RemoveAt(s, n) \in Seq(S) /\ Len(RemoveAt(s, n)) = n - 1
        /\ \A i \in 1..n - 1 : RemoveAt(s, n)[i] = IF i < n THEN s[i] ELSE s[i + 1]
    <2>1. n \in 1..Len(s)
      BY <1>1
    <2> QED
      BY <1>1, <2>1, RemovedIs
  <1>8. Front(s) = RemoveAt(s, n)
    BY <1>6, <1>7, SeqEqual
  <1> QED
    BY <1>1, <1>6, <1>8, LenProperties DEF Last
-----------------------------------------------------------------------------
(* What events do to a sequence of futures: a LOAD puts one on at an end,  *)
(* an UNLOAD takes one off.  Leads(s, events, t): the events make t of s;  *)
(* between them no future is twice in the sequence.  The widget adds an    *)
(* event at the end, or takes a LOAD out of the middle when nobody has     *)
(* heard of the future yet.                                                *)

Sides == {"top", "bottom"}
FutureEvents == [fut : Futures, load : BOOLEAN, side : Sides]

Distinct(s) == \A i, j \in DOMAIN s : s[i] = s[j] => i = j

(* The sequence t is s with f put on at one end.                           *)
EndOf(t, side) == IF side = "top" THEN 1 ELSE Len(t)

Adds(s, f, side, t) ==
    /\ t # <<>> /\ t[EndOf(t, side)] = f /\ s = RemoveAt(t, EndOf(t, side))

(* What the handling of an event does to the futures that messages hold.   *)
Turns(e, s, t) == IF e.load THEN Adds(s, e.fut, e.side, t) ELSE Adds(t, e.fut, e.side, s)

IsPath(p, s, events, t) ==
    /\ p[0] = s /\ p[Len(events)] = t
    /\ \A n \in 0..Len(events) : Distinct(p[n])
    /\ \A n \in 1..Len(events) : Turns(events[n], p[n - 1], p[n])

(* The events lead from the futures s to the futures t.                    *)
Leads(s, events, t) ==
    \E p \in [0..Len(events) -> Seq(Futures)] : IsPath(p, s, events, t)

Without(s, f) ==
    IF f \in Range(s) THEN RemoveAt(s, CHOOSE i \in DOMAIN s : s[i] = f) ELSE s

LEMMA ConsAdds ==
    ASSUME NEW S, NEW s \in Seq(S), NEW f \in S
    PROVE  Adds(s, f, "top", <<f>> \o s)
  <1>1. <<f>> \o s \in Seq(S) /\ <<f>> \o s # <<>> /\ Tail(<<f>> \o s) = s /\ (<<f>> \o s)[1] = f
    BY ConsIs, LenProperties
  <1>2. Tail(<<f>> \o s) = RemoveAt(<<f>> \o s, 1)
    BY <1>1, TailIs
  <1> QED
    BY <1>1, <1>2 DEF Adds, EndOf

LEMMA SnocAdds ==
    ASSUME NEW S, NEW s \in Seq(S), NEW f \in S
    PROVE  Adds(s, f, "bottom", Append(s, f))
  <1>1. /\ Append(s, f) \in Seq(S) /\ Append(s, f) # <<>>
        /\ Front(Append(s, f)) = s /\ Last(Append(s, f)) = f
    BY SnocIs, AppendProperties
  <1>2. /\ Front(Append(s, f)) = RemoveAt(Append(s, f), Len(Append(s, f)))
        /\ Last(Append(s, f)) = Append(s, f)[Len(Append(s, f))]
    BY <1>1, FrontIs
  <1> QED
    BY <1>1, <1>2 DEF Adds, EndOf

LEMMA EndIsPlace ==
    ASSUME NEW S, NEW t \in Seq(S), t # <<>>, NEW side \in Sides
    PROVE  EndOf(t, side) \in 1..Len(t) /\ Len(t) \in Nat \ {0}
  BY EmptySeq DEF EndOf, Sides

(* What a sequence is once a future was put on at one end.                 *)
LEMMA AddsIs ==
    ASSUME NEW S, NEW s, NEW t \in Seq(S), NEW f, NEW side \in Sides, Adds(s, f, side, t)
    PROVE  /\ s \in Seq(S) /\ f \in S /\ Len(t) = Len(s) + 1 /\ Len(s) \in Nat
           /\ side = "top" => t[1] = f /\ \A i \in 1..Len(s) : t[i + 1] = s[i]
           /\ side = "bottom" => t[Len(t)] = f /\ \A i \in 1..Len(s) : t[i] = s[i]
           /\ Range(t) = Range(s) \union {f}
  <1>1. EndOf(t, side) \in 1..Len(t) /\ Len(t) \in Nat \ {0}
    BY EndIsPlace DEF Adds
  <1>2. /\ RemoveAt(t, EndOf(t, side)) \in Seq(S) /\ Len(RemoveAt(t, EndOf(t, side))) = Len(t) - 1
        /\ \A i \in 1..Len(t) - 1 : RemoveAt(t, EndOf(t, side))[i] =
               IF i < EndOf(t, side) THEN t[i] ELSE t[i + 1]
    BY <1>1, RemovedIs
  <1>3. s \in Seq(S) /\ Len(t) = Len(s) + 1 /\ Len(s) \in Nat /\ f \in S
    BY <1>1, <1>2, ElementOfSeq DEF Adds
  <1>4. \A i \in 1..Len(s) : s[i] = IF i < EndOf(t, side) THEN t[i] ELSE t[i + 1]
    BY <1>1, <1>2, <1>3 DEF Adds
  <1>5. side = "top" => t[1] = f /\ \A i \in 1..Len(s) : t[i + 1] = s[i]
    BY <1>1, <1>3, <1>4 DEF Adds, EndOf
  <1>6. side = "bottom" => t[Len(t)] = f /\ \A i \in 1..Len(s) : t[i] = s[i]
    BY <1>1, <1>3, <1>4 DEF Adds, EndOf
  <1>7. DOMAIN s = 1..Len(s) /\ DOMAIN t = 1..Len(s) + 1
    BY <1>3, LenProperties
  <1>8. Range(t) = Range(s) \union {f}
    <2>1. CASE side = "top"
      <3>1. \A i \in 1..Len(s) + 1 : i = 1 \/ (i - 1 \in 1..Len(s) /\ i - 1 + 1 = i)
        BY <1>3
      <3>2. Range(t) \subseteq Range(s) \union {f}
        <4> SUFFICES ASSUME NEW i \in 1..Len(s) + 1
                     PROVE  t[i] \in Range(s) \union {f}
          BY <1>7 DEF Range
        <4>1. CASE i = 1
          BY <1>5, <2>1, <4>1
        <4>2. CASE i - 1 \in 1..Len(s) /\ i - 1 + 1 = i
          <5>1. t[i] = s[i - 1]
            BY <1>5, <2>1, <4>2
          <5> QED
            BY <1>7, <4>2, <5>1 DEF Range
        <4> QED
          BY <3>1, <4>1, <4>2
      <3>3. Range(s) \union {f} \subseteq Range(t)
        <4>1. \A i \in 1..Len(s) : i + 1 \in 1..Len(s) + 1
          BY <1>3
        <4>2. 1 \in 1..Len(s) + 1
          BY <1>3
        <4> QED
          BY <1>5, <1>7, <2>1, <4>1, <4>2 DEF Range
      <3> QED
        BY <3>2, <3>3
    <2>2. CASE side = "bottom"
      <3>1. \A i \in 1..Len(s) + 1 : i = Len(s) + 1 \/ i \in 1..Len(s)
        BY <1>3
      <3>2. Range(t) \subseteq Range(s) \union {f}
        BY <1>3, <1>6, <1>7, <2>2, <3>1 DEF Range
      <3>3. Range(s) \union {f} \subseteq Range(t)
        <4>1. \A i \in 1..Len(s) : i \in 1..Len(s) + 1
          BY <1>3
        <4>2. Len(s) + 1 \in 1..Len(s) + 1
          BY <1>3
        <4> QED
          BY <1>3, <1>6, <1>7, <2>2, <4>1, <4>2 DEF Range
      <3> QED
        BY <3>2, <3>3
    <2> QED
      BY <2>1, <2>2 DEF Sides
  <1> QED
    BY <1>3, <1>5, <1>6, <1>8

(* A future that is in the sequence once is taken out.                     *)
LEMMA WithoutIs ==
    ASSUME NEW S, NEW s \in Seq(S), Distinct(s), NEW k \in 1..Len(s)
    PROVE  Without(s, s[k]) = RemoveAt(s, k)
  <1>1. DOMAIN s = 1..Len(s)
    BY LenProperties
  <1>2. (CHOOSE i \in DOMAIN s : s[i] = s[k]) = k
    BY <1>1 DEF Distinct
  <1> QED
    BY <1>1, <1>2 DEF Without, Range

LEMMA RemovedDistinct ==
    ASSUME NEW S, NEW s \in Seq(S), Distinct(s), NEW k \in 1..Len(s)
    PROVE  /\ Distinct(RemoveAt(s, k))
           /\ Range(RemoveAt(s, k)) = Range(s) \ {s[k]}
  <1>1. PICK n \in Nat : n = Len(s) /\ DOMAIN s = 1..n
    BY LenProperties
  <1>2. PICK t \in Seq(S) : t = RemoveAt(s, k)
    BY RemovedIs
  <1>3. DOMAIN t = 1..n - 1 /\ \A i \in 1..n - 1 : t[i] = IF i < k THEN s[i] ELSE s[i + 1]
    BY <1>1, <1>2, RemovedIs
  <1>4. Distinct(t)
    <2> SUFFICES ASSUME NEW i \in 1..n - 1, NEW j \in 1..n - 1, t[i] = t[j]
                 PROVE  i = j
      BY <1>3 DEF Distinct
    <2>1. PICK a \in 1..n : a = (IF i < k THEN i ELSE i + 1) /\ t[i] = s[a]
      BY <1>1, <1>3
    <2>2. PICK b \in 1..n : b = (IF j < k THEN j ELSE j + 1) /\ t[j] = s[b]
      BY <1>1, <1>3
    <2>3. a = b
      BY <1>1, <2>1, <2>2 DEF Distinct
    <2> QED
      BY <1>1, <2>1, <2>2, <2>3
  <1>5. Range(t) \subseteq Range(s) \ {s[k]}
    <2> SUFFICES ASSUME NEW i \in 1..n - 1
                 PROVE  t[i] \in Range(s) \ {s[k]}
      BY <1>3 DEF Range
    <2>1. PICK a \in 1..n : a = (IF i < k THEN i ELSE i + 1) /\ t[i] = s[a]
      BY <1>1, <1>3
    <2>2. a # k
      BY <1>1, <2>1
    <2> QED
      BY <1>1, <2>1, <2>2 DEF Range, Distinct
  <1>6. Range(s) \ {s[k]} \subseteq Range(t)
    <2> SUFFICES ASSUME NEW a \in 1..n, s[a] # s[k]
                 PROVE  s[a] \in Range(t)
      BY <1>1 DEF Range
    <2>1. PICK i \in 1..n - 1 : a = (IF i < k THEN i ELSE i + 1)
      <3>1. CASE a < k
        <4>1. a \in 1..n - 1
          BY <1>1, <3>1
        <4> QED
          BY <3>1, <4>1
      <3>2. CASE a > k
        <4>1. a - 1 \in 1..n - 1 /\ ~(a - 1 < k) /\ a = a - 1 + 1
          BY <1>1, <3>2
        <4> QED
          BY <4>1
      <3> QED
        BY <1>1, <3>1, <3>2
    <2>2. t[i] = s[a]
      BY <1>3, <2>1
    <2> QED
      BY <1>3, <2>2 DEF Range
  <1> QED
    BY <1>2, <1>4, <1>5, <1>6

LEMMA WithoutDistinct ==
    ASSUME NEW S, NEW s \in Seq(S), Distinct(s), NEW f
    PROVE  Without(s, f) \in Seq(S) /\ Distinct(Without(s, f))
           /\ Range(Without(s, f)) = Range(s) \ {f}
  <1>1. CASE f \notin Range(s)
    BY <1>1 DEF Without
  <1>2. CASE f \in Range(s)
    <2>1. DOMAIN s = 1..Len(s)
      BY LenProperties
    <2>2. PICK k \in 1..Len(s) : s[k] = f
      BY <1>2, <2>1 DEF Range
    <2>3. Without(s, f) = RemoveAt(s, k)
      BY <2>2, WithoutIs
    <2> QED
      BY <2>2, <2>3, RemovedDistinct, RemovedIs
  <1> QED
    BY <1>1, <1>2

(* Two futures leave a sequence in either order.                           *)
LEMMA RemoveTwo ==
    ASSUME NEW S, NEW s \in Seq(S), NEW i \in 1..Len(s), NEW j \in 1..Len(s), i < j
    PROVE  RemoveAt(RemoveAt(s, i), j - 1) = RemoveAt(RemoveAt(s, j), i)
  <1>1. PICK n \in Nat : n = Len(s)
    BY LenProperties
  <1>2. PICK t \in Seq(S) : t = RemoveAt(s, i)
    BY RemovedIs
  <1>3. Len(t) = n - 1 /\ \A m \in 1..n - 1 : t[m] = IF m < i THEN s[m] ELSE s[m + 1]
    BY <1>1, <1>2, RemovedIs
  <1>4. PICK u \in Seq(S) : u = RemoveAt(s, j)
    BY RemovedIs
  <1>5. Len(u) = n - 1 /\ \A m \in 1..n - 1 : u[m] = IF m < j THEN s[m] ELSE s[m + 1]
    BY <1>1, <1>4, RemovedIs
  <1>6. j - 1 \in 1..Len(t) /\ i \in 1..Len(u)
    BY <1>1, <1>3, <1>5
  <1>7. PICK a \in 1..Len(t) : a = j - 1
    BY <1>6
  <1>8. /\ RemoveAt(t, a) \in Seq(S) /\ Len(RemoveAt(t, a)) = n - 1 - 1
        /\ \A m \in 1..n - 1 - 1 : RemoveAt(t, a)[m] = IF m < a THEN t[m] ELSE t[m + 1]
    BY <1>3, RemovedIs, ZenonT(40)
  <1>9. /\ RemoveAt(u, i) \in Seq(S) /\ Len(RemoveAt(u, i)) = n - 1 - 1
        /\ \A m \in 1..n - 1 - 1 : RemoveAt(u, i)[m] = IF m < i THEN u[m] ELSE u[m + 1]
    BY <1>5, <1>6, RemovedIs, ZenonT(40)
  <1>10. \A m \in 1..n - 1 - 1 : RemoveAt(t, a)[m] = RemoveAt(u, i)[m]
    <2> SUFFICES ASSUME NEW m \in 1..n - 1 - 1
                 PROVE  RemoveAt(t, a)[m] = RemoveAt(u, i)[m]
      OBVIOUS
    <2>1. m \in 1..n - 1 /\ m + 1 \in 1..n - 1
      BY <1>1
    <2>2. CASE m < i
      <3>1. m < a /\ m < j
        BY <1>1, <1>7, <2>2
      <3> QED
        BY <1>3, <1>5, <1>8, <1>9, <2>1, <2>2, <3>1
    <2>3. CASE ~(m < i) /\ m < a
      <3>1. m + 1 < j
        BY <1>1, <1>7, <2>3
      <3> QED
        BY <1>3, <1>5, <1>8, <1>9, <2>1, <2>3, <3>1
    <2>4. CASE ~(m < a)
      <3>1. ~(m < i) /\ ~(m + 1 < i) /\ ~(m + 1 < j)
        BY <1>1, <1>7, <2>4
      <3> QED
        BY <1>3, <1>5, <1>8, <1>9, <2>1, <2>4, <3>1
    <2> QED
      BY <2>2, <2>3, <2>4
  <1>11. RemoveAt(t, a) = RemoveAt(u, i)
    BY <1>8, <1>9, <1>10, SeqEqual
  <1> QED
    BY <1>2, <1>4, <1>7, <1>11

(* A future that no event is about can be left out on both sides of one.   *)
LEMMA AddsWithout ==
    ASSUME NEW S, NEW s \in Seq(S), NEW t \in Seq(S), Distinct(s), Distinct(t),
           NEW f, NEW g, NEW side \in Sides, Adds(s, g, side, t), f # g
    PROVE  Adds(Without(s, f), g, side, Without(t, f))
  <1>1. Range(t) = Range(s) \union {g} /\ Len(t) = Len(s) + 1 /\ Len(s) \in Nat
    BY AddsIs
  <1>2. DOMAIN s = 1..Len(s) /\ DOMAIN t = 1..Len(t)
    BY LenProperties
  <1>3. CASE f \notin Range(t)
    BY <1>1, <1>3 DEF Without
  <1>4. CASE f \in Range(t)
    <2>1. f \in Range(s)
      BY <1>1, <1>4
    <2>2. PICK k \in 1..Len(t) : t[k] = f
      BY <1>2, <1>4 DEF Range
    <2>3. PICK u \in Seq(S) : u = RemoveAt(t, k)
      BY RemovedIs
    <2>4. Len(u) = Len(s) /\ \A m \in 1..Len(s) : u[m] = IF m < k THEN t[m] ELSE t[m + 1]
      <3>1. Len(u) = Len(t) - 1 /\ \A m \in 1..Len(t) - 1 : u[m] = IF m < k THEN t[m] ELSE t[m + 1]
        BY <2>3, RemovedIs
      <3>2. Len(t) - 1 = Len(s)
        BY <1>1
      <3> QED
        BY <3>1, <3>2
    <2>5. Without(t, f) = u
      BY <2>2, <2>3, WithoutIs
    <2>6. CASE side = "top"
      <3>1. t[1] = g /\ s = RemoveAt(t, 1)
        BY <2>6 DEF Adds, EndOf
      <3>2. k > 1
        BY <2>2, <3>1
      <3>3. k - 1 \in 1..Len(s) /\ s[k - 1] = f
        <4>1. \A i \in 1..Len(s) : t[i + 1] = s[i]
          BY <2>6, AddsIs
        <4>2. k - 1 \in 1..Len(s) /\ k - 1 + 1 = k
          BY <1>1, <3>2
        <4> QED
          BY <2>2, <4>1, <4>2
      <3>4. Without(s, f) = RemoveAt(s, k - 1)
        BY <3>3, WithoutIs
      <3>5. 1 \in 1..Len(t)
        BY <1>1
      <3>6. RemoveAt(RemoveAt(t, 1), k - 1) = RemoveAt(RemoveAt(t, k), 1)
        BY <3>2, <3>5, RemoveTwo
      <3>7. u[1] = g /\ u # <<>>
        BY <1>1, <2>4, <3>1, <3>2, <3>3
      <3> QED
        BY <2>3, <2>5, <2>6, <3>1, <3>4, <3>6, <3>7 DEF Adds, EndOf
    <2>7. CASE side = "bottom"
      <3>1. t[Len(t)] = g /\ s = RemoveAt(t, Len(t))
        BY <2>7 DEF Adds, EndOf, Sides
      <3>2. k < Len(t)
        BY <1>1, <2>2, <3>1
      <3>3. k \in 1..Len(s) /\ s[k] = f
        <4>1. \A i \in 1..Len(s) : t[i] = s[i]
          BY <2>7, AddsIs
        <4>2. k \in 1..Len(s)
          BY <1>1, <3>2
        <4> QED
          BY <2>2, <4>1, <4>2
      <3>4. Without(s, f) = RemoveAt(s, k)
        BY <3>3, WithoutIs
      <3>5. Len(t) \in 1..Len(t) /\ Len(t) - 1 = Len(s)
        BY <1>1
      <3>6. RemoveAt(RemoveAt(t, k), Len(t) - 1) = RemoveAt(RemoveAt(t, Len(t)), k)
        BY <3>2, <3>5, RemoveTwo
      <3>7. u[Len(u)] = g /\ u # <<>>
        <4>1. Len(s) \in 1..Len(s) /\ ~(Len(s) < k)
          BY <1>1, <3>2, <3>3
        <4> QED
          BY <1>1, <2>4, <3>1, <4>1
      <3> QED
        BY <2>3, <2>4, <2>5, <2>7, <3>1, <3>4, <3>5, <3>6, <3>7 DEF Adds, EndOf
    <2> QED
      BY <2>6, <2>7 DEF Sides
  <1> QED
    BY <1>3, <1>4

LEMMA TurnsWithout ==
    ASSUME NEW s \in Seq(Futures), NEW t \in Seq(Futures), Distinct(s), Distinct(t),
           NEW e \in FutureEvents, NEW f, Turns(e, s, t), f # e.fut
    PROVE  Turns(e, Without(s, f), Without(t, f))
  BY AddsWithout DEF Turns, FutureEvents

(* One event more at the end.                                              *)
LEMMA PathAppend ==
    ASSUME NEW s, NEW events \in Seq(FutureEvents), NEW t, NEW u \in Seq(Futures),
           NEW e \in FutureEvents, Leads(s, events, t), Turns(e, t, u), Distinct(u)
    PROVE  Leads(s, Append(events, e), u)
  <1>1. PICK p \in [0..Len(events) -> Seq(Futures)] : IsPath(p, s, events, t)
    BY DEF Leads
  <1>2. PICK n \in Nat : n = Len(events)
    BY LenProperties
  <1>3. PICK more \in Seq(FutureEvents) : more = Append(events, e)
    BY SnocIs
  <1>4. Len(more) = n + 1 /\ \A i \in 1..n + 1 : more[i] = IF i = n + 1 THEN e ELSE events[i]
    BY <1>2, <1>3, SnocIs
  <1> DEFINE q == [i \in 0..n + 1 |-> IF i = n + 1 THEN u ELSE p[i]]
  <1>5. q \in [0..n + 1 -> Seq(Futures)]
    BY <1>2
  <1>6. q[0] = s /\ q[n + 1] = u /\ p[n] = t
    BY <1>1, <1>2 DEF IsPath
  <1>7. \A i \in 0..n + 1 : Distinct(q[i])
    BY <1>1, <1>2 DEF IsPath
  <1>8. \A i \in 1..n + 1 : Turns(more[i], q[i - 1], q[i])
    <2> SUFFICES ASSUME NEW i \in 1..n + 1
                 PROVE  Turns(more[i], q[i - 1], q[i])
      OBVIOUS
    <2>1. CASE i = n + 1
      <3>1. q[i - 1] = t /\ q[i] = u /\ more[i] = e
        BY <1>2, <1>4, <1>6, <2>1
      <3> QED
        BY <3>1
    <2>2. CASE i # n + 1
      <3>1. i \in 1..n /\ q[i - 1] = p[i - 1] /\ q[i] = p[i] /\ more[i] = events[i]
        BY <1>2, <1>4, <2>2
      <3> QED
        BY <1>1, <1>2, <3>1 DEF IsPath
    <2> QED
      BY <2>1, <2>2
  <1> HIDE DEF q
  <1>9. IsPath(q, s, more, u)
    BY <1>4, <1>6, <1>7, <1>8 DEF IsPath
  <1> QED
    BY <1>3, <1>4, <1>5, <1>9 DEF Leads

(* The first event is handled.                                             *)
LEMMA PathFirst ==
    ASSUME NEW s, NEW events \in Seq(FutureEvents), NEW t, Leads(s, events, t), events # <<>>
    PROVE  \E u \in Seq(Futures) :
              Turns(Head(events), s, u) /\ Distinct(u) /\ Leads(u, Tail(events), t)
  <1>1. PICK p \in [0..Len(events) -> Seq(Futures)] : IsPath(p, s, events, t)
    BY DEF Leads
  <1>2. PICK n \in Nat \ {0} : n = Len(events)
    BY EmptySeq
  <1>3. PICK rest \in Seq(FutureEvents) : rest = Tail(events)
    BY TailIs
  <1>4. Len(rest) = n - 1 /\ (\A i \in 1..n - 1 : rest[i] = events[i + 1]) /\ Head(events) = events[1]
    BY <1>2, <1>3, TailIs
  <1> DEFINE q == [i \in 0..n - 1 |-> p[i + 1]]
  <1>5. q \in [0..n - 1 -> Seq(Futures)]
    BY <1>2
  <1>6. q[0] = p[1] /\ q[n - 1] = t /\ p[0] = s /\ p[1] \in Seq(Futures)
    BY <1>1, <1>2 DEF IsPath
  <1>7. \A i \in 0..n - 1 : Distinct(q[i])
    BY <1>1, <1>2 DEF IsPath
  <1>8. \A i \in 1..n - 1 : Turns(rest[i], q[i - 1], q[i])
    <2> SUFFICES ASSUME NEW i \in 1..n - 1
                 PROVE  Turns(rest[i], q[i - 1], q[i])
      OBVIOUS
    <2>1. q[i - 1] = p[i] /\ q[i] = p[i + 1] /\ rest[i] = events[i + 1] /\ i + 1 \in 1..n
      BY <1>2, <1>4
    <2>2. i + 1 - 1 = i
      OBVIOUS
    <2> QED
      BY <1>1, <1>2, <2>1, <2>2 DEF IsPath
  <1>9. Turns(events[1], s, p[1]) /\ Distinct(p[1])
    BY <1>1, <1>2 DEF IsPath
  <1> HIDE DEF q
  <1>10. IsPath(q, p[1], rest, t)
    BY <1>4, <1>6, <1>7, <1>8 DEF IsPath
  <1> QED
    BY <1>3, <1>4, <1>5, <1>6, <1>9, <1>10 DEF Leads

(* Both ends of a path are sequences without repetition.                   *)
LEMMA PathEnds ==
    ASSUME NEW s, NEW events \in Seq(FutureEvents), NEW t, Leads(s, events, t)
    PROVE  Distinct(s) /\ Distinct(t) /\ s \in Seq(Futures) /\ t \in Seq(Futures)
  <1>1. PICK p \in [0..Len(events) -> Seq(Futures)] : IsPath(p, s, events, t)
    BY DEF Leads
  <1>2. Len(events) \in Nat
    BY LenProperties
  <1> QED
    BY <1>1, <1>2 DEF IsPath

(* An event is cancelled: its future is left out from there on.            *)
LEMMA PathCancel ==
    ASSUME NEW s, NEW events \in Seq(FutureEvents), NEW t, Leads(s, events, t),
           NEW k \in 1..Len(events), events[k].load,
           \A i \in 1..Len(events) : events[i].fut = events[k].fut => i = k
    PROVE  Leads(s, RemoveAt(events, k), Without(t, events[k].fut))
  <1> DEFINE f == events[k].fut
  <1>1. PICK p \in [0..Len(events) -> Seq(Futures)] : IsPath(p, s, events, t)
    BY DEF Leads
  <1>2. PICK n \in Nat : n = Len(events)
    BY LenProperties
  <1>3. \A i \in 1..n : events[i] \in FutureEvents
    BY <1>2, ElementOfSeq
  <1>4. PICK rest \in Seq(FutureEvents) : rest = RemoveAt(events, k)
    BY RemovedIs
  <1>5. Len(rest) = n - 1 /\ \A i \in 1..n - 1 : rest[i] = IF i < k THEN events[i] ELSE events[i + 1]
    BY <1>2, <1>4, RemovedIs
  <1>6. \A i \in 0..n : p[i] \in Seq(Futures) /\ Distinct(p[i])
    BY <1>1, <1>2 DEF IsPath
  <1>7. Without(p[k], f) = p[k - 1]
    <2>1. Adds(p[k - 1], f, events[k].side, p[k])
      <3>1. Turns(events[k], p[k - 1], p[k])
        BY <1>1, <1>2 DEF IsPath
      <3> QED
        BY <3>1 DEF Turns
    <2>2. k \in 0..n /\ events[k].side \in Sides
      BY <1>2, <1>3 DEF FutureEvents
    <2>3. EndOf(p[k], events[k].side) \in 1..Len(p[k])
      BY <1>6, <2>1, <2>2, EndIsPlace DEF Adds
    <2> QED
      BY <1>6, <2>1, <2>2, <2>3, WithoutIs DEF Adds
  <1> DEFINE q == [i \in 0..n - 1 |-> IF i < k THEN p[i] ELSE Without(p[i + 1], f)]
  <1>8. \A i \in 0..n : Without(p[i], f) \in Seq(Futures) /\ Distinct(Without(p[i], f))
    BY <1>6, WithoutDistinct
  <1>9. \A i \in 0..n - 1 : q[i] \in Seq(Futures) /\ Distinct(q[i])
    BY <1>2, <1>6, <1>8
  <1>10. q[0] = s
    BY <1>1, <1>2 DEF IsPath
  <1>11. q[n - 1] = Without(t, f)
    <2>1. p[n] = t
      BY <1>1, <1>2 DEF IsPath
    <2>2. CASE k = n
      BY <1>2, <1>7, <2>1, <2>2
    <2>3. CASE k < n
      BY <1>2, <2>1, <2>3
    <2> QED
      BY <1>2, <2>2, <2>3
  <1>12. \A i \in 1..n - 1 : Turns(rest[i], q[i - 1], q[i])
    <2> SUFFICES ASSUME NEW i \in 1..n - 1
                 PROVE  Turns(rest[i], q[i - 1], q[i])
      OBVIOUS
    <2>1. i \in 1..n /\ i + 1 \in 1..n /\ i - 1 \in 0..n - 1 /\ i - 1 + 1 = i /\ i + 1 - 1 = i
      BY <1>2
    <2>2. CASE i < k
      <3>1. rest[i] = events[i] /\ q[i - 1] = p[i - 1] /\ q[i] = p[i]
        BY <1>2, <1>5, <2>1, <2>2
      <3> QED
        BY <1>1, <1>2, <2>1, <3>1 DEF IsPath
    <2>3. CASE i >= k
      <3>1. rest[i] = events[i + 1] /\ q[i] = Without(p[i + 1], f)
        BY <1>2, <1>5, <2>1, <2>3
      <3>2. q[i - 1] = Without(p[i], f)
        <4>1. CASE i = k
          BY <1>2, <1>7, <2>1, <4>1
        <4>2. CASE i > k
          BY <1>2, <2>1, <4>2
        <4> QED
          BY <2>3, <4>1, <4>2
      <3>3. Turns(events[i + 1], p[i], p[i + 1])
        BY <1>1, <1>2, <2>1 DEF IsPath
      <3>4. f # events[i + 1].fut
        BY <1>2, <2>1, <2>3
      <3> QED
        BY <1>3, <1>6, <2>1, <3>1, <3>2, <3>3, <3>4, TurnsWithout, SMTT(30)
    <2> QED
      BY <2>2, <2>3
  <1>13. q \in [0..n - 1 -> Seq(Futures)]
    BY <1>9
  <1> HIDE DEF q
  <1>14. IsPath(q, s, rest, Without(t, f))
    BY <1>5, <1>9, <1>10, <1>11, <1>12 DEF IsPath
  <1> QED
    BY <1>4, <1>5, <1>13, <1>14 DEF Leads

(* No two events are about one future.                                     *)
Once(events) == \A i, j \in DOMAIN events : events[i].fut = events[j].fut => i = j

(* A future is in the sequence or not until an event is about it.          *)
LEMMA PathUntouched ==
    ASSUME NEW events \in Seq(FutureEvents), NEW s, NEW t,
           NEW p \in [0..Len(events) -> Seq(Futures)], IsPath(p, s, events, t),
           NEW a \in 0..Len(events), NEW b \in 0..Len(events), a <= b,
           NEW f, \A i \in a + 1..b : events[i].fut # f
    PROVE  f \in Range(p[a]) <=> f \in Range(p[b])
  <1> DEFINE n == b - a
             S == {k \in 0..n : f \in Range(p[a]) <=> f \in Range(p[a + k])}
  <1>1. n \in Nat /\ Len(events) \in Nat
    BY LenProperties
  <1>2. 0 \in S
    BY <1>1
  <1>3. \A k \in 1..n : k - 1 \in S => k \in S
    <2> SUFFICES ASSUME NEW k \in 1..n, k - 1 \in S
                 PROVE  k \in S
      OBVIOUS
    <2>1. PICK i \in 1..Len(events) : i = a + k
      BY <1>1
    <2>2. i \in a + 1..b /\ a + (k - 1) = i - 1 /\ i - 1 \in 0..Len(events) /\ i \in 0..Len(events)
      BY <1>1, <2>1
    <2>3. Turns(events[i], p[i - 1], p[i]) /\ events[i] \in FutureEvents
      BY <1>1, ElementOfSeq DEF IsPath
    <2>4. p[i] \in Seq(Futures) /\ p[i - 1] \in Seq(Futures)
      BY <2>2
    <2>5. events[i].load \in BOOLEAN /\ events[i].side \in Sides
      BY <2>3 DEF FutureEvents
    <2>6. Range(p[i]) \ {events[i].fut} = Range(p[i - 1]) \ {events[i].fut}
      <3>1. CASE events[i].load
        <4>1. Adds(p[i - 1], events[i].fut, events[i].side, p[i])
          BY <2>3, <3>1 DEF Turns
        <4>2. Range(p[i]) = Range(p[i - 1]) \union {events[i].fut}
          BY <2>4, <2>5, <4>1, AddsIs
        <4> QED
          BY <4>2
      <3>2. CASE ~events[i].load
        <4>1. Adds(p[i], events[i].fut, events[i].side, p[i - 1])
          BY <2>3, <3>2 DEF Turns
        <4>2. Range(p[i - 1]) = Range(p[i]) \union {events[i].fut}
          BY <2>4, <2>5, <4>1, AddsIs
        <4> QED
          BY <4>2
      <3> QED
        BY <3>1, <3>2
    <2>7. f # events[i].fut
      BY <2>2
    <2>8. f \in Range(p[i]) <=> f \in Range(p[i - 1])
      BY <2>6, <2>7
    <2>9. f \in Range(p[a]) <=> f \in Range(p[i - 1])
      BY <2>2
    <2>10. k \in 0..n
      BY <1>1
    <2> QED
      BY <2>1, <2>8, <2>9, <2>10
  <1> HIDE DEF S
  <1>4. 0..n \subseteq S
    BY <1>1, <1>2, <1>3, AllUpTo
  <1>5. n \in S
    BY <1>1, <1>4
  <1>6. a + n = b
    BY <1>1
  <1> QED
    BY <1>5, <1>6 DEF S

LEMMA AddsNew ==
    ASSUME NEW S, NEW s \in Seq(S), NEW t \in Seq(S), NEW f, NEW side \in Sides,
           Adds(s, f, side, t), Distinct(t)
    PROVE  f \notin Range(s) /\ f \in Range(t)
  <1>1. EndOf(t, side) \in 1..Len(t) /\ t[EndOf(t, side)] = f /\ s = RemoveAt(t, EndOf(t, side))
    BY EndIsPlace DEF Adds
  <1>2. Range(s) = Range(t) \ {f}
    BY <1>1, RemovedDistinct
  <1>3. f \in Range(t)
    BY AddsIs
  <1> QED
    BY <1>2, <1>3

(* What an event in the queue says of the two ends of the path.            *)
LEMMA QueuedMeans ==
    ASSUME NEW events \in Seq(FutureEvents), NEW s, NEW t, Leads(s, events, t), Once(events),
           NEW k \in 1..Len(events)
    PROVE  /\ events[k].load => events[k].fut \notin Range(s) /\ events[k].fut \in Range(t)
           /\ ~events[k].load => events[k].fut \in Range(s) /\ events[k].fut \notin Range(t)
  <1> DEFINE n == Len(events)
             f == events[k].fut
  <1>1. PICK p \in [0..n -> Seq(Futures)] : IsPath(p, s, events, t)
    BY DEF Leads
  <1>2. n \in Nat /\ DOMAIN events = 1..n
    BY LenProperties
  <1>3. Turns(events[k], p[k - 1], p[k]) /\ events[k] \in FutureEvents
    BY <1>1, ElementOfSeq DEF IsPath
  <1>4. k \in 0..n /\ k - 1 \in 0..n /\ 0 \in 0..n /\ n \in 0..n
    BY <1>2
  <1>5. p[k] \in Seq(Futures) /\ p[k - 1] \in Seq(Futures) /\ Distinct(p[k]) /\ Distinct(p[k - 1])
    BY <1>1, <1>4 DEF IsPath
  <1>6. f \in Range(s) <=> f \in Range(p[k - 1])
    <2>1. PICK a \in 0..n : a = k - 1
      BY <1>4
    <2>2. \A i \in 0 + 1..a : events[i].fut # f
      BY <1>2, <2>1 DEF Once
    <2>3. p[0] = s /\ 0 <= a
      BY <1>1, <1>2 DEF IsPath
    <2> HIDE DEF f, n
    <2>4. f \in Range(p[0]) <=> f \in Range(p[a])
      BY <1>1, <1>4, <2>2, <2>3, PathUntouched DEF n
    <2> QED
      BY <2>1, <2>3, <2>4
  <1>7. f \in Range(t) <=> f \in Range(p[k])
    <2>1. \A i \in k + 1..n : events[i].fut # f
      BY <1>2 DEF Once
    <2>2. p[n] = t /\ k <= n
      BY <1>1, <1>2 DEF IsPath
    <2> HIDE DEF f, n
    <2>3. f \in Range(p[k]) <=> f \in Range(p[n])
      BY <1>1, <1>4, <2>1, <2>2, PathUntouched DEF n
    <2> QED
      BY <2>2, <2>3
  <1>8. events[k].side \in Sides
    BY <1>3 DEF FutureEvents
  <1>9. CASE events[k].load
    <2>1. Adds(p[k - 1], f, events[k].side, p[k])
      BY <1>3, <1>9 DEF Turns
    <2>2. f \notin Range(p[k - 1]) /\ f \in Range(p[k])
      BY <1>5, <1>8, <2>1, AddsNew
    <2> QED
      BY <1>6, <1>7, <1>9, <2>2
  <1>10. CASE ~events[k].load
    <2>1. Adds(p[k], f, events[k].side, p[k - 1])
      BY <1>3, <1>10 DEF Turns
    <2>2. f \notin Range(p[k]) /\ f \in Range(p[k - 1])
      BY <1>5, <1>8, <2>1, AddsNew
    <2> QED
      BY <1>6, <1>7, <1>10, <2>2
  <1> QED
    BY <1>9, <1>10

(* A future without an event is held and a bubble, or neither.             *)
LEMMA UnqueuedMeans ==
    ASSUME NEW events \in Seq(FutureEvents), NEW s, NEW t, Leads(s, events, t),
           NEW f, \A k \in 1..Len(events) : events[k].fut # f
    PROVE  f \in Range(s) <=> f \in Range(t)
  <1> DEFINE n == Len(events)
  <1>1. PICK p \in [0..n -> Seq(Futures)] : IsPath(p, s, events, t)
    BY DEF Leads
  <1>2. n \in Nat /\ 0 \in 0..n /\ n \in 0..n /\ 0 <= n
    BY LenProperties
  <1>3. p[0] = s /\ p[n] = t
    BY <1>1 DEF IsPath
  <1>4. \A i \in 0 + 1..n : events[i].fut # f
    OBVIOUS
  <1> QED
    BY <1>1, <1>2, <1>3, <1>4, PathUntouched

(* A future has at most one event in the queue.                            *)
LEMMA OnceAppend ==
    ASSUME NEW events \in Seq(FutureEvents), Once(events), NEW e \in FutureEvents,
           \A k \in 1..Len(events) : events[k].fut # e.fut
    PROVE  Once(Append(events, e))
  <1>1. /\ DOMAIN Append(events, e) = 1..Len(events) + 1
        /\ \A i \in 1..Len(events) + 1 : Append(events, e)[i] = IF i = Len(events) + 1 THEN e ELSE events[i]
    BY SnocIs
  <1>2. Len(events) \in Nat /\ DOMAIN events = 1..Len(events)
    BY LenProperties
  <1> QED
    BY <1>1, <1>2 DEF Once

LEMMA OnceRemove ==
    ASSUME NEW events \in Seq(FutureEvents), Once(events), NEW k \in 1..Len(events)
    PROVE  Once(RemoveAt(events, k))
  <1>1. PICK n \in Nat : n = Len(events) /\ DOMAIN events = 1..n
    BY LenProperties
  <1>2. PICK u : u = RemoveAt(events, k)
    OBVIOUS
  <1>3. DOMAIN u = 1..n - 1 /\ \A i \in 1..n - 1 : u[i] = IF i < k THEN events[i] ELSE events[i + 1]
    BY <1>1, <1>2, RemovedIs
  <1>4. Once(u)
    <2> SUFFICES ASSUME NEW i \in 1..n - 1, NEW j \in 1..n - 1, u[i].fut = u[j].fut
                 PROVE  i = j
      BY <1>3 DEF Once
    <2>1. PICK a \in 1..n : a = (IF i < k THEN i ELSE i + 1) /\ u[i] = events[a]
      BY <1>1, <1>3
    <2>2. PICK b \in 1..n : b = (IF j < k THEN j ELSE j + 1) /\ u[j] = events[b]
      BY <1>1, <1>3
    <2>3. a = b
      BY <1>1, <2>1, <2>2 DEF Once
    <2> QED
      BY <1>1, <2>1, <2>2, <2>3
  <1> QED
    BY <1>2, <1>4
-----------------------------------------------------------------------------
(* The widget x, when the messages hold the futures H and show the texts C:*)
(* its events lead from H to its bubbles, and a bubble shows what its      *)
(* message does.  At most one bubble has the latest text, and below it     *)
(* there is at most one, which waits; in the conversation that is open only*)
(* the bubbles at the ends may wait, and the area is scrolled no further   *)
(* than its height.                                                        *)

(* The code allocates a future when it needs one, so that there is always *)
(* one more.                                                               *)
FuturesAreUnlimited ==
    /\ Futures \subseteq Nat \ {Nothing}
    /\ \A n \in Nat : \E f \in Futures : f > n

UiFields ==
    {"bubbles", "events", "text", "bub", "latest", "active", "pos", "failed",
     "list", "top", "bot", "wanted", "behind", "asked", "crashed"}

(* What the bubbles show if the messages hold the futures H and show C.    *)
Told(H, C, B) ==
    [f \in Futures |-> IF f \in Range(B) /\ f \in Range(H) THEN C[f] ELSE Nothing]

Core(H, C, x) ==
    /\ DOMAIN x = UiFields
    /\ x.events \in Seq(FutureEvents) /\ Once(x.events)
    /\ Leads(H, x.events, x.bubbles)
    /\ x.text = Told(H, C, x.bubbles)
    /\ x.bub \subseteq Range(x.bubbles) /\ x.latest \subseteq Range(x.bubbles)

(* What the widget's handlers leave alone.                                 *)
SameWindow(x, y) ==
    /\ y.list = x.list /\ y.top = x.top /\ y.bot = x.bot /\ y.wanted = x.wanted
    /\ y.behind = x.behind /\ y.asked = x.asked /\ y.crashed = x.crashed

LEMMA CoreTypes ==
    ASSUME NEW H, NEW C, NEW x, Core(H, C, x)
    PROVE  /\ x.bubbles \in Seq(Futures) /\ Distinct(x.bubbles) /\ Len(x.bubbles) \in Nat
           /\ DOMAIN x.bubbles = 1..Len(x.bubbles) /\ Range(x.bubbles) \subseteq Futures
           /\ H \in Seq(Futures) /\ Distinct(H) /\ Len(H) \in Nat
           /\ DOMAIN H = 1..Len(H) /\ Range(H) \subseteq Futures
  <1>1. x.bubbles \in Seq(Futures) /\ Distinct(x.bubbles) /\ H \in Seq(Futures) /\ Distinct(H)
    BY PathEnds DEF Core
  <1> QED
    BY <1>1, LenProperties, ElementOfSeq DEF Range

(* A fresh future is no bubble and has no event.                           *)
LEMMA FreshIs ==
    ASSUME FuturesAreUnlimited, NEW x, x.bubbles \in Seq(Futures), x.events \in Seq(FutureEvents)
    PROVE  Fresh(x) \in Futures /\ Fresh(x) \notin Range(x.bubbles) /\ ~Queued(x, Fresh(x))
  <1>1. PICK n \in Nat : n = Len(x.events) /\ DOMAIN x.events = 1..n
    BY LenProperties
  <1>2. \A i \in 1..n : x.events[i].fut \in Nat
    <2>1. \A i \in 1..n : x.events[i] \in FutureEvents
      BY <1>1, ElementOfSeq
    <2>2. \A e \in FutureEvents : e.fut \in Nat
      BY DEF FutureEvents, FuturesAreUnlimited
    <2> QED
      BY <2>1, <2>2
  <1> DEFINE s == [i \in 1..n |-> x.events[i].fut]
  <1>3. s \in Seq(Nat) /\ DOMAIN s = 1..n
    BY <1>2
  <1>4. PICK b \in Nat : \A i \in 1..n : s[i] <= b
    BY <1>3, BoundOfSeq
  <1>5. x.bubbles \in Seq(Nat)
    <2>1. /\ x.bubbles \in [1..Len(x.bubbles) -> Futures] /\ Len(x.bubbles) \in Nat
      BY LenProperties
    <2>2. x.bubbles \in [1..Len(x.bubbles) -> Nat]
      BY <2>1 DEF FuturesAreUnlimited
    <2> QED
      BY <2>1, <2>2, SMTT(30)
  <1>6. PICK c \in Nat : \A i \in DOMAIN x.bubbles : x.bubbles[i] <= c
    BY <1>5, BoundOfSeq
  <1>7. PICK f \in Futures : f > b + c
    <2>1. b + c \in Nat
      OBVIOUS
    <2> QED
      BY <2>1 DEF FuturesAreUnlimited
  <1>8. f \in Nat
    BY DEF FuturesAreUnlimited
  <1>9. f \notin Range(x.bubbles)
    BY <1>5, <1>6, <1>7, <1>8 DEF Range
  <1>10. ~Queued(x, f)
    <2>1. \A i \in 1..n : x.events[i].fut <= b
      BY <1>4
    <2> QED
      BY <1>1, <1>2, <1>7, <1>8, <2>1 DEF Queued
  <1> DEFINE S == {g \in Futures : g \notin Range(x.bubbles) /\ ~Queued(x, g)}
  <1>11. S \subseteq Nat /\ S # {}
    BY <1>9, <1>10 DEF FuturesAreUnlimited
  <1>12. Min(S) \in S
    BY <1>11, MinIsIn
  <1> QED
    BY <1>12 DEF Fresh

LEMMA NotQueued ==
    ASSUME NEW x, x.events \in Seq(FutureEvents), NEW f
    PROVE  ~Queued(x, f) <=> \A k \in 1..Len(x.events) : x.events[k].fut # f
  BY LenProperties DEF Queued

(* A future joins at one end.                                              *)
LEMMA NewFutureIs ==
    ASSUME FuturesAreUnlimited, NEW H, NEW C, NEW x, Core(H, C, x), NEW side \in Sides
    PROVE  LET f == Fresh(x)
               y == NewFuture(x, f, side)
           IN  /\ Core(H, C, y) /\ SameWindow(x, y)
               /\ f \in Futures /\ f \notin Range(x.bubbles)
               /\ y.bubbles = IF side = "top" THEN <<f>> \o x.bubbles ELSE Append(x.bubbles, f)
               /\ y.bub = x.bub /\ y.latest = x.latest /\ y.text = x.text /\ y.active = x.active
               /\ y.pos = x.pos /\ y.failed = x.failed
  <1> DEFINE f == Fresh(x)
             y == NewFuture(x, f, side)
             e == [fut |-> f, load |-> TRUE, side |-> side]
             B == IF side = "top" THEN <<f>> \o x.bubbles ELSE Append(x.bubbles, f)
  <1>1. f \in Futures /\ f \notin Range(x.bubbles) /\ ~Queued(x, f)
    BY CoreTypes, FreshIs DEF Core
  <1>2. /\ DOMAIN y = UiFields /\ SameWindow(x, y) /\ y.bubbles = B /\ y.events = Append(x.events, e)
        /\ y.bub = x.bub /\ y.latest = x.latest /\ y.text = x.text /\ y.active = x.active
        /\ y.pos = x.pos
    BY DEF NewFuture, Enqueue, Asserting, SameWindow, Core, UiFields
  <1>13. y.failed = x.failed
    BY <1>1 DEF NewFuture, Enqueue, Asserting, Queued, Core, UiFields
  <1> HIDE DEF y, f
  <1>3. e \in FutureEvents
    BY <1>1 DEF FutureEvents
  <1>4. \A k \in 1..Len(x.events) : x.events[k].fut # e.fut
    BY <1>1, NotQueued DEF Core
  <1>5. Adds(x.bubbles, f, side, B) /\ B \in Seq(Futures)
    <2>1. CASE side = "top"
      BY <1>1, <2>1, CoreTypes, ConsAdds, ConsIs
    <2>2. CASE side = "bottom"
      BY <1>1, <2>2, CoreTypes, SnocAdds, SnocIs
    <2> QED
      BY <2>1, <2>2 DEF Sides
  <1> HIDE DEF B
  <1>6. Range(B) = Range(x.bubbles) \union {f}
    BY <1>5, AddsIs, CoreTypes
  <1>7. Distinct(B)
    <2>1. Distinct(x.bubbles) /\ f \notin Range(x.bubbles) /\ x.bubbles \in Seq(Futures)
      BY <1>1, CoreTypes
    <2>2. PICK s \in Seq(Futures) : s = x.bubbles
      BY <2>1
    <2>8. Adds(s, f, side, B)
      BY <1>5, <2>2
    <2>9. Len(B) = Len(s) + 1 /\ Len(s) \in Nat
      BY <1>5, <2>8, AddsIs
    <2>10. DOMAIN s = 1..Len(s) /\ DOMAIN B = 1..Len(B)
      BY <1>5, LenProperties
    <2>3. PICK n \in Nat : Len(s) = n /\ Len(B) = n + 1 /\ DOMAIN s = 1..n /\ DOMAIN B = 1..n + 1
      BY <2>9, <2>10
    <2>4. \A i \in 1..n : s[i] # f
      BY <2>1, <2>2, <2>3 DEF Range
    <2>5. CASE side = "top"
      <3>1. B[1] = f /\ \A i \in 1..n : B[i + 1] = s[i]
        BY <1>5, <2>8, <2>3, <2>5, AddsIs
      <3>2. \A i \in 1..n + 1 : i = 1 \/ (i - 1 \in 1..n /\ B[i] = s[i - 1])
        <4> SUFFICES ASSUME NEW i \in 1..n + 1, i # 1
                     PROVE  i - 1 \in 1..n /\ B[i] = s[i - 1]
          OBVIOUS
        <4>1. i - 1 \in 1..n /\ i - 1 + 1 = i
          OBVIOUS
        <4> QED
          BY <3>1, <4>1
      <3> SUFFICES ASSUME NEW i \in 1..n + 1, NEW j \in 1..n + 1, B[i] = B[j]
                   PROVE  i = j
        BY <2>3 DEF Distinct
      <3>3. \A k \in 1..n : s[k] = s[i - 1] /\ i - 1 \in 1..n => k = i - 1
        BY <2>1, <2>2, <2>3 DEF Distinct
      <3>4. CASE i = 1
        BY <2>4, <3>1, <3>2, <3>4
      <3>5. CASE i # 1 /\ j = 1
        BY <2>4, <3>1, <3>2, <3>5
      <3>6. CASE i # 1 /\ j # 1
        <4>1. i - 1 = j - 1
          BY <3>2, <3>3, <3>6
        <4> QED
          BY <4>1
      <3> QED
        BY <3>4, <3>5, <3>6
    <2>6. CASE side = "bottom"
      <3>1. B[n + 1] = f /\ \A i \in 1..n : B[i] = s[i]
        BY <1>5, <2>8, <2>3, <2>6, AddsIs
      <3> SUFFICES ASSUME NEW i \in 1..n + 1, NEW j \in 1..n + 1, B[i] = B[j]
                   PROVE  i = j
        BY <2>3 DEF Distinct
      <3>2. (i = n + 1 \/ i \in 1..n) /\ (j = n + 1 \/ j \in 1..n)
        OBVIOUS
      <3> QED
        BY <2>1, <2>2, <2>3, <2>4, <3>1, <3>2 DEF Distinct
    <2> QED
      BY <2>5, <2>6 DEF Sides
  <1>8. Leads(H, Append(x.events, e), B)
    <2>1. Turns(e, x.bubbles, B)
      BY <1>5 DEF Turns
    <2> QED
      BY <1>3, <1>5, <1>7, <2>1, PathAppend DEF Core
  <1>9. Append(x.events, e) \in Seq(FutureEvents) /\ Once(Append(x.events, e))
    BY <1>3, <1>4, SnocIs, OnceAppend DEF Core
  <1>10. f \notin Range(H)
    BY <1>1, <1>4, UnqueuedMeans DEF Core
  <1>11. Told(H, C, B) = Told(H, C, x.bubbles)
    BY <1>6, <1>10 DEF Told
  <1>12. Core(H, C, y)
    BY <1>2, <1>6, <1>8, <1>9, <1>11 DEF Core
  <1> QED
    BY <1>1, <1>2, <1>12, <1>13 DEF B, y, f

(* The future f is new in the list B of the widget y, which x became.      *)
Longer(H, C, x, f, y, B) ==
    /\ Core(H, C, y) /\ SameWindow(x, y)
    /\ f \in Futures /\ f \notin Range(x.bubbles) /\ y.bubbles = B
    /\ y.bub = x.bub /\ y.latest = x.latest /\ y.text = x.text /\ y.active = x.active
    /\ y.pos = x.pos /\ y.failed = x.failed

LEMMA NewEndIs ==
    ASSUME FuturesAreUnlimited, NEW H, NEW C, NEW x, Core(H, C, x)
    PROVE  LET f == Fresh(x)
           IN  /\ Longer(H, C, x, f, NewFuture(x, f, "bottom"), Append(x.bubbles, f))
               /\ Longer(H, C, x, f, NewFuture(x, f, "top"), <<f>> \o x.bubbles)
  <1> DEFINE f == Fresh(x)
  <1>1. ASSUME NEW side \in Sides
        PROVE  Longer(H, C, x, f, NewFuture(x, f, side),
                      IF side = "top" THEN <<f>> \o x.bubbles ELSE Append(x.bubbles, f))
    <2> DEFINE y == NewFuture(x, f, side)
    <2>1. /\ Core(H, C, y) /\ SameWindow(x, y)
          /\ f \in Futures /\ f \notin Range(x.bubbles)
          /\ y.bubbles = IF side = "top" THEN <<f>> \o x.bubbles ELSE Append(x.bubbles, f)
          /\ y.bub = x.bub /\ y.latest = x.latest /\ y.text = x.text
          /\ y.pos = x.pos /\ y.failed = x.failed
      BY NewFutureIs, SMTT(30)
    <2>2. y.active = x.active
      BY DEF NewFuture, Enqueue, Asserting, Queued, Core, UiFields
    <2> HIDE DEF y, f
    <2> QED
      BY <2>1, <2>2 DEF Longer, y
  <1>2. "top" \in Sides /\ "bottom" \in Sides /\ "bottom" # "top"
    BY DEF Sides
  <1> HIDE DEF f
  <1>3. Longer(H, C, x, f, NewFuture(x, f, "top"), <<f>> \o x.bubbles)
    BY <1>1, <1>2
  <1>4. Longer(H, C, x, f, NewFuture(x, f, "bottom"), Append(x.bubbles, f))
    BY <1>1, <1>2
  <1> QED
    BY <1>3, <1>4 DEF f

(* A future leaves at one end.                                             *)
Shorter(H, C, x, f, side, y) ==
    /\ Core(H, C, y) /\ SameWindow(x, y)
    /\ y.bubbles = RemoveAt(x.bubbles, EndOf(x.bubbles, side))
    /\ Range(y.bubbles) = Range(x.bubbles) \ {f}
    /\ y.bub = x.bub \ {f} /\ y.latest = x.latest \ {f} /\ y.active = x.active
    /\ y.pos = x.pos /\ y.failed = x.failed

LEMMA LetGoIs ==
    ASSUME NEW H, NEW C, NEW x, Core(H, C, x), x.bubbles # <<>>, NEW side \in Sides,
           NEW f, f = x.bubbles[EndOf(x.bubbles, side)]
    PROVE  Shorter(H, C, x, f, side, LetGo(x, f, side))
  <1> DEFINE k == EndOf(x.bubbles, side)
             u == Unlinked(x, f)
             B == RemoveAt(x.bubbles, k)
             e == [fut |-> f, load |-> FALSE, side |-> side]
  <1>1. /\ x.bubbles \in Seq(Futures) /\ Distinct(x.bubbles) /\ DOMAIN x.bubbles = 1..Len(x.bubbles)
        /\ Range(x.bubbles) \subseteq Futures
    BY CoreTypes
  <1>2. k \in 1..Len(x.bubbles)
    BY <1>1, EndIsPlace
  <1>3. f \in Range(x.bubbles) /\ f \in Futures
    BY <1>1, <1>2 DEF Range
  <1>4. PlaceOf(x, f) = k
    BY <1>1, <1>2 DEF PlaceOf, Distinct
  <1>5. /\ DOMAIN u = UiFields /\ SameWindow(x, u) /\ u.bubbles = B /\ u.events = x.events
        /\ u.text = [x.text EXCEPT ![f] = Nothing]
        /\ u.bub = x.bub \ {f} /\ u.latest = x.latest \ {f} /\ u.active = x.active
        /\ u.pos = x.pos /\ u.failed = x.failed
    BY <1>4 DEF Unlinked, SameWindow, Core, UiFields
  <1> HIDE DEF k
  <1>6. B \in Seq(Futures) /\ Distinct(B) /\ Range(B) = Range(x.bubbles) \ {f}
    <2>1. x.bubbles[k] = f
      BY DEF k
    <2> QED
      <3>1. RemoveAt(x.bubbles, k) \in Seq(Futures)
        BY <1>1, <1>2, RemovedIs
      <3>2. /\ Distinct(RemoveAt(x.bubbles, k))
            /\ Range(RemoveAt(x.bubbles, k)) = Range(x.bubbles) \ {x.bubbles[k]}
        BY <1>1, <1>2, RemovedDistinct
      <3> QED
        BY <2>1, <3>1, <3>2
  <1>7. Without(x.bubbles, f) = B
    <2>1. x.bubbles[k] = f
      BY DEF k
    <2> QED
      BY <1>1, <1>2, <2>1, WithoutIs
  <1>8. u.text = Told(H, C, B)
    BY <1>5, <1>6 DEF Core, Told
  <1>9. u.bub \subseteq Range(B) /\ u.latest \subseteq Range(B)
    BY <1>5, <1>6 DEF Core
  <1>10. Adds(B, f, side, x.bubbles)
    BY DEF Adds, k
  <1> DEFINE y == LetGo(x, f, side)
  <1>11. Queued(x, f) <=> Queued(u, f)
    BY <1>5 DEF Queued
  <1> HIDE DEF u, B
  <1>12. CASE Queued(x, f)
    <2>1. y = EventCancel(u, f)
      BY <1>12 DEF LetGo, u
    <2> DEFINE i == CHOOSE j \in DOMAIN u.events : u.events[j].fut = f
    <2>2. i \in DOMAIN u.events /\ u.events[i].fut = f
      BY <1>11, <1>12 DEF Queued
    <2> HIDE DEF i
    <2>3. i \in 1..Len(x.events) /\ x.events[i].fut = f
      BY <1>5, <2>2, LenProperties DEF Core
    <2>4. x.events[i].load
      <3>1. ~x.events[i].load => x.events[i].fut \notin Range(x.bubbles)
        BY <2>3, QueuedMeans DEF Core
      <3> QED
        BY <1>3, <2>3, <3>1
    <2>5. /\ DOMAIN y = UiFields /\ SameWindow(u, y) /\ y.bubbles = B
          /\ y.events = RemoveAt(x.events, i)
          /\ y.text = u.text /\ y.bub = u.bub /\ y.latest = u.latest /\ y.active = u.active
          /\ y.pos = u.pos /\ y.failed = u.failed
      BY <1>5, <2>1 DEF EventCancel, SameWindow, UiFields, i
    <2>6. \A j \in 1..Len(x.events) : x.events[j].fut = x.events[i].fut => j = i
      BY <2>3, LenProperties DEF Core, Once
    <2>7. Leads(H, RemoveAt(x.events, i), Without(x.bubbles, x.events[i].fut))
      BY <2>3, <2>4, <2>6, PathCancel DEF Core
    <2>8. Leads(H, y.events, y.bubbles)
      BY <1>7, <2>3, <2>5, <2>7
    <2>9. y.events \in Seq(FutureEvents) /\ Once(y.events)
      BY <2>3, <2>5, RemovedIs, OnceRemove DEF Core
    <2>10. Core(H, C, y)
      BY <1>8, <1>9, <2>5, <2>8, <2>9 DEF Core
    <2>11. SameWindow(x, y)
      BY <1>5, <2>5 DEF SameWindow
    <2> QED
      BY <1>5, <1>6, <2>5, <2>10, <2>11 DEF B, k, Shorter
  <1>13. CASE ~Queued(x, f)
    <2>1. y = Enqueue(u, f, FALSE, side)
      BY <1>13 DEF LetGo, u
    <2>2. /\ DOMAIN y = UiFields /\ SameWindow(u, y) /\ y.bubbles = B
          /\ y.events = Append(x.events, e)
          /\ y.text = u.text /\ y.bub = u.bub /\ y.latest = u.latest /\ y.active = u.active
          /\ y.pos = u.pos /\ y.failed = u.failed
      BY <1>5, <1>11, <1>13, <2>1 DEF Enqueue, Asserting, SameWindow, UiFields
    <2>3. e \in FutureEvents
      BY <1>3 DEF FutureEvents
    <2>4. \A j \in 1..Len(x.events) : x.events[j].fut # e.fut
      BY <1>13, NotQueued DEF Core
    <2>5. Turns(e, x.bubbles, B)
      BY <1>10 DEF Turns
    <2>6. Leads(H, Append(x.events, e), B)
      BY <1>6, <2>3, <2>5, PathAppend DEF Core
    <2>7. y.events \in Seq(FutureEvents) /\ Once(y.events)
      BY <2>2, <2>3, <2>4, SnocIs, OnceAppend, SMTT(30) DEF Core
    <2>8. Core(H, C, y)
      BY <1>8, <1>9, <2>2, <2>6, <2>7 DEF Core
    <2>9. SameWindow(x, y)
      BY <1>5, <2>2 DEF SameWindow
    <2> QED
      BY <1>5, <1>6, <2>2, <2>8, <2>9 DEF B, k, Shorter
  <1> QED
    BY <1>12, <1>13

(* The latest text is at the end of the list, or above one bubble that     *)
(* waits: only one in F may have a text already.                           *)
LatestBut(H, x, F) ==
    LET n == Len(x.bubbles)
    IN  /\ \A f, g \in x.latest : f = g
        /\ \A k \in 1..n : x.bubbles[k] \in x.latest =>
              /\ k >= n - 1
              /\ k < n => /\ x.bubbles[n] \notin x.bub /\ x.bubbles[k] \in Range(H)
                          /\ x.text[x.bubbles[n]] = Nothing \/ x.bubbles[n] \in F

(* In the conversation that is open the texts have their bubbles, only the *)
(* future at an end may be without one, and so be the latest if it is      *)
(* alone: only one in F may have a text but no bubble yet.                 *)
DrawnBut(x, F) ==
    LET n == Len(x.bubbles)
    IN  /\ x.failed \subseteq {"top"}
        /\ x.active =>
              /\ \A f \in Range(x.bubbles) : x.text[f] # Nothing => f \in x.bub \union F
              /\ \A k \in 1..n : x.bubbles[k] \notin x.bub => k = 1 \/ k = n
              /\ n # 0 /\ x.bubbles[n] \notin x.bub => (x.bubbles[n] \in x.latest <=> n = 1)

Scrolled(x) == x.active => x.pos \in Nat /\ x.pos <= Height(x)

Shape(H, C, x) == Core(H, C, x) /\ LatestBut(H, x, {}) /\ DrawnBut(x, {})

Widget(H, C, x) == Shape(H, C, x) /\ Scrolled(x)

(* The rows of the bubble area are finitely many.                          *)
LEMMA RowsAre ==
    ASSUME NEW H, NEW C, NEW x, Core(H, C, x)
    PROVE  /\ IsFiniteSet(Rows(x)) /\ Height(x) \in Nat
           /\ Rows(x) = {f \in x.bub : x.text[f] # Nothing}
  <1>1. PICK n \in Nat : n = Len(x.bubbles) /\ DOMAIN x.bubbles = 1..n /\ x.bubbles \in Seq(Futures)
    BY CoreTypes
  <1>2. x.bubbles \in Surjection(1..n, Range(x.bubbles))
    BY <1>1 DEF Surjection, Range
  <1>3. IsFiniteSet(1..n)
    BY FS_Interval
  <1>4. IsFiniteSet(Range(x.bubbles))
    BY <1>2, <1>3, FS_Surjection
  <1>5. Rows(x) \in SUBSET Range(x.bubbles)
    BY DEF Rows
  <1>6. IsFiniteSet(Rows(x))
    BY <1>4, <1>5, FS_Subset
  <1>7. Height(x) \in Nat
    BY <1>6, FS_CardinalityType DEF Height
  <1> QED
    BY <1>6, <1>7 DEF Rows, Core

(* A bubble may go when there are two rows: one is another one than f.     *)
MayGo(x) == x.active => Height(x) >= 2

LEMMA AnotherRow ==
    ASSUME NEW H, NEW C, NEW x, Core(H, C, x), Height(x) >= 2
    PROVE  \E g, h \in Rows(x) : g # h
  <1>1. IsFiniteSet(Rows(x)) /\ Height(x) \in Nat
    BY RowsAre
  <1>2. PICK h \in Rows(x) : TRUE
    <2>1. Cardinality({}) = 0
      BY FS_EmptySet
    <2> QED
      BY <1>1, <2>1 DEF Height
  <1> SUFFICES ASSUME Rows(x) = {h}
               PROVE  FALSE
    BY <1>2
  <1>3. Cardinality({h}) = 1
    BY FS_Singleton
  <1> QED
    BY <1>3 DEF Height

(* Scrolled to the end, the area is no further than its height.            *)
LEMMA LastPosIs ==
    ASSUME NEW H, NEW C, NEW x, Core(H, C, x)
    PROVE  LastPos(x) \in Nat /\ LastPos(x) <= Height(x)
  <1>1. Height(x) \in Nat /\ Height(x) - Viewport \in Int /\ Viewport \in Nat
    BY RowsAre, TexterAssumption
  <1>2. LastPos(x) = IF 0 >= Height(x) - Viewport THEN 0 ELSE Height(x) - Viewport
    BY <1>1, MaxOfTwo DEF LastPos
  <1> QED
    BY <1>1, <1>2

LEMMA EndBubbles ==
    ASSUME NEW H, NEW C, NEW x, Core(H, C, x), x.bubbles # <<>>
    PROVE  /\ Len(x.bubbles) \in Nat \ {0}
           /\ Head(x.bubbles) = x.bubbles[1] /\ Last(x.bubbles) = x.bubbles[Len(x.bubbles)]
           /\ Head(x.bubbles) = x.bubbles[EndOf(x.bubbles, "top")]
           /\ Last(x.bubbles) = x.bubbles[EndOf(x.bubbles, "bottom")]
           /\ Head(x.bubbles) \in Range(x.bubbles) /\ Last(x.bubbles) \in Range(x.bubbles)
  <1>1. Len(x.bubbles) \in Nat \ {0} /\ Head(x.bubbles) = x.bubbles[1] /\ x.bubbles \in Seq(Futures)
    BY CoreTypes, TailIs
  <1>2. Last(x.bubbles) = x.bubbles[Len(x.bubbles)]
    BY DEF Last
  <1>3. DOMAIN x.bubbles = 1..Len(x.bubbles)
    BY CoreTypes
  <1> QED
    BY <1>1, <1>2, <1>3 DEF EndOf, Range

(* A bubble is added at the bottom, below one with a text.                 *)
LEMMA WidgetNewBottom ==
    ASSUME FuturesAreUnlimited, NEW H, NEW C, NEW x, Widget(H, C, x), x.bubbles # <<>>,
           x.text[Last(x.bubbles)] # Nothing
    PROVE  Widget(H, C, NewFuture(x, Fresh(x), "bottom"))
  <1> DEFINE f == Fresh(x)
             y == NewFuture(x, f, "bottom")
  <1>1. Core(H, C, x)
    BY DEF Widget, Shape
  <1>2. /\ Core(H, C, y) /\ f \in Futures /\ f \notin Range(x.bubbles)
        /\ y.bubbles = Append(x.bubbles, f)
        /\ y.bub = x.bub /\ y.latest = x.latest /\ y.text = x.text
        /\ y.active = x.active /\ y.pos = x.pos /\ y.failed = x.failed
    <2> HIDE DEF f
    <2>1. Longer(H, C, x, f, y, Append(x.bubbles, f))
      BY <1>1, NewEndIs DEF f
    <2> HIDE DEF y
    <2> QED
      BY <2>1 DEF Longer
  <1> HIDE DEF y, f
  <1>3. PICK n \in Nat : n = Len(x.bubbles) /\ n # 0
    BY <1>1, EndBubbles
  <1>4. /\ Len(y.bubbles) = n + 1
        /\ \A i \in 1..n + 1 : y.bubbles[i] = IF i = n + 1 THEN f ELSE x.bubbles[i]
    BY <1>1, <1>2, <1>3, CoreTypes, SnocIs
  <1>5. x.bubbles[n] \in Range(H) /\ x.bubbles[n] = Last(x.bubbles)
    <2>1. x.bubbles[n] = Last(x.bubbles) /\ Last(x.bubbles) \in Futures
      BY <1>1, <1>3, EndBubbles, CoreTypes
    <2>2. x.text[Last(x.bubbles)] = IF Last(x.bubbles) \in Range(x.bubbles) /\ Last(x.bubbles) \in Range(H)
                                    THEN C[Last(x.bubbles)] ELSE Nothing
      BY <1>1, <2>1 DEF Core, Told
    <2> QED
      BY <2>1, <2>2
  <1>6. f \notin x.bub /\ f \notin x.latest /\ x.text[f] = Nothing
    BY <1>1, <1>2 DEF Core, Told
  <1>7. \A k \in 1..n : x.bubbles[k] \in x.latest => k = n
    <2> SUFFICES ASSUME NEW k \in 1..n, x.bubbles[k] \in x.latest, k # n
                 PROVE  FALSE
      OBVIOUS
    <2>1. x.text[x.bubbles[n]] = Nothing
      BY <1>3 DEF Widget, Shape, LatestBut
    <2> QED
      BY <1>5, <2>1
  <1>8. LatestBut(H, y, {})
    <2>1. \A g, h \in y.latest : g = h
      BY <1>2 DEF Widget, Shape, LatestBut
    <2>2. ASSUME NEW k \in 1..n + 1, y.bubbles[k] \in y.latest
          PROVE  k = n /\ y.bubbles[n + 1] = f /\ y.bubbles[k] \in Range(H)
      <3>1. k # n + 1
        BY <1>2, <1>4, <1>6, <2>2
      <3>2. k \in 1..n /\ y.bubbles[k] = x.bubbles[k] /\ n + 1 \in 1..n + 1
        BY <1>3, <1>4, <3>1
      <3>3. k = n
        BY <1>2, <1>7, <2>2, <3>2
      <3> QED
        BY <1>4, <1>5, <3>2, <3>3
    <2> QED
      BY <1>2, <1>4, <1>6, <2>1, <2>2 DEF LatestBut
  <1>9. x.active => x.bubbles[n] \in x.bub
    <2>1. x.bubbles[n] \in Range(x.bubbles)
      BY <1>1, <1>3, <1>5, EndBubbles
    <2> QED
      BY <1>5, <2>1 DEF Widget, Shape, DrawnBut
  <1>10. DrawnBut(y, {})
    <2>1. y.failed \subseteq {"top"}
      BY <1>2 DEF Widget, Shape, DrawnBut
    <2>2. ASSUME x.active, NEW g \in Range(y.bubbles), y.text[g] # Nothing
          PROVE  g \in y.bub
      <3>1. g \in Futures
        BY <1>2, CoreTypes
      <3>2. g \in Range(x.bubbles)
        BY <1>1, <1>2, <2>2, <3>1 DEF Core, Told
      <3> QED
        BY <1>2, <2>2, <3>2 DEF Widget, Shape, DrawnBut
    <2>3. ASSUME x.active, NEW k \in 1..n + 1, y.bubbles[k] \notin y.bub
          PROVE  k = 1 \/ k = n + 1
      <3>1. CASE k # n + 1
        <4>1. k \in 1..n /\ y.bubbles[k] = x.bubbles[k]
          BY <1>3, <1>4, <3>1
        <4>2. k = 1 \/ k = n
          BY <1>2, <1>3, <2>3, <4>1 DEF Widget, Shape, DrawnBut
        <4> QED
          BY <1>2, <1>9, <2>3, <4>1, <4>2
      <3> QED
        BY <3>1
    <2>4. y.bubbles[n + 1] \notin y.latest /\ n + 1 # 1
      BY <1>2, <1>3, <1>4, <1>6
    <2> QED
      BY <1>2, <1>3, <1>4, <2>1, <2>2, <2>3, <2>4 DEF DrawnBut
  <1>11. Scrolled(y)
    <2>1. Rows(y) = Rows(x)
      BY <1>1, <1>2, RowsAre
    <2> QED
      BY <1>2, <2>1 DEF Widget, Scrolled, Height
  <1> QED
    BY <1>2, <1>8, <1>10, <1>11 DEF Widget, Shape, y, f

LEMMA WidgetNewTop ==
    ASSUME FuturesAreUnlimited, NEW H, NEW C, NEW x, Widget(H, C, x), x.bubbles # <<>>,
           x.text[Head(x.bubbles)] # Nothing
    PROVE  Widget(H, C, NewFuture(x, Fresh(x), "top"))
  <1> DEFINE f == Fresh(x)
             y == NewFuture(x, f, "top")
  <1>1. Core(H, C, x)
    BY DEF Widget, Shape
  <1>2. /\ Core(H, C, y) /\ f \in Futures /\ f \notin Range(x.bubbles)
        /\ y.bubbles = <<f>> \o x.bubbles
        /\ y.bub = x.bub /\ y.latest = x.latest /\ y.text = x.text
        /\ y.active = x.active /\ y.pos = x.pos /\ y.failed = x.failed
    <2> HIDE DEF f
    <2>1. Longer(H, C, x, f, y, <<f>> \o x.bubbles)
      BY <1>1, NewEndIs DEF f
    <2> HIDE DEF y
    <2> QED
      BY <2>1 DEF Longer
  <1> HIDE DEF y, f
  <1>3. PICK n \in Nat : n = Len(x.bubbles) /\ n # 0
    BY <1>1, EndBubbles
  <1>4. /\ Len(y.bubbles) = n + 1
        /\ \A i \in 1..n + 1 : y.bubbles[i] = IF i = 1 THEN f ELSE x.bubbles[i - 1]
    BY <1>1, <1>2, <1>3, CoreTypes, ConsIs
  <1>5. f \notin x.latest
    BY <1>1, <1>2 DEF Core
  <1>6. LatestBut(H, y, {})
    <2>1. \A g, h \in y.latest : g = h
      BY <1>2 DEF Widget, Shape, LatestBut
    <2>2. ASSUME NEW k \in 1..n + 1, y.bubbles[k] \in y.latest
          PROVE  /\ k >= n
                 /\ k < n + 1 => /\ y.bubbles[n + 1] \notin y.bub /\ y.bubbles[k] \in Range(H)
                                 /\ y.text[y.bubbles[n + 1]] = Nothing
      <3>1. k # 1
        BY <1>2, <1>4, <1>5, <2>2
      <3>2. PICK j \in 1..n : j = k - 1
        BY <3>1
      <3>3. y.bubbles[k] = x.bubbles[j] /\ y.bubbles[n + 1] = x.bubbles[n]
        <4>1. n + 1 \in 1..n + 1 /\ n + 1 # 1 /\ n + 1 - 1 = n
          BY <1>3, <3>2
        <4> QED
          BY <1>4, <3>1, <3>2, <4>1
      <3>4. j >= n - 1
        BY <1>2, <1>3, <2>2, <3>3 DEF Widget, Shape, LatestBut
      <3>5. j < n => /\ x.bubbles[n] \notin x.bub /\ x.bubbles[j] \in Range(H)
                     /\ x.text[x.bubbles[n]] = Nothing
        BY <1>2, <1>3, <2>2, <3>3 DEF Widget, Shape, LatestBut
      <3> QED
        BY <1>2, <1>3, <3>2, <3>3, <3>4, <3>5
    <2> QED
      BY <1>3, <1>4, <2>1, <2>2 DEF LatestBut
  <1>7. x.active => x.bubbles[1] \in x.bub
    <2>1. x.bubbles[1] \in Range(x.bubbles) /\ x.bubbles[1] = Head(x.bubbles)
      BY <1>1, <1>3, EndBubbles
    <2> QED
      BY <2>1 DEF Widget, Shape, DrawnBut
  <1>8. DrawnBut(y, {})
    <2>1. y.failed \subseteq {"top"}
      BY <1>2 DEF Widget, Shape, DrawnBut
    <2>2. ASSUME x.active, NEW g \in Range(y.bubbles), y.text[g] # Nothing
          PROVE  g \in y.bub
      <3>1. g \in Futures
        BY <1>2, CoreTypes
      <3>2. g \in Range(x.bubbles)
        BY <1>1, <1>2, <2>2, <3>1 DEF Core, Told
      <3> QED
        BY <1>2, <2>2, <3>2 DEF Widget, Shape, DrawnBut
    <2>3. ASSUME x.active, NEW k \in 1..n + 1, y.bubbles[k] \notin y.bub
          PROVE  k = 1 \/ k = n + 1
      <3>1. CASE k # 1
        <4>1. PICK j \in 1..n : j = k - 1 /\ y.bubbles[k] = x.bubbles[j]
          BY <1>3, <1>4, <3>1
        <4>2. j = 1 \/ j = n
          BY <1>2, <1>3, <2>3, <4>1 DEF Widget, Shape, DrawnBut
        <4>3. j # 1
          BY <1>2, <1>7, <2>3, <4>1
        <4> QED
          BY <1>3, <4>1, <4>2, <4>3
      <3> QED
        BY <3>1
    <2>4. ASSUME x.active, y.bubbles[n + 1] \notin y.bub
          PROVE  y.bubbles[n + 1] \notin y.latest /\ n + 1 # 1
      <3>1. y.bubbles[n + 1] = x.bubbles[n]
        <4>1. n + 1 \in 1..n + 1 /\ n + 1 # 1 /\ n + 1 - 1 = n
          BY <1>3
        <4> QED
          BY <1>4, <4>1
      <3>2. n # 1
        BY <1>2, <1>7, <2>4, <3>1
      <3> QED
        BY <1>2, <1>3, <2>4, <3>1, <3>2 DEF Widget, Shape, DrawnBut
    <2> QED
      BY <1>2, <1>3, <1>4, <2>1, <2>2, <2>3, <2>4 DEF DrawnBut
  <1>9. Scrolled(y)
    <2>1. Rows(y) = Rows(x)
      BY <1>1, <1>2, RowsAre
    <2> QED
      BY <1>2, <2>1 DEF Widget, Scrolled, Height
  <1> QED
    BY <1>2, <1>6, <1>8, <1>9 DEF Widget, Shape, y, f

(* A bubble at an end goes, with an event or with the LOAD that was still  *)
(* queued.                                                                 *)
LEMMA ShapeLetGo ==
    ASSUME NEW H, NEW C, NEW x, Shape(H, C, x), x.bubbles # <<>>, NEW side \in Sides,
           NEW f, f = x.bubbles[EndOf(x.bubbles, side)], MayGo(x)
    PROVE  LET y == LetGo(x, f, side)
           IN  /\ Shape(H, C, y) /\ SameWindow(x, y) /\ y.active = x.active /\ y.pos = x.pos
               /\ Height(y) <= Height(x) /\ Height(x) <= Height(y) + 1
  <1> DEFINE y == LetGo(x, f, side)
             e == EndOf(x.bubbles, side)
  <1>1. Core(H, C, x)
    BY DEF Shape
  <1>2. /\ Core(H, C, y) /\ y.bubbles = RemoveAt(x.bubbles, e)
        /\ Range(y.bubbles) = Range(x.bubbles) \ {f}
        /\ y.bub = x.bub \ {f} /\ y.latest = x.latest \ {f}
        /\ y.active = x.active /\ y.pos = x.pos /\ y.failed = x.failed /\ SameWindow(x, y)
    <2>1. Shorter(H, C, x, f, side, y)
      BY <1>1, LetGoIs
    <2> HIDE DEF y
    <2> QED
      BY <2>1 DEF Shorter
  <1>3. e \in 1..Len(x.bubbles) /\ (e = 1 \/ e = Len(x.bubbles))
    BY <1>1, CoreTypes, EndIsPlace DEF EndOf
  <1> HIDE DEF y, e
  <1>4. PICK n \in Nat : n = Len(x.bubbles) /\ n >= 1
    <2>1. Len(x.bubbles) \in Nat /\ Len(x.bubbles) # 0
      BY <1>1, EndBubbles
    <2>2. Len(x.bubbles) >= 1
      BY <2>1
    <2> QED
      BY <2>1, <2>2
  <1>13. n >= 1
    BY <1>4
  <1>14. e \in 1..n /\ (e = 1 \/ e = n)
    BY <1>3, <1>4
  <1>5. /\ Len(y.bubbles) = n - 1
        /\ \A i \in 1..n - 1 : y.bubbles[i] = IF i < e THEN x.bubbles[i] ELSE x.bubbles[i + 1]
    <2>1. x.bubbles \in Seq(Futures)
      BY <1>1, CoreTypes
    <2>2. /\ Len(RemoveAt(x.bubbles, e)) = Len(x.bubbles) - 1
          /\ \A i \in 1..Len(x.bubbles) - 1 :
                RemoveAt(x.bubbles, e)[i] = IF i < e THEN x.bubbles[i] ELSE x.bubbles[i + 1]
      BY <1>3, <2>1, RemovedIs
    <2>3. y.bubbles = RemoveAt(x.bubbles, e) /\ Len(x.bubbles) = n
      BY <1>2, <1>4
    <2> QED
      BY <2>2, <2>3
  <1>6. \A g \in Futures : g # f => y.text[g] = x.text[g]
    BY <1>1, <1>2 DEF Core, Told
  <1>7. LatestBut(H, y, {})
    <2>1. \A g, h \in y.latest : g = h
      BY <1>2 DEF Shape, LatestBut
    <2>2. ASSUME NEW k \in 1..n - 1, y.bubbles[k] \in y.latest
          PROVE  /\ k >= n - 2
                 /\ k < n - 1 => /\ y.bubbles[n - 1] \notin y.bub /\ y.bubbles[k] \in Range(H)
                                 /\ y.text[y.bubbles[n - 1]] = Nothing
      <3>1. CASE e = n
        <4>1. y.bubbles[k] = x.bubbles[k] /\ k \in 1..n
          BY <1>4, <1>5, <3>1
        <4>2. k >= n - 1
          BY <1>2, <1>4, <2>2, <4>1 DEF Shape, LatestBut
        <4> QED
          BY <1>4, <4>2
      <3>2. CASE e = 1 /\ n > 1
        <4>1. PICK j \in 1..n : j = k + 1
          BY <1>4
        <4>2. y.bubbles[k] = x.bubbles[j] /\ y.bubbles[n - 1] = x.bubbles[n]
          <5>1. n - 1 \in 1..n - 1 /\ ~(n - 1 < e) /\ ~(k < e) /\ n - 1 + 1 = n
            BY <1>4, <3>2
          <5> QED
            BY <1>5, <4>1, <5>1
        <4>3. x.bubbles[j] \in x.latest
          BY <1>2, <2>2, <4>2
        <4>4. j >= n - 1
          BY <1>4, <4>3 DEF Shape, LatestBut
        <4>5. j < n => /\ x.bubbles[n] \notin x.bub /\ x.bubbles[j] \in Range(H)
                       /\ x.text[x.bubbles[n]] = Nothing
          BY <1>4, <4>3 DEF Shape, LatestBut
        <4>6. x.bubbles[n] # f /\ x.bubbles[n] \in Futures
          <5>1. x.bubbles[1] = f
            BY <3>2 DEF e
          <5>2. 1 \in DOMAIN x.bubbles /\ n \in DOMAIN x.bubbles /\ n # 1
            BY <1>1, <1>4, <3>2, CoreTypes
          <5> QED
            BY <1>1, <5>1, <5>2, CoreTypes DEF Distinct, Range
        <4> QED
          BY <1>2, <1>4, <1>6, <4>1, <4>2, <4>4, <4>5, <4>6
      <3> QED
        BY <1>3, <1>4, <3>1, <3>2
    <2> QED
      BY <1>4, <1>5, <2>1, <2>2 DEF LatestBut
  <1>8. /\ f = x.bubbles[e] /\ Range(x.bubbles) \subseteq Futures /\ x.bubbles \in Seq(Futures)
        /\ Range(y.bubbles) \subseteq Futures
        /\ \A i \in 1..n - 1 : y.bubbles[i] \in Range(y.bubbles)
    <2>1. DOMAIN y.bubbles = 1..n - 1 /\ Range(y.bubbles) \subseteq Futures
      BY <1>2, <1>5, CoreTypes
    <2> QED
      BY <1>1, <2>1, CoreTypes DEF e, Range
  <1>9. Rows(y) = Rows(x) \ {f}
    <2>1. Core(H, C, y) /\ y.bub = x.bub \ {f} /\ y.bub \subseteq Futures
      BY <1>2, <1>8 DEF Core
    <2>2. Rows(y) = {g \in y.bub : y.text[g] # Nothing}
      BY <2>1, RowsAre
    <2>3. Rows(x) = {g \in x.bub : x.text[g] # Nothing}
      BY <1>1, RowsAre
    <2> QED
      BY <1>6, <2>1, <2>2, <2>3
  <1>10. Height(y) <= Height(x) /\ Height(x) <= Height(y) + 1
    <2>1. Height(y) = IF f \in Rows(x) THEN Height(x) - 1 ELSE Height(x)
      <3>1. IsFiniteSet(Rows(x))
        BY <1>1, RowsAre
      <3>2. Cardinality(Rows(x) \ {f}) = IF f \in Rows(x) THEN Cardinality(Rows(x)) - 1
                                                          ELSE Cardinality(Rows(x))
        BY <3>1, FS_RemoveElement
      <3> QED
        BY <1>9, <3>2 DEF Height
    <2>2. Height(x) \in Nat
      BY <1>1, RowsAre
    <2> QED
      BY <2>1, <2>2
  <1>11. ASSUME x.active, NEW k \in 1..n, x.bubbles[k] \notin x.bub, x.bubbles[k] # f
         PROVE  n # 2
    <2>6. Height(x) >= 2
      BY <1>11 DEF MayGo
    <2>1. PICK g \in Rows(x) : g # f
      BY <1>1, <2>6, AnotherRow
    <2>2. g \in x.bub /\ g \in Range(x.bubbles)
      BY DEF Rows
    <2>3. PICK j \in 1..n : x.bubbles[j] = g
      BY <1>1, <1>4, <2>2, CoreTypes DEF Range
    <2>4. j # k /\ j # e /\ k # e
      BY <1>8, <1>11, <2>1, <2>2, <2>3
    <2>5. \A a, b, c \in 1..n : a # b /\ b # c /\ a # c => n # 2
      OBVIOUS
    <2> QED
      BY <1>14, <2>4, <2>5
  <1>12. DrawnBut(y, {})
    <2>1. y.failed \subseteq {"top"}
      BY <1>2 DEF Shape, DrawnBut
    <2>2. ASSUME x.active, NEW g \in Range(y.bubbles), y.text[g] # Nothing
          PROVE  g \in y.bub
      <3>1. g \in Range(x.bubbles) /\ g # f /\ x.text[g] # Nothing
        BY <1>2, <1>6, <1>8, <2>2
      <3> QED
        BY <1>2, <2>2, <3>1 DEF Shape, DrawnBut
    <2>3. ASSUME x.active, NEW k \in 1..n - 1, y.bubbles[k] \notin y.bub
          PROVE  /\ k = 1 \/ k = n - 1
                 /\ k = n - 1 => y.bubbles[k] \notin y.latest /\ k # 1
      <3>1. y.bubbles[k] \in Range(x.bubbles) /\ y.bubbles[k] # f
        BY <1>2, <1>8
      <3>2. PICK j \in 1..n : j = (IF k < e THEN k ELSE k + 1) /\ y.bubbles[k] = x.bubbles[j]
        BY <1>3, <1>4, <1>5
      <3>3. x.bubbles[j] \notin x.bub /\ x.bubbles[j] # f
        BY <1>2, <2>3, <3>1, <3>2
      <3>4. n # 2
        BY <1>11, <2>3, <3>3
      <3>5. j = 1 \/ j = n
        BY <1>4, <2>3, <3>3 DEF Shape, DrawnBut
      <3>6. CASE e = n
        <4>1. j = k /\ k # n
          BY <1>13, <3>2, <3>6
        <4> QED
          BY <1>13, <3>4, <3>5, <4>1
      <3>7. CASE e = 1
        <4>1. j = k + 1 /\ n # 1
          BY <1>13, <3>2, <3>7
        <4>2. j = n
          BY <3>5, <4>1
        <4>3. x.bubbles[n] \notin x.latest
          BY <1>4, <2>3, <3>3, <4>1, <4>2 DEF Shape, DrawnBut
        <4>4. k = n - 1 /\ k # 1
          BY <1>13, <3>4, <4>1, <4>2
        <4> QED
          BY <1>2, <3>2, <4>2, <4>3, <4>4
      <3> QED
        BY <1>14, <3>6, <3>7
    <2>4. n - 1 = 0 \/ n - 1 \in 1..n - 1
      BY <1>13
    <2> QED
      BY <1>2, <1>4, <1>5, <2>1, <2>2, <2>3, <2>4 DEF DrawnBut
  <1> QED
    BY <1>2, <1>7, <1>10, <1>12 DEF Shape, y

(* The widget x has come from x0 in handlers that leave the window alone.  *)
Goes(H, C, x0, x) == Widget(H, C, x) /\ SameWindow(x0, x) /\ x.active = x0.active

(* Two states of the widget that differ in how far they are scrolled.      *)
Alike(x, y) ==
    /\ DOMAIN y = UiFields /\ SameWindow(x, y)
    /\ y.bubbles = x.bubbles /\ y.events = x.events /\ y.text = x.text
    /\ y.bub = x.bub /\ y.latest = x.latest /\ y.active = x.active /\ y.failed = x.failed

(* How far it is scrolled does not matter for the rest.                    *)
LEMMA ShapeAlike ==
    ASSUME NEW H, NEW C, NEW x, Shape(H, C, x), NEW y, Alike(x, y)
    PROVE  Shape(H, C, y) /\ Height(y) = Height(x)
  <1>1. Core(H, C, y)
    BY DEF Shape, Core, Alike
  <1>2. LatestBut(H, y, {})
    BY DEF Shape, LatestBut, Alike
  <1>3. DrawnBut(y, {})
    BY DEF Shape, DrawnBut, Alike
  <1>4. Rows(y) = Rows(x)
    BY DEF Rows, Alike
  <1> QED
    BY <1>1, <1>2, <1>3, <1>4 DEF Shape, Height

LEMMA GoesLetGo ==
    ASSUME NEW H, NEW C, NEW x0, NEW x, Goes(H, C, x0, x), x.bubbles # <<>>, NEW side \in Sides,
           NEW f, f = x.bubbles[EndOf(x.bubbles, side)],
           x.active => Height(x) >= 2 /\ x.pos < Height(x)
    PROVE  Goes(H, C, x0, LetGo(x, f, side))
  <1> DEFINE y == LetGo(x, f, side)
  <1>1. Shape(H, C, x) /\ Core(H, C, x) /\ Scrolled(x) /\ MayGo(x)
    BY DEF Goes, Widget, Shape, MayGo
  <1>2. /\ Shape(H, C, y) /\ SameWindow(x, y) /\ y.active = x.active /\ y.pos = x.pos
        /\ Height(y) <= Height(x) /\ Height(x) <= Height(y) + 1
    BY <1>1, ShapeLetGo, SMTT(30)
  <1> HIDE DEF y
  <1>3. Height(x) \in Nat /\ Height(y) \in Nat
    BY <1>1, <1>2, RowsAre DEF Shape
  <1>4. ASSUME y.active
        PROVE  y.pos \in Nat /\ y.pos <= Height(y)
    <2>1. x.active
      BY <1>2, <1>4
    <2>2. x.pos \in Nat /\ x.pos < Height(x)
      BY <1>1, <2>1 DEF Scrolled
    <2> QED
      BY <1>2, <1>3, <2>2
  <1> QED
    BY <1>2, <1>4 DEF Goes, SameWindow, Widget, Scrolled, y

(* ShedBottom() is ShedLast() again and again.                             *)
LEMMA ShedBottomRuns ==
    ASSUME NEW x, Len(x.bubbles) \in Nat
    PROVE  LET N == Len(x.bubbles)
           IN  \E g : /\ g[0] = x /\ \A n \in 1..N : g[n] = ShedLast(g[n - 1])
                      /\ ShedBottom(x) = g[N]
  <1> DEFINE N == Len(x.bubbles)
             Follows(k, g) == g = [n \in 0..k |-> IF n = 0 THEN x ELSE ShedLast(g[n - 1])]
             S == {k \in 0..N : \E g : Follows(k, g)}
  <1>1. 0 \in S
    <2>1. Follows(0, [n \in 0..0 |-> x])
      OBVIOUS
    <2>2. \E g : Follows(0, g)
      <3> HIDE DEF Follows
      <3> QED
        BY <2>1
    <2> QED
      BY <2>2
  <1>2. \A k \in 1..N : k - 1 \in S => k \in S
    <2> SUFFICES ASSUME NEW k \in 1..N, k - 1 \in S
                 PROVE  k \in S
      OBVIOUS
    <2>1. PICK g : Follows(k - 1, g)
      OBVIOUS
    <2> DEFINE h == [n \in 0..k |-> IF n = k THEN ShedLast(g[k - 1]) ELSE g[n]]
    <2>2. \A n \in 0..k : h[n] = IF n = 0 THEN x ELSE ShedLast(h[n - 1])
      <3> SUFFICES ASSUME NEW n \in 0..k
                   PROVE  h[n] = IF n = 0 THEN x ELSE ShedLast(h[n - 1])
        OBVIOUS
      <3>1. CASE n = k
        BY <3>1
      <3>2. CASE n # k
        <4>1. n \in 0..k - 1 /\ h[n] = g[n] /\ (n # 0 => h[n - 1] = g[n - 1])
          BY <3>2
        <4>2. g[n] = IF n = 0 THEN x ELSE ShedLast(g[n - 1])
          BY <2>1, <4>1
        <4> QED
          BY <4>1, <4>2
      <3> QED
        BY <3>1, <3>2
    <2>3. Follows(k, h)
      BY <2>2
    <2>4. \E f : Follows(k, f)
      <3> HIDE DEF Follows, h
      <3> QED
        BY <2>3
    <2> QED
      BY <2>4
  <1>3. N \in S
    <2> HIDE DEF S
    <2>1. 0..N \subseteq S
      BY <1>1, <1>2, AllUpTo
    <2> QED
      BY <2>1
  <1> DEFINE g == CHOOSE g : Follows(N, g)
  <1>4. Follows(N, g)
    BY <1>3
  <1>5. ShedBottom(x) = g[N]
    BY DEF ShedBottom
  <1> HIDE DEF g
  <1>6. g[0] = x /\ \A n \in 1..N : g[n] = ShedLast(g[n - 1])
    BY <1>4
  <1> QED
    BY <1>5, <1>6

(* ShedTop() is ShedFirst() again and again.                               *)
LEMMA ShedTopRuns ==
    ASSUME NEW x, Len(x.bubbles) \in Nat
    PROVE  LET N == Len(x.bubbles)
           IN  \E g : /\ g[0] = x /\ \A n \in 1..N : g[n] = ShedFirst(g[n - 1])
                      /\ ShedTop(x) = g[N]
  <1> DEFINE N == Len(x.bubbles)
             Follows(k, g) == g = [n \in 0..k |-> IF n = 0 THEN x ELSE ShedFirst(g[n - 1])]
             S == {k \in 0..N : \E g : Follows(k, g)}
  <1>1. 0 \in S
    <2>1. Follows(0, [n \in 0..0 |-> x])
      OBVIOUS
    <2>2. \E g : Follows(0, g)
      <3> HIDE DEF Follows
      <3> QED
        BY <2>1
    <2> QED
      BY <2>2
  <1>2. \A k \in 1..N : k - 1 \in S => k \in S
    <2> SUFFICES ASSUME NEW k \in 1..N, k - 1 \in S
                 PROVE  k \in S
      OBVIOUS
    <2>1. PICK g : Follows(k - 1, g)
      OBVIOUS
    <2> DEFINE h == [n \in 0..k |-> IF n = k THEN ShedFirst(g[k - 1]) ELSE g[n]]
    <2>2. \A n \in 0..k : h[n] = IF n = 0 THEN x ELSE ShedFirst(h[n - 1])
      <3> SUFFICES ASSUME NEW n \in 0..k
                   PROVE  h[n] = IF n = 0 THEN x ELSE ShedFirst(h[n - 1])
        OBVIOUS
      <3>1. CASE n = k
        BY <3>1
      <3>2. CASE n # k
        <4>1. n \in 0..k - 1 /\ h[n] = g[n] /\ (n # 0 => h[n - 1] = g[n - 1])
          BY <3>2
        <4>2. g[n] = IF n = 0 THEN x ELSE ShedFirst(g[n - 1])
          BY <2>1, <4>1
        <4> QED
          BY <4>1, <4>2
      <3> QED
        BY <3>1, <3>2
    <2>3. Follows(k, h)
      BY <2>2
    <2>4. \E f : Follows(k, f)
      <3> HIDE DEF Follows, h
      <3> QED
        BY <2>3
    <2> QED
      BY <2>4
  <1>3. N \in S
    <2> HIDE DEF S
    <2>1. 0..N \subseteq S
      BY <1>1, <1>2, AllUpTo
    <2> QED
      BY <2>1
  <1> DEFINE g == CHOOSE g : Follows(N, g)
  <1>4. Follows(N, g)
    BY <1>3
  <1>5. ShedTop(x) = g[N]
    BY DEF ShedTop
  <1> HIDE DEF g
  <1>6. g[0] = x /\ \A n \in 1..N : g[n] = ShedFirst(g[n - 1])
    BY <1>4
  <1> QED
    BY <1>5, <1>6

(* LetGoAboveLatest() is LetGoEarlier() again and again.                   *)
LEMMA LetGoRuns ==
    ASSUME NEW x, Len(x.bubbles) \in Nat
    PROVE  LET N == Len(x.bubbles)
           IN  \E g : /\ g[0] = x /\ \A n \in 1..N : g[n] = LetGoEarlier(g[n - 1])
                      /\ LetGoAboveLatest(x) = g[N]
  <1> DEFINE N == Len(x.bubbles)
             Follows(k, g) == g = [n \in 0..k |-> IF n = 0 THEN x ELSE LetGoEarlier(g[n - 1])]
             S == {k \in 0..N : \E g : Follows(k, g)}
  <1>1. 0 \in S
    <2>1. Follows(0, [n \in 0..0 |-> x])
      OBVIOUS
    <2>2. \E g : Follows(0, g)
      <3> HIDE DEF Follows
      <3> QED
        BY <2>1
    <2> QED
      BY <2>2
  <1>2. \A k \in 1..N : k - 1 \in S => k \in S
    <2> SUFFICES ASSUME NEW k \in 1..N, k - 1 \in S
                 PROVE  k \in S
      OBVIOUS
    <2>1. PICK g : Follows(k - 1, g)
      OBVIOUS
    <2> DEFINE h == [n \in 0..k |-> IF n = k THEN LetGoEarlier(g[k - 1]) ELSE g[n]]
    <2>2. \A n \in 0..k : h[n] = IF n = 0 THEN x ELSE LetGoEarlier(h[n - 1])
      <3> SUFFICES ASSUME NEW n \in 0..k
                   PROVE  h[n] = IF n = 0 THEN x ELSE LetGoEarlier(h[n - 1])
        OBVIOUS
      <3>1. CASE n = k
        BY <3>1
      <3>2. CASE n # k
        <4>1. n \in 0..k - 1 /\ h[n] = g[n] /\ (n # 0 => h[n - 1] = g[n - 1])
          BY <3>2
        <4>2. g[n] = IF n = 0 THEN x ELSE LetGoEarlier(g[n - 1])
          BY <2>1, <4>1
        <4> QED
          BY <4>1, <4>2
      <3> QED
        BY <3>1, <3>2
    <2>3. Follows(k, h)
      BY <2>2
    <2>4. \E f : Follows(k, f)
      <3> HIDE DEF Follows, h
      <3> QED
        BY <2>3
    <2> QED
      BY <2>4
  <1>3. N \in S
    <2> HIDE DEF S
    <2>1. 0..N \subseteq S
      BY <1>1, <1>2, AllUpTo
    <2> QED
      BY <2>1
  <1> DEFINE g == CHOOSE g : Follows(N, g)
  <1>4. Follows(N, g)
    BY <1>3
  <1>5. LetGoAboveLatest(x) = g[N]
    BY DEF LetGoAboveLatest
  <1> HIDE DEF g
  <1>6. g[0] = x /\ \A n \in 1..N : g[n] = LetGoEarlier(g[n - 1])
    BY <1>4
  <1> QED
    BY <1>5, <1>6

LEMMA GoesShedLast ==
    ASSUME NEW H, NEW C, NEW x0, NEW x, Goes(H, C, x0, x)
    PROVE  Goes(H, C, x0, ShedLast(x))
  <1>1. CASE x.bubbles # <<>> /\ ScrollBottom(x) > Upper /\ ~IsVisible(x, Last(x.bubbles))
    <2>1. ShedLast(x) = LetGo(x, Last(x.bubbles), "bottom")
      BY <1>1 DEF ShedLast
    <2>2. Core(H, C, x)
      BY DEF Goes, Widget, Shape
    <2>3. Last(x.bubbles) = x.bubbles[EndOf(x.bubbles, "bottom")]
      BY <1>1, <2>2, EndBubbles
    <2>4. ASSUME x.active
          PROVE  Height(x) >= 2 /\ x.pos < Height(x)
      <3>1. x.pos \in Nat /\ Height(x) \in Nat
        BY <2>2, <2>4, RowsAre DEF Goes, Widget, Scrolled
      <3>2. Height(x) - Viewport - x.pos > Upper
        BY <1>1 DEF ScrollBottom
      <3> QED
        BY <3>1, <3>2, TexterAssumption
    <2> QED
      BY <1>1, <2>1, <2>3, <2>4, GoesLetGo DEF Sides
  <1>2. CASE ~(x.bubbles # <<>> /\ ScrollBottom(x) > Upper /\ ~IsVisible(x, Last(x.bubbles)))
    BY <1>2 DEF ShedLast
  <1> QED
    BY <1>1, <1>2

IsOpen(x) == x.active

LEMMA GoesShedFirst ==
    ASSUME NEW H, NEW C, NEW x0, NEW x, Goes(H, C, x0, x), IsOpen(x)
    PROVE  Goes(H, C, x0, ShedFirst(x))
  <1>1. CASE x.bubbles # <<>> /\ x.pos > Upper /\ ~IsVisible(x, Head(x.bubbles))
    <2>0. PICK f : f = Head(x.bubbles)
      OBVIOUS
    <2> DEFINE y == LetGo(x, f, "top")
               z == [y EXCEPT !.pos = @ - (Height(x) - Height(y))]
    <2>1. ShedFirst(x) = z
      BY <1>1, <2>0 DEF ShedFirst
    <2>2. Shape(H, C, x) /\ Core(H, C, x) /\ SameWindow(x0, x) /\ x.active = x0.active
      BY DEF Goes, Widget, Shape
    <2>3. f = x.bubbles[EndOf(x.bubbles, "top")]
      BY <1>1, <2>0, <2>2, EndBubbles
    <2>4. x.pos \in Nat /\ Height(x) \in Nat /\ x.pos <= Height(x) /\ x.pos > Upper
      BY <1>1, <2>2, RowsAre DEF Goes, Widget, Scrolled, IsOpen
    <2>5. x.pos >= 2 /\ Height(x) >= 2
      BY <2>4, TexterAssumption
    <2>6. MayGo(x)
      BY <2>5 DEF MayGo
    <2>7. /\ Shape(H, C, y) /\ SameWindow(x, y) /\ y.active = x.active /\ y.pos = x.pos
          /\ Height(y) <= Height(x) /\ Height(x) <= Height(y) + 1
      <3>1. "top" \in Sides
        BY DEF Sides
      <3>2. /\ Shape(H, C, y) /\ SameWindow(x, y) /\ y.pos = x.pos
            /\ Height(y) <= Height(x) /\ Height(x) <= Height(y) + 1
        BY <1>1, <2>2, <2>3, <2>6, <3>1, ShapeLetGo, SMTT(30)
      <3>3. y.active = x.active
        BY <1>1, <2>2, <2>3, <2>6, <3>1, ShapeLetGo, SMTT(30)
      <3> QED
        BY <3>2, <3>3
    <2> HIDE DEF y
    <2>8. DOMAIN y = UiFields /\ Height(y) \in Nat
      BY <2>7, RowsAre DEF Shape, Core
    <2>9. Alike(y, z) /\ z.pos = y.pos - (Height(x) - Height(y))
      BY <2>8 DEF Alike, SameWindow, UiFields
    <2> HIDE DEF z
    <2>10. Shape(H, C, z) /\ Height(z) = Height(y)
      BY <2>7, <2>9, ShapeAlike
    <2>11. z.pos \in Nat /\ z.pos <= Height(z)
      BY <2>4, <2>5, <2>7, <2>8, <2>9, <2>10
    <2> QED
      BY <2>1, <2>2, <2>7, <2>9, <2>10, <2>11 DEF Goes, Widget, Scrolled, Alike, SameWindow
  <1>2. CASE ~(x.bubbles # <<>> /\ x.pos > Upper /\ ~IsVisible(x, Head(x.bubbles)))
    BY <1>2 DEF ShedFirst
  <1> QED
    BY <1>1, <1>2

LEMMA GoesShedBottom ==
    ASSUME NEW H, NEW C, NEW x0, NEW x, Goes(H, C, x0, x)
    PROVE  Goes(H, C, x0, ShedBottom(x))
  <1>1. PICK N \in Nat : N = Len(x.bubbles)
    BY CoreTypes DEF Goes, Widget, Shape
  <1>2. PICK g : g[0] = x /\ (\A n \in 1..N : g[n] = ShedLast(g[n - 1])) /\ ShedBottom(x) = g[N]
    BY <1>1, ShedBottomRuns
  <1> DEFINE S == {n \in 0..N : Goes(H, C, x0, g[n])}
  <1>3. 0 \in S
    BY <1>2
  <1>4. \A n \in 1..N : n - 1 \in S => n \in S
    BY <1>2, GoesShedLast
  <1> HIDE DEF S
  <1>5. 0..N \subseteq S
    BY <1>3, <1>4, AllUpTo
  <1>6. N \in S
    BY <1>5
  <1> QED
    BY <1>2, <1>6 DEF S

LEMMA GoesShedTop ==
    ASSUME NEW H, NEW C, NEW x0, NEW x, Goes(H, C, x0, x), x.active
    PROVE  Goes(H, C, x0, ShedTop(x))
  <1>1. PICK N \in Nat : N = Len(x.bubbles)
    BY CoreTypes DEF Goes, Widget, Shape
  <1>2. PICK g : g[0] = x /\ (\A n \in 1..N : g[n] = ShedFirst(g[n - 1])) /\ ShedTop(x) = g[N]
    BY <1>1, ShedTopRuns
  <1> DEFINE S == {n \in 0..N : Goes(H, C, x0, g[n]) /\ g[n].active}
  <1>3. 0 \in S
    BY <1>2
  <1>4. \A n \in 1..N : n - 1 \in S => n \in S
    <2> SUFFICES ASSUME NEW n \in 1..N, n - 1 \in S
                 PROVE  n \in S
      OBVIOUS
    <2>1. Goes(H, C, x0, g[n - 1]) /\ g[n - 1].active /\ g[n] = ShedFirst(g[n - 1])
      BY <1>2
    <2>2. Goes(H, C, x0, g[n])
      BY <2>1, GoesShedFirst DEF IsOpen
    <2>3. g[n].active
      BY <2>1, <2>2 DEF Goes
    <2> QED
      BY <2>2, <2>3
  <1> HIDE DEF S
  <1>5. 0..N \subseteq S
    BY <1>3, <1>4, AllUpTo
  <1>6. N \in S
    BY <1>5
  <1> QED
    BY <1>2, <1>6 DEF S

(* update_scroll(): bubbles are added and shed at both ends.               *)
LEMMA GoesUpdateScroll ==
    ASSUME FuturesAreUnlimited, NEW H, NEW C, NEW x0, NEW x, Goes(H, C, x0, x), x.active
    PROVE  Goes(H, C, x0, UpdateScroll(x))
  <1>1. CASE Range(x.bubbles) \intersect x.bub = {}
    BY <1>1 DEF UpdateScroll
  <1>2. CASE Range(x.bubbles) \intersect x.bub # {}
    <2> DEFINE b == IF WantsBelow(x) THEN NewFuture(x, Fresh(x), "bottom") ELSE x
               t == IF WantsAbove(b) THEN NewFuture(b, Fresh(b), "top") ELSE b
    <2>1. UpdateScroll(x) = ShedTop(ShedBottom(t))
      BY <1>2 DEF UpdateScroll
    <2>2. x.bubbles # <<>>
      BY <1>2 DEF Range
    <2>3. Goes(H, C, x0, b)
      <3>1. CASE WantsBelow(x)
        <4>1. Widget(H, C, NewFuture(x, Fresh(x), "bottom"))
          BY <2>2, <3>1, WidgetNewBottom DEF Goes, WantsBelow
        <4>2. /\ SameWindow(x, NewFuture(x, Fresh(x), "bottom"))
              /\ NewFuture(x, Fresh(x), "bottom").active = x.active
          <5>1. Core(H, C, x)
            BY DEF Goes, Widget, Shape
          <5>2. Longer(H, C, x, Fresh(x), NewFuture(x, Fresh(x), "bottom"), Append(x.bubbles, Fresh(x)))
            BY <5>1, NewEndIs
          <5> QED
            BY <5>2 DEF Longer
        <4> QED
          BY <3>1, <4>1, <4>2 DEF Goes, SameWindow
      <3>2. CASE ~WantsBelow(x)
        BY <3>2
      <3> QED
        BY <3>1, <3>2
    <2>5. b.bubbles # <<>>
      <3>1. CASE WantsBelow(x)
        <4>1. NewFuture(x, Fresh(x), "bottom").bubbles = Append(x.bubbles, Fresh(x))
          <5>1. Core(H, C, x)
            BY DEF Goes, Widget, Shape
          <5>2. Longer(H, C, x, Fresh(x), NewFuture(x, Fresh(x), "bottom"), Append(x.bubbles, Fresh(x)))
            BY <5>1, NewEndIs
          <5> QED
            BY <5>2 DEF Longer
        <4>2. x.bubbles \in Seq(Futures)
          BY CoreTypes DEF Goes, Widget, Shape
        <4> QED
          BY <3>1, <4>1, <4>2
      <3>2. CASE ~WantsBelow(x)
        BY <2>2, <3>2
      <3> QED
        BY <3>1, <3>2
    <2> HIDE DEF b
    <2>4. Goes(H, C, x0, t)
      <3>1. CASE WantsAbove(b)
        <4>1. Widget(H, C, NewFuture(b, Fresh(b), "top"))
          BY <2>3, <2>5, <3>1, WidgetNewTop DEF Goes, WantsAbove
        <4>2. /\ SameWindow(b, NewFuture(b, Fresh(b), "top"))
              /\ NewFuture(b, Fresh(b), "top").active = b.active
          <5>1. Core(H, C, b)
            BY <2>3 DEF Goes, Widget, Shape
          <5>2. Longer(H, C, b, Fresh(b), NewFuture(b, Fresh(b), "top"), <<Fresh(b)>> \o b.bubbles)
            BY <5>1, NewEndIs
          <5> QED
            BY <5>2 DEF Longer
        <4> QED
          BY <2>3, <3>1, <4>1, <4>2 DEF Goes, SameWindow
      <3>2. CASE ~WantsAbove(b)
        BY <2>3, <3>2
      <3> QED
        BY <3>1, <3>2
    <2> HIDE DEF t
    <2>6. Goes(H, C, x0, ShedBottom(t))
      BY <2>4, GoesShedBottom
    <2>7. ShedBottom(t).active
      BY <2>6 DEF Goes
    <2> QED
      BY <2>1, <2>6, <2>7, GoesShedTop
  <1> QED
    BY <1>1, <1>2

(* A conversation that is closed keeps its latest text and at most one     *)
(* bubble that waits for the next.                                         *)
Rest(x) ==
    ~x.active => /\ Len(x.bubbles) = 1 \/ Len(x.bubbles) = 2
                 /\ x.latest = {x.bubbles[1]} /\ x.bub = {}

(* The text of a future without a bubble takes no room.                    *)
LEMMA SameHeight ==
    ASSUME NEW H, NEW C, NEW x, Core(H, C, x), NEW f, f \notin x.bub, NEW m
    PROVE  Height([x EXCEPT !.text[f] = m]) = Height(x)
  <1> DEFINE y == [x EXCEPT !.text[f] = m]
  <1>1. /\ y.bubbles = x.bubbles /\ y.bub = x.bub /\ y.text = [x.text EXCEPT ![f] = m]
    BY DEF Core, UiFields
  <1> HIDE DEF y
  <1>2. \A g \in Range(x.bubbles) \intersect x.bub : y.text[g] = x.text[g]
    BY <1>1, CoreTypes DEF Core, Told
  <1>3. Rows(y) = Rows(x)
    BY <1>1, <1>2 DEF Rows
  <1> QED
    BY <1>3 DEF Height, y

(* A message's text comes to its bubble.                                   *)
LEMMA TextIsSet ==
    ASSUME NEW H, NEW C, NEW x, Widget(H, C, x), NEW f \in Range(H), f \in Range(x.bubbles),
           NEW m, NEW D, D[f] = m, \A g \in Futures : g # f => D[g] = C[g]
    PROVE  LET y == [x EXCEPT !.text[f] = m]
           IN  /\ Core(H, D, y) /\ LatestBut(H, y, {f}) /\ DrawnBut(y, {f}) /\ SameWindow(x, y)
               /\ y.bubbles = x.bubbles /\ y.bub = x.bub /\ y.latest = x.latest /\ y.text[f] = m
               /\ y.active = x.active /\ y.pos = x.pos
  <1> DEFINE y == [x EXCEPT !.text[f] = m]
  <1>1. Core(H, C, x) /\ LatestBut(H, x, {}) /\ DrawnBut(x, {})
    BY DEF Widget, Shape
  <1>2. f \in Futures
    BY <1>1, CoreTypes
  <1>3. /\ DOMAIN y = UiFields /\ y.bubbles = x.bubbles /\ y.bub = x.bub /\ y.latest = x.latest
        /\ y.events = x.events /\ y.text = [x.text EXCEPT ![f] = m] /\ y.active = x.active
        /\ y.pos = x.pos /\ y.failed = x.failed /\ SameWindow(x, y)
    BY <1>1 DEF Core, UiFields, SameWindow
  <1> HIDE DEF y
  <1>4. y.text = Told(H, D, y.bubbles)
    BY <1>1, <1>2, <1>3 DEF Core, Told
  <1>5. Core(H, D, y)
    BY <1>1, <1>3, <1>4 DEF Core
  <1>6. \A g \in Futures : g # f => y.text[g] = x.text[g]
    BY <1>1, <1>3 DEF Core, Told
  <1>7. LatestBut(H, y, {f})
    <2>1. PICK n \in Nat : n = Len(x.bubbles) /\ \A k \in 1..n : x.bubbles[k] \in Futures
      BY <1>1, CoreTypes, ElementOfSeq
    <2>2. \A g, h \in y.latest : g = h
      BY <1>1, <1>3 DEF LatestBut
    <2>3. ASSUME NEW k \in 1..n, y.bubbles[k] \in y.latest
          PROVE  /\ k >= n - 1
                 /\ k < n => /\ y.bubbles[n] \notin y.bub /\ y.bubbles[k] \in Range(H)
                             /\ y.text[y.bubbles[n]] = Nothing \/ y.bubbles[n] \in {f}
      <3>1. x.bubbles[k] \in x.latest /\ n \in 1..n
        BY <1>3, <2>1, <2>3
      <3>2. /\ k >= n - 1
            /\ k < n => /\ x.bubbles[n] \notin x.bub /\ x.bubbles[k] \in Range(H)
                        /\ x.text[x.bubbles[n]] = Nothing
        BY <1>1, <2>1, <3>1 DEF LatestBut
      <3> QED
        BY <1>3, <1>6, <2>1, <3>1, <3>2
    <2> QED
      BY <1>3, <2>1, <2>2, <2>3 DEF LatestBut
  <1>8. y.text[f] = m
    BY <1>1, <1>2, <1>3 DEF Core, Told
  <1>9. DrawnBut(y, {f})
    <2>1. \A g \in Range(x.bubbles) : g # f => y.text[g] = x.text[g]
      BY <1>1, <1>6, CoreTypes
    <2> QED
      BY <1>1, <1>3, <2>1 DEF DrawnBut
  <1> QED
    BY <1>3, <1>5, <1>7, <1>8, <1>9 DEF y

(* future_set_message() in the conversation that is open.                  *)
LEMMA RenderedKeeps ==
    ASSUME NEW H, NEW C, NEW x, Core(H, C, x), NEW f, f \in Range(x.bubbles), LatestBut(H, x, {f}),
           IsOpen(x), DrawnBut(x, {f}), x.pos \in Nat,
           f \notin x.bub => x.text[f] # Nothing /\ x.pos <= Height(x)
    PROVE  Goes(H, C, x, Rendered(x, f))
  <1> DEFINE y == Rendered(x, f)
             new == [x EXCEPT !.bub = @ \union {f}]
             first == Head(x.bubbles) = f
             last == Last(x.bubbles) = f
  <1>1. DOMAIN x = UiFields /\ x.bubbles # <<>>
    BY DEF Core, Range
  <1>2. PICK n \in Nat : /\ n = Len(x.bubbles) /\ n # 0 /\ Head(x.bubbles) = x.bubbles[1]
                         /\ Last(x.bubbles) = x.bubbles[n] /\ DOMAIN x.bubbles = 1..n
                         /\ Distinct(x.bubbles)
    BY <1>1, EndBubbles, CoreTypes
  <1>3. /\ \A g, h \in x.latest : g = h
        /\ \A k \in 1..n : x.bubbles[k] \in x.latest =>
              /\ k >= n - 1
              /\ k < n => /\ x.bubbles[n] \notin x.bub /\ x.bubbles[k] \in Range(H)
                          /\ x.text[x.bubbles[n]] = Nothing \/ x.bubbles[n] = f
    BY <1>2 DEF LatestBut
  <1>10. /\ x.failed \subseteq {"top"}
         /\ \A g \in Range(x.bubbles) : x.text[g] # Nothing => g \in x.bub \union {f}
         /\ \A k \in 1..n : x.bubbles[k] \notin x.bub => k = 1 \/ k = n
         /\ x.bubbles[n] \notin x.bub => (x.bubbles[n] \in x.latest <=> n = 1)
    BY <1>2 DEF DrawnBut, IsOpen
  <1>4. ASSUME NEW z, DOMAIN z = UiFields, SameWindow(x, z), z.bubbles = x.bubbles,
               z.events = x.events, z.text = x.text, z.active = x.active,
               z.bub = x.bub \union {f}, z.latest \subseteq x.latest \union {f},
               \A g, h \in z.latest : g = h,
               \A k \in 1..n : z.bubbles[k] \in z.latest =>
                  /\ k >= n - 1
                  /\ k < n => /\ z.bubbles[n] \notin z.bub /\ z.bubbles[k] \in Range(H)
                              /\ z.text[z.bubbles[n]] = Nothing,
               z.failed \subseteq {"top"},
               z.bubbles[n] \notin z.bub => (z.bubbles[n] \in z.latest <=> n = 1),
               z.pos \in Nat, z.pos <= Height(z)
        PROVE  Goes(H, C, x, z)
    <2>1. Core(H, C, z)
      BY <1>4 DEF Core
    <2>2. LatestBut(H, z, {})
      BY <1>2, <1>4 DEF LatestBut
    <2>3. DrawnBut(z, {})
      BY <1>2, <1>4, <1>10 DEF DrawnBut
    <2> QED
      BY <1>4, <2>1, <2>2, <2>3 DEF Goes, Widget, Shape, Scrolled
  <1>11. ASSUME NEW z, z.bubbles = x.bubbles, z.text = x.text, z.bub = x.bub \union {f},
                f \notin x.bub
         PROVE  Height(z) = Height(x) + 1 /\ Height(x) \in Nat /\ x.pos <= Height(x)
    <2>1. Rows(z) = Rows(x) \union {f} /\ f \notin Rows(x)
      BY <1>11 DEF Rows
    <2>2. IsFiniteSet(Rows(x)) /\ Height(x) \in Nat
      BY RowsAre
    <2>3. Cardinality(Rows(x) \union {f}) = Cardinality(Rows(x)) + 1
      BY <2>1, <2>2, FS_AddElement
    <2> QED
      BY <1>11, <2>1, <2>2, <2>3 DEF Height
  <1>12. /\ DOMAIN new = UiFields /\ SameWindow(x, new) /\ new.bubbles = x.bubbles
         /\ new.events = x.events /\ new.text = x.text /\ new.active = x.active
         /\ new.bub = x.bub \union {f} /\ new.latest = x.latest
         /\ new.pos = x.pos /\ new.failed = x.failed
    BY <1>1 DEF UiFields, SameWindow
  <1>13. LastPos(new) \in Nat /\ LastPos(new) <= Height(new)
    <2>1. Core(H, C, new)
      BY <1>12 DEF Core
    <2> QED
      BY <2>1, LastPosIs
  <1> HIDE DEF new
  <1>5. CASE f \in x.bub
    <2>1. y = Clamped(x)
      BY <1>5 DEF Rendered
    <2>2. /\ DOMAIN y = UiFields /\ SameWindow(x, y) /\ y.bubbles = x.bubbles
          /\ y.events = x.events /\ y.text = x.text /\ y.active = x.active
          /\ y.bub = x.bub /\ y.latest = x.latest /\ y.failed = x.failed
          /\ y.pos = Min({x.pos, LastPos(x)})
      BY <1>1, <2>1 DEF Clamped, UiFields, SameWindow
    <2> HIDE DEF y
    <2>3. y.pos \in Nat /\ y.pos <= Height(y)
      <3>1. LastPos(x) \in Nat /\ LastPos(x) <= Height(x) /\ Height(x) \in Nat
        BY LastPosIs, RowsAre
      <3>2. Min({x.pos, LastPos(x)}) = IF x.pos <= LastPos(x) THEN x.pos ELSE LastPos(x)
        BY <3>1, MinOfTwo
      <3>3. Height(y) = Height(x)
        BY <2>2 DEF Height, Rows
      <3> QED
        BY <2>2, <3>1, <3>2, <3>3
    <2>4. y.bub = x.bub \union {f}
      BY <1>5, <2>2
    <2>5. \A k \in 1..n : y.bubbles[k] \in y.latest =>
                  /\ k >= n - 1
                  /\ k < n => /\ y.bubbles[n] \notin y.bub /\ y.bubbles[k] \in Range(H)
                              /\ y.text[y.bubbles[n]] = Nothing
      BY <1>3, <1>5, <2>2
    <2> QED
      BY <1>2, <1>3, <1>4, <1>10, <2>2, <2>3, <2>4, <2>5 DEF y
  <1>7. CASE f \notin x.bub /\ first /\ last
    <2> DEFINE a == Asserting(Asserting(new, "alone", x.bub = {}), "latest", f \in x.latest)
    <2>1. y = AtBottom(a)
      BY <1>7 DEF Rendered, new
    <2>2. n = 1 /\ x.bubbles[1] = f /\ 1 \in 1..n
      <3>1. x.bubbles[1] = x.bubbles[n] /\ 1 \in 1..n /\ n \in 1..n /\ x.bubbles[1] = f
        BY <1>2, <1>7
      <3> QED
        BY <1>2, <3>1 DEF Distinct
    <2>3. f \in x.latest
      BY <1>7, <1>10, <2>2
    <2>4. x.bub = {}
      <3>1. x.bub \subseteq {f}
        BY <1>2, <2>2 DEF Core, Range
      <3> QED
        BY <1>7, <3>1
    <2>5. /\ DOMAIN a = UiFields /\ SameWindow(x, a) /\ a.bubbles = x.bubbles
          /\ a.events = x.events /\ a.text = x.text /\ a.active = x.active
          /\ a.bub = x.bub \union {f} /\ a.latest = x.latest /\ a.failed = x.failed
      BY <1>12, <2>3, <2>4 DEF Asserting, UiFields, SameWindow
    <2> HIDE DEF a
    <2>6. /\ DOMAIN y = UiFields /\ SameWindow(x, y) /\ y.bubbles = x.bubbles
          /\ y.events = x.events /\ y.text = x.text /\ y.active = x.active
          /\ y.bub = x.bub \union {f} /\ y.latest = x.latest /\ y.failed = x.failed
          /\ y.pos = LastPos(a)
      BY <2>1, <2>5 DEF AtBottom, UiFields, SameWindow
    <2> HIDE DEF y
    <2>7. Height(y) = Height(new) /\ LastPos(a) = LastPos(new)
      BY <1>12, <2>5, <2>6 DEF LastPos, Height, Rows
    <2> QED
      BY <1>2, <1>3, <1>4, <1>10, <1>13, <2>2, <2>3, <2>6, <2>7 DEF y
  <1>8. CASE f \notin x.bub /\ ~first /\ last
    <2> DEFINE up == x.bubbles[Len(x.bubbles) - 1]
               w == IF x.pos <= 0 /\ ScrollBottom(x) >= 0 THEN AtBottom(new) ELSE new
               v == Asserting(w, "bottom", f \notin x.latest)
    <2>1. y = [v EXCEPT !.latest = IF up \in @ THEN (@ \ {up}) \union {f} ELSE @]
      BY <1>8 DEF Rendered, new
    <2>5. n > 1 /\ x.bubbles[n] = f /\ n - 1 \in 1..n /\ up = x.bubbles[n - 1]
      <3>1. x.bubbles[n] = f /\ n # 1
        BY <1>2, <1>8
      <3>2. up = x.bubbles[n - 1]
        BY <1>2 DEF up
      <3>3. n # 0 /\ n # 1
        BY <1>2, <3>1
      <3>4. n > 1 /\ n - 1 \in 1..n
        BY <3>3
      <3> QED
        BY <3>1, <3>2, <3>4
    <2>8. f \notin x.latest
      BY <1>8, <1>10, <2>5
    <2>2. /\ DOMAIN w = UiFields /\ SameWindow(x, w) /\ w.bubbles = x.bubbles
          /\ w.events = x.events /\ w.text = x.text /\ w.active = x.active
          /\ w.bub = x.bub \union {f} /\ w.latest = x.latest /\ w.failed = x.failed
          /\ w.pos = x.pos \/ w.pos = LastPos(new)
      BY <1>12 DEF AtBottom, UiFields, SameWindow
    <2> HIDE DEF w, up
    <2>3. /\ DOMAIN v = UiFields /\ SameWindow(x, v) /\ v.bubbles = x.bubbles
          /\ v.events = x.events /\ v.text = x.text /\ v.active = x.active
          /\ v.bub = x.bub \union {f} /\ v.latest = x.latest /\ v.failed = x.failed
          /\ v.pos = w.pos
      BY <2>2, <2>8 DEF Asserting, UiFields, SameWindow
    <2> HIDE DEF v
    <2>4. /\ DOMAIN y = UiFields /\ SameWindow(x, y) /\ y.bubbles = x.bubbles
          /\ y.events = x.events /\ y.text = x.text /\ y.active = x.active
          /\ y.bub = x.bub \union {f} /\ y.failed = x.failed /\ y.pos = w.pos
          /\ y.latest = IF up \in x.latest THEN (x.latest \ {up}) \union {f} ELSE x.latest
      BY <2>1, <2>3 DEF UiFields, SameWindow
    <2> HIDE DEF y
    <2>9. y.pos \in Nat /\ y.pos <= Height(y)
      <3>1. Height(y) = Height(x) + 1 /\ Height(x) \in Nat /\ x.pos <= Height(x)
        BY <1>8, <1>11, <2>4
      <3>2. Height(new) = Height(y)
        BY <1>12, <2>4 DEF Height, Rows
      <3> QED
        BY <1>13, <2>2, <2>4, <3>1, <3>2
    <2>10. y.bubbles[n] \in y.bub
      BY <2>4, <2>5
    <2>6. CASE up \in x.latest
      <3>1. y.latest = {f}
        BY <1>3, <2>4, <2>6
      <3>2. \A k \in 1..n : y.bubbles[k] \in y.latest => k = n
        <4> SUFFICES ASSUME NEW k \in 1..n, y.bubbles[k] \in y.latest
                     PROVE  k = n
          OBVIOUS
        <4>1. x.bubbles[k] = x.bubbles[n] /\ n \in 1..n
          BY <1>2, <2>4, <2>5, <3>1
        <4> QED
          BY <1>2, <4>1 DEF Distinct
      <3>3. /\ y.latest \subseteq x.latest \union {f} /\ \A g, h \in y.latest : g = h
            /\ y.failed \subseteq {"top"}
        BY <1>10, <2>4, <3>1
      <3>4. \A k \in 1..n : y.bubbles[k] \in y.latest =>
                  /\ k >= n - 1
                  /\ k < n => /\ y.bubbles[n] \notin y.bub /\ y.bubbles[k] \in Range(H)
                              /\ y.text[y.bubbles[n]] = Nothing
        BY <1>2, <3>2
      <3> QED
        BY <1>4, <2>4, <2>9, <2>10, <3>3, <3>4 DEF y
    <2>7. CASE up \notin x.latest
      <3>1. \A k \in 1..n : y.bubbles[k] \in y.latest => k = n
        BY <1>2, <1>3, <2>4, <2>5, <2>7
      <3>3. /\ y.latest \subseteq x.latest \union {f} /\ \A g, h \in y.latest : g = h
            /\ y.failed \subseteq {"top"}
        BY <1>3, <1>10, <2>4, <2>7
      <3>4. \A k \in 1..n : y.bubbles[k] \in y.latest =>
                  /\ k >= n - 1
                  /\ k < n => /\ y.bubbles[n] \notin y.bub /\ y.bubbles[k] \in Range(H)
                              /\ y.text[y.bubbles[n]] = Nothing
        BY <1>2, <3>1
      <3> QED
        BY <1>4, <2>4, <2>9, <2>10, <3>3, <3>4 DEF y
    <2> QED
      BY <2>6, <2>7
  <1>9. CASE f \notin x.bub /\ ~last
    <2> DEFINE a == Asserting(Asserting(new, "end", first), "top", f \notin x.latest)
    <2>1. y = [a EXCEPT !.pos = @ + 1]
      BY <1>9 DEF Rendered, new
    <2>2. first /\ x.bubbles[n] # f /\ n # 1
      <3>1. PICK k \in 1..n : x.bubbles[k] = f
        BY <1>2 DEF Range
      <3>2. k = 1
        BY <1>2, <1>9, <1>10, <3>1
      <3> QED
        BY <1>2, <1>9, <3>1, <3>2
    <2>3. /\ DOMAIN a = UiFields /\ SameWindow(x, a) /\ a.bubbles = x.bubbles
          /\ a.events = x.events /\ a.text = x.text /\ a.active = x.active
          /\ a.bub = x.bub \union {f} /\ a.latest = x.latest /\ a.pos = x.pos
          /\ a.failed \subseteq x.failed \union {"top"}
      BY <1>12, <2>2 DEF Asserting, UiFields, SameWindow
    <2> HIDE DEF a
    <2>4. /\ DOMAIN y = UiFields /\ SameWindow(x, y) /\ y.bubbles = x.bubbles
          /\ y.events = x.events /\ y.text = x.text /\ y.active = x.active
          /\ y.bub = x.bub \union {f} /\ y.latest = x.latest /\ y.pos = x.pos + 1
          /\ y.failed \subseteq x.failed \union {"top"}
      BY <2>1, <2>3 DEF UiFields, SameWindow
    <2> HIDE DEF y
    <2>5. y.pos \in Nat /\ y.pos <= Height(y)
      BY <1>9, <1>11, <2>4
    <2>6. y.bubbles[n] \notin y.bub => (y.bubbles[n] \in y.latest <=> n = 1)
      BY <1>10, <2>2, <2>4
    <2>7. y.failed \subseteq {"top"}
      BY <1>10, <2>4
    <2>8. \A k \in 1..n : y.bubbles[k] \in y.latest =>
                  /\ k >= n - 1
                  /\ k < n => /\ y.bubbles[n] \notin y.bub /\ y.bubbles[k] \in Range(H)
                              /\ y.text[y.bubbles[n]] = Nothing
      BY <1>3, <2>2, <2>4
    <2> QED
      BY <1>3, <1>4, <2>4, <2>5, <2>6, <2>7, <2>8 DEF y
  <1> QED
    BY <1>5, <1>7, <1>8, <1>9

LEMMA OneWaitsBelow ==
    ASSUME FuturesAreUnlimited, NEW H, NEW C, NEW x, Core(H, C, x), NEW f \in Range(H),
           Len(x.bubbles) = 1, x.bubbles[1] = f, x.latest = {f}, x.bub = {},
           ~x.active, x.failed \subseteq {"top"}
    PROVE  LET y == NewFuture(x, Fresh(x), "bottom") IN Goes(H, C, x, y) /\ Rest(y)
  <1> DEFINE g == Fresh(x)
             y == NewFuture(x, g, "bottom")
  <1>1. /\ Core(H, C, y) /\ g \in Futures /\ g \notin Range(x.bubbles) /\ SameWindow(x, y)
        /\ y.bubbles = Append(x.bubbles, g)
        /\ y.bub = {} /\ y.latest = {f} /\ y.text = x.text /\ y.active = x.active
        /\ y.failed = x.failed
    <2> HIDE DEF g
    <2>1. Longer(H, C, x, g, y, Append(x.bubbles, g))
      BY NewEndIs DEF g
    <2> HIDE DEF y
    <2> QED
      BY <2>1 DEF Longer
  <1> HIDE DEF y, g
  <1>2. Len(y.bubbles) = 2 /\ y.bubbles[1] = f /\ y.bubbles[2] = g
    <2>1. /\ Len(y.bubbles) = 1 + 1
          /\ \A i \in 1..1 + 1 : y.bubbles[i] = IF i = 1 + 1 THEN g ELSE x.bubbles[i]
      BY <1>1, CoreTypes, SnocIs
    <2> QED
      BY <2>1
  <1>3. y.text[g] = Nothing
    BY <1>1 DEF Core, Told
  <1>4. LatestBut(H, y, {})
    <2>1. \A k \in 1..2 : k = 1 \/ k = 2
      OBVIOUS
    <2> QED
      BY <1>1, <1>2, <1>3, <2>1 DEF LatestBut
  <1> QED
    BY <1>1, <1>2, <1>4 DEF Goes, Widget, Shape, DrawnBut, Scrolled, Rest, y, g

(* future_set_message() in a conversation that is not open.                *)
LEMMA NotedKeeps ==
    ASSUME FuturesAreUnlimited, NEW H, NEW C, NEW x, Core(H, C, x), ~x.active, Rest(x),
           NEW f \in Range(H), f \in Range(x.bubbles), LatestBut(H, x, {f}), DrawnBut(x, {f})
    PROVE  Goes(H, C, x, Noted(x, f)) /\ Rest(Noted(x, f))
  <1> DEFINE v == [x EXCEPT !.latest = @ \union {f}]
             i == PlaceOf(x, f)
             up == x.bubbles[i - 1]
             z == IF i = 1 THEN v ELSE Enqueue(Unlinked(v, up), up, FALSE, "top")
  <1>1. Noted(x, f) = IF Last(x.bubbles) = f THEN NewFuture(z, Fresh(z), "bottom") ELSE z
    BY DEF Noted
  <1>2. PICK n \in Nat : /\ n = Len(x.bubbles) /\ (n = 1 \/ n = 2) /\ x.latest = {x.bubbles[1]}
                         /\ x.bub = {} /\ Last(x.bubbles) = x.bubbles[n] /\ DOMAIN x.bubbles = 1..n
                         /\ Distinct(x.bubbles) /\ x.bubbles # <<>>
    <2>1. Len(x.bubbles) \in Nat /\ DOMAIN x.bubbles = 1..Len(x.bubbles) /\ Distinct(x.bubbles)
      BY CoreTypes
    <2>2. x.bubbles # <<>>
      BY DEF Range
    <2> QED
      BY <2>1, <2>2 DEF Rest, Last
  <1>3. i \in 1..n /\ x.bubbles[i] = f
    BY <1>2 DEF PlaceOf, Range
  <1> HIDE DEF i
  <1>4. /\ Core(H, C, v) /\ SameWindow(x, v) /\ v.bubbles = x.bubbles /\ v.bub = {}
        /\ v.latest = x.latest \union {f} /\ v.text = x.text /\ v.active = x.active
        /\ v.events = x.events /\ v.failed = x.failed
    BY <1>2 DEF Core, SameWindow, UiFields
  <1> HIDE DEF v
  <1>8. x.failed \subseteq {"top"} /\ ~v.active
    BY <1>4 DEF DrawnBut
  <1>5. CASE i = 1 /\ n = 1
    <2>1. /\ Noted(x, f) = NewFuture(v, Fresh(v), "bottom")
          /\ Len(v.bubbles) = 1 /\ v.bubbles[1] = f /\ v.latest = {f} /\ v.bub = {}
      BY <1>1, <1>2, <1>3, <1>4, <1>5
    <2>2. Goes(H, C, v, Noted(x, f)) /\ Rest(Noted(x, f))
      BY <1>4, <1>8, <2>1, OneWaitsBelow
    <2> QED
      BY <1>4, <2>2 DEF Goes, SameWindow
  <1>6. CASE i = 1 /\ n = 2
    <2>1. x.bubbles[2] # f
      BY <1>2, <1>3, <1>6 DEF Distinct
    <2>2. Noted(x, f) = v /\ v.latest = {f} /\ v.latest = x.latest
      BY <1>1, <1>2, <1>3, <1>4, <1>6, <2>1
    <2>3. LatestBut(H, v, {})
      <3>1. \A k \in 1..2 : x.bubbles[k] \in x.latest =>
              /\ k >= n - 1
              /\ k < n => /\ x.bubbles[n] \notin x.bub /\ x.bubbles[k] \in Range(H)
                          /\ x.text[x.bubbles[n]] = Nothing \/ x.bubbles[n] = f
        BY <1>2, <1>6 DEF LatestBut
      <3> QED
        BY <1>2, <1>4, <1>6, <2>1, <2>2, <3>1 DEF LatestBut
    <2>4. Rest(v)
      BY <1>2, <1>3, <1>4, <1>6, <2>2 DEF Rest
    <2> QED
      BY <1>4, <1>8, <2>2, <2>3, <2>4 DEF Goes, Widget, Shape, DrawnBut, Scrolled
  <1>7. CASE i = 2
    <2>1. n = 2 /\ up = x.bubbles[1] /\ up # f /\ up \in Range(x.bubbles)
      BY <1>2, <1>3, <1>7 DEF Distinct, Range
    <2>2. up \in Range(H)
      <3>1. \A k \in 1..2 : x.bubbles[k] \in x.latest /\ k < 2 => x.bubbles[k] \in Range(H)
        BY <1>2, <2>1 DEF LatestBut
      <3> QED
        BY <1>2, <2>1, <3>1
    <2>3. ~Queued(v, up)
      <3>1. \A k \in 1..Len(x.events) : x.events[k].fut # up
        BY <2>1, <2>2, QueuedMeans DEF Core
      <3> QED
        BY <1>4, <3>1, NotQueued DEF Core
    <2>4. z = LetGo(v, up, "top")
      BY <1>7, <2>3 DEF LetGo
    <2>5. up = v.bubbles[EndOf(v.bubbles, "top")] /\ v.bubbles # <<>>
      BY <1>2, <1>4, <2>1 DEF EndOf
    <2> HIDE DEF z, up
    <2>6. /\ Core(H, C, z) /\ SameWindow(v, z)
          /\ z.bubbles = RemoveAt(v.bubbles, EndOf(v.bubbles, "top"))
          /\ z.bub = v.bub \ {up} /\ z.latest = v.latest \ {up} /\ z.active = v.active
          /\ z.failed = v.failed
      <3>1. Shorter(H, C, v, up, "top", z)
        BY <1>4, <2>4, <2>5, LetGoIs DEF Sides
      <3> QED
        BY <3>1 DEF Shorter
    <2>7. Len(z.bubbles) = 1 /\ z.bubbles[1] = f
      <3>1. 1 \in 1..Len(x.bubbles) /\ x.bubbles \in Seq(Futures)
        BY <1>2, CoreTypes
      <3>2. /\ Len(RemoveAt(x.bubbles, 1)) = Len(x.bubbles) - 1
            /\ \A j \in 1..Len(x.bubbles) - 1 :
                  RemoveAt(x.bubbles, 1)[j] = IF j < 1 THEN x.bubbles[j] ELSE x.bubbles[j + 1]
        BY <3>1, RemovedIs
      <3>3. z.bubbles = RemoveAt(x.bubbles, 1)
        BY <1>4, <2>6 DEF EndOf
      <3> QED
        BY <1>2, <1>3, <1>7, <2>1, <3>2, <3>3
    <2>8. z.latest = {f} /\ z.bub = {}
      BY <1>2, <1>4, <2>1, <2>6
    <2>9. Noted(x, f) = NewFuture(z, Fresh(z), "bottom")
      BY <1>1, <1>2, <1>3, <1>7, <2>1
    <2>10. Goes(H, C, z, Noted(x, f)) /\ Rest(Noted(x, f))
      BY <1>4, <1>8, <2>6, <2>7, <2>8, <2>9, OneWaitsBelow
    <2> QED
      BY <1>4, <2>6, <2>10 DEF Goes, SameWindow
  <1> QED
    BY <1>2, <1>3, <1>5, <1>6, <1>7

(* What the program may rely on when it gives a future a text.             *)
LEMMA SetMessageKeeps ==
    ASSUME FuturesAreUnlimited, NEW H, NEW C, NEW x, Widget(H, C, x), Rest(x), NEW f \in Range(H),
           NEW m, NEW D, D[f] = m, \A g \in Futures : g # f => D[g] = C[g]
    PROVE  Goes(H, D, x, SetMessage(x, f, m)) /\ Rest(SetMessage(x, f, m))
  <1> DEFINE y == [x EXCEPT !.text[f] = m]
  <1>1. Core(H, C, x) /\ f \in Futures
    BY CoreTypes DEF Widget, Shape
  <1>2. CASE f \notin Range(x.bubbles) \/ (m = Nothing /\ x.text[f] = Nothing)
    <2>1. SetMessage(x, f, m) = x
      BY <1>2 DEF SetMessage
    <2>2. x.text = Told(H, D, x.bubbles)
      BY <1>1, <1>2 DEF Core, Told
    <2>3. Goes(H, D, x, x)
      BY <1>1, <2>2 DEF Goes, Widget, Shape, Core, SameWindow
    <2> QED
      BY <2>1, <2>3
  <1>3. CASE f \in Range(x.bubbles) /\ ~(m = Nothing /\ x.text[f] = Nothing)
    <2>1. /\ Core(H, D, y) /\ LatestBut(H, y, {f}) /\ DrawnBut(y, {f}) /\ SameWindow(x, y)
          /\ y.bubbles = x.bubbles /\ y.bub = x.bub /\ y.latest = x.latest /\ y.text[f] = m
          /\ y.active = x.active /\ y.pos = x.pos
          /\ f \notin x.bub => Height(y) = Height(x)
      <3>1. y.active = x.active
        BY <1>1 DEF Core, UiFields
      <3>2. Core(H, D, y) /\ LatestBut(H, y, {f}) /\ DrawnBut(y, {f}) /\ SameWindow(x, y)
        BY <1>3, TextIsSet, SMTT(30)
      <3>3. y.bubbles = x.bubbles /\ y.bub = x.bub /\ y.latest = x.latest /\ y.pos = x.pos
        BY <1>1 DEF Core, UiFields
      <3> HIDE DEF y
      <3>4. y.text[f] = m
        BY <1>1, <1>3, <3>2, <3>3 DEF Core, Told
      <3>5. f \notin x.bub => Height(y) = Height(x)
        BY <1>1, SameHeight DEF y
      <3> QED
        BY <3>1, <3>2, <3>3, <3>4, <3>5
    <2>2. SetMessage(x, f, m) = IF x.active THEN UpdateScroll(Rendered(y, f)) ELSE Noted(y, f)
      BY <1>3 DEF SetMessage
    <2> HIDE DEF y
    <2>3. CASE x.active
      <3>3. IsOpen(y) /\ y.pos \in Nat /\ x.pos <= Height(x)
        BY <2>1, <2>3 DEF IsOpen, Widget, Scrolled
      <3>4. f \notin y.bub => y.text[f] # Nothing /\ y.pos <= Height(y)
        <4>1. f \notin x.bub => x.text[f] = Nothing
          BY <1>3, <2>3 DEF Widget, Shape, DrawnBut
        <4> QED
          BY <1>3, <2>1, <3>3, <4>1
      <3>1. Goes(H, D, y, Rendered(y, f))
        BY <1>3, <2>1, <3>3, <3>4, RenderedKeeps
      <3>5. Rendered(y, f).active
        BY <3>1, <3>3 DEF Goes, IsOpen
      <3>2. Goes(H, D, y, UpdateScroll(Rendered(y, f)))
        BY <3>1, <3>5, GoesUpdateScroll
      <3> QED
        BY <2>1, <2>2, <2>3, <3>2 DEF Goes, SameWindow, Rest
    <2>4. CASE ~x.active
      <3>1. Rest(y) /\ ~y.active
        BY <2>1, <2>4 DEF Rest
      <3>2. Goes(H, D, y, Noted(y, f)) /\ Rest(Noted(y, f))
        BY <1>3, <2>1, <3>1, NotedKeeps
      <3> QED
        BY <2>1, <2>2, <2>4, <3>2 DEF Goes, SameWindow
    <2> QED
      BY <2>3, <2>4
  <1> QED
    BY <1>2, <1>3

LEMMA FirstFutureKeeps ==
    ASSUME FuturesAreUnlimited, NEW H, NEW C, NEW x, Core(H, C, x), x.bubbles = <<>>,
           ~x.active, x.failed \subseteq {"top"}
    PROVE  LET y == FirstFuture(x, Fresh(x)) IN Goes(H, C, x, y) /\ Rest(y)
  <1> DEFINE f == Fresh(x)
             y == FirstFuture(x, f)
             z == NewFuture(x, f, "top")
  <1>1. /\ Core(H, C, z) /\ f \in Futures /\ SameWindow(x, z) /\ z.bubbles = <<f>> \o x.bubbles
        /\ z.bub = x.bub /\ z.active = x.active /\ z.failed = x.failed
    <2> HIDE DEF f
    <2>1. Longer(H, C, x, f, z, <<f>> \o x.bubbles)
      BY NewEndIs DEF f
    <2> HIDE DEF z
    <2> QED
      BY <2>1 DEF Longer
  <1>2. /\ DOMAIN y = UiFields /\ y.bubbles = z.bubbles /\ y.events = z.events /\ y.text = z.text
        /\ y.bub = z.bub /\ y.latest = {f} /\ y.active = z.active /\ SameWindow(z, y)
        /\ y.failed = z.failed
    BY DEF FirstFuture, NewFuture, Enqueue, Asserting, Queued, Core, SameWindow, UiFields
  <1> HIDE DEF y, z, f
  <1>3. y.bubbles = <<f>> /\ Len(y.bubbles) = 1 /\ y.bubbles[1] = f
    <2>1. <<f>> \o x.bubbles = <<f>>
      OBVIOUS
    <2> QED
      BY <1>1, <1>2, <2>1
  <1>4. f \in Range(y.bubbles)
    BY <1>3 DEF Range
  <1>5. Core(H, C, y)
    BY <1>1, <1>2, <1>4 DEF Core
  <1>6. LatestBut(H, y, {})
    BY <1>2, <1>3 DEF LatestBut
  <1>7. x.bub = {}
    BY DEF Core, Range
  <1> QED
    BY <1>1, <1>2, <1>3, <1>5, <1>6, <1>7 DEF Goes, Widget, Shape, DrawnBut, Scrolled, SameWindow, Rest, y, f

(* convo_menuitem_clicked_cb().                                            *)
LEMMA OpenKeeps ==
    ASSUME FuturesAreUnlimited, NEW H, NEW C, NEW x, Widget(H, C, x), Rest(x), ~x.active
    PROVE  /\ Widget(H, C, OpenConvo(x)) /\ SameWindow(x, OpenConvo(x))
           /\ OpenConvo(x).active = TRUE
  <1> DEFINE f == Head(x.bubbles)
             y == [x EXCEPT !.active = TRUE, !.pos = 0]
             b == [y EXCEPT !.bub = @ \union {f}]
             z == AtBottom(b)
  <1>1. PICK n \in Nat : /\ n = Len(x.bubbles) /\ (n = 1 \/ n = 2) /\ x.latest = {x.bubbles[1]}
                         /\ x.bub = {} /\ DOMAIN x.bubbles = 1..n /\ Distinct(x.bubbles)
    BY CoreTypes DEF Rest, Widget, Shape
  <1>2. f = x.bubbles[1] /\ f \in Range(x.bubbles)
    <2>1. x.bubbles # <<>>
      BY <1>1
    <2> QED
      BY <2>1, EndBubbles DEF Widget, Shape
  <1> HIDE DEF f
  <1>3. /\ DOMAIN y = UiFields /\ SameWindow(x, y) /\ y.bubbles = x.bubbles /\ y.events = x.events
        /\ y.text = x.text /\ y.bub = x.bub /\ y.latest = x.latest /\ y.active = TRUE
        /\ y.pos = 0 /\ y.failed = x.failed
    BY DEF Widget, Shape, Core, SameWindow, UiFields
  <1> HIDE DEF y
  <1>10. /\ DOMAIN b = UiFields /\ SameWindow(x, b) /\ b.bubbles = x.bubbles /\ b.events = x.events
         /\ b.text = x.text /\ b.bub = {f} /\ b.latest = x.latest /\ b.active = TRUE
         /\ b.failed = x.failed
    BY <1>1, <1>3 DEF SameWindow, UiFields
  <1> HIDE DEF b
  <1>4. /\ DOMAIN z = UiFields /\ SameWindow(x, z) /\ z.bubbles = x.bubbles /\ z.events = x.events
        /\ z.text = x.text /\ z.bub = {f} /\ z.latest = x.latest /\ z.active = TRUE
        /\ z.pos = LastPos(b) /\ z.failed = x.failed
    BY <1>10 DEF AtBottom, SameWindow, UiFields
  <1> HIDE DEF z
  <1>5. Core(H, C, y) /\ LatestBut(H, y, {})
    BY <1>3 DEF Widget, Shape, Core, LatestBut
  <1>6. Core(H, C, z)
    BY <1>2, <1>4 DEF Widget, Shape, Core
  <1>7. LatestBut(H, z, {})
    <2>1. \A k \in 1..n : x.bubbles[k] \in x.latest => k = 1
      BY <1>1 DEF Distinct
    <2>2. n = 2 => x.bubbles[2] # f
      BY <1>1, <1>2 DEF Distinct
    <2>3. /\ \A g, h \in x.latest : g = h
          /\ \A k \in 1..n : x.bubbles[k] \in x.latest =>
              /\ k >= n - 1
              /\ k < n => x.bubbles[k] \in Range(H) /\ x.text[x.bubbles[n]] = Nothing
      BY <1>1 DEF Widget, Shape, LatestBut
    <2>4. \A k \in 1..n : x.bubbles[k] \in x.latest /\ k < n => x.bubbles[n] # f
      BY <1>1, <2>1, <2>2
    <2> QED
      BY <1>1, <1>4, <2>3, <2>4 DEF LatestBut
  <1>11. x.failed \subseteq {"top"} /\ (n = 2 => x.text[x.bubbles[2]] = Nothing)
    BY <1>1 DEF Widget, Shape, LatestBut, DrawnBut
  <1>12. n = 2 => x.bubbles[2] \notin x.latest
    BY <1>1 DEF Distinct
  <1>13. \A g \in Range(x.bubbles) : g = f \/ x.text[g] = Nothing
    BY <1>1, <1>2, <1>11 DEF Range
  <1>14. x.bubbles[n] \in x.latest <=> n = 1
    BY <1>1, <1>12
  <1>15. ASSUME x.text[f] = Nothing
         PROVE  DrawnBut(y, {}) /\ Scrolled(y)
    <2>1. Height(y) \in Nat
      BY <1>5, RowsAre
    <2> QED
      BY <1>1, <1>3, <1>11, <1>13, <1>14, <1>15, <2>1 DEF DrawnBut, Scrolled
  <1>16. DrawnBut(z, {})
    BY <1>1, <1>4, <1>11, <1>13, <1>14 DEF DrawnBut
  <1>17. Scrolled(z)
    <2>1. Core(H, C, b)
      BY <1>2, <1>10 DEF Widget, Shape, Core
    <2>2. LastPos(b) \in Nat /\ LastPos(b) <= Height(b)
      BY <2>1, LastPosIs
    <2>3. Height(z) = Height(b)
      BY <1>4, <1>10 DEF Height, Rows
    <2> QED
      BY <1>4, <2>2, <2>3 DEF Scrolled
  <1>8. OpenConvo(x) = IF x.text[f] = Nothing THEN y ELSE UpdateScroll(z)
    BY DEF OpenConvo, y, z, b, f
  <1>9. Goes(H, C, z, UpdateScroll(z))
    <2>1. Goes(H, C, z, z)
      BY <1>6, <1>7, <1>16, <1>17 DEF Goes, Widget, Shape, SameWindow
    <2>2. z.active
      BY <1>4
    <2> QED
      BY <2>1, <2>2, GoesUpdateScroll
  <1> QED
    <2>1. CASE x.text[f] = Nothing
      BY <1>3, <1>5, <1>8, <1>15, <2>1 DEF Widget, Shape
    <2>2. CASE x.text[f] # Nothing
      BY <1>4, <1>8, <1>9, <2>2 DEF Goes, SameWindow
    <2> QED
      BY <2>1, <2>2

Stopped(x) == x.bubbles = <<>> \/ Head(x.bubbles) \in x.latest

LEMMA GoesLetGoEarlier ==
    ASSUME NEW H, NEW C, NEW x0, NEW x, Goes(H, C, x0, x), ~IsOpen(x)
    PROVE  LET y == LetGoEarlier(x)
           IN  /\ Goes(H, C, x0, y)
               /\ Stopped(x) => y = x
               /\ ~Stopped(x) => Len(y.bubbles) = Len(x.bubbles) - 1
  <1>1. CASE Stopped(x)
    BY <1>1 DEF LetGoEarlier, Stopped
  <1>2. CASE ~Stopped(x)
    <2> DEFINE y == LetGo(x, Head(x.bubbles), "top")
    <2>1. LetGoEarlier(x) = y /\ x.bubbles # <<>>
      BY <1>2 DEF LetGoEarlier, Stopped
    <2>2. Core(H, C, x)
      BY DEF Goes, Widget, Shape
    <2>3. Head(x.bubbles) = x.bubbles[EndOf(x.bubbles, "top")]
      BY <2>1, <2>2, EndBubbles
    <2>4. Goes(H, C, x0, y)
      BY <2>1, <2>3, GoesLetGo DEF Sides, IsOpen
    <2>5. y.bubbles = RemoveAt(x.bubbles, EndOf(x.bubbles, "top"))
      BY <2>1, <2>2, <2>3, LetGoIs DEF Sides, Shorter
    <2> HIDE DEF y
    <2>6. EndOf(x.bubbles, "top") \in 1..Len(x.bubbles) /\ x.bubbles \in Seq(Futures)
      BY <2>1, <2>2, CoreTypes, EndIsPlace DEF Sides
    <2>7. Len(y.bubbles) = Len(x.bubbles) - 1
      BY <2>5, <2>6, RemovedIs
    <2> QED
      BY <1>2, <2>1, <2>4, <2>7
  <1> QED
    BY <1>1, <1>2

LEMMA GoesLetGoAboveLatest ==
    ASSUME NEW H, NEW C, NEW x, Widget(H, C, x), ~IsOpen(x)
    PROVE  Goes(H, C, x, LetGoAboveLatest(x)) /\ Stopped(LetGoAboveLatest(x))
  <1>1. PICK N \in Nat : N = Len(x.bubbles)
    BY CoreTypes DEF Widget, Shape
  <1>2. PICK g : /\ g[0] = x /\ \A n \in 1..N : g[n] = LetGoEarlier(g[n - 1])
                 /\ LetGoAboveLatest(x) = g[N]
    BY <1>1, LetGoRuns
  <1> DEFINE S == {n \in 0..N : Goes(H, C, x, g[n]) /\ (Stopped(g[n]) \/ Len(g[n].bubbles) = N - n)}
  <1>3. 0 \in S
    BY <1>1, <1>2 DEF Goes, SameWindow
  <1>4. \A n \in 1..N : n - 1 \in S => n \in S
    <2> SUFFICES ASSUME NEW n \in 1..N, n - 1 \in S
                 PROVE  n \in S
      OBVIOUS
    <2>1. g[n] = LetGoEarlier(g[n - 1]) /\ Goes(H, C, x, g[n - 1])
      BY <1>2
    <2>5. ~IsOpen(g[n - 1])
      BY <2>1 DEF Goes, IsOpen
    <2>2. Goes(H, C, x, g[n])
      BY <2>1, <2>5, GoesLetGoEarlier
    <2>3. CASE Stopped(g[n - 1])
      <3>1. g[n] = g[n - 1]
        BY <2>1, <2>3, <2>5, GoesLetGoEarlier
      <3> QED
        BY <2>2, <2>3, <3>1
    <2>4. CASE ~Stopped(g[n - 1])
      <3>1. Len(g[n].bubbles) = Len(g[n - 1].bubbles) - 1
        BY <2>1, <2>4, <2>5, GoesLetGoEarlier
      <3>2. Len(g[n - 1].bubbles) = N - (n - 1)
        BY <2>4
      <3>3. N - (n - 1) - 1 = N - n
        OBVIOUS
      <3> QED
        BY <2>2, <3>1, <3>2, <3>3
    <2> QED
      BY <2>3, <2>4
  <1> HIDE DEF S
  <1>5. 0..N \subseteq S
    BY <1>3, <1>4, AllUpTo
  <1>6. N \in S
    BY <1>5
  <1>7. Goes(H, C, x, g[N]) /\ (Stopped(g[N]) \/ Len(g[N].bubbles) = N - N)
    BY <1>6 DEF S
  <1>8. Len(g[N].bubbles) = 0 => g[N].bubbles = <<>>
    <2>1. g[N].bubbles \in Seq(Futures)
      BY <1>7, CoreTypes DEF Goes, Widget, Shape
    <2> QED
      BY <2>1, EmptySeq
  <1> QED
    BY <1>2, <1>7, <1>8 DEF Stopped

(* convo_back_btn_clicked_cb(): what is above the latest text goes.        *)
LEMMA BackKeeps ==
    ASSUME FuturesAreUnlimited, NEW H, NEW C, NEW x, Widget(H, C, x)
    PROVE  Widget(H, C, Back(x)) /\ SameWindow(x, Back(x)) /\ Rest(Back(x))
  <1> DEFINE a == [x EXCEPT !.active = FALSE, !.pos = 0]
             y == LetGoAboveLatest(a)
             z == [y EXCEPT !.bub = @ \ {Head(y.bubbles)}]
  <1>1. /\ DOMAIN a = UiFields /\ SameWindow(x, a) /\ a.bubbles = x.bubbles /\ a.events = x.events
        /\ a.text = x.text /\ a.bub = x.bub /\ a.latest = x.latest /\ a.active = FALSE
        /\ a.failed = x.failed
    BY DEF Widget, Shape, Core, SameWindow, UiFields
  <1>2. Back(x) = IF y.bubbles = <<>> THEN FirstFuture(y, Fresh(y)) ELSE z
    BY DEF Back
  <1> HIDE DEF a
  <1>3. Widget(H, C, a)
    BY <1>1 DEF Widget, Shape, Core, LatestBut, DrawnBut, Scrolled
  <1>4. Goes(H, C, a, y) /\ Stopped(y)
    BY <1>1, <1>3, GoesLetGoAboveLatest DEF IsOpen
  <1> HIDE DEF y
  <1>5. /\ Core(H, C, y) /\ y.active = FALSE /\ SameWindow(x, y)
        /\ y.failed \subseteq {"top"}
    BY <1>1, <1>4 DEF Goes, Widget, Shape, DrawnBut, SameWindow
  <1>6. CASE y.bubbles = <<>>
    <2>1. LET f == FirstFuture(y, Fresh(y)) IN Goes(H, C, y, f) /\ Rest(f)
      BY <1>5, <1>6, FirstFutureKeeps
    <2> QED
      BY <1>2, <1>5, <1>6, <2>1 DEF Goes, SameWindow
  <1>7. CASE y.bubbles # <<>>
    <2>1. /\ DOMAIN z = UiFields /\ SameWindow(x, z) /\ z.bubbles = y.bubbles /\ z.events = y.events
          /\ z.text = y.text /\ z.bub = y.bub \ {Head(y.bubbles)} /\ z.latest = y.latest
          /\ z.active = FALSE /\ z.failed = y.failed
      BY <1>5 DEF Core, SameWindow, UiFields
    <2> HIDE DEF z
    <2>2. PICK n \in Nat : /\ n = Len(y.bubbles) /\ n # 0 /\ Head(y.bubbles) = y.bubbles[1]
                           /\ DOMAIN y.bubbles = 1..n /\ Distinct(y.bubbles)
      BY <1>5, <1>7, EndBubbles, CoreTypes
    <2>3. y.bubbles[1] \in y.latest /\ 1 \in 1..n
      BY <1>4, <1>7, <2>2 DEF Stopped
    <2>4. /\ \A g, h \in y.latest : g = h
          /\ \A k \in 1..n : y.bubbles[k] \in y.latest =>
              /\ k >= n - 1
              /\ k < n => /\ y.bubbles[n] \notin y.bub /\ y.bubbles[k] \in Range(H)
                          /\ y.text[y.bubbles[n]] = Nothing
      BY <1>4, <2>2 DEF Goes, Widget, Shape, LatestBut
    <2>5. n = 1 \/ n = 2
      <3>1. 1 >= n - 1
        BY <2>3, <2>4
      <3>2. n # 0
        BY <2>2
      <3> QED
        BY <3>1, <3>2
    <2>6. y.latest = {y.bubbles[1]}
      BY <2>3, <2>4
    <2>7. z.bub = {}
      <3>1. y.bub \subseteq {y.bubbles[1]}
        <4> SUFFICES ASSUME NEW k \in 1..n, y.bubbles[k] \in y.bub, k # 1
                     PROVE  FALSE
          BY <1>5, <2>2 DEF Core, Range
        <4>1. k = n /\ n = 2
          BY <2>5
        <4> QED
          BY <2>3, <2>4, <4>1
      <3> QED
        BY <2>1, <2>2, <3>1
    <2>8. Core(H, C, z)
      BY <1>5, <2>1 DEF Core
    <2>9. LatestBut(H, z, {})
      BY <2>1, <2>2, <2>4 DEF LatestBut
    <2>10. Rest(z)
      BY <2>1, <2>2, <2>5, <2>6, <2>7 DEF Rest
    <2> QED
      BY <1>2, <1>5, <1>7, <2>1, <2>8, <2>9, <2>10 DEF Widget, Shape, DrawnBut, Scrolled
  <1> QED
    BY <1>6, <1>7

(* scroll_event_cb().                                                      *)
LEMMA ScrollKeeps ==
    ASSUME FuturesAreUnlimited, NEW H, NEW C, NEW x, Widget(H, C, x), Rest(x), IsOpen(x), NEW d,
           x.pos + d \in 0..LastPos(x)
    PROVE  Widget(H, C, Scroll(x, d)) /\ SameWindow(x, Scroll(x, d)) /\ Rest(Scroll(x, d))
  <1> DEFINE y == [x EXCEPT !.pos = @ + d]
  <1>1. Alike(x, y) /\ y.pos = x.pos + d
    BY DEF Widget, Shape, Core, Alike, SameWindow, UiFields
  <1> HIDE DEF y
  <1>2. Shape(H, C, y) /\ Height(y) = Height(x)
    BY <1>1, ShapeAlike DEF Widget
  <1>3. y.pos \in Nat /\ y.pos <= Height(y)
    <2>1. LastPos(x) \in Nat /\ LastPos(x) <= Height(x) /\ Height(x) \in Nat
      BY LastPosIs, RowsAre DEF Widget, Shape
    <2> QED
      BY <1>1, <1>2, <2>1
  <1>4. Goes(H, C, x, y) /\ y.active
    BY <1>1, <1>2, <1>3 DEF Goes, Widget, Scrolled, Alike, IsOpen
  <1>5. Goes(H, C, x, UpdateScroll(y))
    BY <1>4, GoesUpdateScroll
  <1> QED
    BY <1>5 DEF Scroll, Goes, Rest, IsOpen, y
-----------------------------------------------------------------------------
(* The window: the messages from place t to place b hold the futures H, in *)
(* order, each with its text as C says.  While a new message is moved in   *)
(* there is a hole h among them, a message without a future.               *)

Dirs == {"up", "down"}
Entries == [id : Int, text : BOOLEAN, chunk : Int, fut : Futures \union {Nothing}]
Requests == [chunk : Int, dir : Dirs]

(* The place of a message among those that hold a future, if they are from *)
(* place t on and h holds none.                                            *)
Rank(t, h, i) == i - t + (IF t < h /\ h < i THEN 0 ELSE 1)

(* The messages from t to b hold the futures H, except for the hole h, and *)
(* show what C says of their futures; no other message holds any.          *)
Fits(L, t, b, h, H, C) ==
    /\ L \in Seq(Entries) /\ H \in Seq(Futures) /\ t \in Nat /\ b \in Nat /\ h \in Nat
    /\ \/ t = 0 /\ b = 0 /\ Len(H) = 0
       \/ /\ 1 <= t /\ t <= b /\ b <= Len(L) /\ t # h /\ b # h
          /\ Len(H) = Rank(t, h, b)
    /\ \A i \in 1..Len(L) :
          IF t <= i /\ i <= b /\ i # h
          THEN /\ L[i].fut # Nothing /\ L[i].fut = H[Rank(t, h, i)]
               /\ C[L[i].fut] = Shows(L[i])
          ELSE L[i].fut = Nothing

(* A future tells the message that holds it.                               *)
LEMMA FitsRank ==
    ASSUME NEW L, NEW t, NEW b, NEW h, NEW H, NEW C, Fits(L, t, b, h, H, C), Distinct(H),
           NEW i \in 1..Len(L), L[i].fut # Nothing
    PROVE  /\ L[i].fut \in Range(H) /\ L[i].fut \in Futures /\ t <= i /\ i <= b /\ i # h /\ t # 0
           /\ C[L[i].fut] = Shows(L[i])
           /\ \A j \in 1..Len(L) : L[j].fut = L[i].fut => j = i
  <1>1. t \in Nat /\ b \in Nat /\ h \in Nat /\ Len(L) \in Nat /\ Len(H) \in Nat /\ DOMAIN H = 1..Len(H)
    BY LenProperties DEF Fits
  <1>2. \A j \in 1..Len(L) : L[j].fut # Nothing =>
           t <= j /\ j <= b /\ j # h /\ L[j].fut = H[Rank(t, h, j)] /\ C[L[j].fut] = Shows(L[j])
    BY DEF Fits
  <1>3. 1 <= t /\ t <= b /\ b <= Len(L) /\ t # h /\ b # h /\ Len(H) = Rank(t, h, b)
    BY <1>1, <1>2 DEF Fits
  <1>4. \A j \in 1..Len(L) : L[j].fut # Nothing => Rank(t, h, j) \in 1..Len(H)
    BY <1>1, <1>2, <1>3 DEF Rank
  <1>5. L[i].fut \in Range(H) /\ L[i].fut \in Futures
    <2>1. Rank(t, h, i) \in DOMAIN H
      BY <1>1, <1>4
    <2>2. \A r \in 1..Len(H) : H[r] \in Futures
      BY ElementOfSeq DEF Fits
    <2> QED
      BY <1>2, <1>4, <2>1, <2>2 DEF Range
  <1>6. ASSUME NEW j \in 1..Len(L), L[j].fut = L[i].fut
        PROVE  j = i
    <2>1. Rank(t, h, j) = Rank(t, h, i)
      BY <1>1, <1>2, <1>4, <1>6 DEF Distinct
    <2>2. t <= j /\ j <= b /\ j # h /\ t <= i /\ i <= b /\ i # h
      BY <1>2, <1>6
    <2> QED
      BY <1>1, <1>3, <2>1, <2>2 DEF Rank
  <1> QED
    BY <1>2, <1>3, <1>5, <1>6

(* A message is changed, but not its future.                               *)
LEMMA FitsChange ==
    ASSUME NEW L, NEW t, NEW b, NEW h, NEW H, NEW C, Fits(L, t, b, h, H, C), Distinct(H),
           NEW i \in 1..Len(L), NEW e \in Entries, e.fut = L[i].fut,
           NEW D, \A g \in Futures : g # e.fut => D[g] = C[g],
           e.fut # Nothing => D[e.fut] = Shows(e)
    PROVE  Fits([L EXCEPT ![i] = e], t, b, h, H, D)
  <1> DEFINE M == [L EXCEPT ![i] = e]
  <1>1. M \in Seq(Entries) /\ Len(M) = Len(L)
    BY DEF Fits
  <1>2. \A j \in 1..Len(L) : M[j] = IF j = i THEN e ELSE L[j]
    BY LenProperties DEF Fits
  <1>3. ASSUME NEW j \in 1..Len(L), t <= j /\ j <= b /\ j # h
        PROVE  /\ M[j].fut # Nothing /\ M[j].fut = H[Rank(t, h, j)]
               /\ D[M[j].fut] = Shows(M[j])
    <2>1. L[j].fut # Nothing /\ L[j].fut = H[Rank(t, h, j)] /\ C[L[j].fut] = Shows(L[j])
      BY <1>3 DEF Fits
    <2>2. CASE j = i
      BY <1>2, <2>1, <2>2
    <2>3. CASE j # i
      <3>1. L[j].fut \in Futures /\ L[i].fut # L[j].fut
        BY <2>1, <2>3, FitsRank
      <3> QED
        BY <1>2, <2>1, <2>3, <3>1
    <2> QED
      BY <2>2, <2>3
  <1>4. ASSUME NEW j \in 1..Len(L), ~(t <= j /\ j <= b /\ j # h)
        PROVE  M[j].fut = Nothing
    BY <1>2, <1>4 DEF Fits
  <1> HIDE DEF M
  <1>5. Fits(M, t, b, h, H, D)
    BY <1>1, <1>3, <1>4 DEF Fits
  <1> QED
    BY <1>5 DEF M

LEMMA FitsTypes ==
    ASSUME NEW L, NEW t, NEW b, NEW h, NEW H, NEW C, Fits(L, t, b, h, H, C)
    PROVE  /\ L \in Seq(Entries) /\ H \in Seq(Futures) /\ t \in Nat /\ b \in Nat /\ h \in Nat
           /\ Len(L) \in Nat /\ Len(H) \in Nat /\ b <= Len(L) /\ t <= b
           /\ DOMAIN L = 1..Len(L) /\ DOMAIN H = 1..Len(H)
           /\ \A i \in 1..Len(L) : L[i] \in Entries
           /\ (t = 0) = (b = 0) /\ (t = 0) = (H = <<>>)
  <1>1. L \in Seq(Entries) /\ H \in Seq(Futures) /\ t \in Nat /\ b \in Nat /\ h \in Nat
    BY DEF Fits
  <1>2. Len(L) \in Nat /\ Len(H) \in Nat /\ DOMAIN L = 1..Len(L) /\ DOMAIN H = 1..Len(H)
    BY <1>1, LenProperties
  <1>3. \A i \in 1..Len(L) : L[i] \in Entries
    BY <1>1, ElementOfSeq
  <1>4. b <= Len(L) /\ t <= b /\ (t = 0) = (b = 0) /\ (t = 0) = (Len(H) = 0)
    BY <1>1, <1>2 DEF Fits, Rank
  <1>5. (H = <<>>) = (Len(H) = 0)
    BY <1>1, EmptySeq
  <1> QED
    BY <1>1, <1>2, <1>3, <1>4, <1>5

(* A hole that is not between the futures is none.                         *)
LEMMA FitsOutside ==
    ASSUME NEW L, NEW t, NEW b, NEW h, NEW H, NEW C, Fits(L, t, b, h, H, C),
           NEW k \in Nat, h < t \/ b < h, k < t \/ b < k
    PROVE  Fits(L, t, b, k, H, C)
  <1>1. t \in Nat /\ b \in Nat /\ h \in Nat /\ Len(L) \in Nat /\ Len(H) \in Nat /\ t <= b
    BY FitsTypes
  <1>2. \A i \in t..b : Rank(t, h, i) = Rank(t, k, i)
    BY <1>1 DEF Rank
  <1>3. \A i \in 1..Len(L) : (t <= i /\ i <= b /\ i # h) = (t <= i /\ i <= b /\ i # k)
    BY <1>1
  <1> QED
    BY <1>1, <1>2, <1>3 DEF Fits

(* What a sequence is once an element was put between two.                 *)
LEMMA InsertedIs ==
    ASSUME NEW S, NEW s \in Seq(S), NEW k \in 1..Len(s) + 1, NEW e \in S
    PROVE  /\ InsertAt(s, k, e) \in Seq(S) /\ Len(InsertAt(s, k, e)) = Len(s) + 1
           /\ \A j \in 1..Len(s) + 1 :
                 InsertAt(s, k, e)[j] = IF j < k THEN s[j] ELSE IF j = k THEN e ELSE s[j - 1]
  <1> DEFINE A == SubSeq(s, 1, k - 1)
             B == SubSeq(s, k, Len(s))
             E == <<e>>
             F == A \o E
             G == F \o B
  <1>1. PICK n \in Nat : n = Len(s)
    BY LenProperties
  <1>2. \A i \in 1..n : s[i] \in S
    BY <1>1, ElementOfSeq
  <1>3. A \in Seq(S) /\ Len(A) = k - 1 /\ \A i \in 1..k - 1 : A[i] = s[i]
    <2>1. 1 \in Int /\ k - 1 \in Int /\ \A i \in 1..k - 1 : s[i] \in S
      BY <1>1, <1>2
    <2>2. /\ A \in Seq(S) /\ Len(A) = IF 1 <= k - 1 THEN k - 1 - 1 + 1 ELSE 0
          /\ \A i \in 1..k - 1 - 1 + 1 : A[i] = s[1 + i - 1]
      BY <2>1, SubSeqProperties
    <2> HIDE DEF A
    <2> QED
      BY <1>1, <2>2
  <1>4. B \in Seq(S) /\ Len(B) = n - k + 1 /\ \A i \in 1..n - k + 1 : B[i] = s[k + i - 1]
    <2>1. n \in Int /\ k \in Int /\ \A i \in k..n : s[i] \in S
      BY <1>1, <1>2
    <2>2. /\ B \in Seq(S) /\ Len(B) = IF k <= n THEN n - k + 1 ELSE 0
          /\ \A i \in 1..n - k + 1 : B[i] = s[k + i - 1]
      BY <1>1, <2>1, SubSeqProperties
    <2> HIDE DEF B
    <2> QED
      BY <1>1, <2>2
  <1>5. E \in Seq(S) /\ Len(E) = 1 /\ E[1] = e
    OBVIOUS
  <1> HIDE DEF A, B, E
  <1>6. F \in Seq(S) /\ Len(F) = k /\ \A i \in 1..k : F[i] = IF i < k THEN s[i] ELSE e
    <2>1. /\ F \in Seq(S) /\ Len(F) = Len(A) + Len(E)
          /\ \A i \in 1..Len(A) + Len(E) : F[i] = IF i <= Len(A) THEN A[i] ELSE E[i - Len(A)]
      BY <1>3, <1>5, ConcatProperties
    <2> HIDE DEF F
    <2> QED
      BY <1>1, <1>3, <1>5, <2>1, SMTT(30)
  <1> HIDE DEF F
  <1>7. G \in Seq(S) /\ Len(G) = n + 1
        /\ \A j \in 1..n + 1 : G[j] = IF j < k THEN s[j] ELSE IF j = k THEN e ELSE s[j - 1]
    <2>1. /\ G \in Seq(S) /\ Len(G) = Len(F) + Len(B)
          /\ \A i \in 1..Len(F) + Len(B) : G[i] = IF i <= Len(F) THEN F[i] ELSE B[i - Len(F)]
      BY <1>4, <1>6, ConcatProperties
    <2> HIDE DEF G
    <2>2. Len(G) = n + 1
      BY <1>1, <1>4, <1>6, <2>1
    <2>3. ASSUME NEW j \in 1..n + 1
          PROVE  G[j] = IF j < k THEN s[j] ELSE IF j = k THEN e ELSE s[j - 1]
      <3>1. CASE j <= k
        BY <1>1, <1>4, <1>6, <2>1, <3>1
      <3>2. CASE j > k
        <4>1. G[j] = B[j - k] /\ j - k \in 1..n - k + 1
          BY <1>1, <1>4, <1>6, <2>1, <3>2
        <4>2. k + (j - k) - 1 = j - 1
          BY <1>1
        <4> QED
          BY <1>1, <1>4, <3>2, <4>1, <4>2
      <3> QED
        BY <1>1, <3>1, <3>2
    <2> QED
      BY <2>1, <2>2, <2>3
  <1>8. InsertAt(s, k, e) = G
    BY DEF InsertAt, A, B, E, F
  <1> HIDE DEF G
  <1> QED
    BY <1>1, <1>7, <1>8

(* A message without a future comes between two.                           *)
LEMMA FitsInsert ==
    ASSUME NEW L, NEW t, NEW b, NEW h, NEW H, NEW C, Fits(L, t, b, 0, H, C),
           NEW k \in 1..Len(L) + 1, NEW e \in Entries, e.fut = Nothing
    PROVE  Fits(InsertAt(L, k, e), IF t >= k THEN t + 1 ELSE t, IF b >= k THEN b + 1 ELSE b,
                k, H, C)
  <1> DEFINE M == InsertAt(L, k, e)
             u == IF t >= k THEN t + 1 ELSE t
             c == IF b >= k THEN b + 1 ELSE b
  <1>0. L \in Seq(Entries) /\ Len(L) \in Nat /\ DOMAIN L = 1..Len(L)
    BY FitsTypes
  <1>1. t \in Nat /\ b \in Nat /\ Len(L) \in Nat /\ Len(H) \in Nat /\ t <= b /\ b <= Len(L)
    BY FitsTypes
  <1>2. M \in Seq(Entries) /\ Len(M) = Len(L) + 1
    BY <1>0, InsertedIs
  <1>3. \A j \in 1..Len(L) + 1 : M[j] = IF j < k THEN L[j] ELSE IF j = k THEN e ELSE L[j - 1]
    BY <1>0, InsertedIs
  <1>4. \A i \in 1..Len(L) :
           IF t <= i /\ i <= b
           THEN L[i].fut # Nothing /\ L[i].fut = H[i - t + 1] /\ C[L[i].fut] = Shows(L[i])
           ELSE L[i].fut = Nothing
    BY <1>1 DEF Fits, Rank
  <1>5. \/ t = 0 /\ b = 0 /\ Len(H) = 0
        \/ 1 <= t /\ t <= b /\ b <= Len(L) /\ Len(H) = b - t + 1
    BY <1>1 DEF Fits, Rank
  <1>6. H \in Seq(Futures)
    BY FitsTypes
  <1> HIDE DEF M
  <1>7. ASSUME NEW j \in 1..Len(L) + 1
        PROVE  IF u <= j /\ j <= c /\ j # k
               THEN M[j].fut # Nothing /\ M[j].fut = H[Rank(u, k, j)] /\ C[M[j].fut] = Shows(M[j])
               ELSE M[j].fut = Nothing
    <2>1. CASE j < k
      <3>1. M[j] = L[j] /\ j \in 1..Len(L)
        BY <1>3, <2>1, <1>1
      <3>2. (u <= j /\ j <= c /\ j # k) = (t <= j /\ j <= b)
        BY <1>1, <2>1
      <3>3. t <= j /\ j <= b => Rank(u, k, j) = j - t + 1
        BY <1>1, <2>1 DEF Rank
      <3> QED
        BY <1>4, <3>1, <3>2, <3>3
    <2>2. CASE j = k
      BY <1>3, <2>2
    <2>3. CASE j > k
      <3>1. M[j] = L[j - 1] /\ j - 1 \in 1..Len(L)
        BY <1>3, <2>3, <1>1
      <3>2. (u <= j /\ j <= c /\ j # k) = (t <= j - 1 /\ j - 1 <= b)
        BY <1>1, <2>3, <1>5
      <3>3. t <= j - 1 /\ j - 1 <= b => Rank(u, k, j) = j - 1 - t + 1
        BY <1>1, <2>3 DEF Rank
      <3> QED
        BY <1>4, <3>1, <3>2, <3>3
    <2> QED
      BY <2>1, <2>2, <2>3, <1>1
  <1>8. u \in Nat /\ c \in Nat /\ k \in Nat
    BY <1>1
  <1>9. \/ u = 0 /\ c = 0 /\ Len(H) = 0
        \/ 1 <= u /\ u <= c /\ c <= Len(M) /\ u # k /\ c # k /\ Len(H) = Rank(u, k, c)
    BY <1>1, <1>2, <1>5 DEF Rank
  <1>10. Fits(M, u, c, k, H, C)
    <2> HIDE DEF u, c
    <2> QED
      BY <1>2, <1>6, <1>7, <1>8, <1>9 DEF Fits
  <1> QED
    BY <1>10 DEF M

(* A future moves into the hole next to it.                                *)
Moving(L, t, b, k, H, C, d, f, D) ==
    /\ Fits(L, t, b, k, H, C) /\ Distinct(H)
    /\ k \in 1..Len(L) /\ d \in {-1, 1} /\ k + d \in 1..Len(L)
    /\ f = L[k + d].fut /\ f # Nothing
    /\ D[f] = Shows(L[k]) /\ \A g \in Futures : g # f => D[g] = C[g]

(* The hole moves over by one, and the future the other way.               *)
LEMMA FitsMove ==
    ASSUME NEW L, NEW t, NEW b, NEW k, NEW H, NEW C, NEW d, NEW f, NEW D,
           Moving(L, t, b, k, H, C, d, f, D)
    PROVE  Fits([[L EXCEPT ![k].fut = f] EXCEPT ![k + d].fut = Nothing],
                IF t = k + d THEN k ELSE t, IF b = k + d THEN k ELSE b, k + d, H, D)
  <1> DEFINE M == [[L EXCEPT ![k].fut = f] EXCEPT ![k + d].fut = Nothing]
             u == IF t = k + d THEN k ELSE t
             c == IF b = k + d THEN k ELSE b
             m == k + d
  <1>0. /\ Fits(L, t, b, k, H, C) /\ Distinct(H)
        /\ k \in 1..Len(L) /\ d \in {-1, 1} /\ k + d \in 1..Len(L)
        /\ f = L[k + d].fut /\ f # Nothing
        /\ D[f] = Shows(L[k]) /\ \A g \in Futures : g # f => D[g] = C[g]
    BY DEF Moving
  <1> USE <1>0
  <1>1. t \in Nat /\ b \in Nat /\ Len(L) \in Nat /\ Len(H) \in Nat /\ t <= b /\ b <= Len(L) /\ k \in Nat
    BY FitsTypes
  <1>2. L \in Seq(Entries) /\ H \in Seq(Futures) /\ \A i \in 1..Len(L) : L[i] \in Entries
    BY FitsTypes
  <1>3. f \in Futures /\ t <= m /\ m <= b /\ m # k /\ 1 <= t /\ f = H[Rank(t, k, m)]
    <2>1. f \in Futures /\ t <= m /\ m <= b /\ m # k /\ t # 0
      BY FitsRank
    <2>2. f = H[Rank(t, k, m)]
      BY <2>1 DEF Fits
    <2> QED
      BY <1>1, <2>1, <2>2
  <1> DEFINE e1 == [L[k] EXCEPT !.fut = f]
             e2 == [L[m] EXCEPT !.fut = Nothing]
             P == [L EXCEPT ![k] = e1]
  <1>4. /\ e1 \in Entries /\ e1.fut = f /\ Shows(e1) = Shows(L[k])
        /\ e2 \in Entries /\ e2.fut = Nothing /\ Shows(e2) = Shows(L[m])
    BY <1>2, <1>3 DEF Entries, Shows
  <1>5. /\ M \in Seq(Entries) /\ Len(M) = Len(L)
        /\ \A j \in 1..Len(L) : /\ M[j].fut = IF j = k THEN f ELSE IF j = m THEN Nothing ELSE L[j].fut
                                /\ Shows(M[j]) = Shows(L[j])
    <2>1. P[m] = L[m]
      BY <1>2, <1>3
    <2>2. M = [P EXCEPT ![m] = e2] /\ m \in 1..Len(L)
      BY <2>1
    <2> HIDE DEF M, e1, e2, m
    <2>3. P \in Seq(Entries) /\ Len(P) = Len(L)
          /\ \A j \in 1..Len(L) : P[j] = IF j = k THEN e1 ELSE L[j]
      BY <1>2, <1>4, LenProperties
    <2> HIDE DEF P
    <2>4. [P EXCEPT ![m] = e2] \in Seq(Entries) /\ Len([P EXCEPT ![m] = e2]) = Len(L)
          /\ \A j \in 1..Len(L) : [P EXCEPT ![m] = e2][j] = IF j = m THEN e2 ELSE P[j]
      BY <1>2, <1>4, <2>2, <2>3, LenProperties
    <2> QED
      BY <1>3, <1>4, <2>2, <2>3, <2>4
  <1>6. 1 <= t /\ t <= b /\ b <= Len(L) /\ t # k /\ b # k /\ Len(H) = Rank(t, k, b)
    BY <1>1, <1>3 DEF Fits
  <1>7. \A i \in 1..Len(L) :
           IF t <= i /\ i <= b /\ i # k
           THEN L[i].fut # Nothing /\ L[i].fut = H[Rank(t, k, i)] /\ C[L[i].fut] = Shows(L[i])
           ELSE L[i].fut = Nothing
    BY DEF Fits
  <1> HIDE DEF M
  <1>8. ASSUME NEW j \in 1..Len(L)
        PROVE  IF u <= j /\ j <= c /\ j # m
               THEN M[j].fut # Nothing /\ M[j].fut = H[Rank(u, m, j)] /\ D[M[j].fut] = Shows(M[j])
               ELSE M[j].fut = Nothing
    <2>1. CASE j = k
      <3>1. u <= j /\ j <= c /\ j # m /\ Rank(u, m, j) = Rank(t, k, m)
        <4>1. CASE d = 1
          BY <1>1, <1>3, <1>6, <2>1, <4>1, SMTT(30) DEF Rank
        <4>2. CASE d = -1
          BY <1>1, <1>3, <1>6, <2>1, <4>2 DEF Rank
        <4> QED
          BY <4>1, <4>2
      <3> QED
        BY <1>3, <1>5, <2>1, <3>1
    <2>2. CASE j = m
      BY <1>3, <1>5, <2>2
    <2>3. CASE j # m /\ j # k
      <3>1. (u <= j /\ j <= c /\ j # m) = (t <= j /\ j <= b /\ j # k)
        BY <1>1, <1>3, <1>6, <2>3
      <3>2. t <= j /\ j <= b => Rank(u, m, j) = Rank(t, k, j)
        <4>1. CASE d = 1
          BY <1>1, <1>3, <1>6, <2>3, <4>1 DEF Rank
        <4>2. CASE d = -1
          BY <1>1, <1>3, <1>6, <2>3, <4>2 DEF Rank
        <4> QED
          BY <4>1, <4>2
      <3>3. L[j].fut # Nothing => L[j].fut \in Futures /\ L[j].fut # f
        <4> SUFFICES ASSUME L[j].fut # Nothing
                     PROVE  L[j].fut \in Futures /\ L[j].fut # f
          OBVIOUS
        <4>1. L[j].fut \in Futures
          BY FitsRank
        <4>2. \A i \in 1..Len(L) : L[i].fut = L[j].fut => i = j
          BY FitsRank
        <4> QED
          BY <2>3, <4>1, <4>2
      <3> HIDE DEF u, c, m
      <3> QED
        BY <1>5, <1>7, <2>3, <3>1, <3>2, <3>3
    <2> QED
      BY <2>1, <2>2, <2>3
  <1>9. u \in Nat /\ c \in Nat /\ m \in Nat /\ 1 <= u /\ u <= c /\ c <= Len(M) /\ u # m /\ c # m
        /\ Len(H) = Rank(u, m, c)
    <2>1. CASE d = 1
      BY <1>1, <1>3, <1>5, <1>6, <2>1 DEF Rank
    <2>2. CASE d = -1
      BY <1>1, <1>3, <1>5, <1>6, <2>2 DEF Rank
    <2> QED
      BY <2>1, <2>2
  <1>10. Fits(M, u, c, m, H, D)
    <2> HIDE DEF u, c, m
    <2> QED
      BY <1>2, <1>5, <1>8, <1>9 DEF Fits
  <1> QED
    BY <1>10 DEF M

LEMMA EndsAreInserted ==
    ASSUME NEW S, NEW s \in Seq(S), NEW e \in S
    PROVE  <<e>> \o s = InsertAt(s, 1, e) /\ Append(s, e) = InsertAt(s, Len(s) + 1, e)
  <1>1. PICK n \in Nat : n = Len(s)
    BY LenProperties
  <1>2. 1 \in 1..Len(s) + 1 /\ Len(s) + 1 \in 1..Len(s) + 1
    BY <1>1
  <1>3. <<e>> \o s \in Seq(S) /\ Len(<<e>> \o s) = n + 1
        /\ \A i \in 1..n + 1 : (<<e>> \o s)[i] = IF i = 1 THEN e ELSE s[i - 1]
    BY <1>1, ConsIs
  <1>4. Append(s, e) \in Seq(S) /\ Len(Append(s, e)) = n + 1
        /\ \A i \in 1..n + 1 : Append(s, e)[i] = IF i = n + 1 THEN e ELSE s[i]
    BY <1>1, SnocIs
  <1>5. InsertAt(s, 1, e) \in Seq(S) /\ Len(InsertAt(s, 1, e)) = n + 1
        /\ \A j \in 1..n + 1 : InsertAt(s, 1, e)[j] = IF j < 1 THEN s[j] ELSE IF j = 1 THEN e ELSE s[j - 1]
    <2>1. InsertAt(s, 1, e) \in Seq(S) /\ Len(InsertAt(s, 1, e)) = Len(s) + 1
          /\ \A j \in 1..Len(s) + 1 :
                InsertAt(s, 1, e)[j] = IF j < 1 THEN s[j] ELSE IF j = 1 THEN e ELSE s[j - 1]
      BY ONLY s \in Seq(S), e \in S, <1>2, InsertedIs
    <2> QED
      BY <1>1, <2>1
  <1>6. InsertAt(s, n + 1, e) \in Seq(S) /\ Len(InsertAt(s, n + 1, e)) = n + 1
        /\ \A j \in 1..n + 1 : InsertAt(s, n + 1, e)[j] =
              IF j < n + 1 THEN s[j] ELSE IF j = n + 1 THEN e ELSE s[j - 1]
    <2> DEFINE k == Len(s) + 1
    <2>0. k \in 1..Len(s) + 1 /\ k = n + 1
      BY <1>1
    <2> HIDE DEF k
    <2>1. InsertAt(s, k, e) \in Seq(S) /\ Len(InsertAt(s, k, e)) = Len(s) + 1
          /\ \A j \in 1..Len(s) + 1 :
                InsertAt(s, k, e)[j] = IF j < k THEN s[j] ELSE IF j = k THEN e ELSE s[j - 1]
      BY ONLY s \in Seq(S), e \in S, <2>0, InsertedIs
    <2> QED
      BY <1>1, <2>0, <2>1
  <1> DEFINE A == <<e>> \o s
             B == Append(s, e)
             F == InsertAt(s, 1, e)
             G == InsertAt(s, n + 1, e)
  <1> HIDE DEF A, B, F, G
  <1>7. A = F
    <2>1. \A i \in 1..Len(A) : A[i] = F[i]
      BY <1>3, <1>5 DEF A, F
    <2>2. A \in Seq(S) /\ F \in Seq(S) /\ Len(A) = Len(F)
      BY <1>3, <1>5 DEF A, F
    <2> QED
      BY <2>1, <2>2, SeqEqual
  <1>8. B = G
    <2>1. \A i \in 1..Len(B) : B[i] = G[i]
      BY <1>4, <1>6 DEF B, G
    <2>2. B \in Seq(S) /\ G \in Seq(S) /\ Len(B) = Len(G)
      BY <1>4, <1>6 DEF B, G
    <2> QED
      BY <2>1, <2>2, SeqEqual
  <1> QED
    BY <1>1, <1>7, <1>8 DEF A, B, F, G

LEMMA AddsAtTop ==
    ASSUME NEW S, NEW s, NEW t \in Seq(S), NEW f, Adds(s, f, "top", t)
    PROVE  /\ s \in Seq(S) /\ f \in S /\ Len(t) = Len(s) + 1 /\ Len(s) \in Nat
           /\ t[1] = f /\ \A i \in 1..Len(s) : t[i + 1] = s[i]
  <1>1. "top" \in Sides
    BY DEF Sides
  <1>2. s \in Seq(S) /\ f \in S /\ Len(t) = Len(s) + 1 /\ Len(s) \in Nat
    BY <1>1, AddsIs
  <1>3. t[1] = f
    BY DEF Adds, EndOf
  <1>4. \A i \in 1..Len(s) : t[i + 1] = s[i]
    <2>1. s = RemoveAt(t, 1) /\ 1 \in 1..Len(t)
      BY <1>2 DEF Adds, EndOf
    <2>2. \A i \in 1..Len(t) - 1 : RemoveAt(t, 1)[i] = IF i < 1 THEN t[i] ELSE t[i + 1]
      BY <2>1, RemovedIs
    <2> QED
      BY <1>2, <2>1, <2>2
  <1> QED
    BY <1>2, <1>3, <1>4

LEMMA AddsAtBottom ==
    ASSUME NEW S, NEW s, NEW t \in Seq(S), NEW f, Adds(s, f, "bottom", t)
    PROVE  /\ s \in Seq(S) /\ f \in S /\ Len(t) = Len(s) + 1 /\ Len(s) \in Nat
           /\ t[Len(t)] = f /\ \A i \in 1..Len(s) : t[i] = s[i]
  <1>1. "bottom" \in Sides
    BY DEF Sides
  <1>2. s \in Seq(S) /\ f \in S /\ Len(t) = Len(s) + 1 /\ Len(s) \in Nat
    BY <1>1, AddsIs
  <1>3. t[Len(t)] = f
    BY DEF Adds, EndOf
  <1>4. \A i \in 1..Len(s) : t[i] = s[i]
    <2>1. s = RemoveAt(t, Len(t)) /\ Len(t) \in 1..Len(t)
      BY <1>2 DEF Adds, EndOf
    <2>2. \A i \in 1..Len(t) - 1 : RemoveAt(t, Len(t))[i] = IF i < Len(t) THEN t[i] ELSE t[i + 1]
      BY <2>1, RemovedIs
    <2> QED
      BY <1>2, <2>1, <2>2
  <1> QED
    BY <1>2, <1>3, <1>4

(* A message that holds no future comes above or below all others.         *)
LEMMA FitsMore ==
    ASSUME NEW L, NEW t, NEW b, NEW H, NEW C, Fits(L, t, b, 0, H, C),
           NEW e \in Entries, e.fut = Nothing
    PROVE  /\ Fits(<<e>> \o L, IF t = 0 THEN 0 ELSE t + 1, IF b = 0 THEN 0 ELSE b + 1, 0, H, C)
           /\ Fits(Append(L, e), t, b, 0, H, C)
  <1>1. L \in Seq(Entries) /\ Len(L) \in Nat /\ t \in Nat /\ b \in Nat /\ t <= b /\ b <= Len(L)
        /\ (t = 0) = (b = 0)
    BY FitsTypes
  <1>2. <<e>> \o L = InsertAt(L, 1, e) /\ Append(L, e) = InsertAt(L, Len(L) + 1, e)
    BY <1>1, EndsAreInserted
  <1>3. Fits(<<e>> \o L, IF t >= 1 THEN t + 1 ELSE t, IF b >= 1 THEN b + 1 ELSE b, 1, H, C)
    <2>1. 1 \in 1..Len(L) + 1
      BY <1>1
    <2> QED
      BY <1>2, <2>1, FitsInsert
  <1>4. Fits(Append(L, e), t, b, Len(L) + 1, H, C)
    <2>1. Len(L) + 1 \in 1..Len(L) + 1 /\ ~(t >= Len(L) + 1) /\ ~(b >= Len(L) + 1)
      BY <1>1
    <2>2. Fits(InsertAt(L, Len(L) + 1, e), IF t >= Len(L) + 1 THEN t + 1 ELSE t,
               IF b >= Len(L) + 1 THEN b + 1 ELSE b, Len(L) + 1, H, C)
      BY <2>1, FitsInsert
    <2> QED
      BY <1>2, <2>1, <2>2
  <1> DEFINE u == IF t = 0 THEN 0 ELSE t + 1
             c == IF b = 0 THEN 0 ELSE b + 1
  <1>5. u = (IF t >= 1 THEN t + 1 ELSE t) /\ c = (IF b >= 1 THEN b + 1 ELSE b)
    BY <1>1
  <1>6. 1 < u \/ c < 1
    BY <1>1
  <1>7. 0 < u \/ c < 0 \/ (u = 0 /\ c = 0)
    BY <1>1
  <1> HIDE DEF u, c
  <1>8. Fits(<<e>> \o L, u, c, 1, H, C)
    BY <1>3, <1>5
  <1>9. Fits(<<e>> \o L, u, c, 0, H, C)
    <2>1. CASE 0 < u \/ c < 0
      BY <1>6, <1>8, <2>1, FitsOutside
    <2>2. CASE u = 0 /\ c = 0
      BY <1>8, <2>2, ConcatProperties, LenProperties DEF Fits
    <2> QED
      BY <1>7, <2>1, <2>2
  <1>10. Fits(Append(L, e), t, b, 0, H, C)
    <2>1. CASE t = 0
      BY <1>1, <1>4, <2>1, LenProperties DEF Fits
    <2>2. CASE t # 0
      <3>1. b < Len(L) + 1 /\ 0 < t
        BY <1>1, <2>2
      <3> QED
        BY <1>4, <3>1, FitsOutside
    <2> QED
      BY <2>1, <2>2
  <1> QED
    BY <1>9, <1>10 DEF u, c

(* A message next to those that hold futures gets one.                     *)
LEMMA FitsLend ==
    ASSUME NEW L, NEW t, NEW b, NEW H, NEW C, Fits(L, t, b, 0, H, C),
           NEW k \in 1..Len(L), NEW f \in Futures, f # Nothing, f \notin Range(H),
           NEW side \in Sides,
           t = 0 \/ (side = "top" /\ k = t - 1) \/ (side = "bottom" /\ k = b + 1),
           NEW u \in Seq(Futures), Adds(H, f, side, u),
           NEW D, D[f] = Shows(L[k]), \A g \in Futures : g # f => D[g] = C[g]
    PROVE  Fits([L EXCEPT ![k].fut = f], IF t = 0 \/ side = "top" THEN k ELSE t,
                IF b = 0 \/ side = "bottom" THEN k ELSE b, 0, u, D)
  <1> DEFINE e == [L[k] EXCEPT !.fut = f]
             M == [L EXCEPT ![k] = e]
             v == IF t = 0 \/ side = "top" THEN k ELSE t
             c == IF b = 0 \/ side = "bottom" THEN k ELSE b
  <1>1. /\ L \in Seq(Entries) /\ H \in Seq(Futures) /\ Len(L) \in Nat /\ t \in Nat /\ b \in Nat /\ t <= b /\ b <= Len(L)
        /\ (t = 0) = (b = 0) /\ Len(H) \in Nat /\ DOMAIN H = 1..Len(H)
        /\ \A i \in 1..Len(L) : L[i] \in Entries
    BY FitsTypes
  <1>2. e \in Entries /\ e.fut = f /\ Shows(e) = Shows(L[k])
    BY <1>1 DEF Entries, Shows
  <1>3. [L EXCEPT ![k].fut = f] = M
    OBVIOUS
  <1> HIDE DEF e
  <1>4. M \in Seq(Entries) /\ Len(M) = Len(L) /\ \A j \in 1..Len(L) : M[j] = IF j = k THEN e ELSE L[j]
    BY <1>1, <1>2, LenProperties
  <1> HIDE DEF M
  <1>5. /\ Len(u) = Len(H) + 1
        /\ side = "top" => u[1] = f /\ \A i \in 1..Len(H) : u[i + 1] = H[i]
        /\ side = "bottom" => u[Len(u)] = f /\ \A i \in 1..Len(H) : u[i] = H[i]
    <2>1. Len(u) = Len(H) + 1
      BY AddsIs
    <2>2. ASSUME side = "top"
          PROVE  u[1] = f /\ \A i \in 1..Len(H) : u[i + 1] = H[i]
      <3>1. u[1] = f
        BY <2>2 DEF Adds, EndOf
      <3>2. \A i \in 1..Len(H) : u[i + 1] = H[i]
        BY <1>1, <2>2, AddsAtTop
      <3> QED
        BY <3>1, <3>2
    <2>3. ASSUME side = "bottom"
          PROVE  u[Len(u)] = f /\ \A i \in 1..Len(H) : u[i] = H[i]
      <3>1. u[Len(u)] = f
        BY <2>3 DEF Adds, EndOf
      <3>2. \A i \in 1..Len(H) : u[i] = H[i]
        BY <1>1, <2>3, AddsAtBottom
      <3> QED
        BY <3>1, <3>2
    <2> QED
      BY <2>1, <2>2, <2>3
  <1>6. \/ t = 0 /\ b = 0 /\ Len(H) = 0
        \/ 1 <= t /\ t <= b /\ b <= Len(L) /\ Len(H) = b - t + 1
    BY <1>1 DEF Fits, Rank
  <1>7. \A i \in 1..Len(L) :
           IF t <= i /\ i <= b /\ i # 0
           THEN /\ L[i].fut # Nothing /\ L[i].fut = H[i - t + 1] /\ C[L[i].fut] = Shows(L[i])
                /\ L[i].fut \in Futures /\ L[i].fut # f
           ELSE L[i].fut = Nothing
    <2> SUFFICES ASSUME NEW i \in 1..Len(L)
                 PROVE  IF t <= i /\ i <= b /\ i # 0
                        THEN /\ L[i].fut # Nothing /\ L[i].fut = H[i - t + 1]
                             /\ C[L[i].fut] = Shows(L[i])
                             /\ L[i].fut \in Futures /\ L[i].fut # f
                        ELSE L[i].fut = Nothing
      OBVIOUS
    <2>1. CASE t <= i /\ i <= b /\ i # 0
      <3>1. L[i].fut # Nothing /\ L[i].fut = H[i - t + 1] /\ C[L[i].fut] = Shows(L[i])
        BY <1>1, <2>1 DEF Fits, Rank
      <3>2. i - t + 1 \in 1..Len(H)
        BY <1>1, <1>6, <2>1
      <3>3. L[i].fut \in Range(H)
        BY <1>1, <3>1, <3>2 DEF Range
      <3>4. L[i].fut \in Futures
        BY <1>1, <3>1 DEF Entries
      <3> QED
        BY <2>1, <3>1, <3>3, <3>4
    <2>2. CASE ~(t <= i /\ i <= b /\ i # 0)
      BY <2>2 DEF Fits
    <2> QED
      BY <2>1, <2>2
  <1>8. /\ v \in Nat /\ c \in Nat /\ 1 <= v /\ v <= c /\ c <= Len(L) /\ Len(u) = c - v + 1
    <2>0. Len(u) = Len(H) + 1
      BY <1>5
    <2>1. CASE t = 0
      BY <1>1, <1>6, <2>0, <2>1
    <2>2. CASE t # 0 /\ side = "top"
      <3>1. v = k /\ c = b /\ k = t - 1
        BY <1>1, <2>2
      <3> HIDE DEF v, c
      <3> QED
        BY <1>1, <1>6, <2>0, <2>2, <3>1
    <2>3. CASE t # 0 /\ side = "bottom"
      <3>1. v = t /\ c = k /\ k = b + 1
        BY <1>1, <2>3
      <3>2. t \in Nat /\ b \in Nat /\ k \in Nat /\ 1 <= t /\ t <= b /\ Len(H) = b - t + 1 /\ k <= Len(L)
        BY <1>1, <1>6, <2>3
      <3> HIDE DEF v, c
      <3> QED
        BY ONLY <2>0, <3>1, <3>2
    <2>4. t = 0 \/ (t # 0 /\ side = "top") \/ (t # 0 /\ side = "bottom")
      BY DEF Sides
    <2> HIDE DEF v, c
    <2> QED
      BY <2>1, <2>2, <2>3, <2>4
  <1>9. ASSUME NEW j \in 1..Len(L)
        PROVE  IF v <= j /\ j <= c /\ j # 0
               THEN M[j].fut # Nothing /\ M[j].fut = u[j - v + 1] /\ D[M[j].fut] = Shows(M[j])
               ELSE M[j].fut = Nothing
    <2>1. CASE j = k
      <3>1. v <= j /\ j <= c /\ j # 0
        BY <1>1, <1>6, <2>1 DEF Sides
      <3>2. u[j - v + 1] = f
        <4>1. CASE side = "top"
          BY <1>1, <1>5, <1>6, <2>1, <4>1
        <4>2. CASE side = "bottom"
          <5>1. j - v + 1 = Len(u)
            BY <1>5, <1>6, <1>8, <2>1, <4>2
          <5> QED
            BY <1>5, <4>2, <5>1
        <4> QED
          BY <4>1, <4>2 DEF Sides
      <3> QED
        BY <1>2, <1>4, <2>1, <3>1, <3>2
    <2>2. CASE j # k
      <3>1. (v <= j /\ j <= c /\ j # 0) = (t <= j /\ j <= b /\ j # 0)
        BY <1>1, <1>6, <2>2 DEF Sides
      <3>2. t <= j /\ j <= b => u[j - v + 1] = H[j - t + 1]
        <4> SUFFICES ASSUME t <= j /\ j <= b
                     PROVE  u[j - v + 1] = H[j - t + 1]
          OBVIOUS
        <4>1. j - t + 1 \in 1..Len(H) /\ t # 0
          BY <1>1, <1>6
        <4>2. CASE side = "top"
          <5>1. j - v + 1 = (j - t + 1) + 1
            BY <1>1, <4>1, <4>2
          <5> QED
            BY <1>5, <4>1, <4>2, <5>1
        <4>3. CASE side = "bottom"
          BY <1>5, <4>1, <4>3
        <4> QED
          BY <4>2, <4>3 DEF Sides
      <3>3. M[j] = L[j]
        BY <1>4, <2>2
      <3> HIDE DEF v, c
      <3> QED
        BY <1>7, <3>1, <3>2, <3>3
    <2> QED
      BY <2>1, <2>2
  <1> HIDE DEF v, c
  <1>10. \A j \in 1..Len(L) : v <= j => Rank(v, 0, j) = j - v + 1
    BY <1>8 DEF Rank
  <1>11. Rank(v, 0, c) = c - v + 1
    BY <1>8 DEF Rank
  <1>12. Fits(M, v, c, 0, u, D)
    <2>1. \A j \in 1..Len(M) :
             IF v <= j /\ j <= c /\ j # 0
             THEN /\ M[j].fut # Nothing /\ M[j].fut = u[Rank(v, 0, j)]
                  /\ D[M[j].fut] = Shows(M[j])
             ELSE M[j].fut = Nothing
      BY <1>4, <1>9, <1>10
    <2> QED
      BY <1>1, <1>4, <1>8, <1>11, <2>1 DEF Fits
  <1> QED
    BY <1>3, <1>12 DEF v, c

LEMMA FitsNone ==
    ASSUME NEW C
    PROVE  Fits(<<>>, 0, 0, 0, <<>>, C)
  <1>1. <<>> \in Seq(Entries) /\ <<>> \in Seq(Futures) /\ Len(<<>>) = 0
    OBVIOUS
  <1> QED
    BY <1>1 DEF Fits

(* What the entries are, when there is no hole.                            *)
FitsAll(L, t, b, H, C) ==
    /\ L \in Seq(Entries) /\ H \in Seq(Futures) /\ t \in Nat /\ b \in Nat
    /\ \/ t = 0 /\ b = 0 /\ Len(H) = 0
       \/ 1 <= t /\ t <= b /\ b <= Len(L) /\ Len(H) = b - t + 1
    /\ \A i \in 1..Len(L) :
          IF t <= i /\ i <= b
          THEN L[i].fut # Nothing /\ L[i].fut = H[i - t + 1] /\ C[L[i].fut] = Shows(L[i])
          ELSE L[i].fut = Nothing

LEMMA FitsPlain ==
    ASSUME NEW L, NEW t, NEW b, NEW H, NEW C
    PROVE  Fits(L, t, b, 0, H, C) <=> FitsAll(L, t, b, H, C)
  <1>1. t \in Nat /\ b \in Nat => \A i \in 1..Len(L) : t <= i /\ i <= b /\ i # 0 <=> t <= i /\ i <= b
    OBVIOUS
  <1>2. t \in Nat => \A i : Rank(t, 0, i) = i - t + 1
    BY DEF Rank
  <1>3. ASSUME Fits(L, t, b, 0, H, C) PROVE FitsAll(L, t, b, H, C)
    <2>1. /\ L \in Seq(Entries) /\ H \in Seq(Futures) /\ t \in Nat /\ b \in Nat
          /\ \/ t = 0 /\ b = 0 /\ Len(H) = 0
             \/ 1 <= t /\ t <= b /\ b <= Len(L) /\ Len(H) = Rank(t, 0, b)
      BY <1>3 DEF Fits
    <2>2. \A i \in 1..Len(L) :
             IF t <= i /\ i <= b /\ i # 0
             THEN L[i].fut # Nothing /\ L[i].fut = H[Rank(t, 0, i)] /\ C[L[i].fut] = Shows(L[i])
             ELSE L[i].fut = Nothing
      BY <1>3 DEF Fits
    <2>3. \A i \in 1..Len(L) :
             IF t <= i /\ i <= b
             THEN L[i].fut # Nothing /\ L[i].fut = H[i - t + 1] /\ C[L[i].fut] = Shows(L[i])
             ELSE L[i].fut = Nothing
      BY <1>1, <1>2, <2>1, <2>2
    <2> QED
      BY <1>2, <2>1, <2>3 DEF FitsAll
  <1>4. ASSUME FitsAll(L, t, b, H, C) PROVE Fits(L, t, b, 0, H, C)
    <2>1. /\ L \in Seq(Entries) /\ H \in Seq(Futures) /\ t \in Nat /\ b \in Nat
          /\ \/ t = 0 /\ b = 0 /\ Len(H) = 0
             \/ 1 <= t /\ t <= b /\ b <= Len(L) /\ Len(H) = b - t + 1
      BY <1>4 DEF FitsAll
    <2>2. \A i \in 1..Len(L) :
             IF t <= i /\ i <= b
             THEN L[i].fut # Nothing /\ L[i].fut = H[i - t + 1] /\ C[L[i].fut] = Shows(L[i])
             ELSE L[i].fut = Nothing
      BY <1>4 DEF FitsAll
    <2>3. \A i \in 1..Len(L) :
             IF t <= i /\ i <= b /\ i # 0
             THEN L[i].fut # Nothing /\ L[i].fut = H[Rank(t, 0, i)] /\ C[L[i].fut] = Shows(L[i])
             ELSE L[i].fut = Nothing
      BY <1>1, <1>2, <2>1, <2>2
    <2>4. Len(H) = Rank(t, 0, b) \/ (t = 0 /\ b = 0 /\ Len(H) = 0)
      BY <1>2, <2>1
    <2>5. t # 0 => t # 0 /\ b # 0
      BY <2>1
    <2> QED
      BY <2>1, <2>3, <2>4, <2>5 DEF Fits
  <1> QED
    BY <1>3, <1>4

(* The first message goes, with its future or without one.                 *)
LEMMA FitsUnloadTop ==
    ASSUME NEW L, NEW t, NEW b, NEW H, NEW C, Fits(L, t, b, 0, H, C), Distinct(H),
           NEW u \in Seq(Futures), NEW f, Adds(u, f, "top", H), t # b,
           NEW D, \A g \in Futures : g # f => D[g] = C[g]
    PROVE  Fits(SubSeq(L, t + 1, Len(L)), 1, b - t, 0, u, D)
  <1> DEFINE M == SubSeq(L, t + 1, Len(L))
  <1>1. /\ L \in Seq(Entries) /\ H \in Seq(Futures) /\ Len(L) \in Nat /\ t \in Nat /\ b \in Nat
        /\ t <= b /\ b <= Len(L) /\ (t = 0) = (b = 0) /\ Len(H) \in Nat /\ DOMAIN H = 1..Len(H)
        /\ \A i \in 1..Len(L) : L[i] \in Entries
    BY FitsTypes
  <1>2. t >= 1 /\ t < b
    BY <1>1
  <1>3. M \in Seq(Entries) /\ Len(M) = Len(L) - t /\ \A i \in 1..Len(L) - t : M[i] = L[t + i]
    <2>1. t + 1 \in Int /\ Len(L) \in Int /\ \A i \in t + 1..Len(L) : L[i] \in Entries
      BY <1>1
    <2>2. /\ M \in Seq(Entries)
          /\ Len(M) = IF t + 1 <= Len(L) THEN Len(L) - (t + 1) + 1 ELSE 0
          /\ \A i \in 1..Len(L) - (t + 1) + 1 : M[i] = L[t + 1 + i - 1]
      BY <2>1, SubSeqProperties
    <2> HIDE DEF M
    <2>3. t + 1 <= Len(L) /\ Len(L) - (t + 1) + 1 = Len(L) - t
      BY <1>1, <1>2
    <2>4. \A i \in 1..Len(L) - t : M[i] = L[t + i]
      <3> SUFFICES ASSUME NEW i \in 1..Len(L) - t
                   PROVE  M[i] = L[t + i]
        OBVIOUS
      <3>1. t + 1 + i - 1 = t + i
        BY <1>1
      <3>2. M[i] = L[t + 1 + i - 1]
        BY <2>2, <2>3
      <3> QED
        BY <3>1, <3>2
    <2> QED
      BY <2>2, <2>3, <2>4
  <1> HIDE DEF M
  <1>4. /\ Len(H) = Len(u) + 1 /\ H[1] = f /\ \A i \in 1..Len(u) : H[i + 1] = u[i]
    <2>1. H \in Seq(Futures) /\ u \in Seq(Futures) /\ Adds(u, f, "top", H)
      BY <1>1
    <2>2. Len(H) = Len(u) + 1 /\ H[1] = f
      BY <2>1, AddsAtTop
    <2>3. \A i \in 1..Len(u) : H[i + 1] = u[i]
      BY <2>1, AddsAtTop
    <2> QED
      BY <2>2, <2>3
  <1>5. Len(H) = b - t + 1
    BY <1>1, <1>2 DEF Fits, Rank
  <1>6. \A i \in 1..Len(L) :
           IF t <= i /\ i <= b
           THEN L[i].fut # Nothing /\ L[i].fut = H[i - t + 1] /\ C[L[i].fut] = Shows(L[i])
           ELSE L[i].fut = Nothing
    BY FitsPlain DEF FitsAll
  <1>7. ASSUME NEW j \in 1..Len(M)
        PROVE  IF 1 <= j /\ j <= b - t
               THEN M[j].fut # Nothing /\ M[j].fut = u[j - 1 + 1] /\ D[M[j].fut] = Shows(M[j])
               ELSE M[j].fut = Nothing
    <2>1. M[j] = L[t + j] /\ t + j \in 1..Len(L) /\ t + j - t + 1 = j + 1
      BY <1>1, <1>3
    <2>2. CASE j <= b - t
      <3> DEFINE i == t + j
      <3>1. t <= i /\ i <= b /\ i \in 1..Len(L) /\ i - t + 1 = j + 1 /\ M[j] = L[i]
        <4>1. i \in 1..Len(L) /\ M[j] = L[i]
          BY ONLY <2>1
        <4>2. t \in Nat /\ b \in Nat /\ j \in Nat
          BY <1>1
        <4>3. t <= i /\ i <= b /\ i - t + 1 = j + 1
          BY ONLY <2>2, <4>2
        <4> QED
          BY <4>1, <4>3
      <3> HIDE DEF i
      <3>2. M[j].fut # Nothing /\ M[j].fut = H[j + 1] /\ C[M[j].fut] = Shows(M[j])
        BY <1>6, <3>1
      <3>3. j \in 1..Len(u) /\ j - 1 + 1 = j
        BY <1>1, <1>4, <1>5, <2>2
      <3>4. H[j + 1] = u[j] /\ H[j + 1] # H[1] /\ H[j + 1] \in Futures
        <4>1. j + 1 \in 1..Len(H) /\ 1 \in 1..Len(H) /\ j + 1 # 1
          BY <1>1, <1>4, <3>3
        <4> QED
          BY <1>1, <1>4, <3>3, <4>1, ElementOfSeq DEF Distinct
      <3> QED
        BY <1>4, <2>2, <3>2, <3>3, <3>4
    <2>3. CASE ~(j <= b - t)
      <3>1. ~(t + j <= b)
        BY <1>1, <2>3
      <3> QED
        BY <1>6, <2>1, <2>3, <3>1
    <2> QED
      BY <2>2, <2>3
  <1>8. 1 <= b - t /\ b - t <= Len(M) /\ Len(u) = b - t - 1 + 1 /\ b - t \in Nat
    <2>1. u \in Seq(Futures) /\ Len(u) \in Nat
      BY LenProperties
    <2> QED
      BY <1>1, <1>2, <1>3, <1>4, <1>5, <2>1
  <1>9. Fits(M, 1, b - t, 0, u, D)
    <2>1. FitsAll(M, 1, b - t, u, D)
      BY <1>3, <1>7, <1>8 DEF FitsAll
    <2> QED
      BY <2>1, FitsPlain
  <1> QED
    BY <1>9 DEF M

LEMMA FitsUnloadBottom ==
    ASSUME NEW L, NEW t, NEW b, NEW H, NEW C, Fits(L, t, b, 0, H, C), Distinct(H),
           NEW u \in Seq(Futures), NEW f, Adds(u, f, "bottom", H), t # b,
           NEW D, \A g \in Futures : g # f => D[g] = C[g]
    PROVE  Fits(SubSeq(L, 1, b - 1), t, b - 1, 0, u, D)
  <1> DEFINE M == SubSeq(L, 1, b - 1)
  <1>1. /\ L \in Seq(Entries) /\ H \in Seq(Futures) /\ Len(L) \in Nat /\ t \in Nat /\ b \in Nat
        /\ t <= b /\ b <= Len(L) /\ (t = 0) = (b = 0) /\ Len(H) \in Nat /\ DOMAIN H = 1..Len(H)
        /\ \A i \in 1..Len(L) : L[i] \in Entries
    BY FitsTypes
  <1>2. t >= 1 /\ t < b
    BY <1>1
  <1>3. M \in Seq(Entries) /\ Len(M) = b - 1 /\ \A i \in 1..b - 1 : M[i] = L[i]
    <2>1. 1 \in Int /\ b - 1 \in Int /\ \A i \in 1..b - 1 : L[i] \in Entries
      BY <1>1
    <2>2. /\ M \in Seq(Entries)
          /\ Len(M) = IF 1 <= b - 1 THEN b - 1 - 1 + 1 ELSE 0
          /\ \A i \in 1..b - 1 - 1 + 1 : M[i] = L[1 + i - 1]
      BY <2>1, SubSeqProperties
    <2> HIDE DEF M
    <2>3. b - 1 - 1 + 1 = b - 1 /\ \A i \in Nat : 1 + i - 1 = i
      BY <1>1
    <2> QED
      BY <1>1, <1>2, <2>2, <2>3
  <1> HIDE DEF M
  <1>4. /\ Len(H) = Len(u) + 1 /\ H[Len(H)] = f /\ \A i \in 1..Len(u) : H[i] = u[i]
    <2>1. H \in Seq(Futures) /\ u \in Seq(Futures) /\ Adds(u, f, "bottom", H)
      BY <1>1
    <2>2. Len(H) = Len(u) + 1 /\ H[Len(H)] = f
      BY <2>1, AddsAtBottom
    <2>3. \A i \in 1..Len(u) : H[i] = u[i]
      BY <2>1, AddsAtBottom
    <2> QED
      BY <2>2, <2>3
  <1>5. Len(H) = b - t + 1
    BY <1>1, <1>2 DEF Fits, Rank
  <1>6. \A i \in 1..Len(L) :
           IF t <= i /\ i <= b
           THEN L[i].fut # Nothing /\ L[i].fut = H[i - t + 1] /\ C[L[i].fut] = Shows(L[i])
           ELSE L[i].fut = Nothing
    BY FitsPlain DEF FitsAll
  <1>7. ASSUME NEW j \in 1..Len(M)
        PROVE  IF t <= j /\ j <= b - 1
               THEN M[j].fut # Nothing /\ M[j].fut = u[j - t + 1] /\ D[M[j].fut] = Shows(M[j])
               ELSE M[j].fut = Nothing
    <2>1. M[j] = L[j] /\ j \in 1..Len(L) /\ j <= b - 1 /\ j <= b
      <3>1. j \in 1..b - 1
        BY <1>3
      <3>2. M[j] = L[j]
        BY <1>3, <3>1
      <3> QED
        BY <1>1, <3>1, <3>2
    <2>2. CASE t <= j
      <3>2. M[j].fut # Nothing /\ M[j].fut = H[j - t + 1] /\ C[M[j].fut] = Shows(M[j])
        BY <1>6, <2>1, <2>2
      <3>3. j - t + 1 \in 1..Len(u)
        BY <1>1, <1>4, <1>5, <2>1, <2>2
      <3>4. H[j - t + 1] = u[j - t + 1] /\ H[j - t + 1] # H[Len(H)] /\ H[j - t + 1] \in Futures
        <4>1. j - t + 1 \in 1..Len(H) /\ Len(H) \in 1..Len(H) /\ j - t + 1 # Len(H)
          BY <1>1, <1>4, <1>5, <2>1, <2>2
        <4> QED
          BY <1>1, <1>4, <3>3, <4>1, ElementOfSeq DEF Distinct
      <3> QED
        BY <1>4, <2>1, <2>2, <3>2, <3>4
    <2>3. CASE ~(t <= j)
      BY <1>6, <2>1, <2>3
    <2> QED
      BY <2>2, <2>3
  <1>8. 1 <= t /\ t <= b - 1 /\ b - 1 <= Len(M) /\ Len(u) = b - 1 - t + 1 /\ b - 1 \in Nat
    <2>1. u \in Seq(Futures) /\ Len(u) \in Nat
      BY LenProperties
    <2> QED
      BY <1>1, <1>2, <1>3, <1>4, <1>5, <2>1
  <1>9. Fits(M, t, b - 1, 0, u, D)
    <2>1. FitsAll(M, t, b - 1, u, D)
      BY <1>1, <1>3, <1>7, <1>8 DEF FitsAll
    <2> QED
      BY <2>1, FitsPlain
  <1> QED
    BY <1>9 DEF M

(* A message at one end without a future goes.                             *)
LEMMA FitsTail ==
    ASSUME NEW L, NEW t, NEW b, NEW H, NEW C, Fits(L, t, b, 0, H, C), t # 0,
           L[1].fut = Nothing
    PROVE  Fits(Tail(L), t - 1, b - 1, 0, H, C)
  <1>1. /\ L \in Seq(Entries) /\ H \in Seq(Futures) /\ Len(L) \in Nat /\ t \in Nat /\ b \in Nat
        /\ t <= b /\ b <= Len(L) /\ (t = 0) = (b = 0)
    BY FitsTypes
  <1>2. L # <<>>
    BY <1>1
  <1>3. Tail(L) \in Seq(Entries) /\ Len(Tail(L)) = Len(L) - 1
        /\ \A i \in 1..Len(L) - 1 : Tail(L)[i] = L[i + 1]
    BY <1>1, <1>2, TailIs
  <1>4. /\ 1 <= t /\ t <= b /\ b <= Len(L) /\ Len(H) = b - t + 1
        /\ \A i \in 1..Len(L) :
              IF t <= i /\ i <= b
              THEN L[i].fut # Nothing /\ L[i].fut = H[i - t + 1] /\ C[L[i].fut] = Shows(L[i])
              ELSE L[i].fut = Nothing
    <2>1. FitsAll(L, t, b, H, C)
      BY FitsPlain
    <2> QED
      BY <1>1, <2>1 DEF FitsAll
  <1>5. t # 1
    BY <1>1, <1>4
  <1> DEFINE M == Tail(L)
  <1> HIDE DEF M
  <1>6. ASSUME NEW j \in 1..Len(M)
        PROVE  IF t - 1 <= j /\ j <= b - 1
               THEN M[j].fut # Nothing /\ M[j].fut = H[j - (t - 1) + 1] /\ C[M[j].fut] = Shows(M[j])
               ELSE M[j].fut = Nothing
    <2>1. M[j] = L[j + 1] /\ j + 1 \in 1..Len(L) /\ j - (t - 1) + 1 = j + 1 - t + 1
      BY <1>1, <1>3 DEF M
    <2> DEFINE i == j + 1
    <2>3. M[j] = L[i] /\ i \in 1..Len(L) /\ j - (t - 1) + 1 = i - t + 1
          /\ (t - 1 <= j /\ j <= b - 1 <=> t <= i /\ i <= b)
      BY <1>1, <2>1
    <2> HIDE DEF i
    <2>4. IF t <= i /\ i <= b
          THEN L[i].fut # Nothing /\ L[i].fut = H[i - t + 1] /\ C[L[i].fut] = Shows(L[i])
          ELSE L[i].fut = Nothing
      BY <1>4, <2>3
    <2> QED
      BY <2>3, <2>4
  <1>7. M \in Seq(Entries) /\ t - 1 \in Nat /\ b - 1 \in Nat /\ 1 <= t - 1 /\ t - 1 <= b - 1
        /\ b - 1 <= Len(M) /\ Len(H) = b - 1 - (t - 1) + 1
    BY <1>1, <1>3, <1>4, <1>5 DEF M
  <1>8. Fits(M, t - 1, b - 1, 0, H, C)
    <2>1. FitsAll(M, t - 1, b - 1, H, C)
      BY <1>1, <1>6, <1>7 DEF FitsAll
    <2> QED
      BY <2>1, FitsPlain
  <1> QED
    BY <1>8 DEF M

LEMMA FitsFront ==
    ASSUME NEW L, NEW t, NEW b, NEW H, NEW C, Fits(L, t, b, 0, H, C), t # 0,
           L[Len(L)].fut = Nothing
    PROVE  Fits(Front(L), t, b, 0, H, C)
  <1>1. /\ L \in Seq(Entries) /\ H \in Seq(Futures) /\ Len(L) \in Nat /\ t \in Nat /\ b \in Nat
        /\ t <= b /\ b <= Len(L) /\ (t = 0) = (b = 0)
    BY FitsTypes
  <1>2. L # <<>>
    BY <1>1
  <1>3. Front(L) \in Seq(Entries) /\ Len(Front(L)) = Len(L) - 1
        /\ \A i \in 1..Len(L) - 1 : Front(L)[i] = L[i]
    BY <1>1, <1>2, FrontIs
  <1>4. /\ 1 <= t /\ t <= b /\ b <= Len(L) /\ Len(H) = b - t + 1
        /\ \A i \in 1..Len(L) :
              IF t <= i /\ i <= b
              THEN L[i].fut # Nothing /\ L[i].fut = H[i - t + 1] /\ C[L[i].fut] = Shows(L[i])
              ELSE L[i].fut = Nothing
    <2>1. FitsAll(L, t, b, H, C)
      BY FitsPlain
    <2> QED
      BY <1>1, <2>1 DEF FitsAll
  <1>5. b # Len(L)
    <2> SUFFICES ASSUME b = Len(L)
                 PROVE  FALSE
      OBVIOUS
    <2>1. b \in 1..Len(L)
      BY <1>1, <1>4
    <2>2. L[b].fut # Nothing
      BY <1>4, <2>1
    <2> QED
      BY <2>2
  <1> DEFINE M == Front(L)
  <1> HIDE DEF M
  <1>6. ASSUME NEW j \in 1..Len(M)
        PROVE  IF t <= j /\ j <= b
               THEN M[j].fut # Nothing /\ M[j].fut = H[j - t + 1] /\ C[M[j].fut] = Shows(M[j])
               ELSE M[j].fut = Nothing
    <2>1. M[j] = L[j] /\ j \in 1..Len(L)
      BY <1>1, <1>3, SMTT(30) DEF M
    <2> QED
      BY <1>4, <2>1
  <1>7. M \in Seq(Entries) /\ b <= Len(M)
    BY <1>1, <1>3, <1>4, <1>5 DEF M
  <1>8. Fits(M, t, b, 0, H, C)
    <2>1. FitsAll(M, t, b, H, C)
      BY <1>1, <1>4, <1>6, <1>7 DEF FitsAll
    <2> QED
      BY <2>1, FitsPlain
  <1> QED
    BY <1>8 DEF M
-----------------------------------------------------------------------------
(* The widget and the window together, and the LOAD and UNLOAD events.     *)

(* The widget's part of a state is the same.                               *)
AsWidget(x, y) ==
    /\ DOMAIN y = UiFields
    /\ y.bubbles = x.bubbles /\ y.events = x.events /\ y.text = x.text
    /\ y.bub = x.bub /\ y.latest = x.latest /\ y.active = x.active
    /\ y.pos = x.pos /\ y.failed = x.failed

LEMMA WidgetAs ==
    ASSUME NEW H, NEW C, NEW x, Widget(H, C, x), Rest(x), NEW y, AsWidget(x, y)
    PROVE  Widget(H, C, y) /\ Rest(y)
  <1>2. Core(H, C, y)
    BY DEF Widget, Shape, Core, AsWidget
  <1>3. LatestBut(H, y, {})
    BY DEF Widget, Shape, LatestBut, AsWidget
  <1>4. DrawnBut(y, {})
    BY DEF Widget, Shape, DrawnBut, AsWidget
  <1>5. Height(y) = Height(x)
    BY DEF Height, Rows, AsWidget
  <1>6. Rest(y)
    BY DEF Rest, AsWidget
  <1> QED
    BY <1>2, <1>3, <1>4, <1>5, <1>6 DEF Widget, Shape, Scrolled, AsWidget

(* The widget's state y, where the handling of e is still to change H.     *)
Taken(e, y, H, D) ==
    \E u \in Seq(Futures) :
       /\ Turns(e, H, u) /\ Distinct(u) /\ Widget(u, D, y) /\ Rest(y)
       /\ e \in FutureEvents /\ (e.load => e.fut \notin Range(H))

(* The first event of the widget's list is taken off it.                   *)
LEMMA EventTaken ==
    ASSUME NEW H, NEW C, NEW x, Widget(H, C, x), Rest(x), x.events # <<>>,
           NEW e, e = Head(x.events),
           NEW D, D[e.fut] = Nothing, \A g \in Futures : g # e.fut => D[g] = C[g]
    PROVE  Taken(e, [x EXCEPT !.events = Tail(@)], H, D)
  <1> DEFINE y == [x EXCEPT !.events = Tail(@)]
             B == x.bubbles
  <1>1. /\ DOMAIN x = UiFields /\ x.events \in Seq(FutureEvents) /\ Once(x.events)
        /\ Leads(H, x.events, B) /\ x.text = Told(H, C, B)
        /\ x.bub \subseteq Range(B) /\ x.latest \subseteq Range(B)
    BY DEF Widget, Shape, Core
  <1>2. PICK u \in Seq(Futures) : Turns(e, H, u) /\ Distinct(u) /\ Leads(u, Tail(x.events), B)
    BY <1>1, PathFirst
  <1>3. /\ Tail(x.events) \in Seq(FutureEvents) /\ Len(x.events) \in Nat \ {0}
        /\ Head(x.events) = x.events[1] /\ Tail(x.events) = RemoveAt(x.events, 1)
    BY <1>1, TailIs
  <1>4. 1 \in 1..Len(x.events)
    BY <1>3
  <1>5. e \in FutureEvents /\ e = x.events[1]
    BY <1>1, <1>3, <1>4, ElementOfSeq
  <1>6. Once(Tail(x.events))
    BY <1>1, <1>3, <1>4, OnceRemove
  <1>7. /\ e.load => e.fut \notin Range(H) /\ e.fut \in Range(B)
        /\ ~e.load => e.fut \in Range(H) /\ e.fut \notin Range(B)
    BY <1>1, <1>4, <1>5, QueuedMeans
  <1>8. H \in Seq(Futures) /\ Range(B) \subseteq Futures
    BY CoreTypes DEF Widget, Shape
  <1>9. /\ e.load => Range(u) = Range(H) \union {e.fut}
        /\ ~e.load => Range(H) = Range(u) \union {e.fut}
    <2>1. e.side \in Sides
      BY <1>5 DEF FutureEvents
    <2>2. CASE e.load
      BY <1>2, <1>8, <2>1, <2>2, AddsIs DEF Turns
    <2>3. CASE ~e.load
      BY <1>2, <1>8, <2>1, <2>3, AddsIs DEF Turns
    <2> QED
      BY <2>2, <2>3
  <1>10. ~e.load => e.fut \notin Range(u)
    <2> SUFFICES ASSUME ~e.load
                 PROVE  e.fut \notin Range(u)
      OBVIOUS
    <2>1. Adds(u, e.fut, e.side, H) /\ e.side \in Sides /\ Distinct(H)
      BY <1>2, <1>5, CoreTypes DEF Turns, FutureEvents, Widget, Shape
    <2> QED
      BY <1>8, <2>1, AddsNew
  <1>11. Told(H, C, B) = Told(u, D, B)
    <2> SUFFICES ASSUME NEW f \in Futures
                 PROVE  (IF f \in Range(B) /\ f \in Range(H) THEN C[f] ELSE Nothing)
                        = (IF f \in Range(B) /\ f \in Range(u) THEN D[f] ELSE Nothing)
      BY DEF Told
    <2>1. CASE f = e.fut
      BY <1>7, <1>9, <1>10, <2>1
    <2>2. CASE f # e.fut
      BY <1>9, <2>2
    <2> QED
      BY <2>1, <2>2
  <1>12. /\ DOMAIN y = UiFields /\ y.events = Tail(x.events) /\ y.bubbles = B /\ y.text = x.text
         /\ y.bub = x.bub /\ y.latest = x.latest /\ y.active = x.active
         /\ y.pos = x.pos /\ y.failed = x.failed
    BY <1>1 DEF UiFields
  <1> HIDE DEF y
  <1>13. Core(u, D, y)
    BY <1>1, <1>2, <1>3, <1>6, <1>11, <1>12 DEF Core
  <1>14. LatestBut(u, y, {})
    <2>1. \A f, g \in y.latest : f = g
      BY <1>12 DEF Widget, Shape, LatestBut
    <2>2. ASSUME NEW k \in 1..Len(B), B[k] \in x.latest
          PROVE  /\ k >= Len(B) - 1
                 /\ k < Len(B) => /\ B[Len(B)] \notin x.bub /\ B[k] \in Range(u)
                                  /\ x.text[B[Len(B)]] = Nothing
      <3>1. /\ k >= Len(B) - 1
            /\ k < Len(B) => /\ B[Len(B)] \notin x.bub /\ B[k] \in Range(H)
                             /\ x.text[B[Len(B)]] = Nothing
        BY <2>2 DEF Widget, Shape, LatestBut
      <3>2. B[k] \in Range(B)
        BY <1>1, <2>2
      <3>3. B[k] \in Range(H) => B[k] \in Range(u)
        BY <1>7, <1>9, <3>2
      <3> QED
        BY <3>1, <3>3
    <2> QED
      BY <1>12, <2>1, <2>2 DEF LatestBut
  <1>15. Rest(y)
    BY <1>12 DEF Rest
  <1>16. DrawnBut(y, {})
    BY <1>12 DEF Widget, Shape, DrawnBut
  <1>17. Scrolled(y)
    BY <1>12 DEF Widget, Scrolled, Height, Rows
  <1> QED
    BY <1>2, <1>5, <1>7, <1>13, <1>14, <1>15, <1>16, <1>17 DEF Widget, Shape, y, Taken
-----------------------------------------------------------------------------
(* The window of a room, with a hole at h, and the widget.                 *)
Asks(w) ==
    /\ w.asked \in Seq(Requests) /\ w.wanted \in [Dirs -> Int]
    /\ w.bot = 0 => \A d \in Dirs : w.wanted[d] = NoChunk

Window(w, h, H, C) ==
    Widget(H, C, w) /\ Rest(w) /\ Fits(w.list, w.top, w.bot, h, H, C) /\ Asks(w)

LEMMA WindowTypes ==
    ASSUME NEW w, NEW h, NEW H, NEW C, Window(w, h, H, C)
    PROVE  /\ DOMAIN w = UiFields /\ w.list \in Seq(Entries) /\ w.top \in Nat /\ w.bot \in Nat
           /\ Len(w.list) \in Nat /\ DOMAIN w.list = 1..Len(w.list)
           /\ \A i \in 1..Len(w.list) : w.list[i] \in Entries
           /\ w.top <= w.bot /\ w.bot <= Len(w.list) /\ (w.top = 0) = (w.bot = 0)
           /\ H \in Seq(Futures) /\ Distinct(H)
           /\ w.asked \in Seq(Requests) /\ w.wanted \in [Dirs -> Int]
  <1>1. H \in Seq(Futures) /\ Distinct(H)
    BY CoreTypes DEF Window, Widget, Shape
  <1>2. DOMAIN w = UiFields
    BY DEF Window, Widget, Shape, Core
  <1>3. Fits(w.list, w.top, w.bot, h, H, C)
    BY DEF Window
  <1> QED
    BY <1>1, <1>2, <1>3, FitsTypes DEF Window, Asks

(* A message gets its text, and the bubble that its future has shows it.   *)
LEMMA WindowSetMessage ==
    ASSUME FuturesAreUnlimited, NEW H, NEW C, NEW w, Widget(H, C, w), Rest(w), Asks(w),
           NEW f \in Range(H), NEW m, NEW D, D[f] = m, \A g \in Futures : g # f => D[g] = C[g],
           NEW h, Fits(w.list, w.top, w.bot, h, H, D)
    PROVE  LET z == SetMessage(w, f, m)
           IN  Window(z, h, H, D) /\ SameWindow(w, z) /\ z.active = w.active
  <1>1. Goes(H, D, w, SetMessage(w, f, m)) /\ Rest(SetMessage(w, f, m))
    BY SetMessageKeeps
  <1> QED
    BY <1>1 DEF Goes, Window, SameWindow, Asks

(* A request is noted; nothing else changes.                               *)
LEMMA RequestIs ==
    ASSUME NEW w, DOMAIN w = UiFields, w.asked \in Seq(Requests), w.wanted \in [Dirs -> Int],
           NEW dir \in Dirs, NEW chunk \in Int
    PROVE  LET r == Request(w, dir, chunk)
           IN  /\ r.asked \in Seq(Requests) /\ r.wanted \in [Dirs -> Int] /\ AsWidget(w, r)
               /\ r.list = w.list /\ r.top = w.top /\ r.bot = w.bot
  <1> DEFINE r == Request(w, dir, chunk)
             q == [chunk |-> chunk, dir |-> dir]
  <1>1. q \in Requests
    BY DEF Requests
  <1> HIDE DEF q
  <1>2. Append(w.asked, q) \in Seq(Requests)
    BY <1>1
  <1>3. [w.wanted EXCEPT ![dir] = chunk] \in [Dirs -> Int]
    OBVIOUS
  <1>4. r = [w EXCEPT !.wanted = [w.wanted EXCEPT ![dir] = chunk], !.asked = Append(w.asked, q)]
    BY DEF Request, q
  <1> DEFINE W == [w.wanted EXCEPT ![dir] = chunk]
             A == Append(w.asked, q)
  <1> HIDE DEF r, W, A
  <1>5. r = [w EXCEPT !.wanted = W, !.asked = A]
    BY <1>4 DEF W, A
  <1>6. /\ DOMAIN r = UiFields /\ r.wanted = W /\ r.asked = A
        /\ r.list = w.list /\ r.top = w.top /\ r.bot = w.bot
        /\ r.bubbles = w.bubbles /\ r.events = w.events /\ r.text = w.text
        /\ r.bub = w.bub /\ r.latest = w.latest /\ r.active = w.active
        /\ r.pos = w.pos /\ r.failed = w.failed
    BY <1>5 DEF UiFields
  <1> QED
    BY <1>2, <1>3, <1>6 DEF r, W, A, AsWidget

(* A message gets the future f.                                            *)
LEMMA LendIs ==
    ASSUME FuturesAreUnlimited, NEW u, NEW D, NEW w, Widget(u, D, w), Rest(w),
           NEW f \in Range(u), D[f] = Nothing, w.list \in Seq(Entries), NEW k \in 1..Len(w.list)
    PROVE  LET z == Lend(w, k, f)
           IN  \E E : /\ Widget(u, E, z) /\ Rest(z)
                      /\ z.list = [w.list EXCEPT ![k].fut = f] /\ z.top = w.top /\ z.bot = w.bot
                      /\ z.wanted = w.wanted /\ z.asked = w.asked
                      /\ E[f] = Shows(w.list[k]) /\ \A g \in Futures : g # f => E[g] = D[g]
  <1> DEFINE y == [w EXCEPT !.list[k].fut = f]
             M == [w.list EXCEPT ![k].fut = f]
  <1>1. DOMAIN w = UiFields /\ f \in Futures
    BY CoreTypes DEF Widget, Shape, Core
  <1>2. y = [w EXCEPT !.list = M]
    OBVIOUS
  <1> HIDE DEF M
  <1>3. /\ AsWidget(w, y) /\ y.list = M /\ y.top = w.top /\ y.bot = w.bot
        /\ y.wanted = w.wanted /\ y.asked = w.asked
    BY <1>1, <1>2 DEF AsWidget, UiFields
  <1> HIDE DEF y
  <1>4. Widget(u, D, y) /\ Rest(y)
    BY <1>3, WidgetAs
  <1>5. CASE ~w.list[k].text
    <2>1. Lend(w, k, f) = y /\ Shows(w.list[k]) = Nothing
      BY <1>5 DEF Lend, Shows, y
    <2> QED
      BY <1>3, <1>4, <2>1 DEF M
  <1>6. CASE w.list[k].text
    <2> DEFINE m == w.list[k].id
               E == [g \in Futures |-> IF g = f THEN m ELSE D[g]]
               z == SetMessage(y, f, m)
    <2>1. Lend(w, k, f) = z /\ Shows(w.list[k]) = m
      BY <1>6 DEF Lend, Shows, y
    <2>2. E[f] = m /\ \A g \in Futures : g # f => E[g] = D[g]
      BY <1>1
    <2> HIDE DEF E, m
    <2>3. Goes(u, E, y, z) /\ Rest(z)
      BY <1>4, <2>2, SetMessageKeeps
    <2> HIDE DEF z
    <2>4. /\ Widget(u, E, z) /\ Rest(z)
          /\ z.list = M /\ z.top = w.top /\ z.bot = w.bot
          /\ z.wanted = w.wanted /\ z.asked = w.asked
      BY <1>3, <2>3 DEF Goes, SameWindow
    <2> QED
      BY <2>1, <2>2, <2>4 DEF M
  <1> QED
    BY <1>5, <1>6

(* The state when an event has been taken off the list, before it is       *)
(* handled: the messages hold H, and u is what they are to hold.           *)
Handling(w, u, D, H, C) ==
    /\ Widget(u, D, w) /\ Rest(w) /\ Fits(w.list, w.top, w.bot, 0, H, C) /\ Asks(w)
    /\ u \in Seq(Futures) /\ Distinct(u) /\ Distinct(H)

Lends(w, u, D, H, C, f, side) ==
    /\ Handling(w, u, D, H, C) /\ f \in Futures /\ f \notin Range(H) /\ Adds(H, f, side, u)
    /\ D[f] = Nothing /\ \A g \in Futures : g # f => D[g] = C[g]

(* A message next to the others gets the future of a LOAD event.           *)
Lent(u, y, z, t, b) ==
    \E E : /\ Widget(u, E, z) /\ Rest(z) /\ Fits(z.list, t, b, 0, u, E)
           /\ z.wanted = y.wanted /\ z.asked = y.asked /\ z.top = y.top /\ z.bot = y.bot

Lending(u, D, y, H, C, t, b, f, side, k) ==
    /\ Widget(u, D, y) /\ Rest(y) /\ Fits(y.list, t, b, 0, H, C) /\ side \in Sides
    /\ u \in Seq(Futures) /\ f \in Futures /\ f \notin Range(H) /\ Adds(H, f, side, u)
    /\ D[f] = Nothing /\ (\A g \in Futures : g # f => D[g] = C[g]) /\ k \in 1..Len(y.list)
    /\ (t = 0 \/ (side = "top" /\ k = t - 1) \/ (side = "bottom" /\ k = b + 1))

LEMMA LendKeeps ==
    ASSUME FuturesAreUnlimited, NEW u, NEW D, NEW y, NEW H, NEW C, NEW t, NEW b, NEW f,
           NEW side, NEW k, Lending(u, D, y, H, C, t, b, f, side, k)
    PROVE  Lent(u, y, Lend(y, k, f), IF t = 0 \/ side = "top" THEN k ELSE t,
                IF b = 0 \/ side = "bottom" THEN k ELSE b)
  <1>0. /\ Widget(u, D, y) /\ Rest(y) /\ Fits(y.list, t, b, 0, H, C) /\ side \in Sides
        /\ u \in Seq(Futures) /\ f \in Futures /\ f \notin Range(H) /\ Adds(H, f, side, u)
        /\ D[f] = Nothing /\ (\A g \in Futures : g # f => D[g] = C[g]) /\ k \in 1..Len(y.list)
        /\ (t = 0 \/ (side = "top" /\ k = t - 1) \/ (side = "bottom" /\ k = b + 1))
    BY DEF Lending
  <1>1. y.list \in Seq(Entries) /\ H \in Seq(Futures)
    BY <1>0, FitsTypes
  <1>2. f \in Range(u)
    BY <1>0, <1>1, AddsIs
  <1>3. f # Nothing
    BY <1>0 DEF FuturesAreUnlimited
  <1> DEFINE z == Lend(y, k, f)
  <1>4. PICK E : /\ Widget(u, E, z) /\ Rest(z)
                 /\ z.list = [y.list EXCEPT ![k].fut = f] /\ z.top = y.top /\ z.bot = y.bot
                 /\ z.wanted = y.wanted /\ z.asked = y.asked
                 /\ E[f] = Shows(y.list[k]) /\ \A g \in Futures : g # f => E[g] = D[g]
    BY <1>0, <1>1, <1>2, LendIs
  <1> HIDE DEF z
  <1>5. \A g \in Futures : g # f => E[g] = C[g]
    BY <1>0, <1>4
  <1>6. Fits([y.list EXCEPT ![k].fut = f], IF t = 0 \/ side = "top" THEN k ELSE t,
             IF b = 0 \/ side = "bottom" THEN k ELSE b, 0, u, E)
    <2> DEFINE L == y.list
    <2>1. /\ Fits(L, t, b, 0, H, C) /\ k \in 1..Len(L) /\ f \in Futures /\ f # Nothing
          /\ f \notin Range(H) /\ side \in Sides /\ u \in Seq(Futures) /\ Adds(H, f, side, u)
          /\ E[f] = Shows(L[k]) /\ (\A g \in Futures : g # f => E[g] = C[g])
          /\ (t = 0 \/ (side = "top" /\ k = t - 1) \/ (side = "bottom" /\ k = b + 1))
      BY <1>0, <1>3, <1>4, <1>5
    <2> HIDE DEF L
    <2>2. Fits([L EXCEPT ![k].fut = f], IF t = 0 \/ side = "top" THEN k ELSE t,
               IF b = 0 \/ side = "bottom" THEN k ELSE b, 0, u, E)
      BY ONLY <2>1, FitsLend
    <2> QED
      BY <2>2 DEF L
  <1> QED
    BY <1>4, <1>6 DEF z, Lent

(* The handler's last step: the ends of the row, and a request.            *)
LEMMA WindowAs ==
    ASSUME NEW u, NEW E, NEW z, Widget(u, E, z), Rest(z), NEW r, AsWidget(z, r),
           NEW h, Fits(r.list, r.top, r.bot, h, u, E), Asks(r)
    PROVE  Window(r, h, u, E)
  BY WidgetAs DEF Window

LEMMA NewMessageIs ==
    NewMessage \in Entries /\ NewMessage.fut = Nothing /\ NewMessage.text = FALSE
    /\ NewMessage.chunk \in Int /\ NewMessage.id \in Int
  BY DEF NewMessage, Entries, Nothing, NoChunk

(* BUBBLE_LOAD at the top.                                                 *)
LEMMA LoadTopKeeps ==
    ASSUME FuturesAreUnlimited, NEW w, NEW u, NEW D, NEW H, NEW C, NEW f,
           Lends(w, u, D, H, C, f, "top")
    PROVE  \E E : Window(LoadTop(w, f), 0, u, E)
  <1> DEFINE n == Len(w.list)
             i == IF w.top # 0 THEN w.top - 1 ELSE n
             chunk == IF w.top # 0 THEN w.list[w.top].chunk ELSE NoChunk
             y == IF i # 0 THEN w
                  ELSE [w EXCEPT !.list = <<NewMessage>> \o @, !.bot = IF @ = 0 THEN 0 ELSE @ + 1]
             k == Max({i, 1})
             z == Lend(y, k, f)
             asks == y.list[k].id = Nothing /\ w.wanted.up = NoChunk
             r == IF asks THEN Request(z, "up", chunk) ELSE z
             t == IF i # 0 \/ w.top = 0 THEN w.top ELSE w.top + 1
  <1>1. /\ Widget(u, D, w) /\ Rest(w) /\ Fits(w.list, w.top, w.bot, 0, H, C) /\ Asks(w)
        /\ u \in Seq(Futures) /\ f \in Futures /\ f \notin Range(H) /\ Adds(H, f, "top", u)
        /\ D[f] = Nothing /\ \A g \in Futures : g # f => D[g] = C[g]
    BY DEF Lends, Handling
  <1>2. /\ w.list \in Seq(Entries) /\ n \in Nat /\ w.top \in Nat /\ w.bot \in Nat /\ w.top <= w.bot
        /\ w.bot <= n /\ (w.top = 0) = (w.bot = 0) /\ \A j \in 1..n : w.list[j] \in Entries
    BY <1>1, FitsTypes
  <1>3. DOMAIN w = UiFields
    BY <1>1 DEF Widget, Shape, Core
  <1>4. chunk \in Int
    <2>1. CASE w.top # 0
      <3>1. w.top \in 1..n
        BY <1>2, <2>1
      <3>2. w.list[w.top] \in Entries
        BY <1>2, <3>1
      <3>3. w.list[w.top].chunk \in Int
        BY <3>2 DEF Entries
      <3> QED
        BY <2>1, <3>3
    <2>2. CASE w.top = 0
      BY <2>2 DEF NoChunk
    <2> QED
      BY <2>1, <2>2
  <1>5. k \in Nat /\ k = IF i >= 1 THEN i ELSE 1
    <2>1. i \in Int
      BY <1>2
    <2> HIDE DEF i
    <2> QED
      BY <2>1, MaxOfTwo
  <1>6. /\ AsWidget(w, y) /\ y.wanted = w.wanted /\ y.asked = w.asked /\ y.top = w.top
        /\ Fits(y.list, t, y.bot, 0, H, C) /\ k \in 1..Len(y.list) /\ (t = 0 \/ k = t - 1)
        /\ (t = 0) = (y.bot = 0)
    <2>1. CASE i # 0
      <3>1. y = w /\ t = w.top
        BY <2>1
      <3>2. k \in 1..n /\ (t = 0 \/ k = t - 1)
        BY <1>2, <1>5, <2>1
      <3> HIDE DEF i, y, t, k
      <3>3. AsWidget(w, w)
        BY <1>3 DEF AsWidget
      <3> QED
        BY <1>1, <1>2, <3>1, <3>2, <3>3
    <2>2. CASE i = 0
      <3> DEFINE L == <<NewMessage>> \o w.list
                 b == IF w.bot = 0 THEN 0 ELSE w.bot + 1
      <3>1. t = IF w.top = 0 THEN 0 ELSE w.top + 1
        BY <2>2
      <3>2. Fits(L, t, b, 0, H, C)
        BY <1>1, <3>1, FitsMore, NewMessageIs
      <3>3. Len(L) = n + 1
        BY <1>2, ConsIs, NewMessageIs
      <3>4. k = 1
        BY <1>5, <2>2
      <3>5. k \in 1..Len(L) /\ (t = 0 \/ k = t - 1) /\ (t = 0) = (b = 0)
        BY <1>2, <2>2, <3>3, <3>4
      <3>6. y = [w EXCEPT !.list = L, !.bot = b]
        BY <2>2
      <3> HIDE DEF i, y, t, k, L, b
      <3>7. /\ AsWidget(w, y) /\ y.wanted = w.wanted /\ y.asked = w.asked /\ y.top = w.top
            /\ y.list = L /\ y.bot = b
        BY <1>3, <3>6 DEF AsWidget, UiFields
      <3> QED
        BY <3>2, <3>5, <3>7
    <2> QED
      BY <2>1, <2>2
  <1> HIDE DEF y, k, t, i
  <1>7. Widget(u, D, y) /\ Rest(y)
    BY <1>1, <1>6, WidgetAs
  <1>8. PICK E : /\ Widget(u, E, z) /\ Rest(z)
                 /\ Fits(z.list, k, IF y.bot = 0 THEN k ELSE y.bot, 0, u, E)
                 /\ z.wanted = y.wanted /\ z.asked = y.asked
                 /\ z.top = y.top /\ z.bot = y.bot
    <2> DEFINE side == "top"
    <2>1. side = "top" /\ side \in Sides
      BY DEF Sides
    <2> HIDE DEF side
    <2>2. Lending(u, D, y, H, C, t, y.bot, f, side, k)
      BY <1>1, <1>6, <1>7, <2>1 DEF Lending
    <2>3. Lent(u, y, Lend(y, k, f), IF t = 0 \/ side = "top" THEN k ELSE t,
               IF y.bot = 0 \/ side = "bottom" THEN k ELSE y.bot)
      BY <2>2, LendKeeps
    <2>4. Lent(u, y, z, k, IF y.bot = 0 THEN k ELSE y.bot)
      BY <2>1, <2>3
    <2> HIDE DEF z
    <2> QED
      BY <2>4 DEF Lent
  <1> DEFINE c == IF z.bot = 0 THEN k ELSE z.bot
             q == [r EXCEPT !.top = k, !.bot = IF @ = 0 THEN k ELSE @]
  <1>9. Fits(z.list, k, c, 0, u, E)
    <2> HIDE DEF z
    <2> QED
      BY <1>8
  <1>10. LoadTop(w, f) = q
    BY DEF LoadTop, i, y, k
  <1> HIDE DEF z, asks, chunk
  <1>11. z.asked \in Seq(Requests) /\ z.wanted \in [Dirs -> Int] /\ DOMAIN z = UiFields
    BY <1>1, <1>6, <1>8 DEF Asks, Widget, Shape, Core
  <1>12. /\ r.asked \in Seq(Requests) /\ r.wanted \in [Dirs -> Int] /\ AsWidget(z, r)
         /\ r.list = z.list /\ r.bot = z.bot
    <2>1. CASE asks
      <3>1. "up" \in Dirs
        BY DEF Dirs
      <3> QED
        BY <1>4, <1>11, <2>1, <3>1, RequestIs
    <2>2. CASE ~asks
      BY <1>11, <2>2 DEF AsWidget
    <2> QED
      BY <2>1, <2>2
  <1> HIDE DEF r
  <1>13. /\ AsWidget(z, q) /\ q.list = z.list /\ q.top = k /\ q.bot = c
         /\ q.asked = r.asked /\ q.wanted = r.wanted
    BY <1>12 DEF AsWidget, UiFields
  <1> HIDE DEF q
  <1>14. Asks(q)
    <2>1. q.bot # 0
      BY <1>6, <1>13
    <2> QED
      BY <1>12, <1>13, <2>1 DEF Asks
  <1>15. Window(q, 0, u, E)
    BY <1>8, <1>9, <1>13, <1>14, WindowAs
  <1> QED
    BY <1>10, <1>15

(* BUBBLE_LOAD at the bottom.                                              *)
LEMMA LoadBottomKeeps ==
    ASSUME FuturesAreUnlimited, NEW w, NEW u, NEW D, NEW H, NEW C, NEW f,
           Lends(w, u, D, H, C, f, "bottom")
    PROVE  \E E : Window(LoadBottom(w, f), 0, u, E)
  <1> DEFINE n == Len(w.list)
             k == IF w.bot # 0 THEN w.bot + 1 ELSE Max({n, 1})
             chunk == IF w.bot # 0 THEN w.list[w.bot].chunk ELSE NoChunk
             y == IF k <= n THEN w ELSE [w EXCEPT !.list = Append(@, NewMessage)]
             z == Lend(y, k, f)
             asks == y.list[k].id = Nothing /\ w.behind /\ w.wanted.down = NoChunk
             r == IF asks THEN Request(z, "down", chunk) ELSE z
  <1>1. /\ Widget(u, D, w) /\ Rest(w) /\ Fits(w.list, w.top, w.bot, 0, H, C) /\ Asks(w)
        /\ u \in Seq(Futures) /\ f \in Futures /\ f \notin Range(H) /\ Adds(H, f, "bottom", u)
        /\ D[f] = Nothing /\ \A g \in Futures : g # f => D[g] = C[g]
    BY DEF Lends, Handling
  <1>2. /\ w.list \in Seq(Entries) /\ n \in Nat /\ w.top \in Nat /\ w.bot \in Nat /\ w.top <= w.bot
        /\ w.bot <= n /\ (w.top = 0) = (w.bot = 0) /\ \A j \in 1..n : w.list[j] \in Entries
    BY <1>1, FitsTypes
  <1>3. DOMAIN w = UiFields
    BY <1>1 DEF Widget, Shape, Core
  <1>4. chunk \in Int
    <2>1. CASE w.bot # 0
      <3>1. w.bot \in 1..n
        BY <1>2, <2>1
      <3>2. w.list[w.bot] \in Entries
        BY <1>2, <3>1
      <3>3. w.list[w.bot].chunk \in Int
        BY <3>2 DEF Entries
      <3> QED
        BY <2>1, <3>3
    <2>2. CASE w.bot = 0
      BY <2>2 DEF NoChunk
    <2> QED
      BY <2>1, <2>2
  <1>5. k \in 1..n + 1 /\ (w.top = 0 \/ k = w.bot + 1)
    <2>1. Max({n, 1}) = IF n >= 1 THEN n ELSE 1
      BY <1>2, MaxOfTwo
    <2> QED
      BY <1>2, <2>1
  <1>6. /\ AsWidget(w, y) /\ y.wanted = w.wanted /\ y.asked = w.asked /\ y.top = w.top
        /\ y.bot = w.bot /\ Fits(y.list, w.top, w.bot, 0, H, C) /\ k \in 1..Len(y.list)
    <2>1. CASE k <= n
      <3>1. y = w /\ k \in 1..n
        BY <1>5, <2>1
      <3> HIDE DEF y, k
      <3>3. AsWidget(w, w)
        BY <1>3 DEF AsWidget
      <3> QED
        BY <1>1, <3>1, <3>3
    <2>2. CASE ~(k <= n)
      <3> DEFINE L == Append(w.list, NewMessage)
      <3>2. Fits(L, w.top, w.bot, 0, H, C)
        BY <1>1, FitsMore, NewMessageIs
      <3>3. Len(L) = n + 1
        BY <1>2, SnocIs, NewMessageIs
      <3>6. y = [w EXCEPT !.list = L]
        BY <2>2
      <3> HIDE DEF y, k, L
      <3>7. /\ AsWidget(w, y) /\ y.wanted = w.wanted /\ y.asked = w.asked /\ y.top = w.top
            /\ y.list = L /\ y.bot = w.bot
        BY <1>3, <3>6 DEF AsWidget, UiFields
      <3> QED
        BY <1>5, <3>2, <3>3, <3>7
    <2> QED
      BY <2>1, <2>2
  <1> HIDE DEF y, k
  <1>7. Widget(u, D, y) /\ Rest(y)
    BY <1>1, <1>6, WidgetAs
  <1>8. PICK E : /\ Widget(u, E, z) /\ Rest(z)
                 /\ Fits(z.list, IF w.top = 0 THEN k ELSE w.top, k, 0, u, E)
                 /\ z.wanted = y.wanted /\ z.asked = y.asked
                 /\ z.top = y.top /\ z.bot = y.bot
    <2> DEFINE side == "bottom"
    <2>1. side = "bottom" /\ side \in Sides
      BY DEF Sides
    <2> HIDE DEF side
    <2>2. Lending(u, D, y, H, C, w.top, w.bot, f, side, k)
      BY <1>1, <1>5, <1>6, <1>7, <2>1 DEF Lending
    <2>3. Lent(u, y, Lend(y, k, f), IF w.top = 0 \/ side = "top" THEN k ELSE w.top,
               IF w.bot = 0 \/ side = "bottom" THEN k ELSE w.bot)
      BY <2>2, LendKeeps
    <2>4. Lent(u, y, z, IF w.top = 0 THEN k ELSE w.top, k)
      BY <2>1, <2>3
    <2> HIDE DEF z
    <2> QED
      BY <2>4 DEF Lent
  <1> DEFINE c == IF z.top = 0 THEN k ELSE z.top
             q == [r EXCEPT !.bot = k, !.top = IF @ = 0 THEN k ELSE @]
  <1>9. Fits(z.list, c, k, 0, u, E)
    <2> HIDE DEF z
    <2> QED
      BY <1>6, <1>8
  <1>10. LoadBottom(w, f) = q
    BY DEF LoadBottom, y, k
  <1> HIDE DEF z, asks, chunk
  <1>11. z.asked \in Seq(Requests) /\ z.wanted \in [Dirs -> Int] /\ DOMAIN z = UiFields
    BY <1>1, <1>6, <1>8 DEF Asks, Widget, Shape, Core
  <1>12. /\ r.asked \in Seq(Requests) /\ r.wanted \in [Dirs -> Int] /\ AsWidget(z, r)
         /\ r.list = z.list /\ r.top = z.top
    <2>1. CASE asks
      <3>1. "down" \in Dirs
        BY DEF Dirs
      <3> QED
        BY <1>4, <1>11, <2>1, <3>1, RequestIs
    <2>2. CASE ~asks
      BY <1>11, <2>2 DEF AsWidget
    <2> QED
      BY <2>1, <2>2
  <1> HIDE DEF r
  <1>13. /\ AsWidget(z, q) /\ q.list = z.list /\ q.bot = k /\ q.top = c
         /\ q.asked = r.asked /\ q.wanted = r.wanted
    BY <1>12 DEF AsWidget, UiFields
  <1> HIDE DEF q
  <1>14. Asks(q)
    <2>1. q.bot # 0
      BY <1>5, <1>13, <1>2
    <2> QED
      BY <1>12, <1>13, <2>1 DEF Asks
  <1>15. Window(q, 0, u, E)
    BY <1>8, <1>9, <1>13, <1>14, WindowAs
  <1> QED
    BY <1>10, <1>15

(* The future f is the one that goes at that side.                         *)
Unloads(w, u, D, H, C, f, side) ==
    /\ Handling(w, u, D, H, C) /\ Adds(u, f, side, H)
    /\ \A g \in Futures : g # f => D[g] = C[g]

LEMMA UnloadsIs ==
    ASSUME NEW w, NEW u, NEW D, NEW H, NEW C, NEW f, NEW side \in Sides,
           Unloads(w, u, D, H, C, f, side)
    PROVE  /\ Widget(u, D, w) /\ Rest(w) /\ Fits(w.list, w.top, w.bot, 0, H, C) /\ Asks(w)
           /\ u \in Seq(Futures) /\ Distinct(H) /\ DOMAIN w = UiFields
           /\ w.top \in Nat /\ w.bot \in Nat /\ w.top # 0 /\ w.bot # 0
           /\ w.top <= w.bot /\ w.bot <= Len(w.list) /\ Len(w.list) \in Nat
           /\ w.top = w.bot => u = <<>>
           /\ w.asked \in Seq(Requests) /\ w.wanted \in [Dirs -> Int]
  <1>1. /\ Widget(u, D, w) /\ Rest(w) /\ Fits(w.list, w.top, w.bot, 0, H, C) /\ Asks(w)
        /\ u \in Seq(Futures) /\ Distinct(H) /\ DOMAIN w = UiFields /\ Adds(u, f, side, H)
    BY DEF Unloads, Handling, Widget, Shape, Core
  <1>2. /\ H \in Seq(Futures) /\ w.top \in Nat /\ w.bot \in Nat /\ Len(w.list) \in Nat
        /\ w.top <= w.bot /\ w.bot <= Len(w.list)
        /\ (w.top = 0) = (w.bot = 0) /\ (w.top = 0) = (H = <<>>)
    BY <1>1, FitsTypes
  <1>3. H # <<>> /\ Len(H) = Len(u) + 1
    BY <1>1, <1>2, AddsIs DEF Adds
  <1>4. ASSUME w.top = w.bot
        PROVE  u = <<>>
    <2>1. Len(H) = w.bot - w.top + 1
      BY <1>1, <1>2, <1>3 DEF Fits, Rank
    <2>2. Len(u) = 0
      BY <1>1, <1>2, <1>3, <1>4, <2>1, LenProperties
    <2> QED
      BY <1>1, <2>2, EmptySeq
  <1> QED
    BY <1>1, <1>2, <1>3, <1>4 DEF Asks

LEMMA EmptiedKeeps ==
    ASSUME NEW w, NEW D, Widget(<<>>, D, w), Rest(w), DOMAIN w = UiFields,
           w.asked \in Seq(Requests)
    PROVE  Window(Emptied(w), 0, <<>>, D)
  <1> DEFINE q == Emptied(w)
             W == [up |-> NoChunk, down |-> NoChunk]
  <1>1. W \in [Dirs -> Int] /\ \A d \in Dirs : W[d] = NoChunk
    BY DEF Dirs, NoChunk
  <1>2. q = [w EXCEPT !.list = <<>>, !.top = 0, !.bot = 0, !.behind = FALSE, !.wanted = W]
    BY DEF Emptied
  <1> HIDE DEF q, W
  <1>3. /\ AsWidget(w, q) /\ q.list = <<>> /\ q.top = 0 /\ q.bot = 0
        /\ q.wanted = W /\ q.asked = w.asked
    BY <1>2 DEF AsWidget, UiFields
  <1>4. Fits(q.list, q.top, q.bot, 0, <<>>, D) /\ Asks(q)
    BY <1>1, <1>3, FitsNone DEF Asks
  <1>5. Window(q, 0, <<>>, D)
    BY <1>3, <1>4, WindowAs
  <1> QED
    BY <1>5 DEF q

(* BUBBLE_UNLOAD at the top: the first message goes with its future.       *)
LEMMA UnloadTopKeeps ==
    ASSUME NEW w, NEW u, NEW D, NEW H, NEW C, NEW f, Unloads(w, u, D, H, C, f, "top")
    PROVE  Window(UnloadTop(w), 0, u, D)
  <1>0. "top" \in Sides
    BY DEF Sides
  <1>1. /\ Widget(u, D, w) /\ Rest(w) /\ Fits(w.list, w.top, w.bot, 0, H, C) /\ Asks(w)
        /\ u \in Seq(Futures) /\ Distinct(H) /\ DOMAIN w = UiFields
        /\ w.top \in Nat /\ w.bot \in Nat /\ w.top # 0 /\ w.bot # 0
        /\ w.top <= w.bot /\ w.bot <= Len(w.list) /\ Len(w.list) \in Nat
        /\ w.top = w.bot => u = <<>>
        /\ w.asked \in Seq(Requests) /\ w.wanted \in [Dirs -> Int]
    BY <1>0, UnloadsIs
  <1>2. Adds(u, f, "top", H) /\ \A g \in Futures : g # f => D[g] = C[g]
    BY DEF Unloads
  <1>3. CASE w.top = w.bot
    <2>1. UnloadTop(w) = Emptied(w) /\ u = <<>>
      BY <1>1, <1>3 DEF UnloadTop
    <2> QED
      BY <1>1, <2>1, EmptiedKeeps
  <1>4. CASE w.top # w.bot
    <2> DEFINE W == [w.wanted EXCEPT !.up = NoChunk]
               M == SubSeq(w.list, w.top + 1, Len(w.list))
               c == w.bot - w.top
               q == [w EXCEPT !.wanted = W, !.list = M, !.top = 1, !.bot = c]
    <2>1. UnloadTop(w) = q
      BY <1>4 DEF UnloadTop
    <2>2. Fits(M, 1, c, 0, u, D)
      BY <1>1, <1>2, <1>4, FitsUnloadTop
    <2>3. W \in [Dirs -> Int]
      <3>1. NoChunk \in Int
        BY DEF NoChunk
      <3>2. w.wanted \in [Dirs -> Int]
        BY <1>1
      <3> QED
        BY ONLY <3>1, <3>2
    <2>4. c # 0
      BY <1>1, <1>4
    <2> HIDE DEF W, M, c
    <2>5. /\ AsWidget(w, q) /\ q.list = M /\ q.top = 1 /\ q.bot = c
          /\ q.wanted = W /\ q.asked = w.asked
      BY <1>1 DEF AsWidget, UiFields
    <2> HIDE DEF q
    <2>6. Fits(q.list, q.top, q.bot, 0, u, D) /\ Asks(q)
      BY <1>1, <2>2, <2>3, <2>4, <2>5 DEF Asks
    <2>7. Window(q, 0, u, D)
      BY <1>1, <2>5, <2>6, WindowAs
    <2> QED
      BY <2>1, <2>7
  <1> QED
    BY <1>3, <1>4

(* BUBBLE_UNLOAD at the bottom.                                            *)
LEMMA UnloadBottomKeeps ==
    ASSUME NEW w, NEW u, NEW D, NEW H, NEW C, NEW f, Unloads(w, u, D, H, C, f, "bottom")
    PROVE  Window(UnloadBottom(w), 0, u, D)
  <1>0. "bottom" \in Sides
    BY DEF Sides
  <1>1. /\ Widget(u, D, w) /\ Rest(w) /\ Fits(w.list, w.top, w.bot, 0, H, C) /\ Asks(w)
        /\ u \in Seq(Futures) /\ Distinct(H) /\ DOMAIN w = UiFields
        /\ w.top \in Nat /\ w.bot \in Nat /\ w.top # 0 /\ w.bot # 0
        /\ w.top <= w.bot /\ w.bot <= Len(w.list) /\ Len(w.list) \in Nat
        /\ w.top = w.bot => u = <<>>
        /\ w.asked \in Seq(Requests) /\ w.wanted \in [Dirs -> Int]
    BY <1>0, UnloadsIs
  <1>2. Adds(u, f, "bottom", H) /\ \A g \in Futures : g # f => D[g] = C[g]
    BY DEF Unloads
  <1>3. CASE w.top = w.bot
    <2>1. UnloadBottom(w) = Emptied(w) /\ u = <<>>
      BY <1>1, <1>3 DEF UnloadBottom
    <2> QED
      BY <1>1, <2>1, EmptiedKeeps
  <1>4. CASE w.top # w.bot
    <2> DEFINE W == [w.wanted EXCEPT !.down = NoChunk]
               M == SubSeq(w.list, 1, w.bot - 1)
               c == w.bot - 1
               q == [w EXCEPT !.wanted = W, !.behind = TRUE, !.list = M, !.bot = c]
    <2>1. UnloadBottom(w) = q
      BY <1>4 DEF UnloadBottom
    <2>2. Fits(M, w.top, c, 0, u, D)
      BY <1>1, <1>2, <1>4, FitsUnloadBottom
    <2>3. W \in [Dirs -> Int]
      <3>1. NoChunk \in Int
        BY DEF NoChunk
      <3>2. w.wanted \in [Dirs -> Int]
        BY <1>1
      <3> QED
        BY ONLY <3>1, <3>2
    <2>4. c # 0
      BY <1>1, <1>4
    <2> HIDE DEF W, M, c
    <2>5. /\ AsWidget(w, q) /\ q.list = M /\ q.top = w.top /\ q.bot = c
          /\ q.wanted = W /\ q.asked = w.asked
      BY <1>1 DEF AsWidget, UiFields
    <2> HIDE DEF q
    <2>6. Fits(q.list, q.top, q.bot, 0, u, D) /\ Asks(q)
      BY <1>1, <2>2, <2>3, <2>4, <2>5 DEF Asks
    <2>7. Window(q, 0, u, D)
      BY <1>1, <2>5, <2>6, WindowAs
    <2> QED
      BY <2>1, <2>7
  <1> QED
    BY <1>3, <1>4

(* event_timer_cb(), one event.                                            *)
LEMMA EventHandled ==
    ASSUME FuturesAreUnlimited, NEW w, NEW H, NEW C, Window(w, 0, H, C), w.events # <<>>
    PROVE  \E u, E : Window(FirstEventHandled(w), 0, u, E)
  <1> DEFINE e == Head(w.events)
             f == e.fut
             D == [g \in Futures |-> IF g = f THEN Nothing ELSE C[g]]
             y == [w EXCEPT !.events = Tail(@)]
  <1>1. Widget(H, C, w) /\ Rest(w) /\ Fits(w.list, w.top, w.bot, 0, H, C) /\ Asks(w)
        /\ DOMAIN w = UiFields /\ H \in Seq(Futures) /\ Distinct(H)
    BY WindowTypes DEF Window
  <1>2. w.events \in Seq(FutureEvents)
    BY <1>1 DEF Widget, Shape, Core
  <1>3. e \in FutureEvents
    <2>1. /\ Len(w.events) \in Nat \ {0} /\ Head(w.events) = w.events[1]
      BY <1>2, TailIs
    <2>2. 1 \in 1..Len(w.events)
      BY <2>1
    <2> QED
      BY <1>2, <2>1, <2>2, ElementOfSeq
  <1> HIDE DEF e
  <1>4. f \in Futures /\ D[f] = Nothing /\ \A g \in Futures : g # f => D[g] = C[g]
    BY <1>3 DEF FutureEvents
  <1> HIDE DEF D
  <1>5. PICK u \in Seq(Futures) :
           /\ Turns(e, H, u) /\ Distinct(u) /\ Widget(u, D, y) /\ Rest(y)
           /\ (e.load => f \notin Range(H))
    <2>1. e = Head(w.events)
      BY DEF e
    <2>2. D[e.fut] = Nothing /\ \A g \in Futures : g # e.fut => D[g] = C[g]
      BY <1>4
    <2>3. Taken(e, y, H, D)
      BY <1>1, <2>1, <2>2, EventTaken
    <2> HIDE DEF y
    <2> QED
      BY <2>3 DEF Taken
  <1>6. /\ DOMAIN y = UiFields /\ y.list = w.list /\ y.top = w.top /\ y.bot = w.bot
        /\ y.asked = w.asked /\ y.wanted = w.wanted
    BY <1>1 DEF UiFields
  <1>7. FirstEventHandled(w) = TexterEvent(y, e)
    BY DEF FirstEventHandled, e
  <1> HIDE DEF y
  <1>8. Handling(y, u, D, H, C)
    BY <1>1, <1>5, <1>6 DEF Handling, Asks
  <1>9. CASE e.load
    <2>1. Adds(H, f, e.side, u)
      BY <1>5, <1>9 DEF Turns
    <2>2. CASE e.side = "top"
      <3>1. TexterEvent(y, e) = LoadTop(y, f)
        BY <1>9, <2>2 DEF TexterEvent
      <3>2. Lends(y, u, D, H, C, f, "top")
        BY <1>4, <1>5, <1>8, <1>9, <2>1, <2>2 DEF Lends
      <3>3. \E E : Window(LoadTop(y, f), 0, u, E)
        BY <3>2, LoadTopKeeps
      <3> QED
        BY <1>7, <3>1, <3>3
    <2>3. CASE e.side = "bottom"
      <3>1. TexterEvent(y, e) = LoadBottom(y, f)
        BY <1>9, <2>3 DEF TexterEvent
      <3>2. Lends(y, u, D, H, C, f, "bottom")
        BY <1>4, <1>5, <1>8, <1>9, <2>1, <2>3 DEF Lends
      <3>3. \E E : Window(LoadBottom(y, f), 0, u, E)
        BY <3>2, LoadBottomKeeps
      <3> QED
        BY <1>7, <3>1, <3>3
    <2> QED
      BY <1>3, <2>2, <2>3 DEF FutureEvents, Sides
  <1>10. CASE ~e.load
    <2>1. Adds(u, f, e.side, H)
      BY <1>5, <1>10 DEF Turns
    <2>2. CASE e.side = "top"
      <3>1. TexterEvent(y, e) = UnloadTop(y)
        BY <1>10, <2>2 DEF TexterEvent
      <3>2. Unloads(y, u, D, H, C, f, "top")
        BY <1>4, <1>8, <2>1, <2>2 DEF Unloads
      <3>3. Window(UnloadTop(y), 0, u, D)
        BY <3>2, UnloadTopKeeps
      <3> QED
        BY <1>7, <3>1, <3>3
    <2>3. CASE e.side = "bottom"
      <3>1. TexterEvent(y, e) = UnloadBottom(y)
        BY <1>10, <2>3 DEF TexterEvent
      <3>2. Unloads(y, u, D, H, C, f, "bottom")
        BY <1>4, <1>8, <2>1, <2>3 DEF Unloads
      <3>3. Window(UnloadBottom(y), 0, u, D)
        BY <3>2, UnloadBottomKeeps
      <3> QED
        BY <1>7, <3>1, <3>3
    <2> QED
      BY <1>3, <2>2, <2>3 DEF FutureEvents, Sides
  <1> QED
    BY <1>9, <1>10
-----------------------------------------------------------------------------
(* Messages that come: their texts, their places, and the futures that move*)
(* over for them.                                                          *)

(* The window fits when some texts are shown.                              *)
Shown(w, h, H) == \E C : Window(w, h, H, C)

(* A message is changed, and the bubble of its future shows it.            *)
EntryGiven(w, y, h, H, i, e) ==
    LET z == SetMessage(y, e.fut, Shows(e))
    IN  /\ Shown(z, h, H) /\ z.list = y.list /\ z.top = w.top /\ z.bot = w.bot
        /\ y.list = [w.list EXCEPT ![i] = e] /\ y.bot = w.bot
        /\ e.fut = Nothing \/ Shows(e) = Shows(w.list[i]) => Shown(y, h, H)

LEMMA EntryKeeps ==
    ASSUME FuturesAreUnlimited, NEW w, NEW h, NEW H, NEW C, Window(w, h, H, C),
           NEW i \in 1..Len(w.list), NEW e \in Entries, e.fut = w.list[i].fut
    PROVE  EntryGiven(w, [w EXCEPT !.list = [w.list EXCEPT ![i] = e]], h, H, i, e)
  <1> DEFINE M == [w.list EXCEPT ![i] = e]
             y == [w EXCEPT !.list = M]
             z == SetMessage(y, e.fut, Shows(e))
             m == Shows(e)
             f == e.fut
             D == [g \in Futures |-> IF g = f THEN m ELSE C[g]]
  <1>1. /\ Widget(H, C, w) /\ Rest(w) /\ Fits(w.list, w.top, w.bot, h, H, C) /\ Asks(w)
        /\ DOMAIN w = UiFields /\ H \in Seq(Futures) /\ Distinct(H)
    BY WindowTypes DEF Window
  <1> HIDE DEF M
  <1>2. /\ AsWidget(w, y) /\ y.list = M /\ y.top = w.top /\ y.bot = w.bot
        /\ y.wanted = w.wanted /\ y.asked = w.asked
    BY <1>1 DEF AsWidget, UiFields
  <1> HIDE DEF y
  <1>3. Widget(H, C, y) /\ Rest(y) /\ Asks(y)
    BY <1>1, <1>2, WidgetAs DEF Asks
  <1>4. CASE f = Nothing
    <2>1. \A g \in Futures : g # f => C[g] = C[g]
      OBVIOUS
    <2>2. Fits(M, w.top, w.bot, h, H, C)
      BY <1>1, <1>4, FitsChange DEF M
    <2>3. Window(y, h, H, C)
      BY <1>2, <1>3, <2>2 DEF Window
    <2>4. f \notin Range(y.bubbles)
      BY <1>3, <1>4, CoreTypes DEF Widget, Shape, FuturesAreUnlimited
    <2>5. z = y
      BY <2>4 DEF SetMessage
    <2> QED
      BY <1>2, <2>3, <2>5 DEF Shown, y, M, EntryGiven
  <1>5. CASE f # Nothing
    <2>1. f \in Range(H) /\ f \in Futures /\ C[f] = Shows(w.list[i])
      BY <1>1, <1>5, FitsRank
    <2>2. D[f] = m /\ \A g \in Futures : g # f => D[g] = C[g]
      BY <2>1
    <2> HIDE DEF D, m, f
    <2>3. Fits(M, w.top, w.bot, h, H, D)
      <3>1. f = Nothing \/ D[f] = Shows(e)
        BY <2>2 DEF m
      <3> QED
        BY <1>1, <2>2, <3>1, FitsChange DEF M, f
    <2>4. Fits(y.list, y.top, y.bot, h, H, D)
      BY <1>2, <2>3
    <2> DEFINE q == SetMessage(y, f, m)
    <2>5. Window(q, h, H, D) /\ SameWindow(y, q)
      BY <1>3, <2>1, <2>2, <2>4, WindowSetMessage
    <2>6. z = q
      BY DEF m, f
    <2> HIDE DEF z, q
    <2>7. Shown(z, h, H) /\ z.list = y.list /\ z.top = w.top /\ z.bot = w.bot
      BY <1>2, <2>5, <2>6 DEF Shown, SameWindow
    <2>8. ASSUME Shows(e) = Shows(w.list[i])
          PROVE  Shown(y, h, H)
      <3>1. Fits(M, w.top, w.bot, h, H, C)
        BY <1>1, <2>1, <2>8, FitsChange DEF M, f
      <3> QED
        BY <1>2, <1>3, <3>1 DEF Window, Shown
    <2> QED
      BY <1>2, <1>5, <2>7, <2>8 DEF z, y, M, f, EntryGiven
  <1> QED
    BY <1>4, <1>5

(* A message gets the text that it was there without.                      *)
TextGiven(w, y, h, H, i) ==
    LET z == SetMessage(y, w.list[i].fut, w.list[i].id)
    IN  /\ Shown(z, h, H) /\ z.bot = w.bot
        /\ w.list[i].fut = Nothing => Shown(y, h, H) /\ y.bot = w.bot

LEMMA TextKeeps ==
    ASSUME FuturesAreUnlimited, NEW w, NEW h, NEW H, Shown(w, h, H),
           NEW i \in 1..Len(w.list)
    PROVE  TextGiven(w, [w EXCEPT !.list[i].text = TRUE], h, H, i)
  <1>1. PICK C : Window(w, h, H, C)
    BY DEF Shown
  <1>2. w.list \in Seq(Entries) /\ w.list[i] \in Entries
    BY <1>1, WindowTypes
  <1> DEFINE e == [w.list[i] EXCEPT !.text = TRUE]
  <1>3. e \in Entries /\ e.fut = w.list[i].fut /\ Shows(e) = w.list[i].id
    BY <1>2 DEF Entries, Shows
  <1>4. [w EXCEPT !.list[i].text = TRUE] = [w EXCEPT !.list = [w.list EXCEPT ![i] = e]]
    OBVIOUS
  <1> HIDE DEF e
  <1> DEFINE y == [w EXCEPT !.list = [w.list EXCEPT ![i] = e]]
             z == SetMessage(y, e.fut, Shows(e))
  <1>5. /\ Shown(z, h, H) /\ z.list = y.list /\ z.bot = w.bot
        /\ y.list = [w.list EXCEPT ![i] = e] /\ y.bot = w.bot
        /\ e.fut = Nothing \/ Shows(e) = Shows(w.list[i]) => Shown(y, h, H)
    <2>1. EntryGiven(w, y, h, H, i, e)
      BY <1>1, <1>3, EntryKeeps
    <2> HIDE DEF y
    <2> QED
      BY <2>1 DEF EntryGiven
  <1>6. [w EXCEPT !.list[i].text = TRUE] = y
    BY <1>4
  <1> HIDE DEF y
  <1>7. TextGiven(w, y, h, H, i)
    BY <1>3, <1>5 DEF TextGiven
  <1> QED
    BY <1>6, <1>7

(* A message that came again with its text.                                *)
LEMMA UpdatedKeeps ==
    ASSUME FuturesAreUnlimited, NEW w, NEW H, Shown(w, 0, H), NEW m
    PROVE  Shown(Updated(w, m), 0, H) /\ Updated(w, m).bot = w.bot
  <1> DEFINE S == {i \in DOMAIN w.list : w.list[i].id = m.id}
  <1>1. DOMAIN w.list = 1..Len(w.list)
    BY WindowTypes DEF Shown
  <1>2. CASE S = {} \/ ~m.text \/ w.list[Min(S)].fut = Nothing \/ w.list[Min(S)].text
    BY <1>2 DEF Updated
  <1>3. CASE ~(S = {} \/ ~m.text \/ w.list[Min(S)].fut = Nothing \/ w.list[Min(S)].text)
    <2>1. S \in SUBSET Nat /\ S # {}
      BY <1>1, <1>3
    <2>2. Min(S) \in S
      BY <2>1, MinIsIn
    <2>3. PICK i \in 1..Len(w.list) : i = Min(S) /\ w.list[i].id = m.id
      BY <1>1, <2>2
    <2>4. Updated(w, m) = SetMessage([w EXCEPT !.list[i].text = TRUE], w.list[i].fut, m.id)
      BY <1>3, <2>3 DEF Updated
    <2>5. TextGiven(w, [w EXCEPT !.list[i].text = TRUE], 0, H, i)
      BY TextKeeps
    <2> QED
      BY <2>3, <2>4, <2>5 DEF TextGiven
  <1> QED
    BY <1>2, <1>3

(* The MESSAGE_DECRYPTED event.                                            *)
LEMMA MessageDecryptedKeeps ==
    ASSUME FuturesAreUnlimited, NEW w, NEW H, Shown(w, 0, H), NEW id
    PROVE  Shown(MessageDecrypted(w, id), 0, H)
  <1> DEFINE S == {i \in DOMAIN w.list : w.list[i].id = id}
  <1>1. DOMAIN w.list = 1..Len(w.list)
    BY WindowTypes DEF Shown
  <1>2. CASE S = {} \/ w.list[Min(S)].text
    BY <1>2 DEF MessageDecrypted
  <1>3. CASE ~(S = {} \/ w.list[Min(S)].text)
    <2>1. S \in SUBSET Nat /\ S # {}
      BY <1>1, <1>3
    <2>2. Min(S) \in S
      BY <2>1, MinIsIn
    <2>3. PICK i \in 1..Len(w.list) : i = Min(S) /\ w.list[i].id = id
      BY <1>1, <2>2
    <2> DEFINE y == [w EXCEPT !.list[i].text = TRUE]
    <2>4. MessageDecrypted(w, id) =
             IF w.list[i].fut = Nothing THEN y ELSE SetMessage(y, w.list[i].fut, id)
      BY <1>3, <2>3 DEF MessageDecrypted
    <2>5. TextGiven(w, y, 0, H, i)
      BY TextKeeps
    <2> HIDE DEF y
    <2> QED
      BY <2>3, <2>4, <2>5 DEF TextGiven
  <1> QED
    BY <1>2, <1>3

(* The message next to its place waits for it.                             *)
LEMMA FilledKeeps ==
    ASSUME FuturesAreUnlimited, NEW w, NEW H, Shown(w, 0, H), NEW k \in 1..Len(w.list),
           w.list[k].id = Nothing, NEW e \in Entries
    PROVE  Shown(Filled(w, k, e), 0, H) /\ Filled(w, k, e).bot = w.bot
  <1>1. PICK C : Window(w, 0, H, C)
    BY DEF Shown
  <1>2. w.list \in Seq(Entries) /\ w.list[k] \in Entries
    BY <1>1, WindowTypes
  <1> DEFINE d == [e EXCEPT !.fut = w.list[k].fut]
             y == [w EXCEPT !.list = [w.list EXCEPT ![k] = d]]
             z == SetMessage(y, d.fut, Shows(d))
  <1>3. d \in Entries /\ d.fut = w.list[k].fut /\ d.text = e.text /\ d.id = e.id
    BY <1>2 DEF Entries
  <1>4. Filled(w, k, e) = IF e.text THEN SetMessage(y, w.list[k].fut, e.id) ELSE y
    BY DEF Filled
  <1>5. Shows(w.list[k]) = Nothing
    BY DEF Shows
  <1>6. Shows(d) = IF e.text THEN e.id ELSE Nothing
    BY <1>3 DEF Shows
  <1> HIDE DEF d
  <1>7. /\ Shown(z, 0, H) /\ z.list = y.list /\ z.bot = w.bot /\ y.bot = w.bot
        /\ d.fut = Nothing \/ Shows(d) = Shows(w.list[k]) => Shown(y, 0, H)
    <2>1. EntryGiven(w, y, 0, H, k, d)
      BY <1>1, <1>3, EntryKeeps
    <2> HIDE DEF y
    <2> QED
      BY <2>1 DEF EntryGiven
  <1> QED
    BY <1>3, <1>4, <1>5, <1>6, <1>7

(* A change of the list of messages and of the row's ends alone.           *)
LEMMA ListChanged ==
    ASSUME NEW H, NEW C, NEW w, Widget(H, C, w), Rest(w), Asks(w), DOMAIN w = UiFields, w.bot # 0,
           NEW L, NEW t, NEW b, NEW h, Fits(L, t, b, h, H, C), b # 0
    PROVE  Window([w EXCEPT !.list = L, !.top = t, !.bot = b], h, H, C)
  <1> DEFINE q == [w EXCEPT !.list = L, !.top = t, !.bot = b]
  <1>1. /\ AsWidget(w, q) /\ q.list = L /\ q.top = t /\ q.bot = b
        /\ q.wanted = w.wanted /\ q.asked = w.asked
    BY DEF AsWidget, UiFields
  <1> HIDE DEF q
  <1>2. Fits(q.list, q.top, q.bot, h, H, C) /\ Asks(q)
    BY <1>1 DEF Asks
  <1>3. Window(q, h, H, C)
    BY <1>1, <1>2, WindowAs
  <1> QED
    BY <1>3 DEF q

(* A new message is put in without a future: the hole.                     *)
LEMMA InsertedKeeps ==
    ASSUME NEW w, NEW H, NEW C, Window(w, 0, H, C), w.bot # 0, NEW k \in 1..Len(w.list) + 1,
           NEW e \in Entries, e.fut = Nothing
    PROVE  LET y == Inserted(w, k, e)
           IN  /\ Window(y, k, H, C) /\ y.bot # 0
               /\ y.list = InsertAt(w.list, k, e) /\ Len(y.list) = Len(w.list) + 1
  <1>1. /\ Widget(H, C, w) /\ Rest(w) /\ Fits(w.list, w.top, w.bot, 0, H, C) /\ Asks(w)
        /\ DOMAIN w = UiFields /\ w.list \in Seq(Entries) /\ w.bot \in Nat
    BY WindowTypes DEF Window
  <1> DEFINE L == InsertAt(w.list, k, e)
             t == IF w.top >= k THEN w.top + 1 ELSE w.top
             b == IF w.bot >= k THEN w.bot + 1 ELSE w.bot
             y == [w EXCEPT !.list = L, !.top = t, !.bot = b]
  <1>2. Inserted(w, k, e) = y
    BY DEF Inserted
  <1>3. Fits(L, t, b, k, H, C)
    BY <1>1, FitsInsert
  <1>4. Len(L) = Len(w.list) + 1
    BY <1>1, InsertedIs
  <1>5. b # 0
    BY <1>1
  <1> HIDE DEF L, t, b
  <1>6. Window(y, k, H, C)
    BY <1>1, <1>3, <1>5, ListChanged
  <1>7. y.list = L /\ y.bot = b
    BY <1>1 DEF UiFields
  <1> HIDE DEF y
  <1> QED
    BY <1>2, <1>4, <1>5, <1>6, <1>7 DEF L

(* The hole was moved out of the row: a message that waits and has no      *)
(* bubble any more goes.                                                   *)
LEMMA WithoutIdleEndKeeps ==
    ASSUME NEW w, NEW H, NEW C, Window(w, 0, H, C), w.bot # 0, NEW d \in {-1, 1}
    PROVE  Window(WithoutIdleEnd(w, d), 0, H, C) /\ WithoutIdleEnd(w, d).bot # 0
  <1>1. /\ Widget(H, C, w) /\ Rest(w) /\ Fits(w.list, w.top, w.bot, 0, H, C) /\ Asks(w)
        /\ DOMAIN w = UiFields /\ w.list \in Seq(Entries) /\ w.bot \in Nat /\ w.top \in Nat
        /\ (w.top = 0) = (w.bot = 0) /\ w.top <= w.bot /\ w.bot <= Len(w.list) /\ Len(w.list) \in Nat
    BY WindowTypes DEF Window
  <1>2. w.top # 0 /\ w.list # <<>>
    BY <1>1
  <1>3. Head(w.list) = w.list[1] /\ Last(w.list) = w.list[Len(w.list)]
    BY <1>1, <1>2, TailIs, FrontIs
  <1>4. CASE d < 0 /\ IsIdle(Head(w.list))
    <2> DEFINE L == Tail(w.list)
               t == w.top - 1
               b == w.bot - 1
    <2>1. Fits(L, t, b, 0, H, C)
      BY <1>1, <1>2, <1>3, <1>4, FitsTail DEF IsIdle
    <2>2. b # 0
      <3>1. t # 0
        BY <1>1, <1>2, <1>3, <1>4 DEF IsIdle, Fits
      <3> HIDE DEF L, t, b
      <3>2. (t = 0) = (b = 0)
        BY <2>1, FitsTypes
      <3> QED
        BY <3>1, <3>2
    <2> DEFINE y == [w EXCEPT !.list = L, !.top = t, !.bot = b]
    <2>3. WithoutIdleEnd(w, d) = y
      BY <1>4 DEF WithoutIdleEnd
    <2> HIDE DEF L, t, b
    <2>4. Window(y, 0, H, C)
      BY <1>1, <2>1, <2>2, ListChanged
    <2>5. y.bot = b
      BY <1>1 DEF UiFields
    <2> HIDE DEF y
    <2> QED
      BY <2>2, <2>3, <2>4, <2>5
  <1>5. CASE ~(d < 0) /\ IsIdle(Last(w.list))
    <2> DEFINE L == Front(w.list)
               t == w.top
               b == w.bot
    <2>1. Fits(L, t, b, 0, H, C)
      BY <1>1, <1>2, <1>3, <1>5, FitsFront DEF IsIdle
    <2> DEFINE y == [w EXCEPT !.list = L]
    <2>3. WithoutIdleEnd(w, d) = y
      BY <1>5 DEF WithoutIdleEnd
    <2> HIDE DEF L
    <2>4. /\ AsWidget(w, y) /\ y.list = L /\ y.top = w.top /\ y.bot = w.bot
          /\ y.wanted = w.wanted /\ y.asked = w.asked
      BY <1>1 DEF AsWidget, UiFields
    <2> HIDE DEF y
    <2>5. Fits(y.list, y.top, y.bot, 0, H, C) /\ Asks(y)
      BY <1>1, <2>1, <2>4 DEF Asks
    <2>6. Window(y, 0, H, C)
      BY <1>1, <2>4, <2>5, WindowAs
    <2> QED
      BY <2>3, <2>4, <2>6
  <1>6. CASE ~(d < 0 /\ IsIdle(Head(w.list))) /\ ~(~(d < 0) /\ IsIdle(Last(w.list)))
    BY <1>6 DEF WithoutIdleEnd
  <1> QED
    BY <1>4, <1>5, <1>6

(* The hole moves by one place.                                            *)
CanMove(w, k, d, H) ==
    /\ \E C : Window(w, k, H, C)
    /\ w.bot # 0 /\ k \in 1..Len(w.list) /\ k + d \in 1..Len(w.list)
    /\ w.list[k + d].fut # Nothing

MovedOn(w, r, k, d, H) ==
    /\ Shown(r, k + d, H) /\ r.bot # 0 /\ Len(r.list) = Len(w.list)
    /\ \A j \in 1..Len(w.list) : j # k /\ j # k + d => r.list[j] = w.list[j]

LEMMA MoveHoleKeeps ==
    ASSUME FuturesAreUnlimited, NEW w, NEW H, NEW k, NEW d \in {-1, 1}, CanMove(w, k, d, H)
    PROVE  MovedOn(w, MoveHole(w, k, d), k, d, H)
  <1> SUFFICES ASSUME NEW C, Window(w, k, H, C), w.bot # 0, k \in 1..Len(w.list),
                      k + d \in 1..Len(w.list), w.list[k + d].fut # Nothing
               PROVE  MovedOn(w, MoveHole(w, k, d), k, d, H)
    BY DEF CanMove
  <1> DEFINE f == w.list[k + d].fut
             m == k + d
             s == Shows(w.list[k])
             M == [[w.list EXCEPT ![k].fut = f] EXCEPT ![m].fut = Nothing]
             y == [w EXCEPT !.list = M]
             z == SetMessage(y, f, s)
             t == IF z.top = m THEN k ELSE z.top
             b == IF z.bot = m THEN k ELSE z.bot
             r == [z EXCEPT !.top = t, !.bot = b]
             D == [g \in Futures |-> IF g = f THEN s ELSE C[g]]
  <1>1. /\ Widget(H, C, w) /\ Rest(w) /\ Fits(w.list, w.top, w.bot, k, H, C) /\ Asks(w)
        /\ DOMAIN w = UiFields /\ w.list \in Seq(Entries) /\ w.bot \in Nat /\ w.top \in Nat
        /\ H \in Seq(Futures) /\ Distinct(H) /\ Len(w.list) \in Nat
        /\ DOMAIN w.list = 1..Len(w.list)
    BY WindowTypes DEF Window
  <1>2. MoveHole(w, k, d) = r
    <2>1. y = [w EXCEPT !.list[k].fut = f, !.list[m].fut = Nothing]
      BY <1>1 DEF UiFields
    <2> HIDE DEF y
    <2> QED
      BY <2>1 DEF MoveHole
  <1>3. f # Nothing /\ f \in Range(H) /\ f \in Futures
    BY <1>1, FitsRank
  <1>4. D[f] = s /\ \A g \in Futures : g # f => D[g] = C[g]
    BY <1>3
  <1>5. Fits(M, IF w.top = m THEN k ELSE w.top, IF w.bot = m THEN k ELSE w.bot, m, H, D)
    <2> DEFINE L == w.list
    <2>1. Moving(L, w.top, w.bot, k, H, C, d, f, D)
      BY <1>1, <1>3, <1>4 DEF Moving
    <2> HIDE DEF L, f, D
    <2>2. Fits([[L EXCEPT ![k].fut = f] EXCEPT ![k + d].fut = Nothing],
               IF w.top = k + d THEN k ELSE w.top, IF w.bot = k + d THEN k ELSE w.bot, k + d, H, D)
      BY ONLY <2>1, FitsMove
    <2> QED
      BY <2>2 DEF L
  <1>6. Len(M) = Len(w.list) /\ \A j \in 1..Len(w.list) : j # k /\ j # m => M[j] = w.list[j]
    <2> DEFINE P == [w.list EXCEPT ![k].fut = f]
    <2>1. DOMAIN P = 1..Len(w.list) /\ \A j \in 1..Len(w.list) : j # k => P[j] = w.list[j]
      BY <1>1
    <2> HIDE DEF P
    <2>2. DOMAIN [P EXCEPT ![m].fut = Nothing] = 1..Len(w.list)
          /\ \A j \in 1..Len(w.list) : j # m => [P EXCEPT ![m].fut = Nothing][j] = P[j]
      BY <2>1
    <2>3. M = [P EXCEPT ![m].fut = Nothing]
      BY DEF P
    <2> HIDE DEF M
    <2>4. M \in Seq(Entries)
      BY <1>5, FitsTypes
    <2>5. Len(M) = Len(w.list)
      BY <1>1, <2>2, <2>3, <2>4, LenProperties
    <2> QED
      BY <2>1, <2>2, <2>3, <2>5
  <1> HIDE DEF f, s, M, D
  <1>7. /\ AsWidget(w, y) /\ y.list = M /\ y.top = w.top /\ y.bot = w.bot
        /\ y.wanted = w.wanted /\ y.asked = w.asked
    BY <1>1 DEF AsWidget, UiFields
  <1> HIDE DEF y
  <1>8. Widget(H, C, y) /\ Rest(y)
    BY <1>1, <1>7, WidgetAs
  <1>9. Goes(H, D, y, z) /\ Rest(z)
    BY <1>3, <1>4, <1>8, SetMessageKeeps
  <1> HIDE DEF z
  <1>10. /\ Widget(H, D, z) /\ Rest(z) /\ DOMAIN z = UiFields
         /\ z.list = M /\ z.top = w.top /\ z.bot = w.bot /\ z.wanted = w.wanted /\ z.asked = w.asked
    BY <1>7, <1>9 DEF Goes, SameWindow, Widget, Shape, Core
  <1>11. Fits(M, t, b, m, H, D) /\ b # 0
    BY <1>1, <1>5, <1>10
  <1> HIDE DEF t, b
  <1>12. /\ AsWidget(z, r) /\ r.list = M /\ r.top = t /\ r.bot = b
         /\ r.wanted = w.wanted /\ r.asked = w.asked
    BY <1>10 DEF AsWidget, UiFields
  <1> HIDE DEF r, m
  <1>13. Fits(r.list, r.top, r.bot, m, H, D) /\ Asks(r)
    BY <1>1, <1>11, <1>12 DEF Asks
  <1>14. Window(r, m, H, D)
    BY <1>10, <1>12, <1>13, WindowAs
  <1> QED
    BY <1>2, <1>6, <1>11, <1>12, <1>14 DEF Shown, m, MovedOn

(* How far the row of futures goes on from the hole.                       *)
Row(w, k, d) ==
    {n \in 0..Len(w.list) : \A j \in 1..n : k + j * d \in DOMAIN w.list
                                           /\ w.list[k + j * d].fut # Nothing}

HoleMoved(w, k, d, n) == MoveHole(w, k + (n - 1) * d, d)

(* CloseHole() is MoveHole() along the row.                                *)
LEMMA CloseHoleRuns ==
    ASSUME NEW w, NEW c, NEW d, Max(Row(w, c, d)) \in Nat
    PROVE  LET N == Max(Row(w, c, d))
           IN  \E g : /\ g[0] = w /\ \A n \in 1..N : g[n] = HoleMoved(g[n - 1], c, d, n)
                      /\ CloseHole(w, c, d) = g[N]
  <1> DEFINE N == Max(Row(w, c, d))
             Follows(k, g) == g = [n \in 0..k |-> IF n = 0 THEN w ELSE HoleMoved(g[n - 1], c, d, n)]
             S == {k \in 0..N : \E g : Follows(k, g)}
  <1>1. 0 \in S
    <2>1. Follows(0, [n \in 0..0 |-> w])
      OBVIOUS
    <2>2. \E g : Follows(0, g)
      <3> HIDE DEF Follows
      <3> QED
        BY <2>1
    <2> QED
      BY <2>2
  <1>2. \A k \in 1..N : k - 1 \in S => k \in S
    <2> SUFFICES ASSUME NEW k \in 1..N, k - 1 \in S
                 PROVE  k \in S
      OBVIOUS
    <2>1. PICK g : Follows(k - 1, g)
      OBVIOUS
    <2> DEFINE h == [n \in 0..k |-> IF n = k THEN HoleMoved(g[k - 1], c, d, k) ELSE g[n]]
    <2>2. \A n \in 0..k : h[n] = IF n = 0 THEN w ELSE HoleMoved(h[n - 1], c, d, n)
      <3> SUFFICES ASSUME NEW n \in 0..k
                   PROVE  h[n] = IF n = 0 THEN w ELSE HoleMoved(h[n - 1], c, d, n)
        OBVIOUS
      <3>1. CASE n = k
        BY <3>1
      <3>2. CASE n # k
        <4>1. n \in 0..k - 1 /\ h[n] = g[n] /\ (n # 0 => h[n - 1] = g[n - 1])
          BY <3>2
        <4>2. g[n] = IF n = 0 THEN w ELSE HoleMoved(g[n - 1], c, d, n)
          BY <2>1, <4>1
        <4> QED
          BY <4>1, <4>2
      <3> QED
        BY <3>1, <3>2
    <2>3. Follows(k, h)
      BY <2>2
    <2>4. \E f : Follows(k, f)
      <3> HIDE DEF Follows, h
      <3> QED
        BY <2>3
    <2> QED
      BY <2>4
  <1>3. N \in S
    <2> HIDE DEF S
    <2>1. 0..N \subseteq S
      BY <1>1, <1>2, AllUpTo
    <2> QED
      BY <2>1
  <1> DEFINE g == CHOOSE g : Follows(N, g)
  <1>4. Follows(N, g)
    BY <1>3
  <1>5. CloseHole(w, c, d) = g[N]
    BY DEF CloseHole, Row, HoleMoved
  <1> HIDE DEF g
  <1>6. g[0] = w /\ \A n \in 1..N : g[n] = HoleMoved(g[n - 1], c, d, n)
    BY <1>4
  <1> QED
    BY <1>5, <1>6

(* The row of futures ends where the next message holds none.              *)
LEMMA RowIs ==
    ASSUME NEW w, NEW h, NEW H, Shown(w, h, H), NEW k \in 1..Len(w.list), NEW d \in {-1, 1}
    PROVE  LET N == Max(Row(w, k, d))
           IN  /\ N \in 0..Len(w.list)
               /\ \A n \in 1..N : /\ k + n * d \in 1..Len(w.list)
                                  /\ w.list[k + n * d].fut # Nothing
               /\ ~(/\ k + (N + 1) * d \in 1..Len(w.list)
                    /\ w.list[k + (N + 1) * d].fut # Nothing)
  <1> DEFINE S == Row(w, k, d)
             N == Max(S)
             Held1(j) == k + j * d \in DOMAIN w.list /\ w.list[k + j * d].fut # Nothing
  <1>1. PICK m \in Nat : m = Len(w.list) /\ DOMAIN w.list = 1..m
    BY WindowTypes DEF Shown
  <1>2. 0 \in S /\ S \in SUBSET (0..m)
    BY <1>1 DEF Row
  <1>3. N \in S /\ \A n \in S : n <= N
    <2> HIDE DEF S
    <2> QED
      BY <1>2, MaxIsIn
  <1>4. N \in 0..m /\ \A j \in 1..N : Held1(j)
    BY <1>1, <1>3 DEF Row
  <1>5. \A n \in 0..m : (\A j \in 1..n : Held1(j)) => n \in S
    BY <1>1 DEF Row
  <1> HIDE DEF S, Held1
  <1> HIDE DEF N
  <1>6. ASSUME Held1(N + 1)
        PROVE  FALSE
    <2>1. N + 1 <= m
      <3>1. k + (N + 1) * d \in 1..m
        BY <1>1, <1>6 DEF Held1
      <3>2. CASE d = 1
        <4>1. (N + 1) * d = N + 1
          BY <1>4, <3>2
        <4> QED
          BY <1>1, <1>4, <3>1, <4>1
      <3>3. CASE d = -1
        <4>1. (N + 1) * d = 0 - (N + 1)
          BY <1>4, <3>3
        <4> QED
          BY <1>1, <1>4, <3>1, <4>1
      <3> QED
        BY <3>2, <3>3
    <2>2. \A j \in 1..N + 1 : Held1(j)
      <3> SUFFICES ASSUME NEW j \in 1..N + 1
                   PROVE  Held1(j)
        OBVIOUS
      <3>1. j \in 1..N \/ j = N + 1
        BY <1>4
      <3> QED
        BY <1>4, <1>6, <3>1
    <2>3. N + 1 \in 0..m
      BY <1>4, <2>1
    <2>4. N + 1 \in S
      BY <1>5, <2>2, <2>3
    <2> QED
      BY <1>3, <1>4, <2>4
  <1> QED
    BY <1>1, <1>4, <1>6 DEF N, S, Held1

(* The hole ends up outside of the row, where it is none.                  *)
LEMMA CloseHoleKeeps ==
    ASSUME FuturesAreUnlimited, NEW w, NEW H, NEW k, Shown(w, k, H), w.bot # 0,
           k \in 1..Len(w.list), NEW d \in {-1, 1}
    PROVE  Shown(CloseHole(w, k, d), 0, H) /\ CloseHole(w, k, d).bot # 0
  <1> DEFINE At(n) == k + n * d
             Behind(n, j) == IF d = 1 THEN j > At(n) ELSE j < At(n)
  <1>0. PICK m \in Nat : m = Len(w.list) /\ DOMAIN w.list = 1..m
    BY WindowTypes DEF Shown
  <1>1. PICK N : N = Max(Row(w, k, d))
    OBVIOUS
  <1>2. /\ N \in 0..m
        /\ \A n \in 1..N : At(n) \in 1..m /\ w.list[At(n)].fut # Nothing
        /\ ~(At(N + 1) \in 1..m /\ w.list[At(N + 1)].fut # Nothing)
    BY <1>0, <1>1, RowIs
  <1>3. PICK g : /\ g[0] = w /\ \A n \in 1..N : g[n] = HoleMoved(g[n - 1], k, d, n)
                 /\ CloseHole(w, k, d) = g[N]
    <2>1. Max(Row(w, k, d)) \in Nat
      BY <1>0, <1>1, <1>2
    <2> QED
      BY <1>1, <2>1, CloseHoleRuns
  <1>4. /\ At(0) = k
        /\ \A n \in Nat : At(n) \in Int
        /\ \A n \in Nat \ {0} : /\ At(n - 1) + d = At(n)
                                /\ \A j \in Int :
                                      Behind(n, j) => Behind(n - 1, j) /\ j # At(n - 1) /\ j # At(n)
        /\ \A n \in Nat : Behind(n, At(n + 1))
    <2>1. CASE d = 1
      <3>1. \A n \in Int : At(n) = k + n
        BY <2>1
      <3>2. \A n, j \in Int : Behind(n, j) <=> j > At(n)
        BY <2>1
      <3> HIDE DEF At, Behind
      <3>3. At(0) = k
        BY <1>0, <3>1
      <3>4. \A n \in Nat : At(n) \in Int
        BY <1>0, <3>1
      <3>5. \A n \in Nat \ {0} : At(n - 1) + d = At(n)
        BY <1>0, <2>1, <3>1
      <3>6. \A n \in Nat \ {0}, j \in Int : Behind(n, j) => Behind(n - 1, j) /\ j # At(n - 1) /\ j # At(n)
        <4> SUFFICES ASSUME NEW n \in Nat \ {0}, NEW j \in Int, Behind(n, j)
                     PROVE  Behind(n - 1, j) /\ j # At(n - 1) /\ j # At(n)
          OBVIOUS
        <4>1. n \in Int /\ n - 1 \in Int /\ k \in Int
          BY <1>0
        <4>2. At(n) = k + n /\ At(n - 1) = k + (n - 1)
          BY <3>1, <4>1
        <4>3. Behind(n, j) <=> j > At(n)
          BY <3>2, <4>1
        <4>4. Behind(n - 1, j) <=> j > At(n - 1)
          BY <3>2, <4>1
        <4> QED
          BY <4>1, <4>2, <4>3, <4>4
      <3>7. \A n \in Nat : Behind(n, At(n + 1))
        BY <1>0, <3>1, <3>2
      <3> QED
        BY <3>3, <3>4, <3>5, <3>6, <3>7
    <2>2. CASE d = -1
      <3>1. \A n \in Int : At(n) = k - n
        BY <2>2
      <3>2. \A n, j \in Int : Behind(n, j) <=> j < At(n)
        BY <2>2
      <3> HIDE DEF At, Behind
      <3>3. At(0) = k
        BY <1>0, <3>1
      <3>4. \A n \in Nat : At(n) \in Int
        BY <1>0, <3>1
      <3>5. \A n \in Nat \ {0} : At(n - 1) + d = At(n)
        BY <1>0, <2>2, <3>1
      <3>6. \A n \in Nat \ {0}, j \in Int : Behind(n, j) => Behind(n - 1, j) /\ j # At(n - 1) /\ j # At(n)
        <4> SUFFICES ASSUME NEW n \in Nat \ {0}, NEW j \in Int, Behind(n, j)
                     PROVE  Behind(n - 1, j) /\ j # At(n - 1) /\ j # At(n)
          OBVIOUS
        <4>1. n \in Int /\ n - 1 \in Int /\ k \in Int
          BY <1>0
        <4>2. At(n) = k - n /\ At(n - 1) = k - (n - 1)
          BY <3>1, <4>1
        <4>3. Behind(n, j) <=> j < At(n)
          BY <3>2, <4>1
        <4>4. Behind(n - 1, j) <=> j < At(n - 1)
          BY <3>2, <4>1
        <4> QED
          BY <4>1, <4>2, <4>3, <4>4
      <3>7. \A n \in Nat : Behind(n, At(n + 1))
        BY <1>0, <3>1, <3>2
      <3> QED
        BY <3>3, <3>4, <3>5, <3>6, <3>7
    <2> QED
      BY <2>1, <2>2
  <1>5. \A n \in 1..N : g[n] = MoveHole(g[n - 1], At(n - 1), d)
    BY <1>3 DEF HoleMoved
  <1>6. \A n \in 0..N : At(n) \in 1..m
    <2> SUFFICES ASSUME NEW n \in 0..N
                 PROVE  At(n) \in 1..m
      OBVIOUS
    <2>1. n = 0 \/ n \in 1..N
      BY <1>2
    <2> HIDE DEF At
    <2> QED
      BY <1>0, <1>2, <1>4, <2>1
  <1> HIDE DEF At, Behind
  <1> DEFINE Good(n) == /\ Shown(g[n], At(n), H) /\ g[n].bot # 0 /\ Len(g[n].list) = m
                        /\ \A j \in 1..m : Behind(n, j) => g[n].list[j] = w.list[j]
             S == {n \in 0..N : Good(n)}
  <1>7. 0 \in S
    <2>1. Shown(g[0], At(0), H) /\ g[0].bot # 0 /\ Len(g[0].list) = m
      BY <1>0, <1>3, <1>4
    <2>2. \A j \in 1..m : g[0].list[j] = w.list[j]
      BY <1>3
    <2>3. 0 \in 0..N
      BY <1>2
    <2> QED
      BY <2>1, <2>2, <2>3
  <1>8. \A n \in 1..N : n - 1 \in S => n \in S
    <2> SUFFICES ASSUME NEW n \in 1..N, Good(n - 1)
                 PROVE  Good(n)
      BY <1>2
    <2> DEFINE v == g[n - 1]
               i == At(n - 1)
               r == MoveHole(v, i, d)
    <2>1. n \in Nat \ {0} /\ n - 1 \in Nat /\ n - 1 \in 0..N /\ n \in 0..N
      BY <1>2
    <2>2. i + d = At(n) /\ i \in 1..m /\ At(n) \in 1..m /\ At(n) \in Int /\ Behind(n - 1, At(n))
      <3>1. n - 1 + 1 = n
        BY <2>1
      <3>2. Behind(n - 1, At(n - 1 + 1))
        BY <1>4, <2>1
      <3> QED
        BY <1>4, <1>6, <2>1, <3>1, <3>2
    <2>3. v.list[i + d].fut # Nothing
      BY <1>2, <2>2
    <2>4. g[n] = r
      BY <1>5
    <2> DEFINE q == i + d
    <2>5. Shown(v, i, H) /\ v.bot # 0 /\ Len(v.list) = m
      OBVIOUS
    <2>6. /\ Shown(r, i + d, H) /\ r.bot # 0 /\ Len(r.list) = m
          /\ \A j \in 1..m : j # i /\ j # i + d => r.list[j] = v.list[j]
      <3>1. PICK C : Window(v, i, H, C)
        BY <2>5 DEF Shown
      <3>2. FuturesAreUnlimited /\ v.bot # 0 /\ i \in 1..Len(v.list) /\ i + d \in 1..Len(v.list)
        BY <2>2, <2>5
      <3> HIDE DEF v, i
      <3>3. CanMove(v, i, d, H)
        BY <2>3, <3>1, <3>2 DEF CanMove
      <3>4. MovedOn(v, MoveHole(v, i, d), i, d, H)
        BY <3>3, MoveHoleKeeps
      <3> QED
        BY <2>5, <3>4 DEF MovedOn
    <2> HIDE DEF r
    <2>7. \A j \in 1..m : Behind(n, j) => r.list[j] = w.list[j]
      <3> SUFFICES ASSUME NEW j \in 1..m, Behind(n, j)
                   PROVE  r.list[j] = w.list[j]
        OBVIOUS
      <3>1. Behind(n - 1, j) /\ j # i /\ j # i + d
        BY <1>4, <2>1, <2>2
      <3> QED
        BY <2>6, <3>1
    <2> QED
      BY <2>2, <2>4, <2>6, <2>7
  <1>9. N \in S
    <2> HIDE DEF S
    <2>0. N \in Nat
      BY <1>2
    <2>1. 0..N \subseteq S
      BY <1>7, <1>8, <2>0, AllUpTo
    <2> QED
      BY <2>0, <2>1
  <1>10. Good(N)
    BY <1>9
  <1> DEFINE z == g[N]
             h == At(N)
  <1>11. PICK C : Window(z, h, H, C)
    BY <1>10 DEF Shown
  <1>12. h < z.top \/ z.bot < h
    <2> SUFFICES ASSUME z.top <= h /\ h <= z.bot
                 PROVE  FALSE
      <3>1. z.top \in Nat /\ z.bot \in Nat
        BY <1>11, WindowTypes
      <3>2. h \in Int
        BY <1>2, <1>4
      <3> HIDE DEF z, h
      <3> QED
        BY <3>1, <3>2
    <2>1. /\ Fits(z.list, z.top, z.bot, h, H, C) /\ z.top \in Nat /\ z.bot \in Nat
          /\ z.bot # 0 /\ (z.top = 0) = (z.bot = 0) /\ Len(z.list) = m /\ z.bot <= m
      BY <1>10, <1>11, WindowTypes DEF Window
    <2>2. h \in 1..m /\ z.top # h /\ z.bot # h /\ 1 <= z.top
      BY <1>2, <1>6, <2>1 DEF Fits
    <2>3. h + d \in 1..m /\ z.top <= h + d /\ h + d <= z.bot /\ h + d # h
      <3> HIDE DEF z, h
      <3> QED
        BY <1>0, <2>1, <2>2
    <2>4. h + d = At(N + 1) /\ Behind(N, At(N + 1))
      <3>1. N + 1 \in Nat \ {0} /\ N + 1 - 1 = N /\ N \in Nat
        BY <1>2
      <3>2. At(N + 1 - 1) + d = At(N + 1)
        BY <1>4, <3>1
      <3> QED
        BY <1>4, <3>1, <3>2
    <2>5. z.list[h + d].fut # Nothing
      BY <2>1, <2>3 DEF Fits
    <2>6. z.list[h + d] = w.list[h + d]
      BY <1>10, <2>3, <2>4
    <2> QED
      BY <1>2, <2>3, <2>4, <2>5, <2>6
  <1>13. Window(z, 0, H, C)
    <2>1. Fits(z.list, z.top, z.bot, h, H, C) /\ z.top \in Nat /\ z.top # 0
      BY <1>10, <1>11, WindowTypes DEF Window
    <2>2. 0 < z.top
      BY <2>1
    <2> HIDE DEF z, h
    <2>3. Fits(z.list, z.top, z.bot, 0, H, C)
      BY <1>12, <2>1, <2>2, FitsOutside
    <2> QED
      BY <1>11, <2>3 DEF Window
  <1> QED
    BY <1>3, <1>10, <1>13 DEF Shown

(* What the task sends: a message, and a chunk.                            *)
Arrived == [id : Int, text : BOOLEAN]
Arrivals == [this : Int, next : Int, dir : Dirs, id : Int, msgs : Seq(Arrived)]

(* The window fits and is not empty.                                       *)
Kept(w, H) == Shown(w, 0, H) /\ w.bot # 0

(* A new message between two others.                                       *)
LEMMA PlacedKeeps ==
    ASSUME FuturesAreUnlimited, NEW w, NEW H, Kept(w, H), NEW k \in 1..Len(w.list) + 1,
           NEW e \in Entries, e.fut = Nothing, NEW d \in {-1, 1}
    PROVE  Kept(Placed(w, k, e, d), H)
  <1>1. PICK C : Window(w, 0, H, C)
    BY DEF Kept, Shown
  <1>2. w.bot # 0
    BY DEF Kept
  <1> DEFINE y == Inserted(w, k, e)
             z == CloseHole(y, k, d)
  <1>3. Window(y, k, H, C) /\ y.bot # 0 /\ Len(y.list) = Len(w.list) + 1
    BY <1>1, <1>2, InsertedKeeps
  <1>4. Len(w.list) \in Nat
    BY <1>1, WindowTypes
  <1> HIDE DEF y
  <1>5. Shown(y, k, H) /\ k \in 1..Len(y.list)
    BY <1>3, <1>4 DEF Shown
  <1>6. Shown(z, 0, H) /\ z.bot # 0
    BY <1>3, <1>5, CloseHoleKeeps
  <1> HIDE DEF z
  <1>7. PICK D : Window(z, 0, H, D)
    BY <1>6 DEF Shown
  <1>8. Window(WithoutIdleEnd(z, d), 0, H, D) /\ WithoutIdleEnd(z, d).bot # 0
    BY <1>6, <1>7, WithoutIdleEndKeeps
  <1> QED
    BY <1>8 DEF Placed, Kept, Shown, y, z

(* Fields of the window that the row of futures does not depend on.        *)
LEMMA SameRow ==
    ASSUME NEW w, NEW H, Kept(w, H), NEW y, AsWidget(w, y),
           y.list = w.list, y.top = w.top, y.bot = w.bot,
           y.asked \in Seq(Requests), y.wanted \in [Dirs -> Int]
    PROVE  Kept(y, H)
  <1>1. PICK C : Window(w, 0, H, C)
    BY DEF Kept, Shown
  <1>2. w.bot # 0
    BY DEF Kept
  <1>3. Asks(y) /\ Fits(y.list, y.top, y.bot, 0, H, C)
    BY <1>1, <1>2 DEF Asks, Window
  <1>4. Window(y, 0, H, C)
    BY <1>1, <1>3, WidgetAs DEF Window
  <1> QED
    BY <1>2, <1>4 DEF Kept, Shown

(* A new message at its place in time.                                     *)
LEMMA IncorporatedKeeps ==
    ASSUME FuturesAreUnlimited, NEW w, NEW H, Kept(w, H), NEW m \in Arrived, NEW c \in Arrivals
    PROVE  Kept(Incorporated(w, m, c), H)
  <1> DEFINE chunk == IF c.next # NoChunk THEN c.next ELSE c.this
             e     == [NewMessage EXCEPT !.id = m.id, !.text = m.text, !.chunk = chunk]
             known == {i \in DOMAIN w.list : w.list[i].id # Nothing}
             after == {i \in known : Before(m.id, w.list[i].id)} \union {Len(w.list) + 1}
             below == {i \in known : Before(w.list[i].id, m.id)} \union {0}
             k     == IF c.dir = "up" THEN Min(after) ELSE Max(below)
             d     == IF c.dir = "up" THEN -1 ELSE 1
             p     == IF d < 0 THEN k ELSE k + 1
  <1>1. PICK n \in Nat : n = Len(w.list) /\ DOMAIN w.list = 1..n
    BY WindowTypes DEF Kept, Shown
  <1>2. DOMAIN w = UiFields /\ w.asked \in Seq(Requests) /\ w.wanted \in [Dirs -> Int]
    BY WindowTypes DEF Kept, Shown
  <1>3. chunk \in Int /\ m.id \in Int /\ m.text \in BOOLEAN
    BY DEF Arrived, Arrivals
  <1>4. e \in Entries /\ e.fut = Nothing
    <2> HIDE DEF chunk
    <2> QED
      BY <1>3 DEF Entries, NewMessage, Nothing
  <1>5. p \in 1..n + 1
    <2>1. CASE c.dir = "up"
      <3>1. after \in SUBSET Nat /\ after # {} /\ after \subseteq 1..n + 1
        BY <1>1
      <3> HIDE DEF after
      <3>2. Min(after) \in after
        BY <3>1, MinIsIn
      <3>3. p = Min(after)
        BY <2>1
      <3> HIDE DEF p
      <3> QED
        BY <3>1, <3>2, <3>3
    <2>2. CASE c.dir # "up"
      <3>1. below \in SUBSET (0..n) /\ below # {}
        BY <1>1
      <3> HIDE DEF below
      <3>2. Max(below) \in 0..n
        BY <3>1, MaxIsIn
      <3>3. p = Max(below) + 1
        BY <2>2
      <3> HIDE DEF p
      <3> QED
        BY <3>2, <3>3
    <2> QED
      BY <2>1, <2>2
  <1>6. d \in {-1, 1}
    OBVIOUS
  <1>7. CASE chunk = NoChunk
    <2> DEFINE y == [w EXCEPT !.crashed = TRUE]
    <2>1. Incorporated(w, m, c) = y
      BY <1>7 DEF Incorporated
    <2>2. /\ AsWidget(w, y) /\ y.list = w.list /\ y.top = w.top /\ y.bot = w.bot
          /\ y.asked = w.asked /\ y.wanted = w.wanted
      BY <1>2 DEF AsWidget, UiFields
    <2> HIDE DEF y
    <2> QED
      BY <1>2, <2>1, <2>2, SameRow
  <1>8. CASE chunk # NoChunk /\ k + d \in DOMAIN w.list /\ w.list[k + d].id = Nothing
    <2>1. Incorporated(w, m, c) = Filled(w, k + d, e)
      BY <1>8 DEF Incorporated
    <2> DEFINE q == k + d
    <2>2. q \in 1..Len(w.list) /\ w.list[q].id = Nothing
      BY <1>1, <1>8
    <2> HIDE DEF q, e
    <2>3. Shown(Filled(w, q, e), 0, H) /\ Filled(w, q, e).bot = w.bot
      BY <1>4, <2>2, FilledKeeps DEF Kept
    <2> QED
      BY <2>1, <2>3 DEF Kept, q
  <1>9. CASE chunk # NoChunk /\ ~(k + d \in DOMAIN w.list /\ w.list[k + d].id = Nothing)
    <2>1. Incorporated(w, m, c) = Placed(w, p, e, d)
      BY <1>9 DEF Incorporated
    <2> HIDE DEF p, e, d
    <2> QED
      BY <1>1, <1>4, <1>5, <1>6, <2>1, PlacedKeeps
  <1> QED
    BY <1>7, <1>8, <1>9

LEMMA RequestKeeps ==
    ASSUME NEW w, NEW H, Kept(w, H), NEW dir \in Dirs, NEW chunk \in Int
    PROVE  Kept(Request(w, dir, chunk), H)
  <1>1. DOMAIN w = UiFields /\ w.asked \in Seq(Requests) /\ w.wanted \in [Dirs -> Int]
    BY WindowTypes DEF Kept, Shown
  <1> DEFINE r == Request(w, dir, chunk)
  <1>2. /\ r.asked \in Seq(Requests) /\ r.wanted \in [Dirs -> Int] /\ AsWidget(w, r)
        /\ r.list = w.list /\ r.top = w.top /\ r.bot = w.bot
    BY <1>1, RequestIs
  <1> HIDE DEF r
  <1>3. Kept(r, H)
    BY <1>2, SameRow
  <1> QED
    BY <1>3 DEF r

(* More is asked for.                                                      *)
LEMMA AskedOnKeeps ==
    ASSUME NEW w, NEW H, Kept(w, H), NEW c \in Arrivals
    PROVE  Kept(AskedOn(w, c), H)
  <1>1. c.this \in Int /\ c.next \in Int /\ c.dir \in Dirs /\ "down" \in Dirs
    BY DEF Arrivals, Dirs
  <1>2. CASE AskedOn(w, c) = w
    BY <1>2
  <1>3. CASE AskedOn(w, c) = Request(w, c.dir, c.next)
    BY <1>1, <1>3, RequestKeeps
  <1>4. CASE AskedOn(w, c) = [Request(w, "down", c.this) EXCEPT !.behind = FALSE]
    <2> DEFINE r == Request(w, "down", c.this)
               y == [r EXCEPT !.behind = FALSE]
               dir == "down"
    <2>1. Kept(r, H)
      <3>1. dir \in Dirs /\ r = Request(w, dir, c.this)
        BY <1>1
      <3> HIDE DEF dir, r
      <3> QED
        BY <1>1, <3>1, RequestKeeps
    <2> HIDE DEF r
    <2>2. DOMAIN r = UiFields /\ r.asked \in Seq(Requests) /\ r.wanted \in [Dirs -> Int]
      BY <2>1, WindowTypes DEF Kept, Shown
    <2>3. /\ AsWidget(r, y) /\ y.list = r.list /\ y.top = r.top /\ y.bot = r.bot
          /\ y.asked = r.asked /\ y.wanted = r.wanted
      BY <2>2 DEF AsWidget, UiFields
    <2>4. AskedOn(w, c) = y
      BY <1>4 DEF r
    <2> HIDE DEF y
    <2> QED
      BY <2>1, <2>2, <2>3, <2>4, SameRow
  <1> QED
    BY <1>2, <1>3, <1>4 DEF AskedOn
-----------------------------------------------------------------------------
(* AllUpdated() is Updated() for one message after the other.              *)
LEMMA AllUpdatedRuns ==
    ASSUME NEW w, NEW s, Len(s) \in Nat
    PROVE  LET N == Len(s)
           IN  \E g : /\ g[0] = w /\ \A n \in 1..N : g[n] = Updated(g[n - 1], s[n])
                      /\ AllUpdated(w, s) = g[N]
  <1> DEFINE N == Len(s)
             Follows(k, g) == g = [n \in 0..k |-> IF n = 0 THEN w ELSE Updated(g[n - 1], s[n])]
             S == {k \in 0..N : \E g : Follows(k, g)}
  <1>1. 0 \in S
    <2>1. Follows(0, [n \in 0..0 |-> w])
      OBVIOUS
    <2>2. \E g : Follows(0, g)
      <3> HIDE DEF Follows
      <3> QED
        BY <2>1
    <2> QED
      BY <2>2
  <1>2. \A k \in 1..N : k - 1 \in S => k \in S
    <2> SUFFICES ASSUME NEW k \in 1..N, k - 1 \in S
                 PROVE  k \in S
      OBVIOUS
    <2>1. PICK g : Follows(k - 1, g)
      OBVIOUS
    <2> DEFINE h == [n \in 0..k |-> IF n = k THEN Updated(g[k - 1], s[k]) ELSE g[n]]
    <2>2. \A n \in 0..k : h[n] = IF n = 0 THEN w ELSE Updated(h[n - 1], s[n])
      <3> SUFFICES ASSUME NEW n \in 0..k
                   PROVE  h[n] = IF n = 0 THEN w ELSE Updated(h[n - 1], s[n])
        OBVIOUS
      <3>1. CASE n = k
        BY <3>1
      <3>2. CASE n # k
        <4>1. n \in 0..k - 1 /\ h[n] = g[n] /\ (n # 0 => h[n - 1] = g[n - 1])
          BY <3>2
        <4>2. g[n] = IF n = 0 THEN w ELSE Updated(g[n - 1], s[n])
          BY <2>1, <4>1
        <4> QED
          BY <4>1, <4>2
      <3> QED
        BY <3>1, <3>2
    <2>3. Follows(k, h)
      BY <2>2
    <2>4. \E f : Follows(k, f)
      <3> HIDE DEF Follows, h
      <3> QED
        BY <2>3
    <2> QED
      BY <2>4
  <1>3. N \in S
    <2> HIDE DEF S
    <2>1. 0..N \subseteq S
      BY <1>1, <1>2, AllUpTo
    <2> QED
      BY <2>1
  <1> DEFINE g == CHOOSE g : Follows(N, g)
  <1>4. Follows(N, g)
    BY <1>3
  <1>5. AllUpdated(w, s) = g[N]
    BY DEF AllUpdated
  <1> HIDE DEF g
  <1>6. g[0] = w /\ \A n \in 1..N : g[n] = Updated(g[n - 1], s[n])
    BY <1>4
  <1> QED
    BY <1>5, <1>6

LEMMA AllUpdatedKeeps ==
    ASSUME FuturesAreUnlimited, NEW w, NEW H, Kept(w, H), NEW s \in Seq(Arrived)
    PROVE  Kept(AllUpdated(w, s), H)
  <1>1. Len(s) \in Nat /\ \A n \in 1..Len(s) : s[n] \in Arrived
    BY LenProperties, ElementOfSeq
  <1>2. PICK N \in Nat : N = Len(s)
    BY <1>1
  <1>3. PICK g : /\ g[0] = w /\ \A n \in 1..N : g[n] = Updated(g[n - 1], s[n])
                 /\ AllUpdated(w, s) = g[N]
    <2>1. Len(s) \in Nat
      BY <1>1
    <2>2. \E g : /\ g[0] = w /\ \A n \in 1..Len(s) : g[n] = Updated(g[n - 1], s[n])
                 /\ AllUpdated(w, s) = g[Len(s)]
      BY ONLY <2>1, AllUpdatedRuns
    <2> QED
      BY <1>2, <2>2
  <1> DEFINE S == {n \in 0..N : Kept(g[n], H)}
  <1>4. 0 \in S
    BY <1>3
  <1>5. \A n \in 1..N : n - 1 \in S => n \in S
    <2> SUFFICES ASSUME NEW n \in 1..N, Kept(g[n - 1], H)
                 PROVE  Kept(g[n], H)
      OBVIOUS
    <2> DEFINE v == g[n - 1]
    <2>1. Kept(v, H)
      OBVIOUS
    <2>2. g[n] = Updated(v, s[n])
      BY <1>3
    <2> HIDE DEF v
    <2> QED
      BY <2>1, <2>2, UpdatedKeeps DEF Kept
  <1>6. N \in S
    <2> HIDE DEF S
    <2>1. 0..N \subseteq S
      BY <1>4, <1>5, AllUpTo
    <2> QED
      BY <2>1
  <1> QED
    BY <1>3, <1>6

TakenIn(w, c, known, m) == IF m.id \in known THEN w ELSE Incorporated(w, m, c)

(* AllIncorporated() is Incorporated() for each that is not known yet.     *)
LEMMA AllIncorporatedRuns ==
    ASSUME NEW w, NEW c, NEW known, Len(c.msgs) \in Nat
    PROVE  LET N == Len(c.msgs)
           IN  \E g : /\ g[0] = w /\ \A n \in 1..N : g[n] = TakenIn(g[n - 1], c, known, c.msgs[n])
                      /\ AllIncorporated(w, c, known) = g[N]
  <1> DEFINE N == Len(c.msgs)
             Follows(k, g) == g = [n \in 0..k |-> IF n = 0 THEN w ELSE TakenIn(g[n - 1], c, known, c.msgs[n])]
             S == {k \in 0..N : \E g : Follows(k, g)}
  <1>1. 0 \in S
    <2>1. Follows(0, [n \in 0..0 |-> w])
      OBVIOUS
    <2>2. \E g : Follows(0, g)
      <3> HIDE DEF Follows
      <3> QED
        BY <2>1
    <2> QED
      BY <2>2
  <1>2. \A k \in 1..N : k - 1 \in S => k \in S
    <2> SUFFICES ASSUME NEW k \in 1..N, k - 1 \in S
                 PROVE  k \in S
      OBVIOUS
    <2>1. PICK g : Follows(k - 1, g)
      OBVIOUS
    <2> DEFINE h == [n \in 0..k |-> IF n = k THEN TakenIn(g[k - 1], c, known, c.msgs[k]) ELSE g[n]]
    <2>2. \A n \in 0..k : h[n] = IF n = 0 THEN w ELSE TakenIn(h[n - 1], c, known, c.msgs[n])
      <3> SUFFICES ASSUME NEW n \in 0..k
                   PROVE  h[n] = IF n = 0 THEN w ELSE TakenIn(h[n - 1], c, known, c.msgs[n])
        OBVIOUS
      <3>1. CASE n = k
        BY <3>1
      <3>2. CASE n # k
        <4>1. n \in 0..k - 1 /\ h[n] = g[n] /\ (n # 0 => h[n - 1] = g[n - 1])
          BY <3>2
        <4>2. g[n] = IF n = 0 THEN w ELSE TakenIn(g[n - 1], c, known, c.msgs[n])
          BY <2>1, <4>1
        <4> QED
          BY <4>1, <4>2
      <3> QED
        BY <3>1, <3>2
    <2>3. Follows(k, h)
      BY <2>2
    <2>4. \E f : Follows(k, f)
      <3> HIDE DEF Follows, h
      <3> QED
        BY <2>3
    <2> QED
      BY <2>4
  <1>3. N \in S
    <2> HIDE DEF S
    <2>1. 0..N \subseteq S
      BY <1>1, <1>2, AllUpTo
    <2> QED
      BY <2>1
  <1> DEFINE g == CHOOSE g : Follows(N, g)
  <1>4. Follows(N, g)
    BY <1>3
  <1>5. AllIncorporated(w, c, known) = g[N]
    BY DEF AllIncorporated, TakenIn
  <1> HIDE DEF g
  <1>6. g[0] = w /\ \A n \in 1..N : g[n] = TakenIn(g[n - 1], c, known, c.msgs[n])
    BY <1>4
  <1> QED
    BY <1>5, <1>6

LEMMA AllIncorporatedKeeps ==
    ASSUME FuturesAreUnlimited, NEW w, NEW H, Kept(w, H), NEW c \in Arrivals, NEW known
    PROVE  Kept(AllIncorporated(w, c, known), H)
  <1>1. Len(c.msgs) \in Nat /\ \A n \in 1..Len(c.msgs) : c.msgs[n] \in Arrived
    BY LenProperties, ElementOfSeq DEF Arrivals
  <1>2. PICK N \in Nat : N = Len(c.msgs)
    BY <1>1
  <1>3. PICK g : /\ g[0] = w /\ \A n \in 1..N : g[n] = TakenIn(g[n - 1], c, known, c.msgs[n])
                 /\ AllIncorporated(w, c, known) = g[N]
    <2>1. Len(c.msgs) \in Nat
      BY <1>1
    <2>2. \E g : /\ g[0] = w /\ \A n \in 1..Len(c.msgs) : g[n] = TakenIn(g[n - 1], c, known, c.msgs[n])
                 /\ AllIncorporated(w, c, known) = g[Len(c.msgs)]
      BY <2>1, AllIncorporatedRuns
    <2> QED
      BY <1>2, <2>2
  <1> DEFINE S == {n \in 0..N : Kept(g[n], H)}
  <1>4. 0 \in S
    BY <1>3
  <1>5. \A n \in 1..N : n - 1 \in S => n \in S
    <2> SUFFICES ASSUME NEW n \in 1..N, Kept(g[n - 1], H)
                 PROVE  Kept(g[n], H)
      OBVIOUS
    <2> DEFINE v == g[n - 1]
    <2>1. Kept(v, H)
      OBVIOUS
    <2>2. g[n] = TakenIn(v, c, known, c.msgs[n])
      BY <1>3
    <2> HIDE DEF v
    <2>3. CASE c.msgs[n].id \in known
      BY <2>1, <2>2, <2>3 DEF TakenIn
    <2>4. CASE c.msgs[n].id \notin known
      BY <1>1, <1>2, <2>1, <2>2, <2>4, IncorporatedKeeps DEF TakenIn
    <2> QED
      BY <2>3, <2>4
  <1>6. N \in S
    <2> HIDE DEF S
    <2>1. 0..N \subseteq S
      BY <1>4, <1>5, AllUpTo
    <2> QED
      BY <2>1
  <1> QED
    BY <1>3, <1>6

LEMMA ProcessedKeeps ==
    ASSUME FuturesAreUnlimited, NEW w, NEW H, Kept(w, H), NEW c \in Arrivals
    PROVE  Kept(Processed(w, c), H)
  <1> DEFINE known == {w.list[i].id : i \in DOMAIN w.list}
             u == AllUpdated(w, c.msgs)
             v == AllIncorporated(u, c, known)
  <1>1. c.msgs \in Seq(Arrived)
    BY DEF Arrivals
  <1>2. Kept(u, H)
    BY <1>1, AllUpdatedKeeps
  <1> HIDE DEF u, known
  <1>3. Kept(v, H)
    BY <1>2, AllIncorporatedKeeps
  <1> HIDE DEF v
  <1>4. Kept(AskedOn(v, c), H)
    BY <1>3, AskedOnKeeps
  <1> QED
    BY <1>4 DEF Processed, u, v, known

(* The ROOM_MESSAGES event.                                                *)
LEMMA RoomMessagesKeeps ==
    ASSUME FuturesAreUnlimited, NEW w, NEW H, Shown(w, 0, H), NEW c \in Arrivals
    PROVE  Shown(RoomMessages(w, c), 0, H)
  <1>1. c.dir \in Dirs
    BY DEF Arrivals
  <1>2. /\ DOMAIN w = UiFields /\ w.asked \in Seq(Requests) /\ w.wanted \in [Dirs -> Int]
        /\ w.bot = 0 => \A d \in Dirs : w.wanted[d] = NoChunk
    BY WindowTypes DEF Shown, Window, Asks
  <1>3. CASE RoomMessages(w, c) = w
    BY <1>3
  <1>4. CASE /\ c.this # NoChunk /\ StillWanted(w, c)
             /\ RoomMessages(w, c) = Processed([w EXCEPT !.wanted[c.dir] = NoChunk], c)
    <2> DEFINE W == [w.wanted EXCEPT ![c.dir] = NoChunk]
               y == [w EXCEPT !.wanted = W]
    <2>1. w.bot # 0
      BY <1>1, <1>2, <1>4 DEF StillWanted
    <2>2. W \in [Dirs -> Int]
      <3>1. NoChunk \in Int
        BY DEF NoChunk
      <3> QED
        BY <1>1, <1>2, <3>1
    <2> HIDE DEF W
    <2>3. /\ AsWidget(w, y) /\ y.list = w.list /\ y.top = w.top /\ y.bot = w.bot
          /\ y.asked = w.asked /\ y.wanted = W
      BY <1>2 DEF AsWidget, UiFields
    <2>4. RoomMessages(w, c) = Processed(y, c)
      BY <1>4 DEF W
    <2> HIDE DEF y
    <2>5. Kept(y, H)
      BY <1>2, <2>1, <2>2, <2>3, SameRow DEF Kept
    <2>6. Kept(Processed(y, c), H)
      BY <2>5, ProcessedKeeps
    <2> QED
      BY <2>4, <2>6 DEF Kept
  <1>5. CASE FollowsWindow(w) /\ RoomMessages(w, c) = Processed(w, c)
    <2>1. Kept(w, H)
      BY <1>5 DEF FollowsWindow, Kept
    <2>2. Kept(Processed(w, c), H)
      BY <2>1, ProcessedKeeps
    <2> QED
      BY <1>5, <2>2 DEF Kept
  <1>6. CASE FollowsWindow(w) /\ RoomMessages(w, c) = [w EXCEPT !.behind = TRUE]
    <2> DEFINE y == [w EXCEPT !.behind = TRUE]
    <2>1. Kept(w, H)
      BY <1>6 DEF FollowsWindow, Kept
    <2>2. /\ AsWidget(w, y) /\ y.list = w.list /\ y.top = w.top /\ y.bot = w.bot
          /\ y.asked = w.asked /\ y.wanted = w.wanted
      BY <1>2 DEF AsWidget, UiFields
    <2> HIDE DEF y
    <2>3. Kept(y, H)
      BY <1>2, <2>1, <2>2, SameRow
    <2> QED
      BY <1>6, <2>3 DEF Kept, y
  <1> QED
    BY <1>3, <1>4, <1>5, <1>6 DEF RoomMessages
-----------------------------------------------------------------------------
(* The screen and the task: each action keeps the invariant.               *)

WithoutAsked(w) == [w EXCEPT !.asked = <<>>]

LEMMA WithoutAskedKeeps ==
    ASSUME NEW w, NEW H, Shown(w, 0, H)
    PROVE  Shown(WithoutAsked(w), 0, H)
  <1>1. PICK C : Window(w, 0, H, C)
    BY DEF Shown
  <1> DEFINE y == [w EXCEPT !.asked = <<>>]
  <1>2. DOMAIN w = UiFields /\ Asks(w)
    BY <1>1, WindowTypes DEF Window
  <1>3. /\ AsWidget(w, y) /\ y.list = w.list /\ y.top = w.top /\ y.bot = w.bot
        /\ y.asked = <<>> /\ y.wanted = w.wanted
    BY <1>2 DEF AsWidget, UiFields
  <1> HIDE DEF y
  <1>4. <<>> \in Seq(Requests)
    OBVIOUS
  <1>5. Asks(y) /\ Fits(y.list, y.top, y.bot, 0, H, C)
    BY <1>1, <1>2, <1>3, <1>4 DEF Asks, Window
  <1>6. Window(y, 0, H, C)
    BY <1>1, <1>3, <1>5, WindowAs DEF Window
  <1> QED
    BY <1>6 DEF Shown, WithoutAsked, y

(* What the screen and the task send each other.                           *)
Posts ==
    /\ inbox \in Seq(Arrivals) /\ requests \in Seq(Requests)
    /\ posted \in Nat /\ synced \in Nat

WindowInv == Posts /\ \E H : Shown(ui, 0, H)

(* The requests that a handler made are sent.                              *)
LEMMA GoesOnWith ==
    ASSUME Posts, NEW w, NEW H, Shown(w, 0, H), Becomes(w)
    PROVE  (\E u : Shown(ui', 0, u)) /\ requests' \in Seq(Requests)
  <1>1. ui' = WithoutAsked(w)
    BY DEF Becomes, WithoutAsked
  <1>2. Shown(WithoutAsked(w), 0, H)
    BY WithoutAskedKeeps
  <1>3. w.asked \in Seq(Requests)
    BY WindowTypes DEF Shown
  <1>4. requests' \in Seq(Requests)
    BY <1>3 DEF Becomes, Posts
  <1> QED
    BY <1>1, <1>2, <1>4

LEMMA QueuePollKeeps ==
    ASSUME FuturesAreUnlimited, WindowInv, QueuePoll
    PROVE  WindowInv'
  <1>1. PICK H : Shown(ui, 0, H)
    BY DEF WindowInv
  <1>2. Posts /\ inbox # <<>>
    BY DEF WindowInv, QueuePoll
  <1>3. Head(inbox) \in Arrivals /\ Tail(inbox) \in Seq(Arrivals)
    BY <1>2, HeadTailProperties DEF Posts
  <1>4. PICK w : /\ w = MessageDecrypted(ui, Head(inbox).id) \/ w = RoomMessages(ui, Head(inbox))
                 /\ Becomes(w)
    BY DEF QueuePoll
  <1>5. Shown(w, 0, H)
    BY <1>1, <1>3, <1>4, MessageDecryptedKeeps, RoomMessagesKeeps
  <1>6. (\E u : Shown(ui', 0, u)) /\ requests' \in Seq(Requests)
    BY <1>2, <1>4, <1>5, GoesOnWith
  <1>7. inbox' = Tail(inbox) /\ UNCHANGED <<posted, synced>>
    BY DEF QueuePoll
  <1> QED
    BY <1>2, <1>3, <1>6, <1>7 DEF WindowInv, Posts

LEMMA EventTimerKeeps ==
    ASSUME FuturesAreUnlimited, WindowInv, EventTimer
    PROVE  WindowInv'
  <1>1. PICK H, C : Window(ui, 0, H, C)
    BY DEF WindowInv, Shown
  <1>2. Posts /\ ui.events # <<>> /\ Becomes(FirstEventHandled(ui))
    BY DEF WindowInv, EventTimer
  <1>3. PICK u : Shown(FirstEventHandled(ui), 0, u)
    BY <1>1, <1>2, EventHandled DEF Shown
  <1>4. (\E v : Shown(ui', 0, v)) /\ requests' \in Seq(Requests)
    BY <1>2, <1>3, GoesOnWith
  <1>5. UNCHANGED <<inbox, posted, synced>>
    BY DEF EventTimer
  <1> QED
    BY <1>2, <1>4, <1>5 DEF WindowInv, Posts

(* What the user does.                                                     *)
LEMMA MovesKeep ==
    ASSUME WindowInv, NEW H, NEW C, Window(ui, 0, H, C), NEW w, Moves(w),
           Widget(H, C, w), SameWindow(ui, w), Rest(w)
    PROVE  WindowInv'
  <1>1. Asks(w) /\ Fits(w.list, w.top, w.bot, 0, H, C)
    BY DEF SameWindow, Asks, Window
  <1>2. Shown(w, 0, H)
    BY <1>1 DEF Window, Shown
  <1>3. Posts /\ Becomes(w) /\ UNCHANGED <<inbox, posted, synced>>
    BY DEF WindowInv, Moves
  <1>4. (\E v : Shown(ui', 0, v)) /\ requests' \in Seq(Requests)
    BY <1>2, <1>3, GoesOnWith
  <1> QED
    BY <1>3, <1>4 DEF WindowInv, Posts

LEMMA UserKeeps ==
    ASSUME FuturesAreUnlimited, WindowInv, OpenRoom \/ GoBack \/ \E d \in {-1, 1} : ScrollBy(d)
    PROVE  WindowInv'
  <1>1. PICK H, C : Window(ui, 0, H, C)
    BY DEF WindowInv, Shown
  <1>2. Widget(H, C, ui) /\ Rest(ui)
    BY <1>1 DEF Window
  <1>3. CASE OpenRoom
    <2> DEFINE w == OpenConvo(ui)
    <2>1. ~ui.active /\ Moves(w)
      BY <1>3 DEF OpenRoom
    <2>2. Widget(H, C, w) /\ SameWindow(ui, w) /\ w.active = TRUE
      BY <1>2, <2>1, OpenKeeps
    <2>3. Rest(w)
      BY <2>2 DEF Rest
    <2> HIDE DEF w
    <2> QED
      BY <1>1, <2>1, <2>2, <2>3, MovesKeep
  <1>4. CASE GoBack
    <2> DEFINE w == Back(ui)
    <2>1. Moves(w)
      BY <1>4 DEF GoBack
    <2>2. Widget(H, C, w) /\ SameWindow(ui, w) /\ Rest(w)
      BY <1>2, BackKeeps
    <2> HIDE DEF w
    <2> QED
      BY <1>1, <2>1, <2>2, MovesKeep
  <1>5. ASSUME NEW d \in {-1, 1}, ScrollBy(d)
        PROVE  WindowInv'
    <2> DEFINE w == Scroll(ui, d)
    <2>1. Moves(w) /\ IsOpen(ui) /\ ui.pos + d \in 0..LastPos(ui)
      BY <1>5 DEF ScrollBy, IsOpen
    <2>2. Widget(H, C, w) /\ SameWindow(ui, w) /\ Rest(w)
      BY <1>2, <2>1, ScrollKeeps
    <2> HIDE DEF w
    <2> QED
      BY <1>1, <2>1, <2>2, MovesKeep
  <1> QED
    BY <1>3, <1>4, <1>5
-----------------------------------------------------------------------------
(* The task.                                                               *)
MessageOr(s, event) == IF event \in NoMessages THEN s ELSE Append(s, event)

(* MessagesOf() takes one event after the other.                           *)
LEMMA MessagesOfRuns ==
    ASSUME NEW s, Len(s) \in Nat
    PROVE  LET N == Len(s)
           IN  \E g : /\ g[0] = <<>> /\ \A n \in 1..N : g[n] = MessageOr(g[n - 1], s[n])
                      /\ MessagesOf(s) = g[N]
  <1> DEFINE N == Len(s)
             Follows(k, g) == g = [n \in 0..k |-> IF n = 0 THEN <<>> ELSE MessageOr(g[n - 1], s[n])]
             S == {k \in 0..N : \E g : Follows(k, g)}
  <1>1. 0 \in S
    <2>1. Follows(0, [n \in 0..0 |-> <<>>])
      OBVIOUS
    <2>2. \E g : Follows(0, g)
      <3> HIDE DEF Follows
      <3> QED
        BY <2>1
    <2> QED
      BY <2>2
  <1>2. \A k \in 1..N : k - 1 \in S => k \in S
    <2> SUFFICES ASSUME NEW k \in 1..N, k - 1 \in S
                 PROVE  k \in S
      OBVIOUS
    <2>1. PICK g : Follows(k - 1, g)
      OBVIOUS
    <2> DEFINE h == [n \in 0..k |-> IF n = k THEN MessageOr(g[k - 1], s[k]) ELSE g[n]]
    <2>2. \A n \in 0..k : h[n] = IF n = 0 THEN <<>> ELSE MessageOr(h[n - 1], s[n])
      <3> SUFFICES ASSUME NEW n \in 0..k
                   PROVE  h[n] = IF n = 0 THEN <<>> ELSE MessageOr(h[n - 1], s[n])
        OBVIOUS
      <3>1. CASE n = k
        BY <3>1
      <3>2. CASE n # k
        <4>1. n \in 0..k - 1 /\ h[n] = g[n] /\ (n # 0 => h[n - 1] = g[n - 1])
          BY <3>2
        <4>2. g[n] = IF n = 0 THEN <<>> ELSE MessageOr(g[n - 1], s[n])
          BY <2>1, <4>1
        <4> QED
          BY <4>1, <4>2
      <3> QED
        BY <3>1, <3>2
    <2>3. Follows(k, h)
      BY <2>2
    <2>4. \E f : Follows(k, f)
      <3> HIDE DEF Follows, h
      <3> QED
        BY <2>3
    <2> QED
      BY <2>4
  <1>3. N \in S
    <2> HIDE DEF S
    <2>1. 0..N \subseteq S
      BY <1>1, <1>2, AllUpTo
    <2> QED
      BY <2>1
  <1> DEFINE g == CHOOSE g : Follows(N, g)
  <1>4. Follows(N, g)
    BY <1>3
  <1>5. MessagesOf(s) = g[N]
    BY DEF MessagesOf, MessageOr
  <1> HIDE DEF g
  <1>6. g[0] = <<>> /\ \A n \in 1..N : g[n] = MessageOr(g[n - 1], s[n])
    BY <1>4
  <1> QED
    BY <1>5, <1>6

(* A chunk consists of messages.                                           *)
LEMMA MessagesOfType ==
    ASSUME NEW s \in Seq(Int)
    PROVE  MessagesOf(s) \in Seq(Int)
  <1>1. Len(s) \in Nat /\ \A n \in 1..Len(s) : s[n] \in Int
    BY LenProperties, ElementOfSeq
  <1>2. PICK N \in Nat : N = Len(s)
    BY <1>1
  <1>3. PICK g : /\ g[0] = <<>> /\ \A n \in 1..N : g[n] = MessageOr(g[n - 1], s[n])
                 /\ MessagesOf(s) = g[N]
    <2>1. \E g : /\ g[0] = <<>> /\ \A n \in 1..Len(s) : g[n] = MessageOr(g[n - 1], s[n])
                 /\ MessagesOf(s) = g[Len(s)]
      BY <1>1, MessagesOfRuns
    <2> QED
      BY <1>2, <2>1
  <1> DEFINE S == {n \in 0..N : g[n] \in Seq(Int)}
  <1>4. 0 \in S
    <2>1. <<>> \in Seq(Int)
      OBVIOUS
    <2>2. g[0] \in Seq(Int)
      BY <1>3, <2>1
    <2> QED
      BY <2>2
  <1>5. \A n \in 1..N : n - 1 \in S => n \in S
    <2> SUFFICES ASSUME NEW n \in 1..N, g[n - 1] \in Seq(Int)
                 PROVE  g[n] \in Seq(Int)
      OBVIOUS
    <2>1. s[n] \in Int
      BY <1>1, <1>2
    <2>2. g[n] = MessageOr(g[n - 1], s[n])
      BY <1>3
    <2> DEFINE v == g[n - 1]
               e == s[n]
    <2>3. v \in Seq(Int) /\ e \in Int /\ g[n] = MessageOr(v, e)
      BY <2>1, <2>2
    <2> HIDE DEF v, e
    <2>4. Append(v, e) \in Seq(Int)
      BY <2>3
    <2> QED
      BY <2>3, <2>4 DEF MessageOr
  <1>6. N \in S
    <2> HIDE DEF S
    <2>1. 0..N \subseteq S
      BY <1>4, <1>5, AllUpTo
    <2> QED
      BY <2>1
  <1> QED
    BY <1>3, <1>6

LEMMA SendsKeeps ==
    ASSUME Posts, NEW this \in Int, NEW next \in Int, NEW dir \in Dirs, NEW s \in Seq(Int),
           Sends(this, next, dir, s)
    PROVE  inbox' \in Seq(Arrivals)
  <1>1. PICK ms \in Seq(Int) : ms = MessagesOf(s)
    BY MessagesOfType
  <1> DEFINE msgs == [i \in DOMAIN ms |-> [id |-> ms[i], text |-> IsReadable(ms[i])]]
             a == [this |-> this, next |-> next, dir |-> dir, id |-> Nothing, msgs |-> msgs]
  <1>2. msgs \in Seq(Arrived)
    <2>1. PICK n \in Nat : n = Len(ms) /\ DOMAIN ms = 1..n
      BY LenProperties
    <2>2. \A i \in 1..n : [id |-> ms[i], text |-> IsReadable(ms[i])] \in Arrived
      <3>1. \A i \in 1..n : ms[i] \in Int
        BY <2>1, ElementOfSeq
      <3>2. \A i \in 1..n : IsReadable(ms[i]) \in BOOLEAN
        BY DEF IsReadable
      <3> QED
        BY <3>1, <3>2 DEF Arrived
    <2> QED
      BY <2>1, <2>2
  <1>3. inbox' = Append(inbox, a)
    BY <1>1 DEF Sends
  <1> HIDE DEF msgs
  <1>4. a \in Arrivals
    BY <1>2 DEF Arrivals, Nothing
  <1> HIDE DEF a
  <1> QED
    BY <1>3, <1>4 DEF Posts

LEMMA Numbered ==
    ASSUME NEW n \in Int, NEW s, DOMAIN s = 1..n, s = [i \in 1..n |-> s[i]],
           \A i \in 1..n : s[i] \in Int
    PROVE  s \in Seq(Int)
  <1>1. CASE n \in Nat
    BY <1>1
  <1>2. CASE n \notin Nat
    <2>1. 1..n = 1..0
      BY <1>2
    <2>2. s = [i \in 1..0 |-> s[i]]
      BY <2>1
    <2> QED
      BY <2>2
  <1> QED
    BY <1>1, <1>2

LEMMA RequestMessagesKeeps ==
    ASSUME WindowInv, RequestMessages
    PROVE  WindowInv'
  <1> DEFINE r    == Head(requests)
             from == IF r.chunk = NoChunk THEN posted ELSE r.chunk
             low  == Max({from - Page, 0})
             high == Min({from + Page, posted})
             above == [i \in 1..from - low |-> from + 1 - i]
             below == [i \in 1..high - from |-> from + i]
             next == IF low = 0 THEN NoChunk ELSE low
             last == IF high = posted THEN NoChunk ELSE high
  <1>1. Posts /\ requests # <<>> /\ requests' = Tail(requests) /\ UNCHANGED <<ui, posted, synced>>
    BY DEF WindowInv, RequestMessages
  <1>2. r \in Requests /\ Tail(requests) \in Seq(Requests)
    BY <1>1, HeadTailProperties DEF Posts
  <1>3. r.chunk \in Int /\ r.dir \in Dirs /\ posted \in Nat /\ Page \in Nat /\ NoChunk \in Int
    BY <1>1, <1>2, WindowAssumption DEF Requests, Posts, NoChunk
  <1>4. from \in Int
    BY <1>3
  <1> HIDE DEF r, from
  <1>5. low \in Int /\ high \in Int
    BY <1>3, <1>4, MaxOfTwo, MinOfTwo
  <1> HIDE DEF low, high
  <1>6. above \in Seq(Int)
    <2>1. from - low \in Int /\ \A i \in 1..from - low : above[i] \in Int
      BY <1>4, <1>5
    <2>2. DOMAIN above = 1..from - low /\ above = [i \in 1..from - low |-> above[i]]
      OBVIOUS
    <2> HIDE DEF above
    <2> QED
      BY <2>1, <2>2, Numbered
  <1>7. below \in Seq(Int)
    <2>1. high - from \in Int /\ \A i \in 1..high - from : below[i] \in Int
      BY <1>4, <1>5
    <2>2. DOMAIN below = 1..high - from /\ below = [i \in 1..high - from |-> below[i]]
      OBVIOUS
    <2> HIDE DEF below
    <2> QED
      BY <2>1, <2>2, Numbered
  <1>8. next \in Int /\ last \in Int
    BY <1>3, <1>5
  <1>9. \/ Sends(r.chunk, next, "up", above)
        \/ Sends(r.chunk, last, "down", below)
    BY DEF RequestMessages, r, from, low, high
  <1> HIDE DEF above, below, next, last
  <1>10. inbox' \in Seq(Arrivals)
    <2> DEFINE up == "up"
               down == "down"
    <2>1. up \in Dirs /\ down \in Dirs
      BY DEF Dirs
    <2>2. Sends(r.chunk, next, up, above) \/ Sends(r.chunk, last, down, below)
      BY <1>9
    <2> HIDE DEF up, down
    <2> QED
      BY <1>1, <1>3, <1>6, <1>7, <1>8, <2>1, <2>2, SendsKeeps
  <1> QED
    BY <1>1, <1>2, <1>10 DEF WindowInv, Posts

LEMMA SyncKeeps ==
    ASSUME WindowInv, Sync
    PROVE  WindowInv'
  <1> DEFINE s == [i \in 1..posted - synced |-> synced + i]
             down == "down"
  <1>1. Posts /\ synced' = posted /\ UNCHANGED <<ui, posted, requests>>
    BY DEF WindowInv, Sync
  <1>2. s \in Seq(Int)
    <2>1. posted - synced \in Int /\ \A i \in 1..posted - synced : s[i] \in Int
      BY <1>1 DEF Posts
    <2>2. DOMAIN s = 1..posted - synced /\ s = [i \in 1..posted - synced |-> s[i]]
      OBVIOUS
    <2> HIDE DEF s
    <2> QED
      BY <2>1, <2>2, Numbered
  <1>3. Sends(NoChunk, synced, down, s)
    BY DEF Sync
  <1>4. down \in Dirs /\ NoChunk \in Int /\ synced \in Int
    BY <1>1 DEF Dirs, NoChunk, Posts
  <1> HIDE DEF s, down
  <1>5. inbox' \in Seq(Arrivals)
    BY <1>1, <1>2, <1>3, <1>4, SendsKeeps
  <1> QED
    BY <1>1, <1>5 DEF WindowInv, Posts

LEMMA TaskKeeps ==
    ASSUME WindowInv, Post \/ \E m \in Encrypted : KeyArrives(m)
    PROVE  WindowInv'
  <1>1. Posts
    BY DEF WindowInv
  <1>2. CASE Post
    BY <1>1, <1>2 DEF Post, WindowInv, Posts
  <1>3. ASSUME NEW m \in Encrypted, KeyArrives(m)
        PROVE  WindowInv'
    <2> DEFINE a == [this |-> NoChunk, next |-> NoChunk, dir |-> "down", id |-> m, msgs |-> <<>>]
    <2>1. (inbox' = inbox \/ inbox' = Append(inbox, a)) /\ UNCHANGED <<ui, posted, synced, requests>>
      BY <1>3 DEF KeyArrives
    <2>2. m \in Int /\ <<>> \in Seq(Arrived)
      BY WindowAssumption
    <2>3. a \in Arrivals
      BY <2>2 DEF Arrivals, NoChunk, Dirs
    <2> HIDE DEF a
    <2>4. inbox' \in Seq(Arrivals)
      BY <1>1, <2>1, <2>3 DEF Posts
    <2> QED
      BY <1>1, <2>1, <2>4 DEF WindowInv, Posts
  <1> QED
    BY <1>2, <1>3

(* Every step of the screen, the task and the others.                      *)
LEMMA WindowStep ==
    ASSUME FuturesAreUnlimited, WindowInv, [WindowNext]_windowVars
    PROVE  WindowInv'
  <1>1. CASE QueuePoll
    BY <1>1, QueuePollKeeps
  <1>2. CASE EventTimer
    BY <1>2, EventTimerKeeps
  <1>3. CASE OpenRoom \/ GoBack \/ \E d \in {-1, 1} : ScrollBy(d)
    BY <1>3, UserKeeps
  <1>4. CASE RequestMessages
    BY <1>4, RequestMessagesKeeps
  <1>5. CASE Sync
    BY <1>5, SyncKeeps
  <1>6. CASE Post \/ \E m \in Encrypted : KeyArrives(m)
    BY <1>6, TaskKeeps
  <1>7. CASE UNCHANGED windowVars
    BY <1>7 DEF windowVars, WindowInv, Posts
  <1> QED
    BY <1>1, <1>2, <1>3, <1>4, <1>5, <1>6, <1>7 DEF WindowNext
-----------------------------------------------------------------------------
(* A room is created with one future and no messages.                      *)
LEMMA WindowStarts ==
    ASSUME FuturesAreUnlimited, WindowInit
    PROVE  WindowInv
  <1> DEFINE x == EmptyUi
             C == [f \in Futures |-> Nothing]
             y == FirstFuture(x, Fresh(x))
  <1>1. /\ DOMAIN x = UiFields /\ x.bubbles = <<>> /\ x.events = <<>> /\ x.text = C
        /\ x.bub = {} /\ x.latest = {} /\ x.list = <<>> /\ x.top = 0 /\ x.bot = 0 /\ x.asked = <<>>
        /\ x.wanted = [up |-> NoChunk, down |-> NoChunk]
        /\ x.active = FALSE /\ x.failed = {}
    BY DEF EmptyUi, UiFields
  <1> HIDE DEF x
  <1>2. Fresh(x) = Min(Futures)
    <2>1. Range(x.bubbles) = {} /\ \A f : ~Queued(x, f)
      BY <1>1 DEF Range, Queued
    <2>2. {f \in Futures : f \notin Range(x.bubbles) /\ ~Queued(x, f)} = Futures
      BY <2>1
    <2> QED
      BY <2>2 DEF Fresh
  <1>3. ui = y
    BY <1>2 DEF WindowInit, x
  <1>4. Core(<<>>, C, x)
    <2>1. Leads(<<>>, <<>>, <<>>)
      <3> DEFINE p == [n \in 0..0 |-> <<>>]
      <3>1. Len(<<>>) = 0
        OBVIOUS
      <3>2. p \in [0..0 -> Seq(Futures)]
        OBVIOUS
      <3>3. p[0] = <<>> /\ Distinct(p[0])
        BY DEF Distinct
      <3> HIDE DEF p
      <3>4. IsPath(p, <<>>, <<>>, <<>>)
        BY <3>1, <3>3 DEF IsPath
      <3> QED
        BY <3>1, <3>2, <3>4 DEF Leads
    <2>2. <<>> \in Seq(FutureEvents) /\ Once(<<>>)
      BY DEF Once
    <2>3. Told(<<>>, C, <<>>) = C
      BY DEF Told, Range
    <2> HIDE DEF C
    <2> QED
      BY <1>1, <2>1, <2>2, <2>3 DEF Core
  <1>5. Goes(<<>>, C, x, y) /\ Rest(y)
    BY <1>1, <1>4, FirstFutureKeeps
  <1> HIDE DEF y, C
  <1>6. Widget(<<>>, C, y) /\ SameWindow(x, y)
    BY <1>5 DEF Goes
  <1>7. Asks(x)
    <2>1. NoChunk \in Int
      BY DEF NoChunk
    <2>2. [up |-> NoChunk, down |-> NoChunk] \in [Dirs -> Int]
          /\ \A d \in Dirs : [up |-> NoChunk, down |-> NoChunk][d] = NoChunk
      BY <2>1 DEF Dirs
    <2> QED
      BY <1>1, <2>2 DEF Asks
  <1>8. Asks(y) /\ Fits(y.list, y.top, y.bot, 0, <<>>, C)
    BY <1>1, <1>6, <1>7, FitsNone DEF SameWindow, Asks
  <1>9. Shown(ui, 0, <<>>)
    BY <1>3, <1>5, <1>6, <1>8 DEF Shown, Window
  <1>10. Posts
    BY WindowAssumption DEF WindowInit, Posts
  <1> QED
    BY <1>9, <1>10 DEF WindowInv

(* Following the events is what they do to the futures that are held.      *)
LEMMA HandledIs ==
    ASSUME NEW e \in FutureEvents, NEW s \in Seq(Futures), NEW t \in Seq(Futures), Turns(e, s, t)
    PROVE  WhenHandled(s, e) = t
  <1>1. e.side \in Sides /\ e.load \in BOOLEAN
    BY DEF FutureEvents
  <1>2. CASE e.load
    <2>1. t # <<>> /\ t[EndOf(t, e.side)] = e.fut /\ s = RemoveAt(t, EndOf(t, e.side))
      BY <1>2 DEF Turns, Adds
    <2>2. CASE e.side = "top"
      <3>1. s = Tail(t) /\ t[1] = e.fut /\ Head(t) = t[1]
        BY <2>1, <2>2, TailIs DEF EndOf
      <3>2. t = <<e.fut>> \o s
        BY <2>1, <3>1, HeadTailProperties
      <3> QED
        BY <1>2, <2>2, <3>2 DEF WhenHandled
    <2>3. CASE e.side = "bottom"
      <3>1. s = Front(t) /\ Last(t) = e.fut
        BY <2>1, <2>3, FrontIs DEF EndOf
      <3>2. t = Append(s, e.fut)
        BY <2>1, <3>1, FrontIs
      <3> QED
        BY <1>2, <2>3, <3>2 DEF WhenHandled
    <2> QED
      BY <1>1, <2>2, <2>3 DEF Sides
  <1>3. CASE ~e.load
    <2>1. s # <<>> /\ s[EndOf(s, e.side)] = e.fut /\ t = RemoveAt(s, EndOf(s, e.side))
      BY <1>3 DEF Turns, Adds
    <2>2. CASE e.side = "top"
      <3>1. t = Tail(s) /\ Head(s) = e.fut
        BY <2>1, <2>2, TailIs DEF EndOf
      <3> QED
        BY <1>3, <2>1, <2>2, <3>1 DEF WhenHandled
    <2>3. CASE e.side = "bottom"
      <3>1. t = Front(s) /\ Last(s) = e.fut
        BY <2>1, <2>3, FrontIs DEF EndOf
      <3> QED
        BY <1>3, <2>1, <2>3, <3>1 DEF WhenHandled
    <2> QED
      BY <1>1, <2>2, <2>3 DEF Sides
  <1> QED
    BY <1>2, <1>3
-----------------------------------------------------------------------------
(* What the invariant says of the futures in the end.                      *)

(* AfterAll() takes one event after the other.                             *)
LEMMA AfterAllRuns ==
    ASSUME NEW s, Len(s) \in Nat
    PROVE  LET N == Len(s)
           IN  \E g : /\ g[0] = Held /\ \A n \in 1..N : g[n] = WhenHandled(g[n - 1], s[n])
                      /\ AfterAll(s) = g[N]
  <1> DEFINE N == Len(s)
             Follows(k, g) == g = [n \in 0..k |-> IF n = 0 THEN Held ELSE WhenHandled(g[n - 1], s[n])]
             S == {k \in 0..N : \E g : Follows(k, g)}
  <1>1. 0 \in S
    <2>1. Follows(0, [n \in 0..0 |-> Held])
      OBVIOUS
    <2>2. \E g : Follows(0, g)
      <3> HIDE DEF Follows
      <3> QED
        BY <2>1
    <2> QED
      BY <2>2
  <1>2. \A k \in 1..N : k - 1 \in S => k \in S
    <2> SUFFICES ASSUME NEW k \in 1..N, k - 1 \in S
                 PROVE  k \in S
      OBVIOUS
    <2>1. PICK g : Follows(k - 1, g)
      OBVIOUS
    <2> DEFINE h == [n \in 0..k |-> IF n = k THEN WhenHandled(g[k - 1], s[k]) ELSE g[n]]
    <2>2. \A n \in 0..k : h[n] = IF n = 0 THEN Held ELSE WhenHandled(h[n - 1], s[n])
      <3> SUFFICES ASSUME NEW n \in 0..k
                   PROVE  h[n] = IF n = 0 THEN Held ELSE WhenHandled(h[n - 1], s[n])
        OBVIOUS
      <3>1. CASE n = k
        BY <3>1
      <3>2. CASE n # k
        <4>1. n \in 0..k - 1 /\ h[n] = g[n] /\ (n # 0 => h[n - 1] = g[n - 1])
          BY <3>2
        <4>2. g[n] = IF n = 0 THEN Held ELSE WhenHandled(g[n - 1], s[n])
          BY <2>1, <4>1
        <4> QED
          BY <4>1, <4>2
      <3> QED
        BY <3>1, <3>2
    <2>3. Follows(k, h)
      BY <2>2
    <2>4. \E f : Follows(k, f)
      <3> HIDE DEF Follows, h
      <3> QED
        BY <2>3
    <2> QED
      BY <2>4
  <1>3. N \in S
    <2> HIDE DEF S
    <2>1. 0..N \subseteq S
      BY <1>1, <1>2, AllUpTo
    <2> QED
      BY <2>1
  <1> DEFINE g == CHOOSE g : Follows(N, g)
  <1>4. Follows(N, g)
    BY <1>3
  <1>5. AfterAll(s) = g[N]
    BY DEF AfterAll
  <1> HIDE DEF g
  <1>6. g[0] = Held /\ \A n \in 1..N : g[n] = WhenHandled(g[n - 1], s[n])
    BY <1>4
  <1> QED
    BY <1>5, <1>6

(* The futures that the messages hold are H.                               *)
LEMMA HeldAre ==
    ASSUME NEW H, NEW C, Window(ui, 0, H, C)
    PROVE  Held = H
  <1>1. FitsAll(ui.list, ui.top, ui.bot, H, C)
    BY FitsPlain DEF Window
  <1>2. /\ ui.top \in Nat /\ ui.bot \in Nat /\ H \in Seq(Futures) /\ Len(H) \in Nat
        /\ DOMAIN H = 1..Len(H)
    BY <1>1, LenProperties DEF FitsAll
  <1> DEFINE n == ui.bot - ui.top + (IF ui.bot = 0 THEN 0 ELSE 1)
  <1>3. n = Len(H)
    BY <1>1, <1>2 DEF FitsAll
  <1>4. Held = [i \in 1..n |-> ui.list[ui.top + i - 1].fut]
    BY DEF Held
  <1> HIDE DEF n
  <1>5. \A i \in 1..Len(H) : ui.list[ui.top + i - 1].fut = H[i]
    <2> SUFFICES ASSUME NEW i \in 1..Len(H)
                 PROVE  ui.list[ui.top + i - 1].fut = H[i]
      OBVIOUS
    <2>1. PICK j \in Int : j = ui.top + i - 1
      BY <1>2
    <2>2. 1 <= ui.top /\ ui.top <= ui.bot /\ ui.bot <= Len(ui.list) /\ Len(H) = ui.bot - ui.top + 1
      BY <1>1, <1>2 DEF FitsAll
    <2>3. j \in 1..Len(ui.list) /\ ui.top <= j /\ j <= ui.bot /\ j - ui.top + 1 = i
      <3>1. ui.list \in Seq(Entries)
        BY <1>1 DEF FitsAll
      <3>2. Len(ui.list) \in Nat
        BY <3>1, LenProperties
      <3> QED
        BY <1>2, <2>1, <2>2, <3>2, SMTT(30)
    <2>4. ui.list[j].fut = H[j - ui.top + 1]
      BY <1>1, <2>3 DEF FitsAll
    <2> QED
      BY <2>1, <2>3, <2>4
  <1>6. H = [i \in 1..Len(H) |-> H[i]]
    BY <1>2
  <1> QED
    BY <1>3, <1>4, <1>5, <1>6

(* The events in the queue lead from them to the bubbles.                  *)
LEMMA AfterAllAre ==
    ASSUME NEW H, NEW C, Window(ui, 0, H, C)
    PROVE  AfterAll(ui.events) = ui.bubbles
  <1> DEFINE E == ui.events
             B == ui.bubbles
  <1>1. E \in Seq(FutureEvents) /\ Leads(H, E, B)
    BY DEF Window, Widget, Shape, Core
  <1> HIDE DEF E, B
  <1>2. Len(E) \in Nat /\ \A n \in 1..Len(E) : E[n] \in FutureEvents
    BY <1>1, LenProperties, ElementOfSeq
  <1>3. PICK N \in Nat : N = Len(E)
    BY <1>2
  <1>4. PICK p \in [0..N -> Seq(Futures)] :
           p[0] = H /\ p[N] = B /\ \A n \in 1..N : Turns(E[n], p[n - 1], p[n])
    BY <1>1, <1>3 DEF Leads, IsPath
  <1>5. PICK g : /\ g[0] = Held /\ \A n \in 1..N : g[n] = WhenHandled(g[n - 1], E[n])
                 /\ AfterAll(E) = g[N]
    <2>1. \E g : /\ g[0] = Held /\ \A n \in 1..Len(E) : g[n] = WhenHandled(g[n - 1], E[n])
                 /\ AfterAll(E) = g[Len(E)]
      BY <1>2, AfterAllRuns
    <2> QED
      BY <1>3, <2>1
  <1> DEFINE S == {n \in 0..N : g[n] = p[n]}
  <1>6. 0 \in S
    BY <1>4, <1>5, HeldAre
  <1>7. \A n \in 1..N : n - 1 \in S => n \in S
    <2> SUFFICES ASSUME NEW n \in 1..N, g[n - 1] = p[n - 1]
                 PROVE  g[n] = p[n]
      OBVIOUS
    <2>1. E[n] \in FutureEvents /\ n - 1 \in 0..N /\ n \in 0..N
      BY <1>2, <1>3
    <2>2. p[n - 1] \in Seq(Futures) /\ p[n] \in Seq(Futures) /\ Turns(E[n], p[n - 1], p[n])
      BY <1>4, <2>1
    <2>3. WhenHandled(p[n - 1], E[n]) = p[n]
      BY <2>1, <2>2, HandledIs
    <2>4. g[n] = WhenHandled(g[n - 1], E[n])
      BY <1>5
    <2> QED
      BY <2>3, <2>4
  <1>8. N \in S
    <2> HIDE DEF S
    <2>1. 0..N \subseteq S
      BY <1>6, <1>7, AllUpTo
    <2> QED
      BY <2>1
  <1> QED
    BY <1>4, <1>5, <1>8 DEF E, B

(* The invariant implies the three properties.                             *)
LEMMA WindowInvShows ==
    ASSUME FuturesAreUnlimited, WindowInv
    PROVE  WindowMatchesBubbles /\ BubblesShowTheirMessages /\ WidgetAssertionsHold
  <1>1. PICK H, C : Window(ui, 0, H, C)
    BY DEF WindowInv, Shown
  <1>2. /\ Fits(ui.list, ui.top, ui.bot, 0, H, C) /\ Distinct(H) /\ DOMAIN ui.list = 1..Len(ui.list)
        /\ ui.top \in Nat /\ ui.bot \in Nat /\ Len(ui.list) \in Nat
    BY <1>1, WindowTypes DEF Window
  <1>3. \A i \in 1..Len(ui.list) : ui.list[i].fut # Nothing =>
           /\ ui.top <= i /\ i <= ui.bot
           /\ ui.list[i].fut \in Range(H) /\ C[ui.list[i].fut] = Shows(ui.list[i])
    BY <1>2, FitsRank
  <1>4. WindowMatchesBubbles
    <2>1. \A i \in DOMAIN ui.list : ui.list[i].fut # Nothing => i \in ui.top..ui.bot
      BY <1>2, <1>3
    <2>2. AfterAll(ui.events) = ui.bubbles
      BY <1>1, AfterAllAre
    <2> QED
      BY <2>1, <2>2 DEF WindowMatchesBubbles
  <1>5. BubblesShowTheirMessages
    <2>1. ui.text = Told(H, C, ui.bubbles) /\ Core(H, C, ui)
      BY <1>1 DEF Window, Widget, Shape, Core
    <2>2. Range(ui.bubbles) \subseteq Futures
      BY <2>1, CoreTypes
    <2>3. ASSUME NEW i \in DOMAIN ui.list, ui.list[i].fut \in Range(ui.bubbles)
          PROVE  ui.text[ui.list[i].fut] = Shows(ui.list[i])
      <3> DEFINE f == ui.list[i].fut
      <3>1. f \in Futures /\ f # Nothing
        BY <2>2, <2>3 DEF FuturesAreUnlimited
      <3>2. f \in Range(H) /\ C[f] = Shows(ui.list[i])
        BY <1>2, <1>3, <3>1
      <3> QED
        BY <2>1, <2>3, <3>1, <3>2 DEF Told
    <2> QED
      BY <2>3 DEF BubblesShowTheirMessages
  <1>6. WidgetAssertionsHold
    BY <1>1 DEF Window, Widget, Shape, DrawnBut, WidgetAssertionsHold
  <1> QED
    BY <1>4, <1>5, <1>6

(* As long as the widget can create futures: the futures that the messages *)
(* of the window hold become the bubbles of the widget when the events in  *)
(* its queue have been handled, whatever chunks, new messages, keys and    *)
(* moves of the user come in between, for any size of the screen, of the   *)
(* room and of a chunk, and any times of the messages.                     *)
THEOREM WindowAlwaysMatchesBubbles ==
    ASSUME FuturesAreUnlimited
    PROVE  WindowSpec => []WindowMatchesBubbles
  <1>1. WindowInit => WindowInv
    BY WindowStarts
  <1>2. WindowInv /\ [WindowNext]_windowVars => WindowInv'
    BY WindowStep
  <1>3. WindowInv => WindowMatchesBubbles
    BY WindowInvShows
  <1> QED
    BY <1>1, <1>2, <1>3, PTL DEF WindowSpec

(* Likewise, a bubble always shows the text of the message that holds its  *)
(* future, also after a new message has moved the futures along the window.*)
THEOREM BubblesAlwaysShowTheirMessages ==
    ASSUME FuturesAreUnlimited
    PROVE  WindowSpec => []BubblesShowTheirMessages
  <1>1. WindowInit => WindowInv
    BY WindowStarts
  <1>2. WindowInv /\ [WindowNext]_windowVars => WindowInv'
    BY WindowStep
  <1>3. WindowInv => BubblesShowTheirMessages
    BY WindowInvShows
  <1> QED
    BY <1>1, <1>2, <1>3, PTL DEF WindowSpec

(* The widget lets no future into its queue twice, and no assertion of     *)
(* future_set_message() fails but the one that can (README, section 4):    *)
(* chunks, keys, new messages and the moves of the user never give a       *)
(* future its first text in the middle of the list, or a second latest.    *)
THEOREM WidgetAssertionsAlwaysHold ==
    ASSUME FuturesAreUnlimited
    PROVE  WindowSpec => []WidgetAssertionsHold
  <1>1. WindowInit => WindowInv
    BY WindowStarts
  <1>2. WindowInv /\ [WindowNext]_windowVars => WindowInv'
    BY WindowStep
  <1>3. WindowInv => WidgetAssertionsHold
    BY WindowInvShows
  <1> QED
    BY <1>1, <1>2, <1>3, PTL DEF WindowSpec
=============================================================================
