------------------------------ MODULE MessagesProofs ------------------------------
(***************************************************************************)
(* Theorems about the bytes of the messages, for every set of characters,  *)
(* every order in which a handler meets them and every length of payload a *)
(* header can announce.                                                    *)
(***************************************************************************)
EXTENDS Messages, FiniteSetTheorems, SequenceTheorems, WellFoundedInduction, TLAPS

-----------------------------------------------------------------------------
(* Induction over Nat for sets, from the library's well-founded order: the *)
(* library's own rules take an operator.                                   *)

Order == OpToRel(<, Nat)

(* The order relates exactly the pairs x < y.                              *)
LEMMA OrderDef == \A x, y \in Nat : <<x, y>> \in Order <=> x < y
BY DEF Order, OpToRel

(* It has no infinite descent.                                             *)
LEMMA OrderWellFounded == IsWellFoundedOn(Order, Nat)
BY NatLessThanWellFounded DEF Order

(* Every set of natural numbers has a least element.                       *)
LEMMA Least ==
  ASSUME NEW T, T \subseteq Nat, T # {}
  PROVE  \E x \in T : \A y \in T : x <= y
<1>1. \E x \in T : \A y \in T : ~(<<y, x>> \in Order)
  BY OrderWellFounded, WFMin
<1>2. PICK x \in T : \A y \in T : ~(<<y, x>> \in Order)
  BY <1>1
<1>3. \A y \in T : ~(y < x)
  BY <1>2, OrderDef
<1>4. \A y \in T : x <= y
  BY <1>3
<1> QED
  BY <1>4

(* A set with 0 that is closed under + 1 holds every natural number.       *)
LEMMA Inductive ==
  ASSUME NEW T, 0 \in T, \A n \in Nat : n \in T => n + 1 \in T
  PROVE  Nat \subseteq T
<1> SUFFICES ASSUME Nat \ T # {} PROVE FALSE
  OBVIOUS
<1>1. PICK x \in Nat \ T : \A y \in Nat \ T : x <= y
  <2>1. Nat \ T \subseteq Nat
    OBVIOUS
  <2> QED
    BY <2>1, Least
<1>2. x # 0 /\ x - 1 \in Nat /\ x - 1 \in T
  BY <1>1
<1>3. (x - 1) + 1 = x
  BY <1>1
<1> QED
  BY <1>1, <1>2, <1>3

-----------------------------------------------------------------------------
(* FlattenSeq, by its partial results f[1], f[2], ...                      *)

Steps(f, s, n) == \A i \in 1..n : f[i] = IF i = 1 THEN s[i] ELSE f[i - 1] \o s[i]

Unfolds(f, s) == f = [i \in 1..Len(s) |-> IF i = 1 THEN s[i] ELSE f[i - 1] \o s[i]]

(* The partial results depend on the sequences added up so far only.       *)
LEMMA StepsUnique ==
  ASSUME NEW f, NEW g, NEW s, NEW t, NEW n \in Nat, Steps(f, s, n), Steps(g, t, n),
         \A i \in 1..n : s[i] = t[i]
  PROVE  \A i \in 1..n : f[i] = g[i]
<1> DEFINE T == {k \in Nat : k \in 1..n => f[k] = g[k]}
<1>1. 0 \in T
  OBVIOUS
<1>2. ASSUME NEW k \in Nat, k \in T PROVE k + 1 \in T
  <2> SUFFICES ASSUME k + 1 \in 1..n PROVE f[k + 1] = g[k + 1]
    OBVIOUS
  <2>1. (k + 1) - 1 = k /\ (k + 1 # 1 => k \in 1..n)
    OBVIOUS
  <2>2. f[k + 1] = IF k + 1 = 1 THEN s[k + 1] ELSE f[k] \o s[k + 1]
    BY <2>1 DEF Steps
  <2>3. g[k + 1] = IF k + 1 = 1 THEN t[k + 1] ELSE g[k] \o t[k + 1]
    BY <2>1 DEF Steps
  <2> QED
    BY <1>2, <2>1, <2>2, <2>3
<1> HIDE DEF T
<1>3. Nat \subseteq T
  BY <1>1, <1>2, Inductive
<1> QED
  BY <1>3 DEF T

(* There are partial results, and they are sequences too.             *)
LEMMA StepsExist ==
  ASSUME NEW B, NEW s \in Seq(Seq(B)), NEW n \in 0..Len(s)
  PROVE  \E f \in [1..n -> Seq(B)] : Steps(f, s, n)
<1> DEFINE T == {k \in Nat : k <= Len(s) => \E f \in [1..k -> Seq(B)] : Steps(f, s, k)}
<1>1. 0 \in T
  <2> DEFINE f0 == [i \in 1..0 |-> <<>>]
  <2>1. f0 \in [1..0 -> Seq(B)]
    OBVIOUS
  <2>2. Steps(f0, s, 0)
    BY DEF Steps
  <2> HIDE DEF f0
  <2> QED
    BY <2>1, <2>2
<1>2. ASSUME NEW k \in Nat, k \in T PROVE k + 1 \in T
  <2> SUFFICES ASSUME k + 1 <= Len(s) PROVE \E f \in [1..k + 1 -> Seq(B)] : Steps(f, s, k + 1)
    OBVIOUS
  <2>1. PICK f \in [1..k -> Seq(B)] : Steps(f, s, k)
    BY <1>2
  <2> DEFINE last1 == IF k = 0 THEN s[k + 1] ELSE f[k] \o s[k + 1]
             g == [i \in 1..k + 1 |-> IF i = k + 1 THEN last1 ELSE f[i]]
  <2>2. s[k + 1] \in Seq(B)
    OBVIOUS
  <2>3. last1 \in Seq(B)
    BY <2>2, ConcatProperties
  <2> HIDE DEF last1
  <2>4. g \in [1..k + 1 -> Seq(B)]
    BY <2>3
  <2>5. ASSUME NEW i \in 1..k + 1
        PROVE  g[i] = IF i = 1 THEN s[i] ELSE g[i - 1] \o s[i]
    <3>1. CASE i = k + 1
      BY <3>1 DEF last1
    <3>2. CASE i # k + 1
      <4>1. i \in 1..k /\ (i # 1 => i - 1 \in 1..k + 1 /\ i - 1 # k + 1)
        BY <3>2
      <4> QED
        BY <2>1, <3>2, <4>1 DEF Steps
    <3> QED
      BY <3>1, <3>2
  <2> QED
    BY <2>4, <2>5 DEF Steps
<1> HIDE DEF T
<1>3. Nat \subseteq T
  BY <1>1, <1>2, Inductive
<1>4. n \in Nat /\ n <= Len(s)
  OBVIOUS
<1> QED
  BY <1>3, <1>4 DEF T

(* FlattenSeq is the last of any partial results.                          *)
LEMMA FlattenSteps ==
  ASSUME NEW B, NEW s \in Seq(Seq(B)), s # <<>>, NEW f, Steps(f, s, Len(s))
  PROVE  FlattenSeq(s) = f[Len(s)]
<1> DEFINE g == CHOOSE g : Unfolds(g, s)
<1>1. Len(s) \in Nat /\ Len(s) # 0 /\ Len(s) \in 1..Len(s) /\ Len(s) \in 0..Len(s)
  BY EmptySeq
<1>2. PICK h \in [1..Len(s) -> Seq(B)] : Steps(h, s, Len(s))
  BY <1>1, StepsExist
<1>3. h = [i \in 1..Len(s) |-> IF i = 1 THEN s[i] ELSE h[i - 1] \o s[i]]
  BY <1>2 DEF Steps
<1>4. Unfolds(g, s)
  BY <1>3 DEF Unfolds
<1>5. FlattenSeq(s) = g[Len(s)]
  BY <1>1 DEF FlattenSeq, Unfolds
<1> HIDE DEF g
<1>6. Steps(g, s, Len(s))
  BY <1>4 DEF Unfolds, Steps
<1>7. \A i \in 1..Len(s) : g[i] = f[i]
  BY <1>1, <1>6, StepsUnique
<1> QED
  BY <1>1, <1>5, <1>7

(* FlattenSeq of no sequences is empty.                                    *)
LEMMA FlattenNone == FlattenSeq(<<>>) = <<>>
BY DEF FlattenSeq

(* A sequence added at the end comes last.                                 *)
LEMMA FlattenAppend ==
  ASSUME NEW B, NEW s \in Seq(Seq(B)), NEW p \in Seq(B)
  PROVE  FlattenSeq(Append(s, p)) = FlattenSeq(s) \o p
<1> DEFINE t == Append(s, p)  n == Len(s)
<1>1. /\ t \in Seq(Seq(B)) /\ t # <<>> /\ Len(t) = n + 1 /\ n \in Nat
      /\ \A i \in 1..n : t[i] = s[i]
      /\ t[n + 1] = p /\ n = Len(s)
  BY AppendProperties
<1> HIDE DEF t, n
<1>2. PICK h \in [1..n + 1 -> Seq(B)] : Steps(h, t, n + 1)
  <2>1. n + 1 \in 0..Len(t)
    BY <1>1
  <2> QED
    BY <1>1, <2>1, StepsExist
<1>3. FlattenSeq(t) = h[n + 1]
  BY <1>1, <1>2, FlattenSteps
<1>4. h[n + 1] = IF n + 1 = 1 THEN p ELSE h[n] \o p
  <2>1. n + 1 \in 1..n + 1 /\ (n + 1) - 1 = n
    BY <1>1
  <2> QED
    BY <1>1, <1>2, <2>1 DEF Steps
<1>5. CASE n = 0
  <2>1. s = <<>>
    BY <1>1, <1>5, EmptySeq
  <2>2. <<>> \o p = p
    BY ConcatEmptySeq
  <2> QED
    BY <1>3, <1>4, <1>5, <2>1, <2>2, FlattenNone DEF t
<1>6. CASE n # 0
  <2>1. s # <<>>
    BY <1>1, <1>6, EmptySeq
  <2>2. Steps(h, s, n)
    <3>1. \A i \in 1..n : i \in 1..n + 1
      BY <1>1
    <3> QED
      BY <1>1, <1>2, <3>1 DEF Steps
  <2>3. FlattenSeq(s) = h[n]
    BY <1>1, <2>1, <2>2, FlattenSteps
  <2> QED
    BY <1>1, <1>3, <1>4, <1>6, <2>3 DEF t
<1> QED
  BY <1>5, <1>6

-----------------------------------------------------------------------------
(* The bytes of a message.                                                 *)

Type == DOMAIN BySize
Who == Other \cup {Mine}
Message == [type : Type, who : Who]

Value == DOMAIN SizeOf \cup {"payload"}

Byte ==
  {Junk, CodeByte} \cup {SizeByte(n) : n \in Nat} \cup {TypeByte(t) : t \in Type \cup PacketType}
    \cup (Value \X (Who \cup Nat) \X Nat)

(* The bytes of a value are as many as asked for.                          *)
LEMMA BytesAre ==
  ASSUME NEW v \in Value, NEW w \in Who \cup Nat, NEW n \in Nat
  PROVE  Bytes(v, w, n) \in Seq(Byte) /\ Len(Bytes(v, w, n)) = n
<1>1. \A i \in 1..n : <<v, w, i>> \in Byte
  BY DEF Byte
<1> QED
  BY <1>1 DEF Bytes

(* The header is three bytes.                                              *)
LEMMA HeaderIs ==
  ASSUME NEW n \in Nat, NEW t \in Type \cup PacketType
  PROVE  /\ <<CodeByte, SizeByte(n), TypeByte(t)>> \in Seq(Byte)
         /\ Len(<<CodeByte, SizeByte(n), TypeByte(t)>>) = 3
<1>1. CodeByte \in Byte /\ SizeByte(n) \in Byte /\ TypeByte(t) \in Byte
  BY DEF Byte
<1> HIDE DEF Byte
<1> QED
  BY <1>1

(* Running totals, added up.                                               *)
LEMMA AddUp ==
  ASSUME NEW n \in 1..5, NEW L \in [1..n -> Nat], NEW W \in [1..n -> Nat], L[1] = W[1],
         \A i, j \in 1..n : i = j + 1 => L[i] = L[j] + W[i]
  PROVE  /\ n = 1 => L[n] = W[1]
         /\ n = 3 => L[n] = W[1] + W[2] + W[3]
         /\ n = 4 => L[n] = W[1] + W[2] + W[3] + W[4]
         /\ n = 5 => L[n] = W[1] + W[2] + W[3] + W[4] + W[5]
<1>1. n > 1 => 1 \in 1..n /\ 2 \in 1..n /\ 2 = 1 + 1
  OBVIOUS
<1>2. n > 2 => 2 \in 1..n /\ 3 \in 1..n /\ 3 = 2 + 1
  OBVIOUS
<1>3. n > 3 => 3 \in 1..n /\ 4 \in 1..n /\ 4 = 3 + 1
  OBVIOUS
<1>4. n > 4 => 4 \in 1..n /\ 5 \in 1..n /\ 5 = 4 + 1
  OBVIOUS
<1>5. /\ n > 1 => L[2] = L[1] + W[2]
      /\ n > 2 => L[3] = L[2] + W[3]
      /\ n > 3 => L[4] = L[3] + W[4]
      /\ n > 4 => L[5] = L[4] + W[5]
  BY <1>1, <1>2, <1>3, <1>4
<1>6. \A i \in 1..n : W[i] \in Nat /\ L[i] \in Nat
  OBVIOUS
<1> QED
  BY <1>1, <1>2, <1>3, <1>4, <1>5, <1>6

(* As many bytes as the parts have together.                               *)
LEMMA FlattenLength ==
  ASSUME NEW B, NEW s \in Seq(Seq(B)), Len(s) \in 1..5
  PROVE  /\ FlattenSeq(s) \in Seq(B)
         /\ Len(s) = 1 => Len(FlattenSeq(s)) = Len(s[1])
         /\ Len(s) = 3 => Len(FlattenSeq(s)) = Len(s[1]) + Len(s[2]) + Len(s[3])
         /\ Len(s) = 4 =>
              Len(FlattenSeq(s)) = Len(s[1]) + Len(s[2]) + Len(s[3]) + Len(s[4])
         /\ Len(s) = 5 =>
              Len(FlattenSeq(s)) = Len(s[1]) + Len(s[2]) + Len(s[3]) + Len(s[4]) + Len(s[5])
<1> DEFINE n == Len(s)
<1>0. n \in 1..5 /\ n \in 0..Len(s) /\ n \in Nat
  OBVIOUS
<1>1. s # <<>> /\ \A i \in 1..n : s[i] \in Seq(B)
  <2>1. s # <<>>
    BY <1>0, EmptySeq
  <2> QED
    BY <2>1
<1>2. PICK f \in [1..n -> Seq(B)] : Steps(f, s, n)
  BY <1>1, StepsExist
<1>3. FlattenSeq(s) = f[n]
  BY <1>1, <1>2, FlattenSteps
<1> HIDE DEF n
<1>4. f[1] = s[1]
  <2>1. 1 \in 1..n
    BY <1>0
  <2> QED
    BY <1>2, <2>1 DEF Steps
<1>5. ASSUME NEW i \in 1..n, NEW j \in 1..n, i = j + 1
      PROVE  Len(f[i]) = Len(f[j]) + Len(s[i])
  <2>1. i # 1 /\ i - 1 = j
    BY <1>0, <1>5
  <2>2. f[i] = f[j] \o s[i]
    BY <1>2, <2>1 DEF Steps
  <2>3. f[j] \in Seq(B) /\ s[i] \in Seq(B)
    BY <1>1, <1>2
  <2> QED
    BY <2>2, <2>3, ConcatProperties
<1>6. f[n] \in Seq(B) /\ \A i \in 1..n : Len(f[i]) \in Nat /\ Len(s[i]) \in Nat
  BY <1>0, <1>1, <1>2, LenProperties
<1> DEFINE L == [i \in 1..n |-> Len(f[i])]
           W == [i \in 1..n |-> Len(s[i])]
<1>7. L \in [1..n -> Nat] /\ W \in [1..n -> Nat]
  BY <1>6
<1>8. L[1] = W[1] /\ 1 \in 1..n
  BY <1>0, <1>4
<1>9. \A i, j \in 1..n : i = j + 1 => L[i] = L[j] + W[i]
  BY <1>5
<1>10. /\ L[n] = Len(f[n])
       /\ n = 1 => W[1] = Len(s[1])
       /\ n = 3 => W[1] = Len(s[1]) /\ W[2] = Len(s[2]) /\ W[3] = Len(s[3])
       /\ n = 4 => W[1] = Len(s[1]) /\ W[2] = Len(s[2]) /\ W[3] = Len(s[3]) /\ W[4] = Len(s[4])
       /\ n = 5 => /\ W[1] = Len(s[1]) /\ W[2] = Len(s[2]) /\ W[3] = Len(s[3])
                   /\ W[4] = Len(s[4]) /\ W[5] = Len(s[5])
  BY <1>0
<1> HIDE DEF L, W
<1>11. /\ n = 1 => L[n] = W[1]
       /\ n = 3 => L[n] = W[1] + W[2] + W[3]
       /\ n = 4 => L[n] = W[1] + W[2] + W[3] + W[4]
       /\ n = 5 => L[n] = W[1] + W[2] + W[3] + W[4] + W[5]
  BY <1>0, <1>7, <1>8, <1>9, AddUp
<1>12. n = Len(s)
  BY DEF n
<1>13. f[n] \in Seq(B)
  BY <1>6
<1> QED
  BY <1>3, <1>10, <1>11, <1>12, <1>13, Zenon

(* What PacketCreator puts for a type is what the protocol lays out.       *)
LEMMA LayoutIs ==
  ASSUME NEW t \in Type
  PROVE  /\ DOMAIN Layout[t] = 1..Len(Layout[t]) /\ DOMAIN Params[t] = DOMAIN Layout[t]
         /\ \A i \in DOMAIN Layout[t] :
              /\ Layout[t][i][1] = Params[t][i] /\ Layout[t][i][2] = SizeOf[Params[t][i]]
              /\ Params[t][i] \in DOMAIN SizeOf /\ SizeOf[Params[t][i]] \in Nat
         /\ BySize[t] \in 0..10
         /\ Len(Layout[t]) \in {1, 3, 4, 5}
         /\ Len(Layout[t]) = 1 => BySize[t] = Layout[t][1][2]
         /\ Len(Layout[t]) = 3 => BySize[t] = Layout[t][1][2] + Layout[t][2][2] + Layout[t][3][2]
         /\ Len(Layout[t]) = 4 =>
              BySize[t] = Layout[t][1][2] + Layout[t][2][2] + Layout[t][3][2] + Layout[t][4][2]
         /\ Len(Layout[t]) = 5 =>
              BySize[t] = Layout[t][1][2] + Layout[t][2][2] + Layout[t][3][2] + Layout[t][4][2]
                            + Layout[t][5][2]
<1>1. CASE t = "create_my"
  BY <1>1 DEF Layout, Params, BySize, SizeOf, Type
<1>2. CASE t = "create_other"
  BY <1>2 DEF Layout, Params, BySize, SizeOf, Type
<1>3. CASE t = "delete"
  BY <1>3 DEF Layout, Params, BySize, SizeOf, Type
<1>4. CASE t = "move_start"
  BY <1>4 DEF Layout, Params, BySize, SizeOf, Type
<1>5. CASE t = "move_stop"
  BY <1>5 DEF Layout, Params, BySize, SizeOf, Type
<1>6. CASE t = "attack1"
  BY <1>6 DEF Layout, Params, BySize, SizeOf, Type
<1>7. CASE t = "attack2"
  BY <1>7 DEF Layout, Params, BySize, SizeOf, Type
<1>8. CASE t = "attack3"
  BY <1>8 DEF Layout, Params, BySize, SizeOf, Type
<1>9. CASE t = "damage"
  BY <1>9 DEF Layout, Params, BySize, SizeOf, Type
<1>10. CASE t = "echo"
  BY <1>10 DEF Layout, Params, BySize, SizeOf, Type
<1>11. CASE t = "sync"
  BY <1>11 DEF Layout, Params, BySize, SizeOf, Type
<1>12. \/ t = "create_my" \/ t = "create_other" \/ t = "delete" \/ t = "move_start"
       \/ t = "move_stop" \/ t = "attack1" \/ t = "attack2" \/ t = "attack3"
       \/ t = "damage" \/ t = "echo" \/ t = "sync"
  BY DEF Type, BySize
<1> QED
  BY <1>1, <1>2, <1>3, <1>4, <1>5, <1>6, <1>7, <1>8, <1>9, <1>10, <1>11, <1>12

(* The parts of a message, laid out.                                       *)
Laid(m) ==
  [i \in DOMAIN Layout[m.type] |-> Bytes(Layout[m.type][i][1], m.who, Layout[m.type][i][2])]

(* PacketCreator puts a message as the protocol wants it, in few bytes.    *)
LEMMA WireIs ==
  ASSUME NEW m \in Message
  PROVE  Put(m) = Wire(m) /\ Wire(m) \in Seq(Byte) /\ Len(Wire(m)) \in 0..13
<1> DEFINE t == m.type  s == Laid(m)  n == Len(Layout[t])  body == FlattenSeq(s)
<1>1. t \in Type /\ m.who \in Who
  BY DEF Message
<1> HIDE DEF t
<1>2. /\ DOMAIN Layout[t] = 1..n /\ DOMAIN Params[t] = 1..n
      /\ \A i \in 1..n :
           /\ Layout[t][i][1] = Params[t][i] /\ Layout[t][i][2] = SizeOf[Params[t][i]]
           /\ Layout[t][i][1] \in DOMAIN SizeOf /\ Layout[t][i][2] \in Nat
  BY <1>1, LayoutIs
<1>3. BySize[t] \in 0..10 /\ (n = 1 \/ n = 3 \/ n = 4 \/ n = 5)
  BY <1>1, LayoutIs
<1>4. /\ n = 1 => BySize[t] = Layout[t][1][2]
      /\ n = 3 => BySize[t] = Layout[t][1][2] + Layout[t][2][2] + Layout[t][3][2]
      /\ n = 4 => BySize[t] = Layout[t][1][2] + Layout[t][2][2] + Layout[t][3][2] + Layout[t][4][2]
      /\ n = 5 => BySize[t] = Layout[t][1][2] + Layout[t][2][2] + Layout[t][3][2] + Layout[t][4][2]
                                + Layout[t][5][2]
  BY <1>1, LayoutIs
<1> HIDE DEF n
<1>5. s = [i \in 1..n |-> Bytes(Layout[t][i][1], m.who, Layout[t][i][2])]
  BY <1>2 DEF Laid, t
<1> HIDE DEF s
<1>6. n \in Nat
  BY <1>3
<1>7. ASSUME NEW i \in 1..n PROVE s[i] \in Seq(Byte) /\ Len(s[i]) = Layout[t][i][2]
  <2> DEFINE v == Layout[t][i][1]  k == Layout[t][i][2]  w == m.who
  <2>1. v \in Value /\ k \in Nat /\ w \in Who \cup Nat
    BY <1>1, <1>2 DEF Value
  <2>2. s[i] = Bytes(v, w, k)
    BY <1>5
  <2> HIDE DEF v, k, w
  <2>3. Bytes(v, w, k) \in Seq(Byte) /\ Len(Bytes(v, w, k)) = k
    BY <2>1, BytesAre
  <2> QED
    BY <2>2, <2>3 DEF k
<1>8. s \in Seq(Seq(Byte)) /\ Len(s) = n
  BY <1>5, <1>6, <1>7
<1>9. Len(s) \in 1..5
  BY <1>3, <1>8
<1>10. body \in Seq(Byte) /\ Len(body) = BySize[t]
  <2>1. /\ body \in Seq(Byte)
        /\ n = 1 => Len(body) = Len(s[1])
        /\ n = 3 => Len(body) = Len(s[1]) + Len(s[2]) + Len(s[3])
        /\ n = 4 => Len(body) = Len(s[1]) + Len(s[2]) + Len(s[3]) + Len(s[4])
        /\ n = 5 => Len(body) = Len(s[1]) + Len(s[2]) + Len(s[3]) + Len(s[4]) + Len(s[5])
    BY <1>8, <1>9, FlattenLength
  <2>2. /\ n = 1 => 1 \in 1..n
        /\ n = 3 => 1 \in 1..n /\ 2 \in 1..n /\ 3 \in 1..n
        /\ n = 4 => 1 \in 1..n /\ 2 \in 1..n /\ 3 \in 1..n /\ 4 \in 1..n
        /\ n = 5 => 1 \in 1..n /\ 2 \in 1..n /\ 3 \in 1..n /\ 4 \in 1..n /\ 5 \in 1..n
    OBVIOUS
  <2> HIDE DEF body
  <2>3. CASE n = 1
    BY <1>4, <1>7, <2>1, <2>2, <2>3
  <2>4. CASE n = 3
    BY <1>4, <1>7, <2>1, <2>2, <2>4
  <2>5. CASE n = 4
    BY <1>4, <1>7, <2>1, <2>2, <2>5
  <2>6. CASE n = 5
    BY <1>4, <1>7, <2>1, <2>2, <2>6
  <2> QED
    BY <1>3, <2>3, <2>4, <2>5, <2>6
<1>11. Wire(m) = <<CodeByte, SizeByte(Len(body)), TypeByte(t)>> \o body
  BY DEF Wire, s, t, Laid
<1>12. Put(m) = <<CodeByte, SizeByte(BySize[t]), TypeByte(t)>> \o body
  <2>1. [i \in DOMAIN Params[t] |-> Bytes(Params[t][i], m.who, SizeOf[Params[t][i]])] = s
    BY <1>2, <1>5
  <2> QED
    BY <2>1 DEF Put, t
<1>13. /\ <<CodeByte, SizeByte(BySize[t]), TypeByte(t)>> \in Seq(Byte)
       /\ Len(<<CodeByte, SizeByte(BySize[t]), TypeByte(t)>>) = 3
  <2>1. BySize[t] \in Nat
    BY <1>3
  <2> QED
    BY <1>1, <2>1, HeaderIs
<1> HIDE DEF body
<1>14. Wire(m) = <<CodeByte, SizeByte(BySize[t]), TypeByte(t)>> \o body
  BY <1>10, <1>11
<1>15. Wire(m) \in Seq(Byte) /\ Len(Wire(m)) = 3 + Len(body)
  BY <1>10, <1>13, <1>14, ConcatProperties
<1> QED
  BY <1>3, <1>10, <1>12, <1>14, <1>15

(* The bytes of messages one after the other.                              *)
Flat(msgs) == FlattenSeq([i \in DOMAIN msgs |-> Wire(msgs[i])])

(* No messages, no bytes.                                                  *)
LEMMA FlatNone == Flat(<<>>) = <<>>
<1>1. [i \in DOMAIN <<>> |-> Wire(<<>>[i])] = <<>>
  OBVIOUS
<1> QED
  BY <1>1, FlattenNone DEF Flat

(* The bytes of one more message come last.                                *)
LEMMA FlatAppend ==
  ASSUME NEW msgs \in Seq(Message), NEW m \in Message
  PROVE  Flat(Append(msgs, m)) = Flat(msgs) \o Wire(m)
<1> DEFINE s == [i \in DOMAIN msgs |-> Wire(msgs[i])]
           n == Len(msgs)
           more == Append(msgs, m)
           t == [i \in DOMAIN more |-> Wire(more[i])]
<1>1. n \in Nat /\ DOMAIN msgs = 1..n /\ \A i \in 1..n : msgs[i] \in Message
  BY LenProperties
<1>2. /\ DOMAIN more = 1..n + 1 /\ more[n + 1] = m
      /\ \A i \in 1..n : more[i] = msgs[i]
  BY AppendProperties
<1>3. Wire(m) \in Seq(Byte) /\ \A i \in 1..n : Wire(msgs[i]) \in Seq(Byte)
  BY <1>1, WireIs
<1> HIDE DEF n, more
<1>4. s \in Seq(Seq(Byte)) /\ Len(s) = n /\ \A i \in 1..n : s[i] = Wire(msgs[i])
  BY <1>1, <1>3
<1>5. t = [i \in 1..n + 1 |-> Wire(more[i])]
  BY <1>2
<1> HIDE DEF s, t
<1>6. /\ Append(s, Wire(m)) \in Seq(Seq(Byte)) /\ Len(Append(s, Wire(m))) = n + 1
      /\ \A i \in 1..n : Append(s, Wire(m))[i] = s[i]
      /\ Append(s, Wire(m))[n + 1] = Wire(m)
  BY <1>3, <1>4, AppendProperties
<1>7. \A i \in 1..n + 1 : t[i] = Append(s, Wire(m))[i]
  <2> TAKE i \in 1..n + 1
  <2>1. t[i] = Wire(more[i])
    BY <1>5
  <2>2. i = n + 1 \/ i \in 1..n
    BY <1>1
  <2> QED
    BY <1>2, <1>4, <1>6, <2>1, <2>2
<1>8. t \in Seq(Seq(Byte)) /\ Len(t) = n + 1
  <2>1. \A i \in 1..n + 1 : Wire(more[i]) \in Seq(Byte)
    <3> TAKE i \in 1..n + 1
    <3>1. i = n + 1 \/ i \in 1..n
      BY <1>1
    <3> QED
      BY <1>2, <1>3, <3>1
  <2>2. n + 1 \in Nat
    BY <1>1
  <2> QED
    BY <1>5, <2>1, <2>2
<1>9. t = Append(s, Wire(m))
  BY <1>6, <1>7, <1>8, SeqEqual
<1>10. FlattenSeq(t) = FlattenSeq(s) \o Wire(m)
  BY <1>3, <1>4, <1>9, FlattenAppend
<1> QED
  BY <1>10 DEF Flat, s, t, more

-----------------------------------------------------------------------------
(* What a handler's calls do to the messages its buffers hold.             *)

Buf == {"serial", "own", "msg", "msg2", "delMsg"}

Operation ==
  [op : {"new"}, buf : Buf, size : {32, 64}] \cup [op : {"clear"}, buf : Buf]
    \cup [op : {"send"}, buf : Buf, msgs : Seq(Message)]
    \cup [op : {"put"}, buf : Buf, msg : Message]
    \cup [op : {"get"}, buf : {"serial"}, len : Nat]

(* A buffer that holds the payload of a packet holds no messages.          *)
Raw == CHOOSE r : r \notin Seq(Message)

Holding == [Buf -> Seq(Message) \cup {Raw}]

(* A call that finds in its buffer what its handler means to be there; two *)
(* messages fit every buffer.                                              *)
Does(a, c, b) ==
  \/ c.op \in {"new", "clear"} /\ b = [a EXCEPT ![c.buf] = <<>>]
  \/ /\ c.op = "put" /\ a[c.buf] \in Seq(Message) /\ Len(a[c.buf]) < 2
     /\ b = [a EXCEPT ![c.buf] = Append(a[c.buf], c.msg)]
  \/ c.op = "send" /\ a[c.buf] = c.msgs /\ b = a
  \/ c.op = "get" /\ a["serial"] = Raw /\ b = a

Runs(f, s) == \A i \in 1..Len(s) : Does(f[i - 1], s[i], f[i])

(* From wherever in S, the calls s all find what they should and lead to T.*)
Leads(S, s, T) ==
  /\ s \in Seq(Operation)
  /\ \A a \in S : \E f \in [0..Len(s) -> Holding] : f[0] = a /\ f[Len(s)] \in T /\ Runs(f, s)

(* The payload of a packet is not a list of messages.                      *)
LEMMA RawIs == Raw \notin Seq(Message)
BY NoSetContainsEverything DEF Raw

(* No calls lead nowhere else.                                             *)
LEMMA LeadsNone ==
  ASSUME NEW S \in SUBSET Holding
  PROVE  Leads(S, <<>>, S)
<1>1. ASSUME NEW a \in S
      PROVE  \E f \in [0..Len(<<>>) -> Holding] : f[0] = a /\ f[Len(<<>>)] \in S /\ Runs(f, <<>>)
  <2> DEFINE f == [i \in 0..0 |-> a]
  <2>1. f \in [0..0 -> Holding] /\ f[0] = a
    OBVIOUS
  <2>2. Len(<<>>) = 0 /\ Runs(f, <<>>)
    BY DEF Runs
  <2> HIDE DEF f
  <2> QED
    BY <2>1, <2>2
<1> QED
  BY <1>1 DEF Leads

(* One call.                                                               *)
LEMMA LeadsOne ==
  ASSUME NEW S \in SUBSET Holding, NEW T \in SUBSET Holding, NEW c \in Operation,
         \A a \in S : \E b \in T : Does(a, c, b)
  PROVE  Leads(S, <<c>>, T)
<1> DEFINE s == <<c>>
<1>1. s \in Seq(Operation) /\ Len(s) = 1 /\ s[1] = c
  OBVIOUS
<1> HIDE DEF s
<1>2. ASSUME NEW a \in S
      PROVE  \E f \in [0..Len(s) -> Holding] : f[0] = a /\ f[Len(s)] \in T /\ Runs(f, s)
  <2>1. PICK b \in T : Does(a, c, b)
    OBVIOUS
  <2> DEFINE f == [i \in 0..1 |-> IF i = 0 THEN a ELSE b]
  <2>2. f \in [0..1 -> Holding] /\ f[0] = a /\ f[1] = b
    OBVIOUS
  <2> HIDE DEF f
  <2>3. Runs(f, s)
    <3>1. \A i \in 1..Len(s) : i = 1 /\ i - 1 = 0
      BY <1>1
    <3> QED
      BY <1>1, <2>1, <2>2, <3>1 DEF Runs
  <2> QED
    BY <1>1, <2>2, <2>3
<1> QED
  BY <1>1, <1>2 DEF Leads, s

(* Less to start from, more to arrive at.                                  *)
LEMMA LeadsWeaker ==
  ASSUME NEW S, NEW T, NEW S2, NEW T2, NEW s, Leads(S, s, T), S2 \subseteq S, T \subseteq T2
  PROVE  Leads(S2, s, T2)
BY DEF Leads

(* One sequence of calls after the other.                                  *)
LEMMA LeadsThen ==
  ASSUME NEW S, NEW T, NEW U, NEW s, NEW t, Leads(S, s, T), Leads(T, t, U)
  PROVE  Leads(S, s \o t, U)
<1> DEFINE n == Len(s)  k == Len(t)  st == s \o t
<1>1. s \in Seq(Operation) /\ t \in Seq(Operation) /\ n \in Nat /\ k \in Nat
  BY DEF Leads
<1>2. /\ st \in Seq(Operation) /\ Len(st) = n + k
      /\ \A i \in 1..n + k : st[i] = IF i <= n THEN s[i] ELSE t[i - n]
  BY <1>1, ConcatProperties
<1> HIDE DEF n, k, st
<1>3. ASSUME NEW a \in S
      PROVE  \E h \in [0..Len(st) -> Holding] : h[0] = a /\ h[Len(st)] \in U /\ Runs(h, st)
  <2>1. PICK f \in [0..n -> Holding] : f[0] = a /\ f[n] \in T /\ Runs(f, s)
    BY DEF Leads, n
  <2>2. PICK g \in [0..k -> Holding] : g[0] = f[n] /\ g[k] \in U /\ Runs(g, t)
    BY <2>1 DEF Leads, k
  <2> DEFINE h == [i \in 0..n + k |-> IF i <= n THEN f[i] ELSE g[i - n]]
  <2>3. h \in [0..n + k -> Holding]
    BY <1>1
  <2>4. /\ \A i \in 0..n : h[i] = f[i]
        /\ \A i \in 0..k : h[n + i] = g[i]
    <3>1. \A i \in 0..n : h[i] = f[i]
      BY <1>1
    <3>2. ASSUME NEW i \in 0..k PROVE h[n + i] = g[i]
      <4>1. CASE i = 0
        BY <1>1, <2>2, <4>1
      <4>2. CASE i # 0
        <5>1. n + i \in 0..n + k /\ ~(n + i <= n) /\ (n + i) - n = i
          BY <1>1, <4>2
        <5> QED
          BY <5>1
      <4> QED
        BY <4>1, <4>2
    <3> QED
      BY <3>1, <3>2
  <2> HIDE DEF h
  <2>5. h[0] = a /\ h[n + k] \in U
    <3>1. 0 \in 0..n /\ k \in 0..k
      BY <1>1
    <3> QED
      BY <2>1, <2>2, <2>4, <3>1
  <2>6. ASSUME NEW i \in 1..n + k PROVE Does(h[i - 1], st[i], h[i])
    <3>1. CASE i <= n
      <4>1. i \in 1..n /\ i \in 0..n /\ i - 1 \in 0..n
        BY <1>1, <3>1
      <4>2. st[i] = s[i] /\ h[i] = f[i] /\ h[i - 1] = f[i - 1]
        BY <1>2, <2>4, <3>1, <4>1
      <4>3. Does(f[i - 1], s[i], f[i])
        BY <2>1, <4>1 DEF Runs, n
      <4> QED
        BY <4>2, <4>3
    <3>2. CASE ~(i <= n)
      <4> DEFINE j == i - n
      <4>1. j \in 1..k /\ j \in 0..k /\ j - 1 \in 0..k /\ n + j = i /\ n + (j - 1) = i - 1
        BY <1>1, <3>2
      <4> HIDE DEF j
      <4>2. st[i] = t[j]
        BY <1>2, <3>2 DEF j
      <4>3. h[i] = g[j] /\ h[i - 1] = g[j - 1]
        BY <2>4, <4>1
      <4>4. Does(g[j - 1], t[j], g[j])
        BY <2>2, <4>1 DEF Runs, k
      <4> QED
        BY <4>2, <4>3, <4>4
    <3> QED
      BY <3>1, <3>2
  <2> QED
    BY <1>2, <2>3, <2>5, <2>6 DEF Runs
<1> QED
  BY <1>2, <1>3 DEF Leads, st

(* A loop whose every turn leads from S back to S.                         *)
LEMMA LeadsEach ==
  ASSUME NEW S \in SUBSET Holding, NEW s \in Seq(Seq(Operation)),
         \A i \in 1..Len(s) : Leads(S, s[i], S)
  PROVE  Leads(S, FlattenSeq(s), S)
<1>1. CASE s = <<>>
  BY <1>1, FlattenNone, LeadsNone
<1>2. CASE s # <<>>
  <2> DEFINE n == Len(s)
  <2>1. n \in Nat /\ n # 0 /\ n \in 0..Len(s)
    BY <1>2, EmptySeq
  <2>2. PICK f \in [1..n -> Seq(Operation)] : Steps(f, s, n)
    BY <2>1, StepsExist
  <2>3. FlattenSeq(s) = f[n]
    BY <1>2, <2>2, FlattenSteps
  <2> DEFINE T == {i \in Nat : i \in 1..n => Leads(S, f[i], S)}
  <2> HIDE DEF n
  <2>4. 0 \in T
    OBVIOUS
  <2>5. ASSUME NEW i \in Nat, i \in T PROVE i + 1 \in T
    <3> SUFFICES ASSUME i + 1 \in 1..n PROVE Leads(S, f[i + 1], S)
      OBVIOUS
    <3>1. Leads(S, s[i + 1], S)
      BY DEF n
    <3>2. f[i + 1] = IF i + 1 = 1 THEN s[i + 1] ELSE f[i] \o s[i + 1]
      <4>1. (i + 1) - 1 = i
        OBVIOUS
      <4> QED
        BY <2>2, <4>1 DEF Steps
    <3>3. CASE i = 0
      <4>1. i + 1 = 1
        BY <3>3
      <4> QED
        BY <3>1, <3>2, <4>1
    <3>4. CASE i # 0
      <4>1. i \in 1..n /\ i + 1 # 1
        BY <2>1, <3>4
      <4>2. Leads(S, f[i], S)
        BY <2>5, <4>1
      <4>3. Leads(S, f[i] \o s[i + 1], S)
        BY <3>1, <4>2, LeadsThen
      <4> QED
        BY <3>2, <4>1, <4>3
    <3> QED
      BY <3>3, <3>4
  <2> HIDE DEF T
  <2>6. n \in T
    BY <2>1, <2>4, <2>5, Inductive
  <2>7. n \in 1..n
    BY <2>1
  <2> QED
    BY <2>3, <2>6, <2>7 DEF T
<1> QED
  BY <1>1, <1>2

(* The first call finds what it should, and so do those that remain.       *)
LEMMA Proceed ==
  ASSUME NEW a \in Holding, NEW s, s # <<>>, Leads({a}, s, Holding)
  PROVE  /\ Head(s) \in Operation /\ Tail(s) \in Seq(Operation)
         /\ \E b \in Holding : Does(a, Head(s), b) /\ Leads({b}, Tail(s), Holding)
<1> DEFINE n == Len(s)  t == Tail(s)
<1>1. s \in Seq(Operation)
  BY DEF Leads
<1>2. /\ n \in Nat /\ n # 0 /\ Head(s) = s[1] /\ Head(s) \in Operation
      /\ t \in Seq(Operation) /\ Len(t) = n - 1
      /\ \A i \in 1..n - 1 : t[i] = s[i + 1]
  BY <1>1, HeadTailProperties, EmptySeq
<1> HIDE DEF n, t
<1>3. PICK f \in [0..n -> Holding] : f[0] = a /\ Runs(f, s)
  BY DEF Leads, n
<1>4. 0 \in 0..n /\ 1 \in 0..n /\ 1 \in 1..n /\ 1 - 1 = 0
  BY <1>2
<1>5. f[1] \in Holding /\ Does(a, Head(s), f[1])
  <2>1. Does(f[1 - 1], s[1], f[1])
    BY <1>3, <1>4 DEF Runs, n
  <2> QED
    BY <1>2, <1>3, <1>4, <2>1
<1> DEFINE g == [i \in 0..n - 1 |-> f[i + 1]]
<1>6. g \in [0..n - 1 -> Holding] /\ g[0] = f[1] /\ g[n - 1] \in Holding
  <2>1. \A i \in 0..n - 1 : i + 1 \in 0..n
    BY <1>2
  <2>2. n - 1 \in 0..n - 1 /\ 0 \in 0..n - 1 /\ 0 + 1 = 1
    BY <1>2
  <2> QED
    BY <2>1, <2>2
<1>7. ASSUME NEW i \in 1..n - 1 PROVE Does(g[i - 1], t[i], g[i])
  <2>1. /\ i - 1 \in 0..n - 1 /\ i \in 0..n - 1 /\ i + 1 \in 1..n
        /\ (i - 1) + 1 = i /\ (i + 1) - 1 = i
    BY <1>2
  <2>2. g[i - 1] = f[i] /\ g[i] = f[i + 1]
    BY <2>1
  <2>3. Does(f[(i + 1) - 1], s[i + 1], f[i + 1])
    BY <1>3, <2>1 DEF Runs, n
  <2> HIDE DEF g
  <2> QED
    BY <1>2, <2>1, <2>2, <2>3
<1> HIDE DEF g
<1>8. Leads({f[1]}, t, Holding)
  BY <1>2, <1>6, <1>7 DEF Leads, Runs
<1> QED
  BY <1>2, <1>5, <1>8 DEF t

-----------------------------------------------------------------------------
(* The calls the handlers are made of.                                     *)

Has(b, h) == {a \in Holding : a[b] = h}

(* F says nothing of buffer b.                                             *)
Free(F, b) == F \subseteq Holding /\ \A a \in F : \A h \in Seq(Message) : [a EXCEPT ![b] = h] \in F

(* Nothing is said of any buffer, or something of another one.             *)
LEMMA FreeOf ==
  ASSUME NEW b \in Buf
  PROVE  /\ Free(Holding, b)
         /\ \A c \in Buf : \A h : c # b => Free(Has(c, h), b)
<1>1. ASSUME NEW a \in Holding, NEW h \in Seq(Message) PROVE [a EXCEPT ![b] = h] \in Holding
  BY DEF Holding
<1>2. ASSUME NEW c \in Buf, NEW h, c # b, NEW a \in Has(c, h), NEW k \in Seq(Message)
      PROVE  [a EXCEPT ![b] = k] \in Has(c, h)
  <2>1. a \in Holding /\ a[c] = h
    BY DEF Has
  <2>2. [a EXCEPT ![b] = k] \in Holding
    BY <1>1, <2>1
  <2>3. [a EXCEPT ![b] = k][c] = h
    BY <1>2, <2>1 DEF Holding
  <2> QED
    BY <2>2, <2>3 DEF Has
<1>3. \A c : \A h : Has(c, h) \subseteq Holding
  BY DEF Has
<1> QED
  BY <1>1, <1>2, <1>3 DEF Free

(* Both new buffers and cleared ones hold nothing.                         *)
LEMMA LeadsEmpty ==
  ASSUME NEW b \in Buf, NEW F, Free(F, b), NEW c \in Operation,
         c.op \in {"new", "clear"}, c.buf = b
  PROVE  Leads(F, <<c>>, F \cap Has(b, <<>>))
<1>1. F \in SUBSET Holding /\ F \cap Has(b, <<>>) \in SUBSET Holding
  BY DEF Free
<1>2. ASSUME NEW a \in F PROVE \E d \in F \cap Has(b, <<>>) : Does(a, c, d)
  <2> DEFINE d == [a EXCEPT ![b] = <<>>]
  <2>1. <<>> \in Seq(Message)
    OBVIOUS
  <2>2. d \in F
    BY <2>1 DEF Free
  <2>3. a \in Holding
    BY <1>1
  <2>4. d[b] = <<>> /\ d \in Holding
    BY <1>1, <2>2, <2>3 DEF Holding
  <2>5. Does(a, c, d)
    BY DEF Does
  <2> HIDE DEF d
  <2> QED
    BY <2>2, <2>4, <2>5 DEF Has
<1> QED
  BY <1>1, <1>2, LeadsOne

(* A new buffer.                                                           *)
LEMMA LeadsNew ==
  ASSUME NEW b \in Buf, NEW F, Free(F, b), NEW size \in {32, 64}
  PROVE  Leads(F, New(b, size), F \cap Has(b, <<>>))
<1> DEFINE c == [op |-> "new", buf |-> b, size |-> size]
<1>1. c \in Operation /\ c.op = "new" /\ c.buf = b
  BY DEF Operation
<1>2. New(b, size) = <<c>>
  BY DEF New
<1> HIDE DEF c
<1> QED
  BY <1>1, <1>2, LeadsEmpty

(* A cleared one.                                                          *)
LEMMA LeadsClear ==
  ASSUME NEW b \in Buf, NEW F, Free(F, b)
  PROVE  Leads(F, ClearMsg(b), F \cap Has(b, <<>>))
<1> DEFINE c == [op |-> "clear", buf |-> b]
<1>1. c \in Operation /\ c.op = "clear" /\ c.buf = b
  BY DEF Operation
<1>2. ClearMsg(b) = <<c>>
  BY DEF ClearMsg
<1> HIDE DEF c
<1> QED
  BY <1>1, <1>2, LeadsEmpty

(* One message more.                                                       *)
LEMMA LeadsPut ==
  ASSUME NEW b \in Buf, NEW F, Free(F, b), NEW h \in Seq(Message), Len(h) < 2, NEW m \in Message
  PROVE  Leads(F \cap Has(b, h), <<[op |-> "put", buf |-> b, msg |-> m]>>,
               F \cap Has(b, Append(h, m)))
<1> DEFINE c == [op |-> "put", buf |-> b, msg |-> m]  k == Append(h, m)
<1>1. c \in Operation /\ c.op = "put" /\ c.buf = b /\ c.msg = m
  BY DEF Operation
<1>2. F \cap Has(b, h) \in SUBSET Holding /\ F \cap Has(b, k) \in SUBSET Holding
  BY DEF Free
<1>3. k \in Seq(Message) /\ k = Append(h, m)
  OBVIOUS
<1> HIDE DEF c, k
<1>4. ASSUME NEW a \in F \cap Has(b, h) PROVE \E d \in F \cap Has(b, k) : Does(a, c, d)
  <2> DEFINE d == [a EXCEPT ![b] = k]
  <2>1. a \in Holding /\ a[b] = h
    BY DEF Has
  <2>2. d \in F
    BY <1>3 DEF Free
  <2>3. d[b] = k /\ d \in Holding
    BY <1>3, <2>1 DEF Holding
  <2>4. Does(a, c, d)
    BY <1>1, <1>3, <2>1 DEF Does
  <2> HIDE DEF d
  <2> QED
    BY <2>2, <2>3, <2>4 DEF Has
<1>5. Leads(F \cap Has(b, h), <<c>>, F \cap Has(b, k))
  BY <1>1, <1>2, <1>4, LeadsOne
<1> QED
  BY <1>5 DEF c, k

(* One or two messages.                                                    *)
LEMMA LeadsPutAll ==
  ASSUME NEW b \in Buf, NEW F, Free(F, b), NEW msgs \in Seq(Message), Len(msgs) \in 1..2
  PROVE  Leads(F \cap Has(b, <<>>), PutAll(b, msgs), F \cap Has(b, msgs))
<1> DEFINE Call1(m) == <<[op |-> "put", buf |-> b, msg |-> m]>>
<1>1. 1 \in 1..Len(msgs) /\ msgs[1] \in Message
  OBVIOUS
<1>2. Leads(F \cap Has(b, <<>>), Call1(msgs[1]), F \cap Has(b, Append(<<>>, msgs[1])))
  <2>1. <<>> \in Seq(Message) /\ Len(<<>>) < 2
    OBVIOUS
  <2> QED
    BY <1>1, <2>1, LeadsPut
<1>3. CASE Len(msgs) = 1
  <2>1. PutAll(b, msgs) = Call1(msgs[1]) /\ Append(<<>>, msgs[1]) = msgs
    BY <1>3 DEF PutAll
  <2> QED
    BY <1>2, <2>1
<1>4. CASE Len(msgs) = 2
  <2> DEFINE h == Append(<<>>, msgs[1])
  <2>1. h \in Seq(Message) /\ Len(h) < 2 /\ msgs[2] \in Message
    BY <1>1, <1>4
  <2>2. Append(h, msgs[2]) = msgs
    BY <1>1, <1>4
  <2> HIDE DEF h
  <2>3. Leads(F \cap Has(b, h), Call1(msgs[2]), F \cap Has(b, msgs))
    <3>1. Leads(F \cap Has(b, h), Call1(msgs[2]), F \cap Has(b, Append(h, msgs[2])))
      BY <2>1, LeadsPut
    <3> QED
      BY <2>2, <3>1
  <2>4. PutAll(b, msgs) = Call1(msgs[1]) \o Call1(msgs[2])
    BY <1>4 DEF PutAll
  <2> HIDE DEF Call1
  <2> QED
    BY <1>2, <2>3, <2>4, LeadsThen DEF h
<1>5. Len(msgs) = 1 \/ Len(msgs) = 2
  OBVIOUS
<1> QED
  BY <1>3, <1>4, <1>5

(* A buffer that holds the messages meant is sent.                         *)
LEMMA LeadsSend ==
  ASSUME NEW b \in Buf, NEW msgs \in Seq(Message), NEW S, S \subseteq Has(b, msgs)
  PROVE  Leads(S, Send(b, msgs), S)
<1> DEFINE c == [op |-> "send", buf |-> b, msgs |-> msgs]
<1>1. c \in Operation /\ c.op = "send" /\ c.buf = b /\ c.msgs = msgs
  BY DEF Operation
<1>2. Send(b, msgs) = <<c>>
  BY DEF Send
<1> HIDE DEF c
<1>3. \A a \in S : a \in Holding /\ Does(a, c, a)
  BY <1>1 DEF Has, Does
<1>4. S \in SUBSET Holding
  BY <1>3
<1> QED
  BY <1>1, <1>2, <1>3, <1>4, LeadsOne

(* A value is read from the packet.                                        *)
LEMMA LeadsGet ==
  ASSUME NEW len \in Nat
  PROVE  Leads(Has("serial", Raw), Get(len), Has("serial", Raw))
<1> DEFINE c == [op |-> "get", buf |-> "serial", len |-> len]
<1>1. c \in Operation /\ c.op = "get"
  BY DEF Operation
<1>2. Get(len) = <<c>>
  BY DEF Get
<1> HIDE DEF c
<1>3. \A a \in Has("serial", Raw) : a \in Holding /\ Does(a, c, a)
  BY <1>1 DEF Has, Does
<1>4. Has("serial", Raw) \in SUBSET Holding
  BY <1>3
<1> QED
  BY <1>1, <1>2, <1>3, <1>4, LeadsOne

-----------------------------------------------------------------------------
(* The handlers.                                                           *)

(* What is said of two buffers says nothing of a third.                    *)
LEMMA FreeBoth ==
  ASSUME NEW b, NEW F, NEW G, Free(F, b), Free(G, b)
  PROVE  Free(F \cap G, b)
BY DEF Free

(* Nothing is lost where nothing is said.                                  *)
LEMMA LeadsFrom ==
  ASSUME NEW S \in SUBSET Holding, NEW T \in SUBSET Holding, NEW s, Leads(Holding, s, T)
  PROVE  Leads(S, s, T) /\ Leads(S, s, Holding)
BY LeadsWeaker

(* One message is a list of messages.                                      *)
LEMMA MsgIs ==
  ASSUME NEW type \in Type, NEW who \in Who
  PROVE  <<Msg(type, who)>> \in Seq(Message) /\ Len(<<Msg(type, who)>>) \in 1..2
<1>1. Msg(type, who) \in Message
  BY DEF Msg, Message
<1> QED
  BY <1>1

(* The types of the messages the handlers send.                            *)
LEMMA TypeIs ==
  /\ "create_my" \in Type /\ "create_other" \in Type /\ "delete" \in Type
  /\ "move_start" \in Type /\ "move_stop" \in Type /\ "damage" \in Type
  /\ "echo" \in Type /\ "sync" \in Type
  /\ \A type : Shown(type) \in Type
BY DEF Type, BySize, Shown

(* A character is announced by one or two messages.                        *)
LEMMA CreationIs ==
  ASSUME NEW who \in Who, NEW moving \in BOOLEAN
  PROVE  Creation(who, moving) \in Seq(Message) /\ Len(Creation(who, moving)) \in 1..2
<1>1. Msg("create_other", who) \in Message /\ Msg("move_start", who) \in Message
  BY TypeIs DEF Msg, Message
<1>2. CASE moving
  <2> DEFINE first == <<Msg("create_other", who)>>
             second == <<Msg("move_start", who)>>
  <2>1. Creation(who, moving) = first \o second
    BY <1>2 DEF Creation
  <2>2. /\ first \in Seq(Message) /\ second \in Seq(Message)
        /\ Len(first) = 1 /\ Len(second) = 1
    BY <1>1
  <2> HIDE DEF first, second
  <2>3. first \o second \in Seq(Message) /\ Len(first \o second) = 2
    BY <2>2, ConcatProperties
  <2> QED
    BY <2>1, <2>3
<1>3. CASE ~moving
  <2>1. Creation(who, moving) = <<Msg("create_other", who)>>
    BY <1>3 DEF Creation
  <2> QED
    BY <1>1, <2>1
<1> QED
  BY <1>2, <1>3

(* Messages put into an empty buffer are sent from it.                     *)
LEMMA LeadsTell ==
  ASSUME NEW b \in Buf, NEW F, Free(F, b), NEW msgs \in Seq(Message), Len(msgs) \in 1..2
  PROVE  Leads(F \cap Has(b, <<>>), Tell(b, msgs), F \cap Has(b, msgs))
<1>1. Leads(F \cap Has(b, <<>>), PutAll(b, msgs), F \cap Has(b, msgs))
  BY LeadsPutAll
<1>2. Leads(F \cap Has(b, msgs), Send(b, msgs), F \cap Has(b, msgs))
  BY LeadsSend
<1> QED
  BY <1>1, <1>2, LeadsThen DEF Tell

(* A reply finds its buffer cleared, whatever was in it.                   *)
LEMMA LeadsReply ==
  ASSUME NEW type \in Type, NEW who \in Who
  PROVE  Leads(Holding, Reply(type, who), Holding)
<1> DEFINE msgs == <<Msg(type, who)>>
<1>1. msgs \in Seq(Message) /\ Len(msgs) \in 1..2
  BY MsgIs
<1> HIDE DEF msgs
<1>2. "serial" \in Buf /\ Free(Holding, "serial")
  BY FreeOf DEF Buf
<1>3. Leads(Holding, ClearMsg("serial"), Holding \cap Has("serial", <<>>))
  BY <1>2, LeadsClear
<1>4. Leads(Holding \cap Has("serial", <<>>), Tell("serial", msgs),
            Holding \cap Has("serial", msgs))
  BY <1>1, <1>2, LeadsTell
<1>5. Leads(Holding, Reply(type, who), Holding \cap Has("serial", msgs))
  BY <1>3, <1>4, LeadsThen DEF Reply, msgs
<1> QED
  BY <1>5, LeadsWeaker

(* So does the answer to coordinates too far off.                          *)
LEMMA LeadsSynchronise ==
  ASSUME NEW e
  PROVE  Leads(Holding, Synchronise(e), Holding)
<1>1. CASE e.sync
  <2>1. Synchronise(e) = Reply("sync", Mine) /\ Mine \in Who
    BY <1>1 DEF Synchronise, Who
  <2> QED
    BY <2>1, TypeIs, LeadsReply
<1>2. CASE ~e.sync
  <2>1. Synchronise(e) = <<>>
    BY <1>2 DEF Synchronise
  <2> QED
    BY <2>1, LeadsNone
<1> QED
  BY <1>1, <1>2

(* The values of a move are read from the packet.                          *)
LEMMA LeadsGetMove == Leads(Has("serial", Raw), GetMove, Has("serial", Raw))
<1>1. /\ Leads(Has("serial", Raw), Get(1), Has("serial", Raw))
      /\ Leads(Has("serial", Raw), Get(2), Has("serial", Raw))
  BY LeadsGet
<1>2. Leads(Has("serial", Raw), Get(1) \o Get(2), Has("serial", Raw))
  BY <1>1, LeadsThen
<1> QED
  BY <1>1, <1>2, LeadsThen DEF GetMove

(* A loop over the characters the handler meets.                           *)
LEMMA LeadsTurns ==
  ASSUME NEW S \in SUBSET Holding, NEW others \in Seq(Other), NEW s,
         s = [i \in DOMAIN others |-> s[i]], \A i \in DOMAIN others : Leads(S, s[i], S)
  PROVE  Leads(S, FlattenSeq(s), S)
<1>1. Len(others) \in Nat /\ DOMAIN others = 1..Len(others)
  BY LenProperties
<1>2. \A i \in 1..Len(others) : s[i] \in Seq(Operation)
  BY <1>1 DEF Leads
<1>3. s \in [1..Len(others) -> Seq(Operation)]
  BY <1>1, <1>2
<1>4. s \in Seq(Seq(Operation)) /\ Len(s) = Len(others)
  BY <1>1, <1>3
<1> QED
  BY <1>1, <1>4, LeadsEach

(* Every character left behind gets one message, and so does the handler's *)
(* own; the loop finds both buffers as it leaves them.                     *)
LEMMA LeadsSectorDelete ==
  ASSUME NEW others \in Seq(Other), NEW F, F = Has("msg", <<Msg("delete", Mine)>>)
  PROVE  Leads(F, SendSectorDeleteMsg(others), F)
<1> DEFINE turn(o) ==
      PutAll("delMsg", <<Msg("delete", o)>>) \o Send("msg", <<Msg("delete", Mine)>>)
        \o Send("delMsg", <<Msg("delete", o)>>) \o ClearMsg("delMsg")
    G == F \cap Has("delMsg", <<>>)
    s == [i \in DOMAIN others |-> turn(others[i])]
<1>1. "delMsg" \in Buf /\ "msg" \in Buf /\ "msg" # "delMsg"
  BY DEF Buf
<1>2. Free(F, "delMsg") /\ F \in SUBSET Holding /\ G \in SUBSET Holding
  BY <1>1, FreeOf DEF Has
<1>3. Leads(F, New("delMsg", 32), G)
  BY <1>1, <1>2, LeadsNew
<1>4. ASSUME NEW o \in Other PROVE Leads(G, turn(o), G)
  <2> DEFINE theirs == <<Msg("delete", o)>>
             mine == <<Msg("delete", Mine)>>
  <2>1. o \in Who /\ Mine \in Who
    BY DEF Who
  <2>2. theirs \in Seq(Message) /\ Len(theirs) \in 1..2 /\ mine \in Seq(Message)
    BY <2>1, TypeIs, MsgIs
  <2> HIDE DEF theirs, mine
  <2> DEFINE H == F \cap Has("delMsg", theirs)
  <2>3. Leads(G, PutAll("delMsg", theirs), H)
    BY <1>1, <1>2, <2>2, LeadsPutAll
  <2>4. Leads(H, Send("msg", mine), H)
    <3>1. H \subseteq Has("msg", mine)
      BY DEF mine
    <3> QED
      BY <1>1, <2>2, <3>1, LeadsSend
  <2>5. Leads(H, Send("delMsg", theirs), H)
    BY <1>1, <2>2, LeadsSend
  <2>6. Leads(H, ClearMsg("delMsg"), G)
    <3>1. Leads(F, ClearMsg("delMsg"), G)
      BY <1>1, <1>2, LeadsClear
    <3> QED
      BY <3>1, LeadsWeaker
  <2> HIDE DEF G, H
  <2>7. Leads(G, PutAll("delMsg", theirs) \o Send("msg", mine), H)
    BY <2>3, <2>4, LeadsThen
  <2>8. Leads(G, PutAll("delMsg", theirs) \o Send("msg", mine) \o Send("delMsg", theirs), H)
    BY <2>5, <2>7, LeadsThen
  <2> QED
    BY <2>6, <2>8, LeadsThen DEF theirs, mine
<1> HIDE DEF turn, G
<1>5. \A i \in DOMAIN others : Leads(G, turn(others[i]), G)
  BY <1>4
<1>6. s = [i \in DOMAIN others |-> s[i]] /\ \A i \in DOMAIN others : Leads(G, s[i], G)
  BY <1>5
<1> HIDE DEF s
<1>7. Leads(G, FlattenSeq(s), G)
  BY <1>2, <1>6, LeadsTurns
<1>8. SendSectorDeleteMsg(others) = New("delMsg", 32) \o FlattenSeq(s)
  BY DEF SendSectorDeleteMsg, ForEach, s, turn
<1>9. Leads(F, SendSectorDeleteMsg(others), G)
  BY <1>3, <1>7, <1>8, LeadsThen
<1> QED
  BY <1>9, LeadsWeaker DEF G

(* Every character met gets the messages of the handler's own, and one or  *)
(* two of its own, from a buffer the loop leaves empty.                    *)
LEMMA LeadsSectorCreate ==
  ASSUME NEW others \in Seq(Other), NEW movers, NEW b \in {"msg", "own"},
         NEW msgs \in Seq(Message), NEW F, F = Has(b, msgs)
  PROVE  Leads(F, SendSectorCreateMsg(others, movers, b, msgs), F)
<1> DEFINE turn(o) ==
      Send(b, msgs) \o Tell("msg2", Creation(o, o \in movers)) \o ClearMsg("msg2")
    G == F \cap Has("msg2", <<>>)
    s == [i \in DOMAIN others |-> turn(others[i])]
<1>1. "msg2" \in Buf /\ b \in Buf /\ b # "msg2"
  BY DEF Buf
<1>2. Free(F, "msg2") /\ F \in SUBSET Holding /\ G \in SUBSET Holding
  BY <1>1, FreeOf DEF Has
<1>3. Leads(F, New("msg2", 32), G)
  BY <1>1, <1>2, LeadsNew
<1>4. ASSUME NEW o \in Other PROVE Leads(G, turn(o), G)
  <2> DEFINE theirs == Creation(o, o \in movers)
             H == F \cap Has("msg2", theirs)
  <2>1. o \in Who /\ (o \in movers) \in BOOLEAN
    BY DEF Who
  <2>2. theirs \in Seq(Message) /\ Len(theirs) \in 1..2
    BY <2>1, CreationIs
  <2> HIDE DEF theirs
  <2>3. Leads(G, Send(b, msgs), G)
    BY <1>1, LeadsSend
  <2>4. Leads(G, Tell("msg2", theirs), H)
    BY <1>1, <1>2, <2>2, LeadsTell
  <2>5. Leads(H, ClearMsg("msg2"), G)
    <3>1. Leads(F, ClearMsg("msg2"), G)
      BY <1>1, <1>2, LeadsClear
    <3> QED
      BY <3>1, LeadsWeaker
  <2> HIDE DEF G, H
  <2>6. Leads(G, Send(b, msgs) \o Tell("msg2", theirs), H)
    BY <2>3, <2>4, LeadsThen
  <2> QED
    BY <2>5, <2>6, LeadsThen DEF theirs
<1> HIDE DEF turn, G
<1>5. \A i \in DOMAIN others : Leads(G, turn(others[i]), G)
  BY <1>4
<1>6. s = [i \in DOMAIN others |-> s[i]] /\ \A i \in DOMAIN others : Leads(G, s[i], G)
  BY <1>5
<1> HIDE DEF s
<1>7. Leads(G, FlattenSeq(s), G)
  BY <1>2, <1>6, LeadsTurns
<1>8. SendSectorCreateMsg(others, movers, b, msgs) = New("msg2", 32) \o FlattenSeq(s)
  BY DEF SendSectorCreateMsg, ForEach, s, turn
<1>9. Leads(F, SendSectorCreateMsg(others, movers, b, msgs), G)
  BY <1>3, <1>7, <1>8, LeadsThen
<1> QED
  BY <1>9, LeadsWeaker DEF G

(* What a handler meets are characters, one after the other.               *)
LEMMA EncounterIs ==
  ASSUME NEW e \in Encounter
  PROVE  /\ e.moving \in BOOLEAN
         /\ e.lost \in Seq(Other) /\ e.gained \in Seq(Other) /\ e.hit \in Seq(Other)
<1>1. e.moving \in BOOLEAN /\ e.lost \in Lists /\ e.gained \in Lists /\ e.hit \in Lists
  BY DEF Encounter
<1>2. \A l \in Lists : l \in Seq(Other)
  <2> TAKE l \in Lists
  <2>1. Cardinality(Other) \in Nat
    BY PayloadAssumption, FS_CardinalityType
  <2>2. PICK n \in 0..Cardinality(Other) : l \in [1..n -> Other]
    BY DEF Lists, SeqOf
  <2>3. n \in Nat
    BY <2>1
  <2> QED
    BY <2>2, <2>3
<1> QED
  BY <1>1, <1>2

(* SectorUpdate: all its buffers hold what it means to send from them.     *)
LEMMA LeadsSectorUpdate ==
  ASSUME NEW e \in Encounter, NEW moving \in BOOLEAN
  PROVE  Leads(Holding, SectorUpdate(e, moving), Holding)
<1> DEFINE gone == <<Msg("delete", Mine)>>
           here == Creation(Mine, moving)
<1>0. Holding \in SUBSET Holding /\ "msg" \in Buf /\ Free(Holding, "msg") /\ Mine \in Who
  BY FreeOf DEF Buf, Who
<1>1. /\ gone \in Seq(Message) /\ Len(gone) \in 1..2
      /\ here \in Seq(Message) /\ Len(here) \in 1..2
  BY <1>0, TypeIs, MsgIs, CreationIs
<1> HIDE DEF here
<1>2. e.lost \in Seq(Other) /\ e.gained \in Seq(Other)
  BY EncounterIs
<1> DEFINE E == Holding \cap Has("msg", <<>>)
<1>3. E = Has("msg", <<>>) /\ \A h : Holding \cap Has("msg", h) = Has("msg", h)
  BY DEF Has
<1>4. Leads(Holding, New("msg", 64), E)
  BY <1>0, LeadsNew
<1>5. Leads(E, PutAll("msg", gone), Has("msg", gone))
  <2> HIDE DEF gone
  <2>1. Leads(E, PutAll("msg", gone), Holding \cap Has("msg", gone))
    BY <1>0, <1>1, LeadsPutAll
  <2> QED
    BY <1>3, <2>1
<1>6. Leads(Has("msg", gone), SendSectorDeleteMsg(e.lost), Holding)
  <2>1. Leads(Has("msg", gone), SendSectorDeleteMsg(e.lost), Has("msg", gone))
    BY <1>2, LeadsSectorDelete
  <2> QED
    BY <2>1, LeadsWeaker DEF Has
<1>7. Leads(Holding, ClearMsg("msg"), E)
  BY <1>0, LeadsClear
<1>8. Leads(E, PutAll("msg", here), Has("msg", here))
  <2>1. Leads(E, PutAll("msg", here), Holding \cap Has("msg", here))
    BY <1>0, <1>1, LeadsPutAll
  <2> QED
    BY <1>3, <2>1
<1>9. Leads(Has("msg", here), SendSectorCreateMsg(e.gained, e.movers, "msg", here),
            Has("msg", here))
  BY <1>1, <1>2, LeadsSectorCreate
<1> HIDE DEF E, gone
<1>10. CASE e.crosses
  <2>1. SectorUpdate(e, moving) =
          New("msg", 64) \o PutAll("msg", gone) \o SendSectorDeleteMsg(e.lost)
            \o ClearMsg("msg") \o PutAll("msg", here)
            \o SendSectorCreateMsg(e.gained, e.movers, "msg", here)
    BY <1>10 DEF SectorUpdate, gone, here
  <2>2. Leads(Holding, New("msg", 64) \o PutAll("msg", gone), Has("msg", gone))
    BY <1>4, <1>5, LeadsThen
  <2>3. Leads(Holding, New("msg", 64) \o PutAll("msg", gone) \o SendSectorDeleteMsg(e.lost),
              Holding)
    BY <1>6, <2>2, LeadsThen
  <2>4. Leads(Holding, New("msg", 64) \o PutAll("msg", gone) \o SendSectorDeleteMsg(e.lost)
                         \o ClearMsg("msg"), E)
    BY <1>7, <2>3, LeadsThen
  <2>5. Leads(Holding, New("msg", 64) \o PutAll("msg", gone) \o SendSectorDeleteMsg(e.lost)
                         \o ClearMsg("msg") \o PutAll("msg", here), Has("msg", here))
    BY <1>8, <2>4, LeadsThen
  <2>6. Leads(Holding, SectorUpdate(e, moving), Has("msg", here))
    BY <1>9, <2>1, <2>5, LeadsThen
  <2> QED
    BY <2>6, LeadsWeaker DEF Has
<1>11. CASE ~e.crosses
  <2>1. SectorUpdate(e, moving) = <<>>
    BY <1>11 DEF SectorUpdate
  <2> QED
    BY <1>0, <2>1, LeadsNone
<1> QED
  BY <1>10, <1>11

(* OnCharacterConnect: the newcomer's own message, then the broadcasts.    *)
LEMMA LeadsConnect ==
  ASSUME NEW e \in Encounter
  PROVE  Leads(Holding, OnCharacterConnect(e), Holding)
<1> DEFINE mine == <<Msg("create_my", Mine)>>
           here == Creation(Mine, FALSE)
           E == Holding \cap Has("own", <<>>)
<1>0. "own" \in Buf /\ Free(Holding, "own") /\ Mine \in Who /\ FALSE \in BOOLEAN
  BY FreeOf DEF Buf, Who
<1>1. /\ mine \in Seq(Message) /\ Len(mine) \in 1..2
      /\ here \in Seq(Message) /\ Len(here) \in 1..2
  BY <1>0, TypeIs, MsgIs, CreationIs
<1> HIDE DEF mine, here
<1>2. e.gained \in Seq(Other)
  BY EncounterIs
<1>3. Leads(Holding, New("own", 32), E)
  BY <1>0, LeadsNew
<1>4. Leads(E, Tell("own", mine), Holding)
  <2>1. Leads(E, Tell("own", mine), Holding \cap Has("own", mine))
    BY <1>0, <1>1, LeadsTell
  <2> QED
    BY <2>1, LeadsWeaker
<1>5. Leads(Holding, ClearMsg("own"), E)
  BY <1>0, LeadsClear
<1>6. Leads(E, PutAll("own", here), Has("own", here))
  <2>1. Leads(E, PutAll("own", here), Holding \cap Has("own", here))
    BY <1>0, <1>1, LeadsPutAll
  <2> QED
    BY <2>1, LeadsWeaker
<1>7. Leads(Has("own", here), SendSectorCreateMsg(e.gained, e.movers, "own", here),
            Holding)
  <2>1. Leads(Has("own", here), SendSectorCreateMsg(e.gained, e.movers, "own", here),
              Has("own", here))
    BY <1>1, <1>2, LeadsSectorCreate
  <2> QED
    BY <2>1, LeadsWeaker DEF Has
<1> HIDE DEF E
<1>8. Leads(Holding, New("own", 32) \o Tell("own", mine), Holding)
  BY <1>3, <1>4, LeadsThen
<1>9. Leads(Holding, New("own", 32) \o Tell("own", mine) \o ClearMsg("own"), E)
  BY <1>5, <1>8, LeadsThen
<1>10. Leads(Holding, New("own", 32) \o Tell("own", mine) \o ClearMsg("own")
                        \o PutAll("own", here), Has("own", here))
  BY <1>6, <1>9, LeadsThen
<1> QED
  BY <1>7, <1>10, LeadsThen DEF OnCharacterConnect, mine, here

(* OnCharacterDisconnect: one message from a new buffer.                   *)
LEMMA LeadsDisconnect == Leads(Holding, OnCharacterDisconnect, Holding)
<1> DEFINE mine == <<Msg("delete", Mine)>>
           E == Holding \cap Has("own", <<>>)
<1>0. "own" \in Buf /\ Free(Holding, "own") /\ Mine \in Who
  BY FreeOf DEF Buf, Who
<1>1. mine \in Seq(Message) /\ Len(mine) \in 1..2
  BY <1>0, TypeIs, MsgIs
<1> HIDE DEF mine
<1>2. Leads(Holding, New("own", 32), E)
  BY <1>0, LeadsNew
<1>3. Leads(E, Tell("own", mine), Holding)
  <2>1. Leads(E, Tell("own", mine), Holding \cap Has("own", mine))
    BY <1>0, <1>1, LeadsTell
  <2> QED
    BY <2>1, LeadsWeaker
<1> HIDE DEF E
<1> QED
  BY <1>2, <1>3, LeadsThen DEF OnCharacterDisconnect, mine

(* The damage is announced to every character hit, from the one buffer.    *)
LEMMA LeadsDamage ==
  ASSUME NEW others \in Seq(Other)
  PROVE  Leads(Holding, ForEach(others, LAMBDA o : Reply("damage", o)), Holding)
<1> DEFINE s == [i \in DOMAIN others |-> Reply("damage", others[i])]
<1>1. \A o \in Other : Leads(Holding, Reply("damage", o), Holding)
  <2>1. \A o \in Other : o \in Who
    BY DEF Who
  <2> QED
    BY <2>1, TypeIs, LeadsReply
<1>2. \A i \in DOMAIN others : others[i] \in Other
  OBVIOUS
<1>3. s = [i \in DOMAIN others |-> s[i]] /\ \A i \in DOMAIN others : Leads(Holding, s[i], Holding)
  BY <1>1, <1>2
<1>4. ForEach(others, LAMBDA o : Reply("damage", o)) = FlattenSeq(s)
  BY DEF ForEach
<1> HIDE DEF s
<1>5. Leads(Holding, FlattenSeq(s), Holding)
  <2>1. Holding \in SUBSET Holding
    OBVIOUS
  <2> QED
    BY <1>3, <2>1, LeadsTurns
<1> QED
  BY <1>4, <1>5

(* The handlers of packets read their values before anything overwrites    *)
(* the payload, and whatever they send finds its buffer as it should be.   *)
LEMMA LeadsPacketProc ==
  ASSUME NEW e \in Encounter, NEW type
  PROVE  Leads(Has("serial", Raw), PacketProc(e, type), Holding)
<1> DEFINE R == Has("serial", Raw)
<1>0. R \in SUBSET Holding /\ Holding \in SUBSET Holding /\ Mine \in Who /\ FALSE \in BOOLEAN
  BY DEF Has, Who
<1>1. e.moving \in BOOLEAN /\ e.hit \in Seq(Other)
  BY EncounterIs
<1>2. Leads(R, GetMove, Holding)
  BY <1>0, LeadsGetMove, LeadsWeaker
<1> HIDE DEF R
<1>3. Leads(R, GetMove \o Synchronise(e), Holding)
  BY <1>2, LeadsSynchronise, LeadsThen
<1>4. Leads(R, PacketProc_MoveStart(e), Holding)
  <2>1. Leads(R, GetMove \o Synchronise(e) \o SectorUpdate(e, e.moving), Holding)
    BY <1>1, <1>3, LeadsSectorUpdate, LeadsThen
  <2>2. Leads(Holding, Reply("move_start", Mine), Holding)
    BY <1>0, TypeIs, LeadsReply
  <2> QED
    BY <2>1, <2>2, LeadsThen DEF PacketProc_MoveStart
<1>5. Leads(R, PacketProc_MoveStop(e), Holding)
  <2>1. Leads(R, GetMove \o Synchronise(e) \o SectorUpdate(e, FALSE), Holding)
    BY <1>0, <1>3, LeadsSectorUpdate, LeadsThen
  <2>2. Leads(Holding, Reply("move_stop", Mine), Holding)
    BY <1>0, TypeIs, LeadsReply
  <2> QED
    BY <2>1, <2>2, LeadsThen DEF PacketProc_MoveStop
<1>6. Leads(R, PacketProc_Attack(e, type), Holding)
  <2>1. Leads(Holding, Reply(Shown(type), Mine), Holding)
    BY <1>0, TypeIs, LeadsReply
  <2>2. Leads(R, GetMove \o Synchronise(e) \o Reply(Shown(type), Mine), Holding)
    BY <1>3, <2>1, LeadsThen
  <2>3. Leads(Holding, ForEach(e.hit, LAMBDA o : Reply("damage", o)), Holding)
    BY <1>1, LeadsDamage
  <2> QED
    BY <2>2, <2>3, LeadsThen DEF PacketProc_Attack
<1>7. Leads(R, PacketProc_Echo, Holding)
  <2>1. Leads(R, Get(4), R)
    BY LeadsGet DEF R
  <2>2. Leads(R, Get(4), Holding)
    BY <1>0, <2>1, LeadsWeaker
  <2>3. Leads(Holding, Reply("echo", Mine), Holding)
    BY <1>0, TypeIs, LeadsReply
  <2> QED
    BY <2>2, <2>3, LeadsThen DEF PacketProc_Echo
<1>8. Leads(R, OnCharacterDisconnect, Holding)
  BY <1>0, LeadsDisconnect, LeadsFrom
<1> QED
  BY <1>4, <1>5, <1>6, <1>7, <1>8 DEF PacketProc, R

-----------------------------------------------------------------------------
(* The buffers.                                                            *)

Buffer ==
  [capacity : {32, 64}, length : Nat, writePos : Nat, readPos : Nat, bytes : Seq(Byte)]

Sound(b) == b \in Buffer /\ Len(b.bytes) = b.capacity /\ InBounds(b)

(* The fields of a buffer.                                                 *)
LEMMA BufferIs ==
  ASSUME NEW b, Sound(b)
  PROVE  /\ b.capacity \in {32, 64} /\ b.length \in Nat /\ b.writePos \in Nat
         /\ b.readPos \in Nat /\ b.bytes \in Seq(Byte) /\ Len(b.bytes) = b.capacity
         /\ b.writePos <= b.capacity /\ b.readPos + b.length <= b.capacity
BY DEF Sound, Buffer, InBounds

(* A new buffer is sound, and empty.                                       *)
LEMMA NewSound ==
  ASSUME NEW size \in {32, 64}
  PROVE  /\ Sound(SerialBuffer(size))
         /\ SerialBuffer(size).length = 0 /\ SerialBuffer(size).writePos = 0
         /\ SerialBuffer(size).readPos = 0
<1>1. Junk \in Byte
  BY DEF Byte
<1> DEFINE s == [i \in 1..size |-> Junk]
<1>2. s \in Seq(Byte) /\ Len(s) = size
  <2> HIDE DEF Byte
  <2> QED
    BY <1>1
<1> HIDE DEF s
<1>3. SerialBuffer(size) =
        [capacity |-> size, length |-> 0, writePos |-> 0, readPos |-> 0, bytes |-> s]
  BY DEF SerialBuffer, s
<1> QED
  BY <1>2, <1>3 DEF Sound, Buffer, InBounds

(* So is a cleared one.                                                    *)
LEMMA ClearSound ==
  ASSUME NEW b, Sound(b)
  PROVE  /\ Sound(Clear(b)) /\ Clear(b).bytes = b.bytes /\ Clear(b).capacity = b.capacity
         /\ Clear(b).length = 0 /\ Clear(b).writePos = 0 /\ Clear(b).readPos = 0
<1>1. b \in Buffer /\ Len(b.bytes) = b.capacity /\ b.capacity \in {32, 64}
  BY BufferIs DEF Sound
<1>2. /\ Clear(b) \in Buffer
      /\ Clear(b).bytes = b.bytes /\ Clear(b).capacity = b.capacity
      /\ Clear(b).length = 0 /\ Clear(b).writePos = 0 /\ Clear(b).readPos = 0
  BY <1>1 DEF Clear, Buffer
<1> QED
  BY <1>1, <1>2 DEF Sound, InBounds

(* Bytes copied into a block stay within it and keep the others.           *)
LEMMA CopiedIs ==
  ASSUME NEW bytes \in Seq(Byte), NEW at \in Nat, NEW src \in Seq(Byte),
         at + Len(src) <= Len(bytes)
  PROVE  /\ Copied(bytes, at, src) \in Seq(Byte)
         /\ Len(Copied(bytes, at, src)) = Len(bytes)
         /\ \A i \in 1..Len(bytes) :
              Copied(bytes, at, src)[i] =
                IF i \in at + 1 .. at + Len(src) THEN src[i - at] ELSE bytes[i]
<1> DEFINE n == Len(bytes)  k == Len(src)
           c == [i \in 1..n |-> IF i \in at + 1 .. at + k THEN src[i - at] ELSE bytes[i]]
<1>1. /\ n \in Nat /\ k \in Nat /\ at + k <= n /\ DOMAIN bytes = 1..n
      /\ \A i \in 1..n : bytes[i] \in Byte
      /\ \A i \in 1..k : src[i] \in Byte
  BY LenProperties
<1>2. Copied(bytes, at, src) = c
  BY <1>1 DEF Copied
<1> HIDE DEF n, k
<1>3. \A i \in 1..n : i \in at + 1 .. at + k => i - at \in 1..k
  BY <1>1
<1>4. \A i \in 1..n : c[i] \in Byte
  BY <1>1, <1>3
<1>5. c \in [1..n -> Byte]
  BY <1>4
<1> HIDE DEF c
<1>6. c \in Seq(Byte) /\ Len(c) = n
  BY <1>1, <1>5
<1> QED
  BY <1>2, <1>6 DEF c, n, k

(* A part of a block, by its elements.                                     *)
LEMMA PartIs ==
  ASSUME NEW B, NEW s \in Seq(B), NEW m \in Nat, NEW n \in Nat, m + n <= Len(s)
  PROVE  /\ SubSeq(s, m + 1, m + n) \in Seq(B) /\ Len(SubSeq(s, m + 1, m + n)) = n
         /\ \A i \in 1..n : SubSeq(s, m + 1, m + n)[i] = s[m + i]
<1>1. \A i \in m + 1 .. m + n : s[i] \in B
  OBVIOUS
<1>2. m + 1 \in Int /\ m + n \in Int /\ (m + n) - (m + 1) + 1 = n
  OBVIOUS
<1>3. /\ SubSeq(s, m + 1, m + n) \in Seq(B)
      /\ Len(SubSeq(s, m + 1, m + n)) = IF m + 1 <= m + n THEN n ELSE 0
      /\ \A i \in 1..n : SubSeq(s, m + 1, m + n)[i] = s[(m + 1) + i - 1]
  BY <1>1, <1>2, SubSeqProperties
<1>4. \A i \in 1..n : (m + 1) + i - 1 = m + i
  OBVIOUS
<1> QED
  BY <1>3, <1>4

(* The contents of a buffer are as long as it says.                        *)
LEMMA ContentsIs ==
  ASSUME NEW b, Sound(b)
  PROVE  /\ Contents(b) \in Seq(Byte) /\ Len(Contents(b)) = b.length
         /\ \A i \in 1..b.length : Contents(b)[i] = b.bytes[i]
<1>1. b.bytes \in Seq(Byte) /\ b.length \in Nat /\ 0 + b.length <= Len(b.bytes)
  BY BufferIs
<1>2. 0 + 1 = 1 /\ 0 + b.length = b.length
  BY <1>1
<1>3. /\ SubSeq(b.bytes, 0 + 1, 0 + b.length) \in Seq(Byte)
      /\ Len(SubSeq(b.bytes, 0 + 1, 0 + b.length)) = b.length
      /\ \A i \in 1..b.length : SubSeq(b.bytes, 0 + 1, 0 + b.length)[i] = b.bytes[0 + i]
  BY <1>1, PartIs
<1>4. \A i \in 1..b.length : 0 + i = i
  OBVIOUS
<1> QED
  BY <1>2, <1>3, <1>4 DEF Contents

(* What is written after the contents becomes the end of the contents: the *)
(* position << does not look at is where the length says.                  *)
LEMMA WriteSound ==
  ASSUME NEW b, Sound(b), b.readPos = 0, b.writePos = b.length,
         NEW src \in Seq(Byte), b.length + Len(src) <= b.capacity
  PROVE  /\ CanWrite(b, src) /\ Sound(Write(b, src))
         /\ Write(b, src).readPos = 0 /\ Write(b, src).writePos = Write(b, src).length
         /\ Contents(Write(b, src)) = Contents(b) \o src
<1> DEFINE n == b.length  k == Len(src)  c == Copied(b.bytes, n, src)  w == Write(b, src)
<1>1. /\ b \in Buffer /\ n \in Nat /\ b.bytes \in Seq(Byte) /\ Len(b.bytes) = b.capacity
      /\ b.capacity \in {32, 64} /\ b.writePos = n /\ b.writePos <= b.capacity
  BY BufferIs DEF Sound
<1>2. k \in Nat /\ n + k <= b.capacity
  BY LenProperties
<1>3. /\ c \in Seq(Byte) /\ Len(c) = b.capacity
      /\ \A i \in 1..b.capacity :
           c[i] = IF i \in n + 1 .. n + k THEN src[i - n] ELSE b.bytes[i]
  BY <1>1, <1>2, CopiedIs
<1> HIDE DEF c, k, n
<1>4. /\ w \in Buffer /\ w.bytes = c /\ w.length = n + k /\ w.writePos = n + k
      /\ w.readPos = 0 /\ w.capacity = b.capacity
  <2> DEFINE l == n + k
  <2>1. w = [b EXCEPT !.bytes = c, !.length = l, !.writePos = l]
    BY <1>1 DEF Write, c, k, n
  <2>2. l \in Nat
    BY <1>1, <1>2
  <2> HIDE DEF w, l
  <2>3. c \in Seq(Byte) /\ b \in Buffer
    BY <1>1, <1>3
  <2>4. /\ w \in Buffer /\ w.bytes = c /\ w.length = l /\ w.writePos = l
        /\ w.readPos = b.readPos /\ w.capacity = b.capacity
    BY <2>1, <2>2, <2>3 DEF Buffer
  <2> QED
    BY <2>4 DEF l
<1> HIDE DEF w
<1>5. Sound(w)
  BY <1>1, <1>2, <1>3, <1>4 DEF Sound, InBounds
<1>6. CanWrite(b, src)
  BY <1>1, <1>2 DEF CanWrite, k, n
<1>7. /\ Contents(w) \in Seq(Byte) /\ Len(Contents(w)) = n + k
      /\ \A i \in 1..n + k : Contents(w)[i] = c[i]
  BY <1>4, <1>5, ContentsIs
<1>8. /\ Contents(b) \in Seq(Byte) /\ Len(Contents(b)) = n
      /\ \A i \in 1..n : Contents(b)[i] = b.bytes[i]
  BY ContentsIs DEF n
<1>9. /\ Contents(b) \o src \in Seq(Byte) /\ Len(Contents(b) \o src) = n + k
      /\ \A i \in 1..n + k :
           (Contents(b) \o src)[i] = IF i <= n THEN Contents(b)[i] ELSE src[i - n]
  BY <1>8, ConcatProperties DEF k
<1>10. \A i \in 1..n + k : Contents(w)[i] = (Contents(b) \o src)[i]
  <2> TAKE i \in 1..n + k
  <2>1. i \in 1..b.capacity
    BY <1>1, <1>2
  <2>2. Contents(w)[i] = IF i \in n + 1 .. n + k THEN src[i - n] ELSE b.bytes[i]
    BY <1>3, <1>7, <2>1
  <2>3. CASE i <= n
    <3>1. i \in 1..n /\ i \notin n + 1 .. n + k
      BY <1>1, <1>2, <2>3
    <3> QED
      BY <1>8, <1>9, <2>2, <2>3, <3>1
  <2>4. CASE ~(i <= n)
    <3>1. i \in n + 1 .. n + k
      BY <1>1, <1>2, <2>4
    <3> QED
      BY <1>9, <2>2, <2>4, <3>1
  <2> QED
    BY <2>3, <2>4
<1>11. Contents(w) = Contents(b) \o src
  BY <1>7, <1>9, <1>10, SeqEqual
<1> QED
  BY <1>4, <1>5, <1>6, <1>11 DEF w

(* Filling a buffer from outside moves its write position, block or no     *)
(* block.                                                                  *)
LEMMA FilledWhere ==
  ASSUME NEW b, Sound(b), NEW src \in Seq(Byte)
  PROVE  LET f == Filled(Clear(b), src)
         IN f.writePos = Len(src) /\ f.capacity = b.capacity
<1> DEFINE x == Clear(b)  k == Len(src)  c == Copied(x.bytes, 0, src)  f == Filled(x, src)
<1>1. /\ x \in Buffer /\ x.writePos = 0 /\ x.capacity = b.capacity /\ k \in Nat
  BY ClearSound, LenProperties DEF Sound
<1>2. f = [x EXCEPT !.bytes = c, !.length = k, !.writePos = x.writePos + k]
  BY DEF Filled
<1> HIDE DEF x, k, c, f
<1>3. f.writePos = x.writePos + k /\ f.capacity = x.capacity
  BY <1>1, <1>2 DEF Buffer
<1>4. x.writePos + k = k
  BY <1>1
<1> QED
  BY <1>1, <1>3, <1>4 DEF f, x, k

(* A cleared buffer filled from outside holds what it was filled with.     *)
LEMMA FilledIs ==
  ASSUME NEW b, Sound(b), NEW src \in Seq(Byte), Len(src) <= b.capacity
  PROVE  LET f == Filled(Clear(b), src)
         IN /\ Sound(f) /\ f.readPos = 0 /\ f.length = Len(src)
            /\ f.capacity = b.capacity
            /\ \A i \in 1..Len(src) : f.bytes[i] = src[i]
<1> DEFINE x == Clear(b)  k == Len(src)  c == Copied(x.bytes, 0, src)  f == Filled(x, src)
<1>1. /\ Sound(x) /\ x.length = 0 /\ x.writePos = 0 /\ x.readPos = 0
      /\ x.capacity = b.capacity
  BY ClearSound
<1> HIDE DEF x
<1>2. /\ x \in Buffer /\ x.bytes \in Seq(Byte) /\ Len(x.bytes) = x.capacity
      /\ x.capacity \in {32, 64}
  BY <1>1, BufferIs DEF Sound
<1>3. k \in Nat /\ 0 + k <= Len(x.bytes) /\ 0 \in Nat
  BY <1>1, <1>2, LenProperties
<1>4. /\ c \in Seq(Byte) /\ Len(c) = Len(x.bytes)
      /\ \A i \in 1..Len(x.bytes) :
           c[i] = IF i \in 0 + 1 .. 0 + k THEN src[i - 0] ELSE x.bytes[i]
  BY <1>2, <1>3, CopiedIs
<1> HIDE DEF c, k
<1>5. /\ f \in Buffer /\ f.bytes = c /\ f.length = k /\ f.writePos = k
      /\ f.readPos = 0 /\ f.capacity = x.capacity
  <2>1. x.writePos + k = k
    BY <1>1, <1>3
  <2>2. f = [x EXCEPT !.bytes = c, !.length = k, !.writePos = k]
    BY <2>1 DEF Filled, c, k
  <2> HIDE DEF f
  <2>3. k \in Nat /\ c \in Seq(Byte) /\ x \in Buffer
    BY <1>2, <1>3, <1>4
  <2>4. /\ f \in Buffer /\ f.bytes = c /\ f.length = k /\ f.writePos = k
        /\ f.readPos = x.readPos /\ f.capacity = x.capacity
    BY <2>2, <2>3 DEF Buffer
  <2> QED
    BY <1>1, <2>4
<1> HIDE DEF f
<1>6. Sound(f)
  BY <1>2, <1>3, <1>4, <1>5 DEF Sound, InBounds
<1>7. \A i \in 1..k : c[i] = src[i]
  <2> TAKE i \in 1..k
  <2>1. i \in 1..Len(x.bytes) /\ i \in 0 + 1 .. 0 + k /\ i - 0 = i
    BY <1>3
  <2> QED
    BY <1>4, <2>1
<1> QED
  BY <1>1, <1>5, <1>6, <1>7 DEF f, x, k

(* A read takes the next bytes and nothing else.                           *)
LEMMA ReadSound ==
  ASSUME NEW b, Sound(b), NEW len \in Nat, CanRead(b, len)
  PROVE  /\ Sound(Read(b, len)) /\ Read(b, len).bytes = b.bytes
         /\ Read(b, len).capacity = b.capacity
         /\ Read(b, len).length = b.length - len /\ Read(b, len).readPos = b.readPos + len
         /\ Peeked(b, len) \in Seq(Byte) /\ Len(Peeked(b, len)) = len
         /\ \A i \in 1..len : Peeked(b, len)[i] = b.bytes[b.readPos + i]
<1>1. /\ b \in Buffer /\ b.length \in Nat /\ b.readPos \in Nat /\ b.writePos \in Nat
      /\ b.bytes \in Seq(Byte) /\ Len(b.bytes) = b.capacity /\ b.capacity \in {32, 64}
      /\ b.writePos <= b.capacity /\ b.readPos + b.length <= b.capacity /\ len <= b.length
  BY BufferIs DEF Sound, CanRead
<1> DEFINE r == Read(b, len)
<1>2. /\ r \in Buffer /\ r.bytes = b.bytes /\ r.capacity = b.capacity
      /\ r.length = b.length - len /\ r.readPos = b.readPos + len /\ r.writePos = b.writePos
  <2> DEFINE l == b.length - len  p == b.readPos + len
  <2>1. r = [b EXCEPT !.length = l, !.readPos = p]
    BY DEF Read
  <2>2. b \in Buffer /\ l \in Nat /\ p \in Nat
    BY <1>1
  <2> HIDE DEF r, l, p
  <2>3. /\ r \in Buffer /\ r.bytes = b.bytes /\ r.length = l
        /\ r.writePos = b.writePos /\ r.readPos = p /\ r.capacity = b.capacity
    BY <2>1, <2>2 DEF Buffer
  <2> QED
    BY <2>3 DEF l, p
<1> HIDE DEF r
<1>3. Sound(r)
  BY <1>1, <1>2 DEF Sound, InBounds
<1>4. b.readPos + len <= Len(b.bytes)
  BY <1>1
<1>5. /\ Peeked(b, len) \in Seq(Byte) /\ Len(Peeked(b, len)) = len
      /\ \A i \in 1..len : Peeked(b, len)[i] = b.bytes[b.readPos + i]
  <2> DEFINE bytes == b.bytes  m == b.readPos
  <2>1. bytes \in Seq(Byte) /\ m \in Nat /\ m + len <= Len(bytes)
    BY <1>1, <1>4
  <2>2. Peeked(b, len) = SubSeq(bytes, m + 1, m + len)
    BY DEF Peeked
  <2> HIDE DEF bytes, m
  <2>3. /\ SubSeq(bytes, m + 1, m + len) \in Seq(Byte)
        /\ Len(SubSeq(bytes, m + 1, m + len)) = len
        /\ \A i \in 1..len : SubSeq(bytes, m + 1, m + len)[i] = bytes[m + i]
    BY <2>1, PartIs
  <2> QED
    BY <2>2, <2>3 DEF bytes, m
<1> QED
  BY <1>2, <1>3, <1>5 DEF r

-----------------------------------------------------------------------------
(* What a buffer holds, in bytes.                                          *)

(* Buffer x, known as b, holds h: messages, byte by byte; or what is left  *)
(* of a payload of which n bytes have been read.                           *)
Held(b, h, x, payload, n) ==
  IF h = Raw
    THEN /\ b = "serial" /\ x.readPos = n /\ n + x.length = Len(payload)
         /\ \A i \in 1..Len(payload) : x.bytes[i] = payload[i]
    ELSE /\ Len(h) <= 2 /\ x.readPos = 0 /\ x.writePos = x.length
         /\ x.length <= 13 * Len(h) /\ Contents(x) = Flat(h)

Holds(a) == \A b \in Buf : Held(b, a[b], bufs[b], packet.payload, Len(got))

(* A buffer without a message holds no message.                            *)
LEMMA HeldEmpty ==
  ASSUME NEW b, NEW x, Sound(x), x.length = 0, x.writePos = 0, x.readPos = 0,
         NEW payload, NEW n
  PROVE  Held(b, <<>>, x, payload, n)
<1>1. <<>> # Raw
  <2>1. <<>> \in Seq(Message)
    OBVIOUS
  <2> QED
    BY <2>1, RawIs
<1>2. Contents(x) = <<>>
  BY ContentsIs, EmptySeq
<1>3. Len(<<>>) = 0 /\ 0 <= 13 * 0
  OBVIOUS
<1> QED
  BY <1>1, <1>2, <1>3, FlatNone DEF Held

(* Two messages fit the smallest buffer.                                   *)
LEMMA RoomIs ==
  ASSUME NEW l \in Nat, l < 2, NEW used \in Nat, used <= 13 * l, NEW k \in 0..13,
         NEW capacity \in {32, 64}
  PROVE  used + k <= capacity /\ used + k <= 13 * (l + 1) /\ l + 1 <= 2
<1>1. l = 0 \/ l = 1
  OBVIOUS
<1> QED
  BY <1>1

(* One message more fits, and its bytes come last.                         *)
LEMMA HeldPut ==
  ASSUME NEW b, NEW x, Sound(x), NEW h \in Seq(Message), Len(h) < 2, NEW m \in Message,
         NEW payload, NEW n, Held(b, h, x, payload, n)
  PROVE  /\ CanWrite(x, Put(m)) /\ Sound(Write(x, Put(m)))
         /\ Held(b, Append(h, m), Write(x, Put(m)), payload, n)
<1> DEFINE src == Put(m)  k == Append(h, m)  y == Write(x, src)
<1>1. src \in Seq(Byte) /\ Len(src) \in 0..13 /\ src = Wire(m)
  BY WireIs
<1>2. k \in Seq(Message) /\ Len(k) = Len(h) + 1 /\ Len(h) \in Nat /\ Flat(k) = Flat(h) \o src
  BY <1>1, AppendProperties, LenProperties, FlatAppend
<1> HIDE DEF src, k
<1>3. /\ x.readPos = 0 /\ x.writePos = x.length
      /\ x.length <= 13 * Len(h) /\ Contents(x) = Flat(h)
  BY RawIs DEF Held
<1>4. x.length \in Nat /\ x.capacity \in {32, 64}
  BY BufferIs
<1>5. Len(src) \in 0..13
  BY <1>1
<1>6. /\ x.length + Len(src) <= x.capacity
      /\ x.length + Len(src) <= 13 * (Len(h) + 1) /\ Len(h) + 1 <= 2
  BY <1>2, <1>3, <1>4, <1>5, RoomIs
<1>7. /\ CanWrite(x, src) /\ Sound(y) /\ y.readPos = 0 /\ y.writePos = y.length
      /\ Contents(y) = Contents(x) \o src
  BY <1>1, <1>3, <1>6, WriteSound
<1> HIDE DEF y
<1>8. Contents(x) \in Seq(Byte) /\ Len(Contents(x)) = x.length /\ Len(Contents(y)) = y.length
  BY <1>7, ContentsIs
<1>9. y.length = x.length + Len(src)
  BY <1>1, <1>7, <1>8, ConcatProperties
<1>10. y.length <= 13 * Len(k) /\ Len(k) <= 2
  BY <1>2, <1>6, <1>9, Zenon
<1>11. Contents(y) = Flat(k)
  BY <1>2, <1>3, <1>7
<1>12. k # Raw
  BY <1>2, RawIs
<1>13. Held(b, k, y, payload, n)
  BY <1>7, <1>10, <1>11, <1>12 DEF Held
<1> QED
  BY <1>7, <1>13 DEF src, k, y

(* What is read next is what comes next in the payload.                    *)
LEMMA HeldGet ==
  ASSUME NEW x, Sound(x), NEW payload \in Seq(Byte), NEW g \in Seq(Byte),
         Len(g) <= Len(payload), g = SubSeq(payload, 1, Len(g)),
         Held("serial", Raw, x, payload, Len(g)), NEW len \in Nat, CanRead(x, len)
  PROVE  LET more == g \o Peeked(x, len)
         IN /\ Sound(Read(x, len)) /\ more \in Seq(Byte) /\ Len(more) <= Len(payload)
            /\ more = SubSeq(payload, 1, Len(more))
            /\ Held("serial", Raw, Read(x, len), payload, Len(more))
<1> DEFINE n == Len(g)  p == Peeked(x, len)  y == Read(x, len)  q == Len(payload)
           more == g \o p
<1>1. /\ x.readPos = n /\ n + x.length = q
      /\ \A i \in 1..q : x.bytes[i] = payload[i]
  BY DEF Held
<1>2. /\ Sound(y) /\ y.bytes = x.bytes /\ y.length = x.length - len
      /\ y.readPos = x.readPos + len /\ p \in Seq(Byte) /\ Len(p) = len
      /\ \A i \in 1..len : p[i] = x.bytes[x.readPos + i]
  BY ReadSound
<1>3. n \in Nat /\ q \in Nat /\ n <= q /\ x.length \in Nat /\ len <= x.length
  BY LenProperties, BufferIs DEF CanRead
<1> HIDE DEF n, p, y, q
<1>4. n + len <= q /\ (n + len) + y.length = q /\ n + len \in Nat
  BY <1>1, <1>2, <1>3
<1>5. /\ more \in Seq(Byte) /\ Len(more) = n + len
      /\ \A i \in 1..n + len : more[i] = IF i <= n THEN g[i] ELSE p[i - n]
  BY <1>2, ConcatProperties DEF n
<1>6. \A i \in 1..n : g[i] = payload[i]
  <2>1. /\ Len(SubSeq(payload, 0 + 1, 0 + n)) = n
        /\ \A i \in 1..n : SubSeq(payload, 0 + 1, 0 + n)[i] = payload[0 + i]
    BY <1>3, PartIs DEF q
  <2>2. 0 + 1 = 1 /\ 0 + n = n /\ \A i \in 1..n : 0 + i = i
    BY <1>3
  <2> QED
    BY <2>1, <2>2 DEF n
<1> HIDE DEF more
<1>7. \A i \in 1..n + len : more[i] = payload[i]
  <2> TAKE i \in 1..n + len
  <2>1. CASE i <= n
    <3>1. i \in 1..n
      BY <1>3, <2>1
    <3> QED
      BY <1>5, <1>6, <2>1, <3>1
  <2>2. CASE ~(i <= n)
    <3>1. i - n \in 1..len /\ n + (i - n) = i /\ i \in 1..q
      BY <1>3, <1>4, <2>2
    <3>2. more[i] = p[i - n]
      BY <1>5, <2>2
    <3>3. p[i - n] = x.bytes[n + (i - n)]
      BY <1>1, <1>2, <3>1
    <3> QED
      BY <1>1, <3>1, <3>2, <3>3
  <2> QED
    BY <2>1, <2>2
<1>8. more = SubSeq(payload, 1, n + len)
  <2> DEFINE part == SubSeq(payload, 0 + 1, 0 + (n + len))
  <2>1. /\ part \in Seq(Byte) /\ Len(part) = n + len
        /\ \A i \in 1..n + len : part[i] = payload[0 + i]
    BY <1>4, PartIs DEF q
  <2>2. part = SubSeq(payload, 1, n + len) /\ \A i \in 1..n + len : 0 + i = i
    BY <1>4
  <2> HIDE DEF part
  <2>3. \A i \in 1..Len(more) : more[i] = part[i]
    BY <1>5, <1>7, <2>1, <2>2
  <2>4. more = part
    BY <1>5, <2>1, <2>3, SeqEqual
  <2> QED
    BY <2>2, <2>4
<1>9. Held("serial", Raw, y, payload, n + len)
  BY <1>1, <1>2, <1>4 DEF Held, q
<1> QED
  BY <1>2, <1>4, <1>5, <1>8, <1>9 DEF more, p, y, q

(* The header of a packet says which it is, and the payload takes its      *)
(* place in the same block, if it fits.                                    *)
LEMMA HeldPacket ==
  ASSUME NEW x, Sound(x), NEW type \in PacketType, NEW len \in PayloadLen, NEW k \in Nat
  PROVE  LET header == Filled(Clear(x), <<CodeByte, SizeByte(len), TypeByte(type)>>)
             bySize == Peeked(Read(header, 1), 1)[1]
             byType == Peeked(Read(header, 2), 1)[1]
             dequeued == Filled(Clear(Read(header, 3)), Payload(k, bySize[2]))
         IN /\ byType[2] = type /\ Payload(k, len) \in Seq(Byte)
            /\ InBounds(dequeued) =>
                 Sound(dequeued) /\ Held("serial", Raw, dequeued, Payload(k, len), 0)
<1> DEFINE src == <<CodeByte, SizeByte(len), TypeByte(type)>>
           header == Filled(Clear(x), src)
           bySize == Peeked(Read(header, 1), 1)[1]
           byType == Peeked(Read(header, 2), 1)[1]
           rest == Read(header, 3)
           payload == Payload(k, len)
           dequeued == Filled(Clear(rest), payload)
<1>1. len \in Nat
  BY PayloadAssumption
<1>2. /\ src \in Seq(Byte) /\ Len(src) = 3 /\ src[2] = SizeByte(len) /\ src[3] = TypeByte(type)
  BY <1>1, HeaderIs
<1>3. x.capacity \in {32, 64}
  BY BufferIs
<1>4. payload \in Seq(Byte) /\ Len(payload) = len
  <2>1. "payload" \in Value /\ k \in Who \cup Nat
    BY DEF Value
  <2> QED
    BY <1>1, <2>1, BytesAre DEF Payload
<1> HIDE DEF src, payload
<1>5. /\ Sound(header) /\ header.readPos = 0 /\ header.length = 3
      /\ header.capacity = x.capacity
      /\ \A i \in 1..3 : header.bytes[i] = src[i]
  <2>1. Len(src) <= x.capacity
    BY <1>2, <1>3
  <2>2. /\ Sound(header) /\ header.readPos = 0 /\ header.length = Len(src)
        /\ header.capacity = x.capacity
        /\ \A i \in 1..Len(src) : header.bytes[i] = src[i]
    BY <1>2, <2>1, FilledIs
  <2> HIDE DEF header
  <2> QED
    BY <1>2, <2>2
<1> HIDE DEF header
<1>6. CanRead(header, 1) /\ CanRead(header, 2) /\ CanRead(header, 3)
  BY <1>5 DEF CanRead
<1>7. bySize = SizeByte(len)
  <2> DEFINE r == Read(header, 1)
  <2>1. /\ Sound(r) /\ r.bytes = header.bytes /\ r.length = header.length - 1
        /\ r.readPos = header.readPos + 1
    BY <1>5, <1>6, ReadSound
  <2> HIDE DEF r
  <2>2. CanRead(r, 1) /\ r.readPos + 1 = 2 /\ 1 \in 1..1 /\ 2 \in 1..3
    BY <1>5, <2>1 DEF CanRead
  <2>3. \A i \in 1..1 : Peeked(r, 1)[i] = r.bytes[r.readPos + i]
    BY <2>1, <2>2, ReadSound
  <2> QED
    BY <1>2, <1>5, <2>1, <2>2, <2>3 DEF r
<1>8. byType = TypeByte(type)
  <2> DEFINE r == Read(header, 2)
  <2>1. /\ Sound(r) /\ r.bytes = header.bytes /\ r.length = header.length - 2
        /\ r.readPos = header.readPos + 2
    BY <1>5, <1>6, ReadSound
  <2> HIDE DEF r
  <2>2. CanRead(r, 1) /\ r.readPos + 1 = 3 /\ 1 \in 1..1 /\ 3 \in 1..3
    BY <1>5, <2>1 DEF CanRead
  <2>3. \A i \in 1..1 : Peeked(r, 1)[i] = r.bytes[r.readPos + i]
    BY <2>1, <2>2, ReadSound
  <2> QED
    BY <1>2, <1>5, <2>1, <2>2, <2>3 DEF r
<1>9. Sound(rest) /\ rest.capacity = x.capacity
  BY <1>5, <1>6, ReadSound
<1> HIDE DEF bySize, byType, rest
<1>10. ASSUME InBounds(dequeued)
       PROVE  /\ Sound(dequeued) /\ dequeued.readPos = 0 /\ dequeued.length = Len(payload)
              /\ \A i \in 1..Len(payload) : dequeued.bytes[i] = payload[i]
  <2>1. dequeued.writePos = Len(payload) /\ dequeued.capacity = rest.capacity
    BY <1>4, <1>9, FilledWhere
  <2>2. Len(payload) <= rest.capacity
    BY <1>10, <2>1 DEF InBounds
  <2> QED
    BY <1>4, <1>9, <2>2, FilledIs
<1> HIDE DEF dequeued
<1>11. ASSUME InBounds(dequeued) PROVE Held("serial", Raw, dequeued, payload, 0)
  <2>1. 0 + Len(payload) = Len(payload)
    BY <1>1, <1>4
  <2> QED
    BY <1>10, <1>11, <2>1 DEF Held
<1>12. bySize[2] = len /\ byType[2] = type
  BY <1>7, <1>8 DEF SizeByte, TypeByte
<1>13. dequeued = Filled(Clear(rest), Payload(k, bySize[2]))
  BY <1>12 DEF dequeued, payload
<1> QED
  BY <1>4, <1>10, <1>11, <1>12, <1>13 DEF payload, rest, bySize, byType, header, src

-----------------------------------------------------------------------------
(* The invariant.                                                          *)

Intact ==
  /\ fault # "serial_buffer_full" /\ calls \in Nat
  /\ bufs \in [Buf -> Buffer] /\ \A b \in Buf : Sound(bufs[b])
  /\ packet.payload \in Seq(Byte) /\ got \in Seq(Byte) /\ Len(got) <= Len(packet.payload)
  /\ FieldsRead
  /\ sent.bytes = Flat(sent.msgs)

(* The buffers hold what the handler believes, and so the calls that       *)
(* remain will find what it means to send.                                 *)
Ahead == \E a \in Holding : Holds(a) /\ Leads({a}, todo, Holding)

IInv == Intact /\ (fault = "none" => Ahead)

(* What still holds once a payload has been copied past its block.         *)
Overrun == fault = "block_overrun" /\ FieldsRead /\ sent.bytes = Flat(sent.msgs)

Inv == IInv \/ Overrun

(* The parameters of a call.                                               *)
LEMMA OperationIs ==
  ASSUME NEW c \in Operation
  PROVE  /\ c.buf \in Buf
         /\ c.op = "new" => c.size \in {32, 64}
         /\ c.op = "put" => c.msg \in Message
         /\ c.op = "get" => c.len \in Nat /\ c.buf = "serial"
BY DEF Operation, Buf

(* A call changes one buffer; only serial can hold a payload.              *)
LEMMA HoldsAfter ==
  ASSUME NEW a \in Holding, NEW d \in Holding, NEW b \in Buf, NEW x,
         bufs \in [Buf -> Buffer], Holds(a), bufs' = [bufs EXCEPT ![b] = x],
         \A c \in Buf : c # b => d[c] = a[c],
         b = "serial" \/ UNCHANGED <<packet, got>>,
         Held(b, d[b], x, packet.payload', Len(got'))
  PROVE  Holds(d)'
<1> SUFFICES ASSUME NEW c \in Buf
             PROVE  Held(c, d[c], bufs'[c], packet.payload', Len(got'))
  BY DEF Holds
<1>1. CASE c = b
  BY <1>1
<1>2. CASE c # b
  <2>1. bufs'[c] = bufs[c] /\ d[c] = a[c]
    BY <1>2
  <2>2. Held(c, a[c], bufs[c], packet.payload, Len(got))
    BY DEF Holds
  <2>3. CASE b = "serial"
    <3>1. a[c] # Raw
      BY <1>2, <2>2, <2>3 DEF Held
    <3> QED
      BY <2>1, <2>2, <3>1 DEF Held
  <2>4. CASE UNCHANGED <<packet, got>>
    BY <2>1, <2>2, <2>4
  <2> QED
    BY <2>3, <2>4
<1> QED
  BY <1>1, <1>2

(* The invariant holds at first.                                           *)
LEMMA InitIInv ==
  ASSUME Init
  PROVE  IInv
<1>1. \A b \in Buf : bufs[b] = SerialBuffer(32)
  BY DEF Init, Buf
<1>2. /\ Sound(SerialBuffer(32)) /\ SerialBuffer(32).length = 0
      /\ SerialBuffer(32).writePos = 0 /\ SerialBuffer(32).readPos = 0
  <2>1. 32 \in {32, 64}
    OBVIOUS
  <2> QED
    BY <2>1, NewSound
<1>3. bufs \in [Buf -> Buffer] /\ \A b \in Buf : Sound(bufs[b])
  <2>1. SerialBuffer(32) \in Buffer
    BY <1>2 DEF Sound
  <2> HIDE DEF Buffer
  <2> QED
    BY <1>1, <1>2, <2>1 DEF Init, Buf
<1>4. /\ packet.payload = <<>> /\ got = <<>> /\ sent.bytes = <<>> /\ sent.msgs = <<>>
      /\ todo = <<>> /\ fault = "none" /\ calls = 0
  BY DEF Init, Nothing
<1>5. got = SubSeq(packet.payload, 1, Len(got)) /\ <<>> \in Seq(Byte)
  <2>1. SubSeq(<<>>, 1, 0) = <<>> /\ Len(<<>>) = 0 /\ <<>> \in Seq(Byte)
    BY SubSeqEmpty
  <2> QED
    BY <1>4, <2>1
<1>6. Intact
  <2>1. Flat(sent.msgs) = <<>> /\ Len(got) <= Len(packet.payload)
    BY <1>4, FlatNone
  <2> QED
    BY <1>3, <1>4, <1>5, <2>1 DEF Intact, FieldsRead
<1> DEFINE a == [b \in Buf |-> <<>>]
<1>7. a \in Holding
  BY DEF Holding
<1>8. Holds(a)
  <2>1. \A b \in Buf : Held(b, <<>>, bufs[b], packet.payload, Len(got))
    BY <1>1, <1>2, HeldEmpty
  <2> QED
    BY <2>1 DEF Holds
<1> HIDE DEF a
<1>9. Leads({a}, todo, Holding)
  <2>1. {a} \in SUBSET Holding
    BY <1>7
  <2>2. Leads({a}, <<>>, {a})
    BY <2>1, LeadsNone
  <2> QED
    BY <1>4, <2>1, <2>2, LeadsWeaker
<1> QED
  BY <1>6, <1>7, <1>8, <1>9 DEF IInv, Ahead

(* The next call of a handler finds what it should.                        *)
LEMMA NextCall ==
  ASSUME IInv, todo # <<>>, fault = "none"
  PROVE  /\ Head(todo) \in Operation
         /\ \E a, d \in Holding : /\ Holds(a) /\ Does(a, Head(todo), d)
                                  /\ Leads({d}, Tail(todo), Holding)
<1>1. PICK a \in Holding : Holds(a) /\ Leads({a}, todo, Holding)
  BY DEF IInv, Ahead
<1>2. /\ Head(todo) \in Operation
      /\ \E d \in Holding : Does(a, Head(todo), d) /\ Leads({d}, Tail(todo), Holding)
  BY <1>1, Proceed
<1> QED
  BY <1>1, <1>2

(* A buffer that becomes another sound one leaves the rest as it was.      *)
LEMMA IntactAfter ==
  ASSUME Intact, NEW b \in Buf, NEW x, Sound(x), bufs' = [bufs EXCEPT ![b] = x],
         fault' # "serial_buffer_full", UNCHANGED <<packet, got, sent, calls>>
  PROVE  Intact'
<1>1. x \in Buffer
  BY DEF Sound
<1>2. bufs' \in [Buf -> Buffer] /\ \A c \in Buf : Sound(bufs'[c])
  BY <1>1 DEF Intact
<1> QED
  BY <1>2 DEF Intact, FieldsRead

(* A buffer that holds no message any more.                                *)
LEMMA EmptyKeeps ==
  ASSUME IInv, NEW op \in {"new", "clear"}, Executing(op), Done, UNCHANGED <<got, sent, fault>>,
         NEW x, Sound(x), x.length = 0, x.writePos = 0, x.readPos = 0, Becomes(x)
  PROVE  IInv'
<1> DEFINE c == Head(todo)
<1>1. PICK a \in Holding, d \in Holding :
        Holds(a) /\ Does(a, c, d) /\ Leads({d}, Tail(todo), Holding)
  BY NextCall DEF Executing
<1>2. c \in Operation /\ c.op = op /\ c.buf \in Buf
  BY NextCall, OperationIs DEF Executing
<1>3. bufs' = [bufs EXCEPT ![c.buf] = x] /\ bufs \in [Buf -> Buffer]
  BY DEF Becomes, IInv, Intact
<1>4. UNCHANGED <<packet, got, sent, calls, fault>> /\ todo' = Tail(todo)
  BY DEF Done
<1> HIDE DEF c
<1>5. Intact'
  BY <1>2, <1>3, <1>4, IntactAfter DEF IInv, Intact
<1>6. d = [a EXCEPT ![c.buf] = <<>>]
  BY <1>1, <1>2 DEF Does
<1>7. d[c.buf] = <<>> /\ \A e \in Buf : e # c.buf => d[e] = a[e]
  BY <1>2, <1>6 DEF Holding
<1>8. Held(c.buf, d[c.buf], x, packet.payload', Len(got'))
  BY <1>7, HeldEmpty
<1>9. Holds(d)'
  BY <1>1, <1>2, <1>3, <1>4, <1>7, <1>8, HoldsAfter
<1>10. Ahead'
  BY <1>1, <1>4, <1>9 DEF Ahead
<1> QED
  BY <1>5, <1>10 DEF IInv

(* New: a buffer from the pool.                                            *)
LEMMA NewKeeps ==
  ASSUME IInv, ExecNew
  PROVE  IInv'
<1>1. Executing("new") /\ Done /\ UNCHANGED <<got, sent, fault>>
  BY DEF ExecNew
<1>2. Head(todo).size \in {32, 64}
  BY <1>1, NextCall, OperationIs DEF Executing
<1> DEFINE x == SerialBuffer(Head(todo).size)
<1>3. Sound(x) /\ x.length = 0 /\ x.writePos = 0 /\ x.readPos = 0
  BY <1>2, NewSound
<1>4. Becomes(x)
  BY DEF ExecNew
<1> HIDE DEF x
<1> QED
  BY <1>1, <1>3, <1>4, EmptyKeeps

(* Clear: the same buffer once more.                                       *)
LEMMA ClearKeeps ==
  ASSUME IInv, ExecClear
  PROVE  IInv'
<1>1. Executing("clear") /\ Done /\ UNCHANGED <<got, sent, fault>>
  BY DEF ExecClear
<1>2. Sound(bufs[Head(todo).buf])
  BY <1>1, NextCall, OperationIs DEF Executing, IInv, Intact
<1> DEFINE x == Clear(bufs[Head(todo).buf])
<1>3. Sound(x) /\ x.length = 0 /\ x.writePos = 0 /\ x.readPos = 0
  BY <1>2, ClearSound
<1>4. Becomes(x)
  BY DEF ExecClear
<1> HIDE DEF x
<1> QED
  BY <1>1, <1>3, <1>4, EmptyKeeps

(* Put: the message fits.                                                  *)
LEMMA PutKeeps ==
  ASSUME IInv, ExecPut
  PROVE  IInv'
<1> DEFINE c == Head(todo)  x == bufs[c.buf]  m == c.msg  y == Write(x, Put(m))
<1>0. Executing("put") /\ Done /\ UNCHANGED sent
  BY DEF ExecPut
<1>1. PICK a \in Holding, d \in Holding :
        Holds(a) /\ Does(a, c, d) /\ Leads({d}, Tail(todo), Holding)
  BY <1>0, NextCall DEF Executing
<1>2. c.op = "put" /\ c.buf \in Buf /\ m \in Message
  BY <1>0, NextCall, OperationIs DEF Executing
<1>3. Sound(x) /\ bufs \in [Buf -> Buffer]
  BY <1>2 DEF IInv, Intact
<1>4. CanWrite(x, Put(m)) =>
        bufs' = [bufs EXCEPT ![c.buf] = y] /\ UNCHANGED <<got, fault>>
  BY DEF ExecPut, Becomes
<1>5. UNCHANGED <<packet, sent, calls>> /\ todo' = Tail(todo)
  BY <1>0 DEF Done
<1>6. Held(c.buf, a[c.buf], x, packet.payload, Len(got))
  BY <1>1, <1>2 DEF Holds
<1> HIDE DEF c, m
<1>7. /\ a[c.buf] \in Seq(Message) /\ Len(a[c.buf]) < 2
      /\ d = [a EXCEPT ![c.buf] = Append(a[c.buf], m)]
  BY <1>1, <1>2 DEF Does, m
<1> HIDE DEF x
<1>8. /\ CanWrite(x, Put(m)) /\ Sound(y)
      /\ Held(c.buf, Append(a[c.buf], m), y, packet.payload, Len(got))
  BY <1>2, <1>3, <1>6, <1>7, HeldPut
<1> HIDE DEF y
<1>9. Intact'
  <2>1. fault' # "serial_buffer_full"
    BY <1>4, <1>8 DEF IInv, Intact
  <2> QED
    BY <1>2, <1>4, <1>5, <1>8, <2>1, IntactAfter DEF IInv
<1>10. d[c.buf] = Append(a[c.buf], m) /\ \A e \in Buf : e # c.buf => d[e] = a[e]
  BY <1>2, <1>7 DEF Holding
<1>11. Held(c.buf, d[c.buf], y, packet.payload', Len(got'))
  BY <1>4, <1>5, <1>8, <1>10
<1>12. Holds(d)'
  BY <1>1, <1>2, <1>3, <1>4, <1>5, <1>8, <1>10, <1>11, HoldsAfter
<1>13. Ahead'
  BY <1>1, <1>5, <1>12 DEF Ahead
<1> QED
  BY <1>9, <1>13 DEF IInv

(* Send: the buffer holds the messages meant, so its bytes are theirs.     *)
LEMMA SendKeeps ==
  ASSUME IInv, ExecSend
  PROVE  IInv'
<1> DEFINE c == Head(todo)
<1>0. Executing("send") /\ Done /\ UNCHANGED <<bufs, got, fault>>
  BY DEF ExecSend
<1>1. PICK a \in Holding, d \in Holding :
        Holds(a) /\ Does(a, c, d) /\ Leads({d}, Tail(todo), Holding)
  BY <1>0, NextCall DEF Executing
<1>2. c \in Operation /\ c.op = "send" /\ c.buf \in Buf
  BY <1>0, NextCall, OperationIs DEF Executing
<1>3. sent' = [bytes |-> Contents(bufs[c.buf]), msgs |-> c.msgs]
  BY DEF ExecSend
<1>4. UNCHANGED <<packet, calls>> /\ todo' = Tail(todo)
  BY <1>0 DEF Done
<1>5. Held(c.buf, a[c.buf], bufs[c.buf], packet.payload, Len(got))
  BY <1>1, <1>2 DEF Holds
<1> HIDE DEF c
<1>6. a[c.buf] = c.msgs /\ d = a
  BY <1>1, <1>2 DEF Does
<1>7. c.msgs # Raw
  <2>1. c.msgs \in Seq(Message)
    BY <1>2 DEF Operation
  <2> QED
    BY <2>1, RawIs
<1>8. Contents(bufs[c.buf]) = Flat(c.msgs)
  BY <1>5, <1>6, <1>7 DEF Held
<1>9. (sent.bytes)' = Flat(sent.msgs)'
  BY <1>3, <1>8
<1>10. Intact'
  BY <1>0, <1>4, <1>9 DEF IInv, Intact, FieldsRead
<1>11. Holds(a)'
  BY <1>0, <1>1, <1>4 DEF Holds
<1>12. Ahead'
  BY <1>1, <1>4, <1>6, <1>11 DEF Ahead
<1> QED
  BY <1>10, <1>12 DEF IInv

(* Get: the next bytes of the payload, or the end of the process.          *)
LEMMA GetKeeps ==
  ASSUME IInv, ExecGet
  PROVE  IInv'
<1> DEFINE c == Head(todo)  x == bufs[c.buf]  len == c.len  y == Read(x, len)
           more == got \o Peeked(x, len)
<1>0. Executing("get") /\ Done /\ UNCHANGED sent
  BY DEF ExecGet
<1>1. PICK a \in Holding, d \in Holding :
        Holds(a) /\ Does(a, c, d) /\ Leads({d}, Tail(todo), Holding)
  BY <1>0, NextCall DEF Executing
<1>2. c.op = "get" /\ c.buf = "serial" /\ c.buf \in Buf /\ len \in Nat
  BY <1>0, NextCall, OperationIs DEF Executing
<1>3. Sound(x) /\ bufs \in [Buf -> Buffer]
  BY <1>2 DEF IInv, Intact
<1>4. UNCHANGED <<packet, sent, calls>> /\ todo' = Tail(todo)
  BY <1>0 DEF Done
<1>5. IF CanRead(x, len)
        THEN bufs' = [bufs EXCEPT ![c.buf] = y] /\ got' = more /\ UNCHANGED fault
        ELSE fault' = "no_data_in_buf" /\ UNCHANGED <<bufs, got>>
  BY DEF ExecGet, Becomes, Throw
<1>6. Held(c.buf, a[c.buf], x, packet.payload, Len(got))
  BY <1>1, <1>2 DEF Holds
<1> HIDE DEF c, len
<1>7. a[c.buf] = Raw /\ d = a
  BY <1>1, <1>2 DEF Does
<1>8. CASE CanRead(x, len)
  <2>1. bufs' = [bufs EXCEPT ![c.buf] = y] /\ got' = more /\ UNCHANGED fault
    BY <1>5, <1>8
  <2>2. /\ packet.payload \in Seq(Byte) /\ got \in Seq(Byte)
        /\ Len(got) <= Len(packet.payload) /\ got = SubSeq(packet.payload, 1, Len(got))
    BY DEF IInv, Intact, FieldsRead
  <2>3. Held("serial", Raw, x, packet.payload, Len(got))
    BY <1>2, <1>6, <1>7
  <2> HIDE DEF x
  <2>4. /\ Sound(y) /\ more \in Seq(Byte) /\ Len(more) <= Len(packet.payload)
        /\ more = SubSeq(packet.payload, 1, Len(more))
        /\ Held("serial", Raw, y, packet.payload, Len(more))
    BY <1>2, <1>3, <1>8, <2>2, <2>3, HeldGet
  <2> HIDE DEF y, more
  <2>5. bufs' \in [Buf -> Buffer] /\ \A b \in Buf : Sound(bufs'[b])
    <3>1. y \in Buffer
      BY <2>4 DEF Sound
    <3> QED
      BY <1>2, <2>1, <2>4, <3>1 DEF IInv, Intact
  <2>6. Intact'
    BY <1>4, <2>1, <2>4, <2>5 DEF IInv, Intact, FieldsRead
  <2>7. Held(c.buf, a[c.buf], y, packet.payload', Len(got'))
    BY <1>2, <1>4, <1>7, <2>1, <2>4
  <2>8. Holds(a)'
    BY <1>1, <1>2, <1>3, <2>1, <2>7, HoldsAfter
  <2> QED
    BY <1>1, <1>4, <1>7, <2>6, <2>8 DEF IInv, Ahead
<1>9. CASE ~CanRead(x, len)
  <2>1. fault' = "no_data_in_buf" /\ UNCHANGED <<bufs, got>>
    BY <1>5, <1>9
  <2>2. fault' # "serial_buffer_full" /\ fault' # "none"
    BY <2>1
  <2>3. Intact'
    BY <1>4, <2>1, <2>2 DEF IInv, Intact, FieldsRead
  <2> QED
    BY <2>2, <2>3 DEF IInv
<1> QED
  BY <1>8, <1>9

(* Between two handlers the buffers hold something, and it does not matter *)
(* what.                                                                   *)
LEMMA AtRest ==
  ASSUME IInv, Idle
  PROVE  \E a \in Holding : Holds(a)
BY DEF IInv, Idle, Ahead

(* A handler called from elsewhere begins.                                 *)
LEMMA CalledKeeps ==
  ASSUME IInv, NEW s, Leads(Holding, s, Holding), Called(s)
  PROVE  IInv'
<1>1. PICK a \in Holding : Holds(a)
  BY AtRest DEF Called
<1>2. UNCHANGED <<bufs, packet, got, fault>> /\ todo' = s /\ calls' = calls + 1 /\ sent' = Nothing
  BY DEF Called
<1>3. calls' \in Nat
  BY <1>2 DEF IInv, Intact
<1>4. (sent.bytes)' = Flat(sent.msgs)'
  BY <1>2, FlatNone DEF Nothing
<1>5. Intact'
  BY <1>2, <1>3, <1>4 DEF IInv, Intact, FieldsRead
<1>6. Leads({a}, todo', Holding)
  BY <1>2, LeadsFrom
<1>7. Holds(a)'
  BY <1>1, <1>2 DEF Holds
<1> QED
  BY <1>5, <1>6, <1>7 DEF IInv, Ahead

(* RecvPacket takes a buffer.                                              *)
LEMMA RecvBeginKeeps ==
  ASSUME IInv, RecvBegin
  PROVE  IInv'
<1> DEFINE x == SerialBuffer(32)  b == "serial"
<1>1. PICK a \in Holding : Holds(a)
  BY AtRest DEF RecvBegin
<1>2. /\ bufs' = [bufs EXCEPT ![b] = x] /\ UNCHANGED <<todo, packet, got, sent, calls, fault>>
      /\ todo = <<>>
  BY DEF RecvBegin, Idle
<1>3. Sound(x) /\ x.length = 0 /\ x.writePos = 0 /\ x.readPos = 0
  <2>1. 32 \in {32, 64}
    OBVIOUS
  <2> QED
    BY <2>1, NewSound
<1>4. b \in Buf /\ bufs \in [Buf -> Buffer]
  BY DEF Buf, IInv, Intact
<1> HIDE DEF x, b
<1>5. Intact'
  BY <1>2, <1>3, <1>4, IntactAfter DEF IInv, Intact
<1> DEFINE d == [a EXCEPT ![b] = <<>>]
<1>6. d \in Holding /\ d[b] = <<>> /\ \A e \in Buf : e # b => d[e] = a[e]
  BY <1>4 DEF Holding
<1> HIDE DEF d
<1>7. Held(b, d[b], x, packet.payload', Len(got'))
  BY <1>3, <1>6, HeldEmpty
<1>8. Holds(d)'
  BY <1>1, <1>2, <1>4, <1>6, <1>7, HoldsAfter
<1>9. Leads({d}, todo', Holding)
  <2>1. {d} \in SUBSET Holding
    BY <1>6
  <2>2. Leads({d}, <<>>, {d})
    BY <2>1, LeadsNone
  <2> QED
    BY <1>2, <2>1, <2>2, LeadsWeaker
<1> QED
  BY <1>5, <1>6, <1>8, <1>9 DEF IInv, Ahead

(* A packet: the buffer it came in holds its payload, unread, if it fits.  *)
LEMMA RecvPacketKeeps ==
  ASSUME IInv, NEW e \in Encounter, NEW type \in PacketType, NEW len \in PayloadLen,
         RecvPacket(e, type, len)
  PROVE  Inv'
<1> DEFINE x == bufs["serial"]
           header == Filled(Clear(x), <<CodeByte, SizeByte(len), TypeByte(type)>>)
           bySize == Peeked(Read(header, 1), 1)[1]
           byType == Peeked(Read(header, 2), 1)[1]
           dequeued == Filled(Clear(Read(header, 3)), Payload(calls, bySize[2]))
           payload == Payload(calls, len)
           b == "serial"
<1>1. PICK a \in Holding : Holds(a)
  BY AtRest DEF RecvPacket
<1>2. /\ bufs' = [bufs EXCEPT ![b] = dequeued]
      /\ todo' = IF fault' = "none" /\ loop = "open" THEN PacketProc(e, byType[2]) ELSE <<>>
      /\ fault' = IF ~InBounds(dequeued) THEN "block_overrun"
                  ELSE IF loop = "closed" /\ type # "unknown" THEN "null_player"
                  ELSE "none"
  BY DEF RecvPacket
<1>3. /\ packet'.payload = payload /\ got' = <<>> /\ sent' = Nothing
      /\ calls' = calls + 1
  BY DEF RecvPacket
<1>4. b \in Buf /\ bufs \in [Buf -> Buffer] /\ Sound(x) /\ calls \in Nat
  BY DEF Buf, IInv, Intact
<1> HIDE DEF x
<1>5. /\ byType[2] = type /\ payload \in Seq(Byte)
      /\ InBounds(dequeued) => Sound(dequeued) /\ Held("serial", Raw, dequeued, payload, 0)
  BY <1>4, HeldPacket
<1> HIDE DEF header, bySize, byType, dequeued, payload
<1>7. /\ Len(got') = 0 /\ Len(got') <= Len(payload) /\ got' \in Seq(Byte)
      /\ got' = SubSeq(payload, 1, Len(got'))
  <2>1. SubSeq(payload, 1, 0) = <<>> /\ Len(<<>>) = 0 /\ <<>> \in Seq(Byte)
    BY SubSeqEmpty
  <2>2. Len(payload) \in Nat
    BY <1>5, LenProperties
  <2> QED
    BY <1>3, <2>1, <2>2
<1>8. (sent.bytes)' = Flat(sent.msgs)'
  BY <1>3, FlatNone DEF Nothing
<1>9. CASE ~InBounds(dequeued)
  <2>1. fault' = "block_overrun"
    BY <1>2, <1>9
  <2> QED
    BY <1>3, <1>7, <1>8, <2>1 DEF Inv, Overrun, FieldsRead
<1>10. CASE InBounds(dequeued)
  <2>1. Sound(dequeued) /\ Held("serial", Raw, dequeued, payload, 0)
    BY <1>5, <1>10
  <2>2. bufs' \in [Buf -> Buffer] /\ \A c \in Buf : Sound(bufs'[c])
    <3>1. dequeued \in Buffer
      BY <2>1 DEF Sound
    <3> QED
      BY <1>2, <1>4, <2>1, <3>1 DEF IInv, Intact
  <2>3. fault' \in {"null_player", "none"} /\ calls' \in Nat
    BY <1>2, <1>3, <1>4, <1>10
  <2>4. Intact'
    BY <1>3, <1>5, <1>7, <1>8, <2>2, <2>3 DEF Intact, FieldsRead
  <2> DEFINE d == [a EXCEPT ![b] = Raw]
  <2>5. d \in Holding /\ d[b] = Raw /\ \A c \in Buf : c # b => d[c] = a[c]
    BY <1>4 DEF Holding
  <2> HIDE DEF d
  <2>6. Held(b, d[b], dequeued, packet.payload', Len(got'))
    BY <1>3, <1>7, <2>1, <2>5
  <2>7. Holds(d)'
    BY <1>1, <1>2, <1>4, <2>5, <2>6, HoldsAfter
  <2>8. ASSUME fault' = "none" PROVE Leads({d}, todo', Holding)
    <3>1. CASE loop = "open"
      <4>1. todo' = PacketProc(e, type)
        BY <1>2, <1>5, <2>8, <3>1
      <4>2. Leads(Has("serial", Raw), PacketProc(e, type), Holding)
        BY LeadsPacketProc
      <4>3. {d} \subseteq Has("serial", Raw)
        BY <2>5 DEF Has
      <4> QED
        BY <4>1, <4>2, <4>3, LeadsWeaker
    <3>2. CASE loop # "open"
      <4>1. todo' = <<>> /\ {d} \in SUBSET Holding
        BY <1>2, <2>5, <3>2
      <4>2. Leads({d}, <<>>, {d})
        BY <4>1, LeadsNone
      <4> QED
        BY <4>1, <4>2, LeadsWeaker
    <3> QED
      BY <3>1, <3>2
  <2> QED
    BY <2>4, <2>5, <2>7, <2>8 DEF Inv, IInv, Ahead
<1> QED
  BY <1>9, <1>10

(* Every step keeps the invariant.                                         *)
LEMMA NextIInv ==
  ASSUME IInv, [Next]_vars
  PROVE  Inv'
<1>. SUFFICES ASSUME ~Overrun' PROVE IInv'
  BY DEF Inv
<1>1. CASE RecvBegin
  BY <1>1, RecvBeginKeeps
<1>2. CASE RecvEnd
  <2>1. UNCHANGED <<bufs, todo, packet, got, sent, calls, fault>>
    BY <1>2 DEF RecvEnd
  <2> QED
    BY <2>1 DEF IInv, Intact, FieldsRead, Ahead, Holds
<1>3. ASSUME NEW e \in Encounter, NEW type \in PacketType, NEW len \in PayloadLen,
             RecvPacket(e, type, len)
      PROVE  IInv'
  BY <1>3, RecvPacketKeeps DEF Inv
<1>4. ASSUME NEW e \in Encounter, Called(OnCharacterConnect(e)) PROVE IInv'
  BY <1>4, LeadsConnect, CalledKeeps
<1>5. ASSUME NEW e \in Encounter, Called(SectorUpdate(e, TRUE)) PROVE IInv'
  <2>1. TRUE \in BOOLEAN
    OBVIOUS
  <2> QED
    BY <1>5, <2>1, LeadsSectorUpdate, CalledKeeps
<1>6. CASE Called(OnCharacterDisconnect)
  BY <1>6, LeadsDisconnect, CalledKeeps
<1>7. CASE ExecNew
  BY <1>7, NewKeeps
<1>8. CASE ExecClear
  BY <1>8, ClearKeeps
<1>9. CASE ExecPut
  BY <1>9, PutKeeps
<1>10. CASE ExecGet
  BY <1>10, GetKeeps
<1>11. CASE ExecSend
  BY <1>11, SendKeeps
<1>12. CASE UNCHANGED vars
  <2>1. UNCHANGED <<bufs, todo, packet, got, sent, calls, fault>>
    BY <1>12 DEF vars
  <2> QED
    BY <2>1 DEF IInv, Intact, FieldsRead, Ahead, Holds
<1> QED
  BY <1>1, <1>2, <1>3, <1>4, <1>5, <1>6, <1>7, <1>8, <1>9, <1>10, <1>11, <1>12 DEF Next

(* After an overrun nothing is executed.                                   *)
LEMMA NextOverrun ==
  ASSUME Overrun, [Next]_vars
  PROVE  Overrun'
<1>1. ~Next
  BY DEF Overrun, Next, Idle, Executing, RecvBegin, RecvEnd, RecvPacket, Called, ExecNew,
         ExecClear, ExecPut, ExecGet, ExecSend
<1>2. UNCHANGED <<packet, got, sent, fault>>
  BY <1>1 DEF vars
<1> QED
  BY <1>2 DEF Overrun, FieldsRead

-----------------------------------------------------------------------------
(* The buffers always hold what the handler under way takes them to hold,  *)
(* and the calls that remain find it so.                                   *)
THEOREM InvariantHolds == Spec => []Inv
<1>1. Init => Inv
  BY InitIInv DEF Inv
<1>2. Inv /\ [Next]_vars => Inv'
  BY NextIInv, NextOverrun DEF Inv
<1> QED
  BY <1>1, <1>2, PTL DEF Spec

(* SendUniCast is always given exactly the bytes of the messages meant,    *)
(* laid out as Protocol.h says: no reply, broadcast or create message      *)
(* follows what an earlier packet or message left in its buffer.           *)
THEOREM FramedWell == Spec => []WellFramed
<1>1. Inv => WellFramed
  BY DEF Inv, Overrun, IInv, Intact, WellFramed, Flat
<1> QED
  BY <1>1, InvariantHolds, PTL

(* The values a handler reads are the first bytes of the payload of the    *)
(* packet it was called for, although its replies go into the same buffer. *)
THEOREM FieldsAreRead == Spec => []FieldsRead
<1>1. Inv => FieldsRead
  BY DEF Inv, Overrun, IInv, Intact
<1> QED
  BY <1>1, InvariantHolds, PTL

(* No message throws for want of room in its buffer or takes a position    *)
(* past the end of the block, for payloads of every length: one that does  *)
(* not fit ends the process before a handler writes.                       *)
THEOREM RoomIsEnough == Spec => []RoomForAll
<1>1. Overrun => RoomForAll
  BY DEF Overrun, RoomForAll
<1>2. IInv => RoomForAll
  <2> SUFFICES ASSUME IInv PROVE RoomForAll
    OBVIOUS
  <2>1. DOMAIN bufs = Buf /\ \A b \in Buf : InBounds(bufs[b])
    BY DEF IInv, Intact, Sound
  <2> QED
    BY <2>1 DEF RoomForAll, IInv, Intact
<1>3. Inv => RoomForAll
  BY <1>1, <1>2 DEF Inv
<1> QED
  BY <1>3, InvariantHolds, PTL

====
