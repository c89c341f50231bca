---------------------------- MODULE DisconnectCallsProofs ----------------------------
(***************************************************************************)
(* Theorems about the calls inside one handler, for every set of sessions, *)
(* every placement in any number of sectors and every message length.      *)
(***************************************************************************)
EXTENDS DisconnectCalls, FiniteSetTheorems, SequenceTheorems, WellFoundedInduction, TLAPS

-----------------------------------------------------------------------------
(* SumOf, taken apart: its partial sums over the subsets of S.             *)

Partial(g, f, S) ==
  \A U \in SUBSET S :
    g[U] = IF U = {} THEN 0 ELSE LET x == CHOOSE x \in U : TRUE IN f[x] + g[U \ {x}]

Sums(f, S) ==
  CHOOSE g : g = [U \in SUBSET S |->
                    IF U = {} THEN 0 ELSE LET x == CHOOSE x \in U : TRUE IN f[x] + g[U \ {x}]]

(* SumOf is the last of the partial sums.                                  *)
LEMMA SumUnfold ==
  ASSUME NEW f, NEW S
  PROVE  SumOf(f, S) = Sums(f, S)[S]
BY DEF SumOf, Sums, FoldFunctionOnSet, MapThenFoldSet

(* A set of subsets of a finite set has a least one.                       *)
LEMMA LeastSubset ==
  ASSUME NEW S, IsFiniteSet(S), NEW T, T \subseteq SUBSET S, T # {}
  PROVE  \E U \in T : \A V \in T : V \subseteq U => V = U
<1>1. IsWellFoundedOn(StrictSubsetOrdering(S), SUBSET S)
  BY FS_StrictSubsetOrderingWellFounded, FS_FiniteSubsetsOfFinite
<1>2. PICK U \in T : \A V \in T : ~(<<V, U>> \in StrictSubsetOrdering(S))
  BY <1>1, WFMin
<1>3. ASSUME NEW V \in T, V \subseteq U, V # U PROVE <<V, U>> \in StrictSubsetOrdering(S)
  <2>1. V \in SUBSET S /\ U \in SUBSET S
    OBVIOUS
  <2> QED
    BY <1>3, <2>1 DEF StrictSubsetOrdering
<1>4. \A V \in T : V \subseteq U => V = U
  <2> TAKE V \in T
  <2> HAVE V \subseteq U
  <2> QED
    BY <1>2, <1>3
<1> QED
  BY <1>4

(* The partial sums over two sets agree on what both contain.              *)
LEMMA PartialUnique ==
  ASSUME NEW f, NEW S, IsFiniteSet(S), NEW R, NEW g, NEW h, Partial(g, f, S), Partial(h, f, R)
  PROVE  \A U \in SUBSET S : U \subseteq R => g[U] = h[U]
<1> DEFINE T == {U \in SUBSET S : U \subseteq R /\ g[U] # h[U]}
<1> SUFFICES ASSUME T # {} PROVE FALSE
  OBVIOUS
<1>1. PICK U \in T : \A V \in T : V \subseteq U => V = U
  <2>1. T \subseteq SUBSET S
    OBVIOUS
  <2> HIDE DEF T
  <2> QED
    BY <2>1, LeastSubset
<1> DEFINE x == CHOOSE x \in U : TRUE
<1>2. /\ g[U] = IF U = {} THEN 0 ELSE f[x] + g[U \ {x}]
      /\ h[U] = IF U = {} THEN 0 ELSE f[x] + h[U \ {x}]
  BY DEF Partial
<1>3. U # {} => x \in U
  OBVIOUS
<1> HIDE DEF x
<1>4. U # {} => U \ {x} \notin T
  BY <1>1, <1>3
<1>5. U # {} => g[U \ {x}] = h[U \ {x}]
  BY <1>4
<1> QED
  BY <1>2, <1>5

(* Partial sums over a set are partial sums over its subsets.              *)
LEMMA PartialBelow ==
  ASSUME NEW f, NEW S, NEW g, Partial(g, f, S), NEW R \in SUBSET S
  PROVE  Partial(g, f, R)
<1>1. \A U \in SUBSET R : U \in SUBSET S
  OBVIOUS
<1> QED
  BY <1>1 DEF Partial

(* There are partial sums, and they are natural numbers.                   *)
LEMMA PartialExist ==
  ASSUME NEW D, NEW f \in [D -> Nat], NEW S \in SUBSET D, IsFiniteSet(S)
  PROVE  \E g \in [SUBSET S -> Nat] : Partial(g, f, S)
<1> DEFINE Has(R) == \E g \in [SUBSET R -> Nat] : Partial(g, f, R)
           T == {R \in SUBSET S : ~Has(R)}
<1> SUFFICES ASSUME T # {} PROVE FALSE
  OBVIOUS
<1>1. PICK R \in T : \A V \in T : V \subseteq R => V = R
  <2>1. T \subseteq SUBSET S
    OBVIOUS
  <2> HIDE DEF T
  <2> QED
    BY <2>1, LeastSubset
<1>2. \A V \in SUBSET R : V # R => Has(V)
  BY <1>1
<1>3. ~Has(R) /\ R \in SUBSET S
  BY <1>1
<1> HIDE DEF T
<1> DEFINE P(V) == CHOOSE g \in [SUBSET V -> Nat] : Partial(g, f, V)
           x == CHOOSE x \in R : TRUE
           last1 == IF R = {} THEN 0 ELSE f[x] + P(R \ {x})[R \ {x}]
           g == [U \in SUBSET R |-> IF U = R THEN last1 ELSE P(U)[U]]
<1>4. \A V \in SUBSET R : V # R => P(V) \in [SUBSET V -> Nat] /\ Partial(P(V), f, V)
  BY <1>2
<1>5. \A V \in SUBSET R : V # R => P(V)[V] \in Nat
  <2> TAKE V \in SUBSET R
  <2>1. V \in SUBSET V
    OBVIOUS
  <2> HIDE DEF P
  <2> QED
    BY <1>4, <2>1
<1>6. R # {} => x \in R /\ R \ {x} \in SUBSET R /\ R \ {x} # R
  OBVIOUS
<1>7. R # {} => f[x] \in Nat
  BY <1>3, <1>6
<1> HIDE DEF P
<1>8. last1 \in Nat
  <2>1. R # {} => P(R \ {x})[R \ {x}] \in Nat
    BY <1>5, <1>6
  <2> HIDE DEF x
  <2> QED
    BY <1>7, <2>1
<1>9. g \in [SUBSET R -> Nat]
  <2> HIDE DEF last1
  <2> QED
    BY <1>5, <1>8
<1>10. ASSUME NEW U \in SUBSET R
       PROVE  g[U] = IF U = {} THEN 0 ELSE LET y == CHOOSE y \in U : TRUE IN f[y] + g[U \ {y}]
  <2> DEFINE y == CHOOSE y \in U : TRUE
  <2>1. U # {} => y \in U /\ U \ {y} \in SUBSET R /\ U \ {y} # R
    OBVIOUS
  <2>2. U # {} => g[U \ {y}] = P(U \ {y})[U \ {y}]
    <3> HIDE DEF y, last1
    <3> QED
      BY <2>1
  <2>3. CASE U = R
    <3>1. g[U] = last1
      BY <2>3
    <3>2. y = x
      BY <2>3
    <3> HIDE DEF g, y, x
    <3> QED
      BY <2>2, <2>3, <3>1, <3>2 DEF y
  <2>4. CASE U # R
    <3>1. g[U] = P(U)[U]
      BY <2>4
    <3>2. Partial(P(U), f, U)
      BY <1>4, <2>4
    <3>3. P(U)[U] = IF U = {} THEN 0 ELSE f[y] + P(U)[U \ {y}]
      BY <3>2 DEF Partial
    <3>4. U # {} => P(U)[U \ {y}] = P(U \ {y})[U \ {y}]
      <4> SUFFICES ASSUME U # {} PROVE P(U)[U \ {y}] = P(U \ {y})[U \ {y}]
        OBVIOUS
      <4> DEFINE V == U \ {y}
      <4>1. V \in SUBSET U /\ V \in SUBSET V /\ V \in SUBSET R /\ V # R
        BY <2>1
      <4>2. Partial(P(V), f, V)
        BY <1>4, <4>1
      <4>3. IsFiniteSet(V)
        BY <1>3, <4>1, FS_Subset
      <4> HIDE DEF V
      <4>4. P(V)[V] = P(U)[V]
        BY <3>2, <4>1, <4>2, <4>3, PartialUnique
      <4> QED
        BY <4>4 DEF V
    <3> HIDE DEF g, y
    <3> QED
      BY <2>2, <3>1, <3>3, <3>4 DEF y
  <2> QED
    BY <2>3, <2>4
<1>11. Partial(g, f, R)
  <2> HIDE DEF g
  <2> QED
    BY <1>10 DEF Partial
<1> QED
  BY <1>3, <1>9, <1>11

(* SumOf is what any partial sums over a larger set say.                   *)
LEMMA SumPartial ==
  ASSUME NEW D, NEW f \in [D -> Nat], NEW S \in SUBSET D, IsFiniteSet(S),
         NEW g, Partial(g, f, S), NEW U \in SUBSET S
  PROVE  SumOf(f, U) = g[U]
<1>1. IsFiniteSet(U) /\ U \in SUBSET D /\ U \in SUBSET U
  BY FS_Subset
<1>2. PICK h \in [SUBSET U -> Nat] : Partial(h, f, U)
  BY <1>1, PartialExist
<1>3. h = [V \in SUBSET U |-> IF V = {} THEN 0 ELSE LET x == CHOOSE x \in V : TRUE IN f[x] + h[V \ {x}]]
  BY <1>2 DEF Partial
<1> DEFINE s == Sums(f, U)
<1>4. s = [V \in SUBSET U |-> IF V = {} THEN 0 ELSE LET x == CHOOSE x \in V : TRUE IN f[x] + s[V \ {x}]]
  BY <1>3 DEF Sums
<1>5. SumOf(f, U) = s[U]
  BY SumUnfold
<1> HIDE DEF s
<1>6. Partial(s, f, U)
  BY <1>4 DEF Partial
<1> QED
  BY <1>1, <1>5, <1>6, PartialUnique

(* The sum of nothing, and the sum by the element the fold chooses.        *)
LEMMA SumStep ==
  ASSUME NEW D, NEW f \in [D -> Nat], NEW S \in SUBSET D, IsFiniteSet(S)
  PROVE  /\ SumOf(f, S) \in Nat
         /\ S = {} => SumOf(f, S) = 0
         /\ S # {} => LET x == CHOOSE x \in S : TRUE IN SumOf(f, S) = f[x] + SumOf(f, S \ {x})
<1>1. PICK g \in [SUBSET S -> Nat] : Partial(g, f, S)
  BY PartialExist
<1>2. \A U \in SUBSET S : SumOf(f, U) = g[U]
  BY <1>1, SumPartial
<1> DEFINE x == CHOOSE x \in S : TRUE
<1>3. S \in SUBSET S /\ S \ {x} \in SUBSET S
  OBVIOUS
<1>4. g[S] = IF S = {} THEN 0 ELSE f[x] + g[S \ {x}]
  BY <1>1, <1>3 DEF Partial
<1>5. g[S] \in Nat
  BY <1>1, <1>3
<1>6. SumOf(f, S) = g[S] /\ SumOf(f, S \ {x}) = g[S \ {x}]
  BY <1>2, <1>3
<1> HIDE DEF x
<1> QED
  BY <1>4, <1>5, <1>6 DEF x

(* Any element can be taken out of a sum.                                  *)
LEMMA SumTake ==
  ASSUME NEW D, NEW f \in [D -> Nat], NEW S \in SUBSET D, IsFiniteSet(S), NEW x \in S
  PROVE  SumOf(f, S) = f[x] + SumOf(f, S \ {x})
<1> DEFINE T == {U \in SUBSET S : \E y \in U : SumOf(f, U) # f[y] + SumOf(f, U \ {y})}
<1> SUFFICES ASSUME T # {} PROVE FALSE
  <2>1. S \in SUBSET S
    OBVIOUS
  <2> QED
    BY <2>1
<1>1. PICK U \in T : \A V \in T : V \subseteq U => V = U
  <2>1. T \subseteq SUBSET S
    OBVIOUS
  <2> HIDE DEF T
  <2> QED
    BY <2>1, LeastSubset
<1>2. PICK y \in U : SumOf(f, U) # f[y] + SumOf(f, U \ {y})
  OBVIOUS
<1>3. \A V \in SUBSET U : V # U => V \notin T
  BY <1>1
<1>4. \A V \in SUBSET U : V # U => \A z \in V : SumOf(f, V) = f[z] + SumOf(f, V \ {z})
  BY <1>3
<1>5. \A V \in SUBSET U : V \in SUBSET D /\ IsFiniteSet(V)
  BY FS_Subset
<1>6. \A V \in SUBSET U : SumOf(f, V) \in Nat
  BY <1>5, SumStep
<1>7. \A z \in U : f[z] \in Nat
  OBVIOUS
<1> HIDE DEF T
<1> DEFINE z == CHOOSE z \in U : TRUE
<1>8. z \in U /\ SumOf(f, U) = f[z] + SumOf(f, U \ {z})
  <2>1. U \in SUBSET D /\ IsFiniteSet(U) /\ U # {} /\ z \in U
    BY <1>2, <1>5
  <2>2. SumOf(f, U) = f[z] + SumOf(f, U \ {z})
    BY <2>1, SumStep
  <2> QED
    BY <2>1, <2>2
<1> HIDE DEF z
<1>9. z # y
  BY <1>2, <1>8
<1>10. SumOf(f, U \ {z}) = f[y] + SumOf(f, (U \ {z}) \ {y})
  BY <1>4, <1>8, <1>9
<1>11. SumOf(f, U \ {y}) = f[z] + SumOf(f, (U \ {y}) \ {z})
  BY <1>4, <1>8, <1>9
<1>12. (U \ {z}) \ {y} = (U \ {y}) \ {z} /\ (U \ {y}) \ {z} \in SUBSET U
  OBVIOUS
<1>13. SumOf(f, (U \ {y}) \ {z}) \in Nat /\ f[y] \in Nat /\ f[z] \in Nat
  BY <1>6, <1>7, <1>8, <1>12
<1> DEFINE rest == SumOf(f, (U \ {y}) \ {z})
<1>14. /\ SumOf(f, U) = f[z] + (f[y] + rest)
       /\ f[y] + SumOf(f, U \ {y}) = f[y] + (f[z] + rest)
       /\ rest \in Nat
  BY <1>8, <1>10, <1>11, <1>12, <1>13
<1> HIDE DEF rest
<1>15. f[z] + (f[y] + rest) = f[y] + (f[z] + rest)
  BY <1>13, <1>14
<1> QED
  BY <1>2, <1>14, <1>15

(* A larger set has no smaller sum.                                        *)
LEMMA SumMonotone ==
  ASSUME NEW D, NEW f \in [D -> Nat], NEW S \in SUBSET D, IsFiniteSet(S), NEW R \in SUBSET S
  PROVE  SumOf(f, R) <= SumOf(f, S)
<1> DEFINE T == {U \in SUBSET S : R \subseteq U /\ ~(SumOf(f, R) <= SumOf(f, U))}
<1> SUFFICES ASSUME T # {} PROVE FALSE
  <2>1. S \in SUBSET S
    OBVIOUS
  <2> QED
    BY <2>1
<1>1. PICK U \in T : \A V \in T : V \subseteq U => V = U
  <2>1. T \subseteq SUBSET S
    OBVIOUS
  <2> HIDE DEF T
  <2> QED
    BY <2>1, LeastSubset
<1>2. \A V \in SUBSET S : V \in SUBSET D /\ IsFiniteSet(V)
  BY FS_Subset
<1>3. \A V \in SUBSET S : SumOf(f, V) \in Nat
  BY <1>2, SumStep
<1>4. CASE U = R
  <2>1. SumOf(f, R) \in Nat
    BY <1>3
  <2> QED
    BY <1>4, <2>1
<1>5. CASE U # R
  <2>1. PICK y \in U : y \notin R
    BY <1>5
  <2>2. U \ {y} \in SUBSET S /\ R \subseteq U \ {y} /\ U \ {y} \notin T
    BY <1>1, <2>1
  <2>3. SumOf(f, R) <= SumOf(f, U \ {y})
    BY <2>2
  <2>4. SumOf(f, U) = f[y] + SumOf(f, U \ {y})
    BY <1>2, SumTake
  <2>5. f[y] \in Nat /\ SumOf(f, U \ {y}) \in Nat /\ SumOf(f, R) \in Nat /\ SumOf(f, U) \in Nat
    BY <1>3, <2>2
  <2>6. ~(SumOf(f, R) <= SumOf(f, U))
    OBVIOUS
  <2> HIDE DEF T
  <2> QED
    BY <2>3, <2>4, <2>5, <2>6
<1> QED
  BY <1>4, <1>5

-----------------------------------------------------------------------------
(* Types: what the variables hold while the call runs.                     *)

Distinct(list) == \A i, j \in 1..Len(list) : i # j => list[i] # list[j]

Placed(L) ==
  /\ L \in [1..Sectors -> Seq(Session)]
  /\ \A i \in 1..Sectors : Distinct(L[i])
  /\ \A i, j \in 1..Sectors : i # j => ToSet(L[i]) \cap ToSet(L[j]) = {}
  /\ UNION {ToSet(L[i]) : i \in 1..Sectors} = Session

Calls == [state : {"called", "running"}, kind : Kind, c : Session, len : MsgLen,
          answer : [Session -> MsgLen]]

Frame == [proc : {"goodbye", "around", "exchange"}, c : Session, len : Nat, me : BOOLEAN,
          sec : 1..Sectors, node : Session \cup {NoNode}, part : {"send", "answer", "advance"}]

(* What the call was made with.                                            *)
Given ==
  /\ op \in Calls /\ room0 \in [Session -> 0..MaxRoom] /\ Placed(lists0)
  /\ op.c \in ToSet(lists0[1])
  /\ op.kind = "exchange" => Sectors > 1

(* A walk that has told a session has an element; a deletion is under way  *)
(* for closed sessions only, and above every other walk.                   *)
Sound(t, cl, i) ==
  /\ t[i].part # "send" => t[i].node \in Session
  /\ t[i].part = "answer" => t[i].proc = "exchange"
  /\ t[i].proc = "goodbye" => t[i].len = LenDelete /\ t[i].me /\ t[i].c \in cl
  /\ t[i].proc # "goodbye" => i = Len(t)

Stacked(t, cl) ==
  /\ t \in Seq(Frame) /\ Len(t) <= MaxDepth
  /\ \A i \in 1..Len(t) : Sound(t, cl, i)

Held ==
  /\ room \in [Session -> 0..MaxRoom]
  /\ lists \in [1..Sectors -> Seq(Session)]
  /\ \A i \in 1..Sectors : Distinct(lists[i])
  /\ players \subseteq Session /\ closed \subseteq Session
  /\ fault \in {"none", "stack_overflow", "erased_node", "freed_character"}

Unstarted ==
  op.state = "called" =>
    /\ stack = <<>> /\ fault = "none" /\ players = Session /\ closed = {}
    /\ room = room0 /\ lists = lists0

TypeInv == Given /\ Held /\ Stacked(stack, closed) /\ Unstarted

-----------------------------------------------------------------------------
(* A session for which two deletions are under way has no room for one.    *)
TwiceIsFull(t, rm) ==
  \A i, j \in 1..Len(t) :
    i < j /\ t[i].proc = "goodbye" /\ t[j].proc = "goodbye" /\ t[i].c = t[j].c
      => rm[t[i].c] < LenDelete

FullInv == TwiceIsFull(stack, room) /\ StackOnlyBySelf

-----------------------------------------------------------------------------
(* How far a walk has come: the sessions before element k of sector sec.   *)
Passed(L, from, sec, k) ==
  {s \in Session : \E i \in from..sec, j \in Nat \ {0} :
     j <= Len(L[i]) /\ s = L[i][j] /\ (i = sec => j < k)}

Scope(L, from) == {s \in Session : \E i \in from..Sectors : s \in ToSet(L[i])}

IsAt(L, fr, k) ==
  /\ k \in 1..Len(L[fr.sec]) + 1
  /\ k <= Len(L[fr.sec]) => fr.node = L[fr.sec][k]
  /\ k > Len(L[fr.sec]) => fr.node = NoNode

Progress(L, from, fr, H) ==
  /\ fr.sec \in from..Sectors
  /\ \E k \in Nat : IsAt(L, fr, k) /\ H = Passed(L, from, fr.sec, k)

Start(o) == IF o.kind = "exchange" THEN 2 ELSE 1
Each(o) == IF o.kind = "disconnect" THEN LenDelete ELSE o.len
Skips(o) == o.kind \in {"around", "exchange"}
Gone(o) == IF o.kind = "disconnect" THEN {o.c} ELSE {}

(* Bytes sent when those of H were told and those of A answered.           *)
Told(o, H, A) ==
  [r \in Session |-> (IF r \in H /\ ~(r = o.c /\ Skips(o)) THEN Each(o) ELSE 0)
                     + (IF r = o.c THEN SumOf(o.answer, A) ELSE 0)]

Heard(fr, H) == IF fr.part = "send" THEN H ELSE H \cup {fr.node}
Answered(o, fr, H) ==
  IF o.kind # "exchange" THEN {} ELSE IF fr.part = "advance" THEN H \cup {fr.node} ELSE H

(* The walk the handler itself asked for.                                  *)
Mine(o, fr) ==
  /\ fr.proc = (IF o.kind = "disconnect" THEN "goodbye"
                ELSE IF o.kind = "exchange" THEN "exchange" ELSE "around")
  /\ fr.c = o.c /\ fr.len = Each(o) /\ fr.me = ~Skips(o)

-----------------------------------------------------------------------------
(* Every way a call can go.  The process must end:                         *)
Bad ==
  /\ ~Fits(Need)
  /\ ~(op.kind \in {"unicast", "exchange"} /\ Need[op.c] > room0[op.c] /\ Fits(Leaving))

(* a walk is on an element that is erased, or will be when it goes on;     *)
Leaves(t, i) == \E j \in 1..i - 1 : t[j].proc = "goodbye" /\ t[j].c = t[i].node

DoomedAt(t, ls, ps, i) ==
  \/ t[i].part = "advance" /\ (t[i].node \notin ToSet(ls[t[i].sec]) \/ Leaves(t, i))
  \/ t[i].part = "answer" /\ (t[i].node \notin ps \/ Leaves(t, i))

DoomedIn(t, ls, ps) == \E i \in 1..Len(t) : DoomedAt(t, ls, ps, i)

Doomed == DoomedIn(stack, lists, players)

(* everything fitted so far;                                               *)
Walking ==
  /\ Len(stack) = 1 /\ op.kind # "unicast" /\ Mine(op, stack[1])
  /\ players = Session /\ lists = lists0 /\ closed = Gone(op)
  /\ \E H \in SUBSET Session :
       /\ Progress(lists0, Start(op), stack[1], H)
       /\ room = [r \in Session |->
                   room0[r] - Told(op, Heard(stack[1], H), Answered(op, stack[1], H))[r]]

Finished == stack = <<>> /\ Outcome(Need, Gone(op))

(* c overflowed, and those of H were told of its deletion;                 *)
Cut(bytes) ==
  /\ Need[op.c] > room0[op.c]
  /\ Leaving[op.c] > room0[op.c] \/ Leaving = [r \in Session |-> bytes[r] + LenDelete]

PartingFrom(bytes) ==
  /\ stack[1].proc = "goodbye" /\ stack[1].c = op.c
  /\ players = Session /\ lists = lists0 /\ closed = {op.c} /\ Cut(bytes)
  /\ \E H \in SUBSET Session :
       /\ Progress(lists0, 1, stack[1], H)
       /\ room = [r \in Session |->
                   room0[r] - bytes[r] - (IF r \in Heard(stack[1], H) THEN LenDelete ELSE 0)]

PartingUnicast ==
  /\ op.kind = "unicast" /\ Len(stack) = 1
  /\ PartingFrom([r \in Session |-> 0])

PartingExchange ==
  /\ op.kind = "exchange" /\ Len(stack) = 2 /\ Mine(op, stack[2]) /\ stack[2].part = "advance"
  /\ \E A \in SUBSET Session :
       /\ Progress(lists0, 2, stack[2], A)
       /\ SumOf(op.answer, A \cup {stack[2].node}) > room0[op.c]
       /\ PartingFrom(Told(op, A \cup {stack[2].node}, A))

(* c is gone, and the exchange goes on over the lists without it;          *)
GoingOn ==
  /\ op.kind = "exchange" /\ Len(stack) = 1 /\ Mine(op, stack[1])
  /\ players = Session \ {op.c} /\ lists = Without(op.c, lists0) /\ closed = {op.c}
  /\ \E A \in SUBSET Session, x \in Session :
       /\ \/ stack[1].part = "advance" /\ stack[1].node = x /\ Progress(lists0, 2, stack[1], A)
          \/ stack[1].part = "send" /\ Progress(lists0, 2, stack[1], A \cup {x})
       /\ SumOf(op.answer, A \cup {x}) > room0[op.c] /\ LastMet \notin A
       /\ room = [r \in Session |-> room0[r] - Told(op, A \cup {x}, A)[r] - LenDelete]

(* c alone left.                                                           *)
Parted ==
  /\ stack = <<>> /\ op.kind \in {"unicast", "exchange"} /\ Need[op.c] > room0[op.c]
  /\ Outcome(Leaving, {op.c})

Going ==
  op.state = "running" =>
    IF fault # "none" THEN Bad
    ELSE \/ Walking \/ Finished
         \/ PartingUnicast \/ PartingExchange \/ GoingOn \/ Parted
         \/ Doomed /\ Bad

-----------------------------------------------------------------------------
(* Lists without repetitions.                                              *)

(* Where an element is.                                                    *)
LEMMA PositionIs ==
  ASSUME NEW l \in Seq(Session), Distinct(l), NEW k \in 1..Len(l)
  PROVE  /\ Position(l, l[k]) = k /\ l[k] \in ToSet(l)
         /\ Successor(l, l[k]) = IF k = Len(l) THEN NoNode ELSE l[k + 1]
<1>1. DOMAIN l = 1..Len(l)
  BY LenProperties
<1>2. \A i \in DOMAIN l : l[i] = l[k] => i = k
  BY <1>1 DEF Distinct
<1>3. k \in DOMAIN l
  BY <1>1
<1>4. Position(l, l[k]) = k
  BY <1>2, <1>3 DEF Position
<1> QED
  BY <1>3, <1>4 DEF Successor, ToSet

(* An element is somewhere.                                                *)
LEMMA ElementAt ==
  ASSUME NEW l \in Seq(Session), NEW s
  PROVE  s \in ToSet(l) <=> \E k \in 1..Len(l) : s = l[k]
<1>1. DOMAIN l = 1..Len(l)
  BY LenProperties
<1> QED
  BY <1>1 DEF ToSet

(* What a concatenation holds.                                             *)
LEMMA Concat ==
  ASSUME NEW S, NEW a \in Seq(S), NEW b \in Seq(S)
  PROVE  /\ a \o b \in Seq(S) /\ Len(a \o b) = Len(a) + Len(b)
         /\ \A i \in 1..Len(a) + Len(b) : (a \o b)[i] = IF i <= Len(a) THEN a[i] ELSE b[i - Len(a)]
BY ConcatProperties

(* RemoveAt leaves the others as they were, those behind moved up.         *)
LEMMA RemoveAtIs ==
  ASSUME NEW l \in Seq(Session), NEW k \in 1..Len(l)
  PROVE  /\ RemoveAt(l, k) \in Seq(Session) /\ Len(RemoveAt(l, k)) = Len(l) - 1
         /\ \A i \in 1..Len(l) - 1 : RemoveAt(l, k)[i] = IF i < k THEN l[i] ELSE l[i + 1]
<1> DEFINE n == Len(l)  a == SubSeq(l, 1, k - 1)  b == SubSeq(l, k + 1, n)
<1>1. n \in Nat /\ k \in 1..n
  BY LenProperties
<1>2. /\ a \in Seq(Session) /\ Len(a) = k - 1
      /\ \A i \in 1..k - 1 : a[i] = l[i]
  BY <1>1
<1>3. /\ b \in Seq(Session) /\ Len(b) = n - k
      /\ \A i \in 1..n - k : b[i] = l[k + i]
  BY <1>1
<1>4. RemoveAt(l, k) = a \o b
  BY DEF RemoveAt
<1> HIDE DEF a, b
<1>5. /\ a \o b \in Seq(Session) /\ Len(a \o b) = (k - 1) + (n - k)
      /\ \A i \in 1..(k - 1) + (n - k) : (a \o b)[i] = IF i <= k - 1 THEN a[i] ELSE b[i - (k - 1)]
  <2>1. /\ a \o b \in Seq(Session) /\ Len(a \o b) = Len(a) + Len(b)
        /\ \A i \in 1..Len(a) + Len(b) : (a \o b)[i] = IF i <= Len(a) THEN a[i] ELSE b[i - Len(a)]
    BY <1>2, <1>3, Concat
  <2> QED
    BY <1>2, <1>3, <2>1
<1>6. (k - 1) + (n - k) = n - 1
  BY <1>1
<1>7. ASSUME NEW i \in 1..n - 1 PROVE (a \o b)[i] = IF i < k THEN l[i] ELSE l[i + 1]
  <2>1. CASE i < k
    <3>1. i \in 1..k - 1 /\ i <= k - 1
      BY <1>1, <2>1
    <3> QED
      BY <1>2, <1>5, <1>6, <2>1, <3>1
  <2>2. CASE ~(i < k)
    <3>1. i - (k - 1) \in 1..n - k /\ ~(i <= k - 1) /\ k + (i - (k - 1)) = i + 1
      BY <1>1, <2>2
    <3> QED
      BY <1>3, <1>5, <1>6, <2>2, <3>1
  <2> QED
    BY <2>1, <2>2
<1> QED
  BY <1>4, <1>5, <1>6, <1>7

(* Erase takes c out and nothing else.                                     *)
LEMMA EraseIs ==
  ASSUME NEW l \in Seq(Session), Distinct(l), NEW c
  PROVE  /\ Erase(l, c) \in Seq(Session) /\ Distinct(Erase(l, c))
         /\ ToSet(Erase(l, c)) \subseteq ToSet(l) \ {c}
         /\ c \notin ToSet(l) => Erase(l, c) = l
<1>1. CASE c \notin ToSet(l)
  BY <1>1 DEF Erase
<1>2. CASE c \in ToSet(l)
  <2> DEFINE e == Erase(l, c)  n == Len(l)
  <2>1. PICK k \in 1..n : c = l[k]
    BY <1>2, ElementAt
  <2>2. e = RemoveAt(l, k)
    BY <1>2, <2>1, PositionIs DEF Erase
  <2>3. n \in Nat
    BY LenProperties
  <2> HIDE DEF e
  <2>4. /\ e \in Seq(Session) /\ Len(e) = n - 1
        /\ \A i \in 1..n - 1 : e[i] = IF i < k THEN l[i] ELSE l[i + 1]
    BY <2>2, RemoveAtIs
  <2> DEFINE at(i) == IF i < k THEN i ELSE i + 1
  <2>5. \A i \in 1..n - 1 : at(i) \in 1..n /\ at(i) # k /\ e[i] = l[at(i)]
    BY <2>1, <2>3, <2>4
  <2>6. \A i, j \in 1..n - 1 : i # j => at(i) # at(j)
    BY <2>1, <2>3
  <2> HIDE DEF at
  <2>7. Distinct(e)
    BY <2>4, <2>5, <2>6 DEF Distinct
  <2>8. ASSUME NEW s \in ToSet(e) PROVE s \in ToSet(l) /\ s # c
    <3>1. PICK i \in 1..n - 1 : s = e[i]
      BY <2>4, <2>8, ElementAt
    <3>2. at(i) \in 1..n /\ s = l[at(i)] /\ at(i) # k
      BY <2>5, <3>1
    <3> QED
      BY <2>1, <3>2, ElementAt DEF Distinct
  <2> QED
    BY <1>2, <2>4, <2>7, <2>8 DEF e
<1> QED
  BY <1>1, <1>2

(* The first element of a list.                                            *)
LEMMA FirstIs ==
  ASSUME NEW l \in Seq(Session)
  PROVE  /\ First(l) = IF 1 = Len(l) + 1 THEN NoNode ELSE l[1]
         /\ First(l) \in Session \cup {NoNode}
<1>1. Len(l) \in Nat /\ (l = <<>> <=> Len(l) = 0)
  BY LenProperties, EmptySeq
<1>2. l # <<>> => l[1] \in Session
  BY <1>1, ElementOfSeq
<1> QED
  BY <1>1, <1>2 DEF First

-----------------------------------------------------------------------------
(* The stack.                                                              *)

(* The innermost walk in another state.                                    *)
LEMMA ReplaceTop ==
  ASSUME NEW t \in Seq(Frame), t # <<>>, NEW fr \in Frame
  PROVE  /\ <<fr>> \o Tail(t) \in Seq(Frame) /\ Len(<<fr>> \o Tail(t)) = Len(t)
         /\ (<<fr>> \o Tail(t))[1] = fr
         /\ \A i \in 1..Len(t) : i # 1 => (<<fr>> \o Tail(t))[i] = t[i]
<1> DEFINE r == Tail(t)  q == <<fr>>
<1>1. /\ r \in Seq(Frame) /\ Len(t) \in Nat /\ Len(t) # 0 /\ Len(r) = Len(t) - 1
      /\ \A i \in 1..Len(r) : r[i] = t[i + 1]
  BY HeadTailProperties, EmptySeq
<1>2. q \in Seq(Frame) /\ Len(q) = 1 /\ q[1] = fr
  OBVIOUS
<1> HIDE DEF r, q
<1>3. /\ q \o r \in Seq(Frame) /\ Len(q \o r) = 1 + Len(r)
      /\ \A i \in 1..1 + Len(r) : (q \o r)[i] = IF i <= 1 THEN q[i] ELSE r[i - 1]
  <2>1. /\ q \o r \in Seq(Frame) /\ Len(q \o r) = Len(q) + Len(r)
        /\ \A i \in 1..Len(q) + Len(r) : (q \o r)[i] = IF i <= Len(q) THEN q[i] ELSE r[i - Len(q)]
    <3>1. q \in Seq(Frame) /\ r \in Seq(Frame)
      BY <1>1, <1>2
    <3> QED
      BY <3>1, Concat
  <2> QED
    BY <1>2, <2>1
<1>4. \A i \in 1..Len(t) : i # 1 => (q \o r)[i] = t[i]
  <2> TAKE i \in 1..Len(t)
  <2> HAVE i # 1
  <2>1. i - 1 \in 1..Len(r) /\ (i - 1) + 1 = i /\ ~(i <= 1) /\ i \in 1..1 + Len(r)
    BY <1>1
  <2> QED
    BY <1>1, <1>3, <2>1
<1>5. 1 \in 1..1 + Len(r)
  BY <1>1
<1> QED
  BY <1>1, <1>2, <1>3, <1>4, <1>5 DEF r, q

(* One more walk.                                                          *)
LEMMA PushTop ==
  ASSUME NEW t \in Seq(Frame), NEW fr \in Frame
  PROVE  /\ <<fr>> \o t \in Seq(Frame) /\ Len(<<fr>> \o t) = Len(t) + 1
         /\ (<<fr>> \o t)[1] = fr
         /\ \A i \in 1..Len(t) + 1 : i # 1 => (<<fr>> \o t)[i] = t[i - 1]
<1> DEFINE q == <<fr>>
<1>1. Len(t) \in Nat
  BY LenProperties
<1>2. q \in Seq(Frame) /\ Len(q) = 1 /\ q[1] = fr
  OBVIOUS
<1> HIDE DEF q
<1>3. /\ q \o t \in Seq(Frame) /\ Len(q \o t) = 1 + Len(t)
      /\ \A i \in 1..1 + Len(t) : (q \o t)[i] = IF i <= 1 THEN q[i] ELSE t[i - 1]
  <2>1. /\ q \o t \in Seq(Frame) /\ Len(q \o t) = Len(q) + Len(t)
        /\ \A i \in 1..Len(q) + Len(t) : (q \o t)[i] = IF i <= Len(q) THEN q[i] ELSE t[i - Len(q)]
    BY <1>2, Concat
  <2> QED
    BY <1>2, <2>1
<1>4. \A i \in 1..Len(t) + 1 : i # 1 => i \in 1..1 + Len(t) /\ ~(i <= 1)
  BY <1>1
<1> QED
  BY <1>1, <1>2, <1>3, <1>4 DEF q

(* The innermost walk is over.                                             *)
LEMMA DropTop ==
  ASSUME NEW t \in Seq(Frame), t # <<>>
  PROVE  /\ Tail(t) \in Seq(Frame) /\ Len(Tail(t)) = Len(t) - 1 /\ Len(t) \in Nat \ {0}
         /\ \A i \in 1..Len(t) - 1 : Tail(t)[i] = t[i + 1]
         /\ Head(t) = t[1] /\ t[1] \in Frame
BY HeadTailProperties, EmptySeq, ElementOfSeq

(* More closed sessions do no harm to the stack.                           *)
LEMMA StackedMore ==
  ASSUME NEW t, NEW cl, Stacked(t, cl), NEW s
  PROVE  Stacked(t, cl \cup {s})
BY DEF Stacked, Sound

(* A deletion on top of a sound stack.                                     *)
LEMMA StackedPush ==
  ASSUME NEW t, NEW cl, Stacked(t, cl), Len(t) # MaxDepth, NEW fr \in Frame,
         fr.proc = "goodbye", fr.len = LenDelete, fr.me, fr.c \in cl, fr.part = "send"
  PROVE  Stacked(<<fr>> \o t, cl)
<1> DEFINE u == <<fr>> \o t
<1>1. /\ t \in Seq(Frame) /\ Len(t) <= MaxDepth /\ Len(t) \in Nat
      /\ \A i \in 1..Len(t) : Sound(t, cl, i)
  BY LenProperties DEF Stacked
<1>2. /\ u \in Seq(Frame) /\ Len(u) = Len(t) + 1 /\ u[1] = fr
      /\ \A i \in 1..Len(t) + 1 : i # 1 => u[i] = t[i - 1]
  BY <1>1, PushTop
<1> HIDE DEF u
<1>3. ASSUME NEW i \in 1..Len(u) PROVE Sound(u, cl, i)
  <2>1. CASE i = 1
    BY <1>2, <2>1 DEF Sound
  <2>2. CASE i # 1
    <3>1. i - 1 \in 1..Len(t) /\ u[i] = t[i - 1]
      BY <1>1, <1>2, <2>2
    <3>2. Sound(t, cl, i - 1)
      BY <1>1, <3>1
    <3> QED
      BY <1>2, <3>1, <3>2 DEF Sound
  <2> QED
    BY <2>1, <2>2
<1>4. Len(u) <= MaxDepth
  BY <1>1, <1>2, CallAssumption
<1> QED
  BY <1>2, <1>3, <1>4 DEF Stacked, u

(* The innermost walk one step on.                                         *)
LEMMA StackedReplace ==
  ASSUME NEW t, NEW cl, Stacked(t, cl), t # <<>>, NEW fr \in Frame,
         fr.proc = t[1].proc, fr.len = t[1].len, fr.me = t[1].me, fr.c = t[1].c,
         fr.part # "send" => fr.node \in Session,
         fr.part = "answer" => fr.proc = "exchange"
  PROVE  Stacked(<<fr>> \o Tail(t), cl)
<1> DEFINE u == <<fr>> \o Tail(t)
<1>1. /\ t \in Seq(Frame) /\ Len(t) <= MaxDepth /\ Len(t) \in Nat \ {0}
      /\ \A i \in 1..Len(t) : Sound(t, cl, i)
  BY DropTop DEF Stacked
<1>2. /\ u \in Seq(Frame) /\ Len(u) = Len(t) /\ u[1] = fr
      /\ \A i \in 1..Len(t) : i # 1 => u[i] = t[i]
  BY <1>1, ReplaceTop
<1> HIDE DEF u
<1>3. ASSUME NEW i \in 1..Len(u) PROVE Sound(u, cl, i)
  <2>1. Sound(t, cl, i)
    BY <1>1, <1>2
  <2>2. i # 1 => u[i] = t[i]
    BY <1>2
  <2> QED
    BY <1>2, <2>1, <2>2 DEF Sound
<1> QED
  BY <1>1, <1>2, <1>3 DEF Stacked, u

(* The innermost walk gone.                                                *)
LEMMA StackedDrop ==
  ASSUME NEW t, NEW cl, Stacked(t, cl), t # <<>>
  PROVE  Stacked(Tail(t), cl)
<1> DEFINE u == Tail(t)
<1>1. /\ t \in Seq(Frame) /\ Len(t) <= MaxDepth /\ Len(t) \in Nat \ {0}
      /\ \A i \in 1..Len(t) : Sound(t, cl, i)
      /\ u \in Seq(Frame) /\ Len(u) = Len(t) - 1
      /\ \A i \in 1..Len(t) - 1 : u[i] = t[i + 1]
  BY DropTop DEF Stacked
<1> HIDE DEF u
<1>2. ASSUME NEW i \in 1..Len(u) PROVE Sound(u, cl, i)
  <2>1. i + 1 \in 1..Len(t) /\ u[i] = t[i + 1]
    BY <1>1
  <2>2. Sound(t, cl, i + 1)
    BY <1>1, <2>1
  <2> QED
    BY <1>1, <2>1, <2>2 DEF Sound
<1>3. Len(u) <= MaxDepth
  BY <1>1, CallAssumption
<1> QED
  BY <1>1, <1>2, <1>3 DEF Stacked, u

-----------------------------------------------------------------------------
(* Type correctness.                                                       *)

(* A walk begins on the first element of its first list.                   *)
LEMMA WalkIsFrame ==
  ASSUME Held, NEW proc \in {"goodbye", "around", "exchange"}, NEW c \in Session, NEW len \in Nat,
         NEW me \in BOOLEAN, NEW from \in 1..Sectors
  PROVE  Walk(proc, c, len, me, from) \in Frame
<1>1. lists[from] \in Seq(Session)
  BY DEF Held
<1>2. First(lists[from]) \in Session \cup {NoNode}
  BY <1>1, FirstIs
<1> QED
  BY <1>2 DEF Walk, Frame

(* Disconnect keeps the types.                                             *)
LEMMA DisconnectTypes ==
  ASSUME Held, NEW s \in Session, NEW below, Stacked(below, closed), Disconnect(s, below)
  PROVE  Held' /\ Stacked(stack', closed')
<1>1. Held'
  BY DEF Held, Disconnect
<1>2. closed' = closed \cup {s}
  BY DEF Disconnect
<1>3. Stacked(below, closed')
  BY <1>2, StackedMore
<1>4. CASE stack' = below
  BY <1>1, <1>3, <1>4
<1>5. CASE Len(below) # MaxDepth /\ stack' = <<Goodbye(s)>> \o below
  <2>1. LenDelete \in Nat /\ 1 \in 1..Sectors
    BY CallAssumption
  <2>2. Goodbye(s) \in Frame
    BY <2>1, WalkIsFrame DEF Goodbye
  <2>3. /\ Goodbye(s).proc = "goodbye" /\ Goodbye(s).len = LenDelete /\ Goodbye(s).me
        /\ Goodbye(s).c = s /\ Goodbye(s).part = "send"
    BY DEF Goodbye, Walk
  <2> QED
    BY <1>1, <1>2, <1>3, <1>5, <2>2, <2>3, StackedPush
<1> QED
  BY <1>4, <1>5 DEF Disconnect

(* SendUniCast keeps the types.                                            *)
LEMMA SendTypes ==
  ASSUME Held, NEW s \in Session, NEW len \in Nat, NEW below, Stacked(below, closed),
         SendUniCast(s, len, below)
  PROVE  Held' /\ Stacked(stack', closed')
<1>1. CASE /\ len <= room[s] /\ room' = [room EXCEPT ![s] = @ - len]
           /\ stack' = below /\ UNCHANGED <<lists, players, closed, fault>>
  <2>1. room[s] \in 0..MaxRoom /\ room[s] - len \in 0..MaxRoom
    BY <1>1, CallAssumption DEF Held
  <2> QED
    BY <1>1, <2>1 DEF Held
<1>2. CASE Disconnect(s, below)
  BY <1>2, DisconnectTypes
<1> QED
  BY <1>1, <1>2 DEF SendUniCast

(* The innermost walk.                                                     *)
LEMMA TopIs ==
  ASSUME TypeInv, Running
  PROVE  /\ Top = stack[1] /\ Top \in Frame /\ Sound(stack, closed, 1) /\ op.state # "called"
         /\ stack \in Seq(Frame) /\ stack # <<>> /\ 1 \in 1..Len(stack)
<1>1. stack \in Seq(Frame) /\ stack # <<>> /\ op.state # "called"
  BY DEF TypeInv, Stacked, Running, Unstarted
<1>2. Head(stack) = stack[1] /\ stack[1] \in Frame /\ Len(stack) \in Nat \ {0}
  BY <1>1, DropTop
<1> QED
  BY <1>1, <1>2 DEF TypeInv, Stacked, Top

(* The innermost walk in its next part.                                    *)
LEMMA ThenTypes ==
  ASSUME TypeInv, Running, Top.node \in Session, NEW part \in {"answer", "advance"},
         part = "answer" => Top.proc = "exchange"
  PROVE  Stacked(Then(part), closed)
<1> DEFINE fr == [Top EXCEPT !.part = part]
<1>1. Top = stack[1] /\ Top \in Frame /\ stack # <<>>
  BY TopIs
<1>2. /\ fr \in Frame /\ fr.proc = Top.proc /\ fr.len = Top.len /\ fr.me = Top.me
      /\ fr.c = Top.c /\ fr.node = Top.node /\ fr.part = part
  BY <1>1 DEF Frame
<1> HIDE DEF fr
<1>3. Stacked(stack, closed)
  BY DEF TypeInv
<1>4. Stacked(<<fr>> \o Tail(stack), closed)
  BY <1>1, <1>2, <1>3, StackedReplace
<1> QED
  BY <1>4 DEF Then, fr

(* The lists a call can meet hold every session once.                      *)
LEMMA PlacementsPlaced ==
  ASSUME NEW c \in Session, NEW L \in Placements(c)
  PROVE  Placed(L) /\ c \in ToSet(L[1])
<1>1. /\ L \in [1..Sectors -> UNION {SetToSeqs(S) : S \in SUBSET Session}]
      /\ c \in ToSet(L[1])
      /\ \A i, j \in 1..Sectors : i # j => ToSet(L[i]) \cap ToSet(L[j]) = {}
      /\ UNION {ToSet(L[i]) : i \in 1..Sectors} = Session
  BY DEF Placements
<1>2. ASSUME NEW i \in 1..Sectors PROVE L[i] \in Seq(Session) /\ Distinct(L[i])
  <2>1. PICK S \in SUBSET Session : L[i] \in SetToSeqs(S)
    BY <1>1
  <2> DEFINE n == Cardinality(S)  l == L[i]
  <2>2. n \in Nat
    BY CallAssumption, FS_Subset, FS_CardinalityType
  <2>3. l \in [1..n -> S] /\ \A j, k \in 1..n : j # k => l[j] # l[k]
    BY <2>1 DEF SetToSeqs
  <2> HIDE DEF n, l
  <2>4. l \in Seq(S) /\ Len(l) = n
    BY <2>2, <2>3
  <2>5. l \in Seq(Session)
    BY <2>4, SeqMonotonic
  <2> QED
    BY <2>3, <2>4, <2>5 DEF Distinct, l
<1>3. L \in [1..Sectors -> Seq(Session)]
  BY <1>1, <1>2
<1> QED
  BY <1>1, <1>2, <1>3 DEF Placed

(* The types hold when the handler makes its call.                         *)
LEMMA TypeInit == Init => TypeInv
<1> SUFFICES ASSUME Init PROVE TypeInv
  OBVIOUS
<1>1. PICK c \in Session, kind \in Kind, len \in MsgLen :
        /\ op \in [state : {"called"}, kind : {kind}, c : {c}, len : {len},
                   answer : IF kind = "exchange" THEN [Session -> MsgLen] ELSE {[s \in Session |-> len]}]
        /\ kind = "exchange" => Sectors > 1
        /\ room \in [Session -> 0..MaxRoom] /\ room0 = room
        /\ lists \in Placements(c) /\ lists0 = lists
        /\ players = Session /\ closed = {} /\ stack = <<>> /\ fault = "none"
  BY DEF Init
<1>2. op \in Calls /\ op.c = c /\ op.kind = kind
  <2>1. [s \in Session |-> len] \in [Session -> MsgLen]
    OBVIOUS
  <2>2. op \in [state : {"called"}, kind : {kind}, c : {c}, len : {len}, answer : [Session -> MsgLen]]
    BY <1>1, <2>1
  <2> QED
    BY <2>2 DEF Calls
<1>3. Placed(lists) /\ c \in ToSet(lists[1])
  BY <1>1, PlacementsPlaced
<1>4. Given
  BY <1>1, <1>2, <1>3 DEF Given
<1>5. Held
  BY <1>1, <1>3 DEF Held, Placed
<1>6. Stacked(stack, closed)
  <2>1. stack \in Seq(Frame) /\ Len(stack) = 0
    BY <1>1
  <2> QED
    BY <2>1, CallAssumption DEF Stacked
<1> QED
  BY <1>1, <1>4, <1>5, <1>6 DEF TypeInv, Unstarted

(* The call the handler makes.                                             *)
LEMMA TypeCall == TypeInv /\ Call => TypeInv'
<1> SUFFICES ASSUME TypeInv, Call PROVE TypeInv'
  OBVIOUS
<1>1. /\ Given /\ Held /\ op.state = "called" /\ op' = [op EXCEPT !.state = "running"]
      /\ UNCHANGED <<room0, lists0>> /\ stack = <<>>
      /\ op.kind = "exchange" => Sectors > 1
  BY DEF TypeInv, Unstarted, Call, Given
<1>2. op \in Calls /\ op.c \in Session /\ op.len \in Nat
  BY <1>1, CallAssumption DEF Given, Calls
<1>3. op' \in Calls /\ op'.c = op.c /\ op'.kind = op.kind /\ op'.state # "called"
  BY <1>1, <1>2 DEF Calls
<1>4. Given' /\ Unstarted'
  BY <1>1, <1>3 DEF Given, Unstarted
<1>5. Stacked(<<>>, closed)
  BY <1>1 DEF TypeInv
<1>6. ASSUME NEW fr \in Frame, fr.part = "send", fr.proc # "goodbye"
      PROVE  Stacked(<<fr>>, closed)
  <2>1. <<fr>> \in Seq(Frame) /\ Len(<<fr>>) = 1 /\ <<fr>>[1] = fr
    OBVIOUS
  <2> QED
    BY <1>6, <2>1, CallAssumption DEF Stacked, Sound
<1>7. 1 \in 1..Sectors
  BY CallAssumption
<1>8. CASE op.kind \in {"around", "aroundMe"}
  <2> DEFINE fr == Walk("around", op.c, op.len, op.kind = "aroundMe", 1)
  <2>1. stack' = <<fr>> /\ UNCHANGED <<room, lists, players, closed, fault>>
    BY <1>8 DEF Call
  <2>2. fr \in Frame
    BY <1>1, <1>2, <1>7, WalkIsFrame
  <2>3. fr.part = "send" /\ fr.proc # "goodbye"
    BY DEF Walk
  <2> HIDE DEF fr
  <2>4. Stacked(stack', closed')
    BY <1>6, <2>1, <2>2, <2>3
  <2>5. Held'
    BY <1>1, <2>1 DEF Held
  <2> QED
    BY <1>4, <2>4, <2>5 DEF TypeInv
<1>9. CASE op.kind = "exchange"
  <2> DEFINE fr == Walk("exchange", op.c, op.len, FALSE, 2)
  <2>1. stack' = <<fr>> /\ UNCHANGED <<room, lists, players, closed, fault>>
    BY <1>9 DEF Call
  <2>2. fr \in Frame
    <3>1. 2 \in 1..Sectors
      BY <1>1, <1>9, CallAssumption
    <3> QED
      BY <1>1, <1>2, <3>1, WalkIsFrame
  <2>3. fr.part = "send" /\ fr.proc # "goodbye"
    BY DEF Walk
  <2> HIDE DEF fr
  <2>4. Stacked(stack', closed')
    BY <1>6, <2>1, <2>2, <2>3
  <2>5. Held'
    BY <1>1, <2>1 DEF Held
  <2> QED
    BY <1>4, <2>4, <2>5 DEF TypeInv
<1>10. CASE op.kind = "unicast"
  <2>1. SendUniCast(op.c, op.len, <<>>)
    BY <1>10 DEF Call
  <2> QED
    BY <1>1, <1>2, <1>4, <1>5, <2>1, SendTypes DEF TypeInv
<1>11. CASE op.kind = "disconnect"
  <2>1. Disconnect(op.c, <<>>)
    BY <1>11 DEF Call
  <2> QED
    BY <1>1, <1>2, <1>4, <1>5, <2>1, DisconnectTypes DEF TypeInv
<1> QED
  BY <1>2, <1>8, <1>9, <1>10, <1>11 DEF Calls, Kind

(* What holds of the call and of its start needs no look at a later step.  *)
LEMMA GivenKept ==
  ASSUME TypeInv, Running, UNCHANGED <<op, room0, lists0>>
  PROVE  Given' /\ Unstarted'
<1>1. op.state # "called"
  BY TopIs
<1> QED
  BY <1>1 DEF TypeInv, Given, Unstarted

(* A walk that ends the process leaves everything as it is.                *)
LEMMA CrashTypes ==
  ASSUME TypeInv, NEW kind \in {"erased_node", "freed_character"}, Crash(kind)
  PROVE  Held' /\ Stacked(stack', closed')
BY DEF TypeInv, Held, Crash

(* A character is told.                                                    *)
LEMMA TypeTell == TypeInv /\ Tell => TypeInv'
<1> SUFFICES ASSUME TypeInv, Tell PROVE TypeInv'
  OBVIOUS
<1>1. /\ Running /\ Top.node # NoNode /\ UNCHANGED <<op, room0, lists0>>
      /\ Held /\ Stacked(stack, closed)
  BY DEF TypeInv, Tell
<1>2. Top \in Frame
  BY <1>1, TopIs
<1>3. Top.node \in Session /\ Top.len \in Nat
  BY <1>1, <1>2 DEF Frame
<1>4. Given' /\ Unstarted'
  BY <1>1, GivenKept
<1>5. Stacked(Then("advance"), closed)
  BY <1>1, <1>3, ThenTypes
<1>6. Stacked(Then(IF Top.proc = "exchange" THEN "answer" ELSE "advance"), closed)
  <2>1. Top.proc = "exchange" => Stacked(Then("answer"), closed)
    BY <1>1, <1>3, ThenTypes
  <2> QED
    BY <1>5, <2>1
<1>7. CASE Crash("freed_character")
  BY <1>4, <1>7, CrashTypes DEF TypeInv
<1>8. CASE stack' = Then("advance") /\ UNCHANGED <<room, lists, players, closed, fault>>
  BY <1>1, <1>4, <1>5, <1>8 DEF TypeInv, Held
<1>9. CASE SendUniCast(Top.node, Top.len, Then(IF Top.proc = "exchange" THEN "answer" ELSE "advance"))
  BY <1>1, <1>3, <1>4, <1>6, <1>9, SendTypes DEF TypeInv
<1> QED
  BY <1>7, <1>8, <1>9 DEF Tell

(* c is told of a character.                                               *)
LEMMA TypeAnswer == TypeInv /\ Answer => TypeInv'
<1> SUFFICES ASSUME TypeInv, Answer PROVE TypeInv'
  OBVIOUS
<1>1. /\ Running /\ Top.part = "answer" /\ UNCHANGED <<op, room0, lists0>>
      /\ Held /\ Stacked(stack, closed) /\ op \in Calls
  BY DEF TypeInv, Answer, Given
<1>2. Top \in Frame /\ Top.node \in Session
  BY <1>1, TopIs DEF Sound
<1>3. Top.c \in Session /\ op.answer[Top.node] \in Nat
  BY <1>1, <1>2, CallAssumption DEF Frame, Calls
<1>4. Given' /\ Unstarted'
  BY <1>1, GivenKept
<1>5. Stacked(Then("advance"), closed)
  BY <1>1, <1>2, ThenTypes
<1>6. CASE Crash("freed_character")
  BY <1>4, <1>6, CrashTypes DEF TypeInv
<1>7. CASE SendUniCast(Top.c, op.answer[Top.node], Then("advance"))
  BY <1>1, <1>3, <1>4, <1>5, <1>7, SendTypes DEF TypeInv
<1> QED
  BY <1>6, <1>7 DEF Answer

(* What comes after an element is an element or the end.                   *)
LEMMA SuccessorIs ==
  ASSUME NEW l \in Seq(Session), Distinct(l), NEW s \in ToSet(l)
  PROVE  Successor(l, s) \in Session \cup {NoNode}
<1>1. PICK k \in 1..Len(l) : s = l[k]
  BY ElementAt
<1>2. Len(l) \in Nat /\ (k # Len(l) => k + 1 \in 1..Len(l))
  BY LenProperties
<1>3. k # Len(l) => l[k + 1] \in Session
  BY <1>2, ElementOfSeq
<1> QED
  BY <1>1, <1>3, PositionIs

(* The walk moves on to the next element.                                  *)
LEMMA TypeAdvance == TypeInv /\ Advance => TypeInv'
<1> SUFFICES ASSUME TypeInv, Advance PROVE TypeInv'
  OBVIOUS
<1>1. /\ Running /\ UNCHANGED <<op, room0, lists0>> /\ Held /\ Stacked(stack, closed)
  BY DEF TypeInv, Advance
<1>2. Top \in Frame /\ Top = stack[1] /\ stack # <<>>
  BY <1>1, TopIs
<1>3. Given' /\ Unstarted'
  BY <1>1, GivenKept
<1>4. CASE Crash("erased_node")
  BY <1>3, <1>4, CrashTypes DEF TypeInv
<1>5. CASE /\ Top.node \in ToSet(lists[Top.sec])
           /\ stack' = <<[Top EXCEPT !.part = "send", !.node = Successor(lists[Top.sec], Top.node)]>>
                        \o Tail(stack)
           /\ UNCHANGED <<room, lists, players, closed, fault>>
  <2> DEFINE next == Successor(lists[Top.sec], Top.node)
             fr == [Top EXCEPT !.part = "send", !.node = next]
  <2>1. lists[Top.sec] \in Seq(Session) /\ Distinct(lists[Top.sec])
    BY <1>1, <1>2 DEF Frame, Held
  <2>2. next \in Session \cup {NoNode}
    BY <1>5, <2>1, SuccessorIs
  <2> HIDE DEF next
  <2>3. /\ fr \in Frame /\ fr.proc = Top.proc /\ fr.len = Top.len /\ fr.me = Top.me
        /\ fr.c = Top.c /\ fr.part = "send"
    BY <1>2, <2>2 DEF Frame
  <2>4. stack' = <<fr>> \o Tail(stack)
    BY <1>5 DEF next
  <2> HIDE DEF fr
  <2>5. Stacked(stack', closed)
    BY <1>1, <1>2, <2>3, <2>4, StackedReplace
  <2> QED
    BY <1>1, <1>3, <1>5, <2>5 DEF TypeInv, Held
<1> QED
  BY <1>4, <1>5 DEF Advance

(* The walk moves on to the next sector.                                   *)
LEMMA TypeNextSector == TypeInv /\ NextSector => TypeInv'
<1> SUFFICES ASSUME TypeInv, NextSector PROVE TypeInv'
  OBVIOUS
<1>1. /\ Running /\ UNCHANGED <<op, room0, lists0>> /\ Held /\ Stacked(stack, closed)
      /\ Top.part = "send" /\ Top.sec < Sectors
      /\ stack' = <<[Top EXCEPT !.sec = @ + 1, !.node = First(lists[Top.sec + 1])]>> \o Tail(stack)
      /\ UNCHANGED <<room, lists, players, closed, fault>>
  BY DEF TypeInv, NextSector
<1>2. Top \in Frame /\ Top = stack[1] /\ stack # <<>>
  BY <1>1, TopIs
<1>3. Given' /\ Unstarted'
  BY <1>1, GivenKept
<1> DEFINE next == First(lists[Top.sec + 1])
           fr == [Top EXCEPT !.sec = @ + 1, !.node = next]
<1>4. Top.sec \in 1..Sectors /\ Top.sec + 1 \in 1..Sectors
  BY <1>1, <1>2, CallAssumption DEF Frame
<1>5. next \in Session \cup {NoNode}
  <2>1. lists[Top.sec + 1] \in Seq(Session)
    BY <1>1, <1>4 DEF Held
  <2> QED
    BY <2>1, FirstIs
<1>6. stack' = <<fr>> \o Tail(stack)
  BY <1>1
<1> HIDE DEF next
<1>7. /\ fr \in Frame /\ fr.proc = Top.proc /\ fr.len = Top.len /\ fr.me = Top.me
      /\ fr.c = Top.c /\ fr.part = "send"
  BY <1>1, <1>2, <1>4, <1>5 DEF Frame
<1> HIDE DEF fr
<1>8. Stacked(stack', closed)
  BY <1>1, <1>2, <1>6, <1>7, StackedReplace
<1> QED
  BY <1>1, <1>3, <1>8 DEF TypeInv, Held

(* The walk is over.                                                       *)
LEMMA TypeReturn == TypeInv /\ Return => TypeInv'
<1> SUFFICES ASSUME TypeInv, Return PROVE TypeInv'
  OBVIOUS
<1>1. /\ Running /\ UNCHANGED <<op, room0, lists0>> /\ Held /\ Stacked(stack, closed)
      /\ stack' = Tail(stack) /\ UNCHANGED <<room, closed, fault>>
  BY DEF TypeInv, Return
<1>2. Given' /\ Unstarted' /\ stack # <<>>
  BY <1>1, GivenKept DEF Running
<1>3. Stacked(stack', closed')
  BY <1>1, <1>2, StackedDrop
<1>4. Held'
  <2>1. CASE UNCHANGED <<lists, players>>
    BY <1>1, <2>1 DEF Held
  <2>2. CASE lists' = Without(Top.c, lists) /\ players' = players \ {Top.c}
    <3>1. \A i \in 1..Sectors : lists[i] \in Seq(Session) /\ Distinct(lists[i])
      BY <1>1 DEF Held
    <3>2. \A i \in 1..Sectors : Erase(lists[i], Top.c) \in Seq(Session) /\ Distinct(Erase(lists[i], Top.c))
      BY <3>1, EraseIs
    <3>3. /\ lists' \in [1..Sectors -> Seq(Session)]
          /\ \A i \in 1..Sectors : Distinct(lists'[i])
      BY <2>2, <3>2 DEF Without
    <3> QED
      BY <1>1, <2>2, <3>3 DEF Held
  <2> QED
    BY <2>1, <2>2 DEF Return
<1> QED
  BY <1>2, <1>3, <1>4 DEF TypeInv

(* The types hold for as long as the call runs.                            *)
THEOREM TypesHold == Spec => []TypeInv
<1>1. ASSUME TypeInv, UNCHANGED vars PROVE TypeInv'
  BY <1>1 DEF TypeInv, Given, Held, Unstarted, vars
<1>2. TypeInv /\ [Next]_vars => TypeInv'
  BY <1>1, TypeCall, TypeTell, TypeAnswer, TypeAdvance, TypeNextSector, TypeReturn DEF Next
<1> QED
  BY <1>2, TypeInit, PTL DEF Spec

(* Every variable keeps a value of its kind, no SendQ is overfilled and    *)
(* the stack does not outgrow its room, whatever the call meets.           *)
THEOREM TypeCorrect == Spec => []TypeOK
<1>1. TypeInv => TypeOK
  BY DEF TypeInv, Held, Stacked, TypeOK
<1> QED
  BY <1>1, TypesHold, PTL

-----------------------------------------------------------------------------
(* The stack overflows only by a session without room for its own          *)
(* deletion, if it has room for one call per session.                      *)

(* Fewer bytes free, and no more deletions.                                *)
LEMMA TwiceLess ==
  ASSUME NEW t \in Seq(Frame), NEW rm \in [Session -> 0..MaxRoom], NEW rn \in [Session -> 0..MaxRoom],
         \A s \in Session : rn[s] <= rm[s], TwiceIsFull(t, rm)
  PROVE  TwiceIsFull(t, rn)
<1> SUFFICES ASSUME NEW i \in 1..Len(t), NEW j \in 1..Len(t), i < j, t[i].proc = "goodbye",
                    t[j].proc = "goodbye", t[i].c = t[j].c
             PROVE  rn[t[i].c] < LenDelete
  BY DEF TwiceIsFull
<1>1. t[i] \in Frame
  BY ElementOfSeq
<1>2. t[i].c \in Session
  BY <1>1 DEF Frame
<1>3. rm[t[i].c] < LenDelete
  BY DEF TwiceIsFull
<1>4. rn[t[i].c] <= rm[t[i].c] /\ rn[t[i].c] \in 0..MaxRoom /\ rm[t[i].c] \in 0..MaxRoom
  BY <1>2
<1> QED
  BY <1>3, <1>4, CallAssumption

(* A deletion above a deletion is that of a session without room.          *)
LEMMA TwicePush ==
  ASSUME NEW t, NEW cl, Stacked(t, cl), NEW rm, TwiceIsFull(t, rm), NEW fr \in Frame,
         t # <<>> /\ t[1].proc = "goodbye" => rm[fr.c] < LenDelete
  PROVE  TwiceIsFull(<<fr>> \o t, rm)
<1> DEFINE u == <<fr>> \o t
<1>1. t \in Seq(Frame) /\ Len(t) \in Nat /\ \A i \in 1..Len(t) : Sound(t, cl, i)
  BY LenProperties DEF Stacked
<1>2. /\ Len(u) = Len(t) + 1 /\ u[1] = fr
      /\ \A i \in 1..Len(t) + 1 : i # 1 => u[i] = t[i - 1]
  BY <1>1, PushTop
<1> HIDE DEF u
<1> SUFFICES ASSUME NEW i \in 1..Len(u), NEW j \in 1..Len(u), i < j, u[i].proc = "goodbye",
                    u[j].proc = "goodbye", u[i].c = u[j].c
             PROVE  rm[u[i].c] < LenDelete
  BY DEF TwiceIsFull, u
<1>3. j - 1 \in 1..Len(t) /\ u[j] = t[j - 1]
  BY <1>1, <1>2
<1>4. CASE i = 1
  <2>1. t # <<>> /\ 1 \in 1..Len(t)
    BY <1>1, <1>3, EmptySeq
  <2>2. t[1].proc = "goodbye"
    <3>1. t[1].proc # "goodbye" => 1 = Len(t)
      BY <1>1, <2>1 DEF Sound
    <3>2. \A n \in Nat, k \in Nat : k \in 1..n /\ 1 = n => k = 1
      OBVIOUS
    <3>3. j - 1 \in Nat
      BY <1>1, <1>3
    <3>4. 1 = Len(t) => j - 1 = 1
      BY <1>1, <1>3, <3>2, <3>3
    <3> QED
      BY <1>3, <3>1, <3>4
  <2> QED
    BY <1>2, <1>4, <2>1, <2>2
<1>5. CASE i # 1
  <2>1. i - 1 \in 1..Len(t) /\ u[i] = t[i - 1] /\ i - 1 < j - 1
    BY <1>1, <1>2, <1>5
  <2> QED
    BY <1>3, <2>1 DEF TwiceIsFull
<1> QED
  BY <1>4, <1>5

(* A step of the innermost walk changes no deletion.                       *)
LEMMA TwiceReplace ==
  ASSUME NEW t \in Seq(Frame), t # <<>>, NEW rm, TwiceIsFull(t, rm), NEW fr \in Frame,
         fr.proc = t[1].proc, fr.c = t[1].c
  PROVE  TwiceIsFull(<<fr>> \o Tail(t), rm)
<1> DEFINE u == <<fr>> \o Tail(t)
<1>1. /\ Len(u) = Len(t) /\ u[1] = fr
      /\ \A i \in 1..Len(t) : i # 1 => u[i] = t[i]
  BY ReplaceTop
<1> HIDE DEF u
<1>2. \A i \in 1..Len(u) : i \in 1..Len(t) /\ u[i].proc = t[i].proc /\ u[i].c = t[i].c
  <2> TAKE i \in 1..Len(u)
  <2>1. i \in 1..Len(t) /\ (i # 1 => u[i] = t[i])
    BY <1>1
  <2> QED
    BY <1>1, <2>1
<1> QED
  BY <1>1, <1>2 DEF TwiceIsFull, u

(* The end of a walk leaves the others.                                    *)
LEMMA TwiceDrop ==
  ASSUME NEW t \in Seq(Frame), t # <<>>, NEW rm, TwiceIsFull(t, rm)
  PROVE  TwiceIsFull(Tail(t), rm)
<1> DEFINE u == Tail(t)
<1>1. /\ Len(t) \in Nat \ {0} /\ Len(u) = Len(t) - 1
      /\ \A i \in 1..Len(t) - 1 : u[i] = t[i + 1]
  BY DropTop
<1> HIDE DEF u
<1>2. \A i \in 1..Len(u) : i + 1 \in 1..Len(t) /\ u[i] = t[i + 1]
  BY <1>1
<1>3. \A i, j \in 1..Len(u) : i < j => i + 1 < j + 1
  BY <1>1
<1> QED
  BY <1>2, <1>3 DEF TwiceIsFull, u

(* More calls than sessions: one of them is there twice.                   *)
LEMMA FullStack ==
  ASSUME MaxDepth > Cardinality(Session), NEW t, NEW cl, Stacked(t, cl), Len(t) = MaxDepth,
         NEW rm, TwiceIsFull(t, rm), NEW s \in Session,
         t[1].proc = "goodbye" => rm[s] < LenDelete
  PROVE  \E x \in cl \cup {s} : rm[x] < LenDelete
<1>1. t \in Seq(Frame) /\ \A i \in 1..MaxDepth : Sound(t, cl, i)
  BY DEF Stacked
<1>2. \A i \in 1..MaxDepth : t[i] \in Frame
  BY <1>1, ElementOfSeq
<1> DEFINE f == [i \in 1..MaxDepth |-> IF t[i].proc = "goodbye" THEN t[i].c ELSE s]
<1>3. f \in [1..MaxDepth -> Session]
  BY <1>2 DEF Frame
<1>4. IsFiniteSet(1..MaxDepth) /\ Cardinality(1..MaxDepth) = MaxDepth
  <2>1. 1 \in Int /\ MaxDepth \in Int /\ ~(1 > MaxDepth) /\ MaxDepth - 1 + 1 = MaxDepth
    BY CallAssumption
  <2> QED
    BY <2>1, FS_Interval
<1>5. \E i, j \in 1..MaxDepth : i # j /\ f[i] = f[j]
  <2>1. Cardinality(Session) < Cardinality(1..MaxDepth)
    BY <1>4, CallAssumption, FS_CardinalityType
  <2> HIDE DEF f
  <2> QED
    BY <1>3, <1>4, <2>1, CallAssumption, FS_PigeonHole
<1>6. PICK i \in 1..MaxDepth, j \in 1..MaxDepth : i < j /\ f[i] = f[j]
  <2> HIDE DEF f
  <2>1. PICK i \in 1..MaxDepth, j \in 1..MaxDepth : i # j /\ f[i] = f[j]
    BY <1>5
  <2>2. i < j \/ j < i
    BY <2>1
  <2> QED
    BY <2>1, <2>2
<1>7. i # MaxDepth /\ 1 # MaxDepth /\ 1 \in 1..MaxDepth
  BY <1>6, CallAssumption
<1>8. t[i].proc = "goodbye" /\ t[1].proc = "goodbye" /\ t[i].c \in cl
  BY <1>1, <1>7 DEF Sound
<1>9. f[i] = t[i].c
  BY <1>8
<1>10. CASE t[j].proc = "goodbye"
  <2>1. f[j] = t[j].c
    BY <1>10
  <2>2. t[i].c = t[j].c
    BY <1>6, <1>9, <2>1
  <2>3. rm[t[i].c] < LenDelete
    BY <1>6, <1>8, <1>10, <2>2 DEF TwiceIsFull
  <2> QED
    BY <1>8, <2>3
<1>11. CASE t[j].proc # "goodbye"
  BY <1>8
<1> QED
  BY <1>10, <1>11

(* Disconnect of a session without room, if a deletion is under way.       *)
LEMMA FullDisconnect ==
  ASSUME MaxDepth > Cardinality(Session), NEW s \in Session, NEW below, Stacked(below, closed), Held,
         TwiceIsFull(below, room), fault = "none", Disconnect(s, below),
         below # <<>> /\ below[1].proc = "goodbye" => room[s] < LenDelete
  PROVE  FullInv'
<1>1. below \in Seq(Frame) /\ room' = room /\ closed' = closed \cup {s}
  BY DEF Stacked, Disconnect
<1>2. CASE stack' = below /\ fault' = fault
  BY <1>1, <1>2 DEF FullInv, StackOnlyBySelf
<1>3. CASE Len(below) = MaxDepth /\ stack' = below /\ fault' = "stack_overflow"
  <2>1. below # <<>>
    BY <1>3, CallAssumption
  <2>2. \E x \in closed \cup {s} : room[x] < LenDelete
    BY <1>3, <2>1, FullStack
  <2> QED
    BY <1>1, <1>3, <2>2 DEF FullInv, StackOnlyBySelf
<1>4. CASE stack' = <<Goodbye(s)>> \o below /\ fault' = fault
  <2>1. LenDelete \in Nat /\ 1 \in 1..Sectors
    BY CallAssumption
  <2>2. Goodbye(s) \in Frame /\ Goodbye(s).c = s
    BY <2>1, WalkIsFrame DEF Goodbye, Walk
  <2>3. TwiceIsFull(stack', room)
    BY <1>4, <2>2, TwicePush
  <2> QED
    BY <1>1, <1>4, <2>3 DEF FullInv, StackOnlyBySelf
<1> QED
  BY <1>2, <1>3, <1>4 DEF Disconnect

(* SendUniCast, whose message is a deletion if one is under way.           *)
LEMMA FullSend ==
  ASSUME MaxDepth > Cardinality(Session), NEW s \in Session, NEW len \in Nat, NEW below,
         Stacked(below, closed), Held, TwiceIsFull(below, room), fault = "none",
         SendUniCast(s, len, below), below # <<>> /\ below[1].proc = "goodbye" => len = LenDelete
  PROVE  FullInv'
<1>1. CASE /\ len <= room[s] /\ room' = [room EXCEPT ![s] = @ - len]
           /\ stack' = below /\ UNCHANGED <<lists, players, closed, fault>>
  <2>1. room' \in [Session -> 0..MaxRoom] /\ room \in [Session -> 0..MaxRoom]
    BY <1>1, SendTypes DEF Held
  <2>2. \A x \in Session : room'[x] <= room[x]
    BY <1>1, <2>1, CallAssumption
  <2>3. below \in Seq(Frame)
    BY DEF Stacked
  <2>4. TwiceIsFull(below, room')
    BY <2>1, <2>2, <2>3, TwiceLess
  <2> QED
    BY <1>1, <2>4 DEF FullInv, StackOnlyBySelf
<1>2. CASE len > room[s] /\ Disconnect(s, below)
  <2>1. room[s] \in 0..MaxRoom
    BY DEF Held
  <2>2. below # <<>> /\ below[1].proc = "goodbye" => room[s] < LenDelete
    BY <1>2, <2>1, CallAssumption
  <2> QED
    BY <1>2, <2>2, FullDisconnect
<1> QED
  BY <1>1, <1>2 DEF SendUniCast

(* The innermost walk in its next part, with the same deletions.           *)
LEMMA ThenIs ==
  ASSUME TypeInv, Running, NEW part
  PROVE  /\ Then(part) = <<[Top EXCEPT !.part = part]>> \o Tail(stack)
         /\ part \in {"send", "answer", "advance"} =>
              /\ Then(part) \in Seq(Frame) /\ Len(Then(part)) = Len(stack) /\ Then(part) # <<>>
              /\ Then(part)[1] = [Top EXCEPT !.part = part]
              /\ Then(part)[1] \in Frame
              /\ Then(part)[1].proc = Top.proc /\ Then(part)[1].c = Top.c
              /\ Then(part)[1].len = Top.len /\ Then(part)[1].me = Top.me
              /\ Then(part)[1].sec = Top.sec /\ Then(part)[1].node = Top.node
              /\ Then(part)[1].part = part
              /\ \A i \in 1..Len(stack) : i # 1 => Then(part)[i] = stack[i]
              /\ TwiceIsFull(stack, room) => TwiceIsFull(Then(part), room)
<1> DEFINE fr == [Top EXCEPT !.part = part]
<1>1. /\ Top = stack[1] /\ Top \in Frame /\ stack \in Seq(Frame) /\ stack # <<>>
      /\ 1 \in 1..Len(stack)
  BY TopIs
<1>2. Then(part) = <<fr>> \o Tail(stack)
  BY DEF Then
<1>3. CASE part \in {"send", "answer", "advance"}
  <2>1. /\ fr \in Frame /\ fr.proc = Top.proc /\ fr.c = Top.c /\ fr.len = Top.len
        /\ fr.me = Top.me /\ fr.sec = Top.sec /\ fr.node = Top.node /\ fr.part = part
    BY <1>1, <1>3 DEF Frame
  <2> DEFINE u == <<fr>> \o Tail(stack)
  <2> HIDE DEF fr
  <2>2. /\ u \in Seq(Frame) /\ Len(u) = Len(stack) /\ u[1] = fr
        /\ \A i \in 1..Len(stack) : i # 1 => u[i] = stack[i]
    BY <1>1, <2>1, ReplaceTop
  <2>3. TwiceIsFull(stack, room) => TwiceIsFull(u, room)
    BY <1>1, <2>1, TwiceReplace
  <2> HIDE DEF u
  <2>4. u # <<>>
    BY <1>1, <2>2, EmptySeq
  <2>5. Then(part) = u
    BY <1>2 DEF u
  <2> QED
    BY <1>2, <2>1, <2>2, <2>3, <2>4, <2>5 DEF fr
<1> QED
  BY <1>2, <1>3

(* No deletion at the start.                                               *)
LEMMA FullInit == Init => FullInv
<1> SUFFICES ASSUME Init PROVE FullInv
  OBVIOUS
<1>1. stack = <<>> /\ fault = "none"
  BY DEF Init
<1> QED
  BY <1>1 DEF FullInv, TwiceIsFull, StackOnlyBySelf

(* A step that leaves room and fault and no new deletion.                  *)
LEMMA FullKept ==
  ASSUME TwiceIsFull(stack', room), room' = room, fault' # "stack_overflow"
  PROVE  FullInv'
BY DEF FullInv, StackOnlyBySelf

(* The call the handler makes.                                             *)
LEMMA FullCall ==
  ASSUME MaxDepth > Cardinality(Session), TypeInv, FullInv, Call
  PROVE  FullInv'
<1>1. /\ Held /\ stack = <<>> /\ op \in Calls /\ Stacked(<<>>, closed) /\ fault = "none"
      /\ TwiceIsFull(<<>>, room)
  BY DEF TypeInv, Given, Unstarted, Call, FullInv
<1>2. op.c \in Session /\ op.len \in Nat
  BY <1>1, CallAssumption DEF Calls
<1>3. ASSUME NEW fr, stack' = <<fr>>, UNCHANGED <<room, fault>> PROVE FullInv'
  <2>1. Len(stack') = 1
    BY <1>3
  <2>2. TwiceIsFull(stack', room)
    BY <2>1 DEF TwiceIsFull
  <2> QED
    BY <1>1, <1>3, <2>2, FullKept
<1>4. CASE op.kind \in {"around", "aroundMe"}
  <2>1. PICK fr : stack' = <<fr>> /\ UNCHANGED <<room, fault>>
    BY <1>4 DEF Call
  <2> QED
    BY <1>3, <2>1
<1>5. CASE op.kind = "exchange"
  <2>1. PICK fr : stack' = <<fr>> /\ UNCHANGED <<room, fault>>
    BY <1>5 DEF Call
  <2> QED
    BY <1>3, <2>1
<1>6. CASE op.kind = "unicast"
  <2>1. SendUniCast(op.c, op.len, <<>>)
    BY <1>6 DEF Call
  <2> QED
    BY <1>1, <1>2, <2>1, FullSend
<1>7. CASE op.kind = "disconnect"
  <2>1. Disconnect(op.c, <<>>)
    BY <1>7 DEF Call
  <2> QED
    BY <1>1, <1>2, <2>1, FullDisconnect
<1> QED
  BY <1>1, <1>4, <1>5, <1>6, <1>7 DEF Calls, Kind

(* A step of the innermost walk; only Tell and Answer send.                *)
LEMMA FullRunning ==
  ASSUME MaxDepth > Cardinality(Session), TypeInv, FullInv,
         Tell \/ Answer \/ Advance \/ NextSector \/ Return
  PROVE  FullInv'
<1>1. /\ Running /\ fault = "none" /\ Held /\ Stacked(stack, closed) /\ op \in Calls
      /\ TwiceIsFull(stack, room)
  BY DEF TypeInv, Given, FullInv, Tell, Answer, Advance, NextSector, Return, Running
<1>2. /\ Top = stack[1] /\ Top \in Frame /\ Sound(stack, closed, 1)
      /\ stack \in Seq(Frame) /\ stack # <<>>
  BY <1>1, TopIs
<1>3. ASSUME NEW kind \in {"erased_node", "freed_character"}, Crash(kind) PROVE FullInv'
  BY <1>1, <1>3, FullKept DEF Crash
<1>4. ASSUME NEW fr, fr.proc = Top.proc, fr.c = Top.c, fr \in Frame,
             stack' = <<fr>> \o Tail(stack), UNCHANGED <<room, fault>>
      PROVE  FullInv'
  <2>1. TwiceIsFull(stack', room)
    BY <1>1, <1>2, <1>4, TwiceReplace
  <2> QED
    BY <1>1, <1>4, <2>1, FullKept
<1>5. CASE Tell
  <2> DEFINE part == IF Top.proc = "exchange" THEN "answer" ELSE "advance"
  <2>1. Top.node \in Session /\ Top.len \in Nat /\ part \in {"send", "answer", "advance"}
    BY <1>2, <1>5 DEF Tell, Frame
  <2>2. /\ TwiceIsFull(Then(part), room) /\ Then(part)[1].proc = Top.proc
        /\ TwiceIsFull(Then("advance"), room)
    BY <1>1, <2>1, ThenIs
  <2>3. Stacked(Then(part), closed)
    <3>1. part \in {"answer", "advance"} /\ (part = "answer" => Top.proc = "exchange")
      OBVIOUS
    <3> HIDE DEF part
    <3> QED
      BY <1>1, <2>1, <3>1, ThenTypes
  <2>4. Then(part)[1].proc = "goodbye" => Top.len = LenDelete
    BY <1>2, <2>2 DEF Sound
  <2>5. CASE Crash("freed_character")
    BY <1>3, <2>5
  <2>6. CASE stack' = Then("advance") /\ UNCHANGED <<room, lists, players, closed, fault>>
    BY <1>1, <2>2, <2>6, FullKept
  <2>7. CASE SendUniCast(Top.node, Top.len, Then(part))
    <3> HIDE DEF part
    <3> QED
      BY <1>1, <2>1, <2>2, <2>3, <2>4, <2>7, FullSend
  <2> QED
    BY <1>5, <2>5, <2>6, <2>7 DEF Tell
<1>6. CASE Answer
  <2>1. Top.part = "answer" /\ Top.proc = "exchange" /\ Top.node \in Session
    BY <1>2, <1>6 DEF Answer, Sound
  <2>2. Top.c \in Session /\ op.answer[Top.node] \in Nat
    BY <1>1, <1>2, <2>1, CallAssumption DEF Frame, Calls
  <2>3. TwiceIsFull(Then("advance"), room) /\ Then("advance")[1].proc # "goodbye"
    BY <1>1, <2>1, ThenIs
  <2>4. Stacked(Then("advance"), closed)
    BY <1>1, <2>1, ThenTypes
  <2>5. CASE Crash("freed_character")
    BY <1>3, <2>5
  <2>6. CASE SendUniCast(Top.c, op.answer[Top.node], Then("advance"))
    BY <1>1, <2>2, <2>3, <2>4, <2>6, FullSend
  <2> QED
    BY <1>6, <2>5, <2>6 DEF Answer
<1>7. CASE Advance
  <2>1. CASE Crash("erased_node")
    BY <1>3, <2>1
  <2>2. CASE /\ Top.node \in ToSet(lists[Top.sec])
             /\ stack' = <<[Top EXCEPT !.part = "send", !.node = Successor(lists[Top.sec], Top.node)]>>
                          \o Tail(stack)
             /\ UNCHANGED <<room, lists, players, closed, fault>>
    <3> DEFINE next == Successor(lists[Top.sec], Top.node)
               fr == [Top EXCEPT !.part = "send", !.node = next]
    <3>1. next \in Session \cup {NoNode}
      BY <1>1, <1>2, <2>2, SuccessorIs DEF Held, Frame
    <3> HIDE DEF next
    <3>2. fr \in Frame /\ fr.proc = Top.proc /\ fr.c = Top.c
      BY <1>2, <3>1 DEF Frame
    <3>3. stack' = <<fr>> \o Tail(stack) /\ UNCHANGED <<room, fault>>
      BY <2>2 DEF next
    <3> HIDE DEF fr
    <3> QED
      BY <1>4, <3>2, <3>3
  <2> QED
    BY <1>7, <2>1, <2>2 DEF Advance
<1>8. CASE NextSector
  <2> DEFINE next == First(lists[Top.sec + 1])
             fr == [Top EXCEPT !.sec = @ + 1, !.node = next]
  <2>1. Top.sec + 1 \in 1..Sectors
    BY <1>2, <1>8, CallAssumption DEF NextSector, Frame
  <2>2. next \in Session \cup {NoNode}
    BY <1>1, <2>1, FirstIs DEF Held
  <2>3. stack' = <<fr>> \o Tail(stack) /\ UNCHANGED <<room, fault>>
    BY <1>8 DEF NextSector
  <2> HIDE DEF next
  <2>4. fr \in Frame /\ fr.proc = Top.proc /\ fr.c = Top.c
    BY <1>2, <2>1, <2>2 DEF Frame
  <2> HIDE DEF fr
  <2> QED
    BY <1>4, <2>3, <2>4
<1>9. CASE Return
  <2>1. stack' = Tail(stack) /\ UNCHANGED <<room, fault>>
    BY <1>9 DEF Return
  <2>2. TwiceIsFull(stack', room)
    BY <1>1, <1>2, <2>1, TwiceDrop
  <2> QED
    BY <1>1, <2>1, <2>2, FullKept
<1> QED
  BY <1>5, <1>6, <1>7, <1>8, <1>9

(* The recursion of Disconnect, SendAround and SendUniCast outgrows a      *)
(* stack that has room for one call per session only by a session that has *)
(* no room for its own deletion and is disconnected again and again.       *)
THEOREM StackNeedsFullQueue ==
  ASSUME MaxDepth > Cardinality(Session)
  PROVE  Spec => []StackOnlyBySelf
<1>1. ASSUME FullInv, UNCHANGED vars PROVE FullInv'
  BY <1>1 DEF FullInv, StackOnlyBySelf, vars
<1>2. TypeInv /\ FullInv /\ [Next]_vars => FullInv'
  BY <1>1, FullCall, FullRunning DEF Next
<1>3. FullInv => StackOnlyBySelf
  BY DEF FullInv
<1> QED
  BY <1>2, <1>3, FullInit, TypesHold, PTL DEF Spec

-----------------------------------------------------------------------------
(* How a walk goes over lists that do not change.                          *)

(* No session is in two places.                                            *)
LEMMA OnePlace ==
  ASSUME NEW L, Placed(L), NEW i \in 1..Sectors, NEW j \in 1..Sectors,
         NEW a \in 1..Len(L[i]), NEW b \in 1..Len(L[j]), L[i][a] = L[j][b]
  PROVE  i = j /\ a = b
<1>1. L[i] \in Seq(Session) /\ L[j] \in Seq(Session)
  BY DEF Placed
<1>2. L[i][a] \in ToSet(L[i]) /\ L[j][b] \in ToSet(L[j])
  BY <1>1, ElementAt
<1>3. i = j
  BY <1>2 DEF Placed
<1> QED
  BY <1>3 DEF Placed, Distinct

(* A walk in another part is where it was.                                 *)
LEMMA ProgressSame ==
  ASSUME NEW L, NEW from, NEW fr, NEW H, Progress(L, from, fr, H),
         NEW fn, fn.sec = fr.sec, fn.node = fr.node
  PROVE  Progress(L, from, fn, H)
BY DEF Progress, IsAt

(* At the start nobody is passed.                                          *)
LEMMA ProgressBegin ==
  ASSUME NEW L, Placed(L), NEW from \in 1..Sectors, NEW fr, fr.sec = from, fr.node = First(L[from])
  PROVE  Progress(L, from, fr, {})
<1>1. L[from] \in Seq(Session) /\ from \in from..Sectors
  BY CallAssumption DEF Placed
<1>2. Len(L[from]) \in Nat /\ (L[from] = <<>> <=> Len(L[from]) = 0)
  BY <1>1, LenProperties, EmptySeq
<1>3. IsAt(L, fr, 1)
  BY <1>2 DEF IsAt, First
<1>4. Passed(L, from, from, 1) = {}
  <2>1. \A i \in from..from : i = from
    BY CallAssumption
  <2>2. \A j \in Nat \ {0} : ~(j < 1)
    OBVIOUS
  <2> QED
    BY <2>1, <2>2 DEF Passed
<1> QED
  BY <1>1, <1>3, <1>4 DEF Progress

Spot(L, from, fr, H, k) ==
  /\ fr.sec \in from..Sectors /\ fr.sec \in 1..Sectors
  /\ L[fr.sec] \in Seq(Session) /\ Distinct(L[fr.sec]) /\ Len(L[fr.sec]) \in Nat
  /\ H = Passed(L, from, fr.sec, k)
  /\ fr.node \in Session => k \in 1..Len(L[fr.sec]) /\ fr.node = L[fr.sec][k]
  /\ fr.node = NoNode => k = Len(L[fr.sec]) + 1

(* Where a walk is.                                                        *)
LEMMA ProgressAt ==
  ASSUME NEW L, Placed(L), NEW from \in 1..Sectors, NEW fr, NEW H, Progress(L, from, fr, H)
  PROVE  \E k \in Nat : Spot(L, from, fr, H, k)
<1>1. fr.sec \in from..Sectors /\ fr.sec \in 1..Sectors
  BY CallAssumption DEF Progress
<1>2. L[fr.sec] \in Seq(Session) /\ Distinct(L[fr.sec]) /\ Len(L[fr.sec]) \in Nat
  BY <1>1, LenProperties DEF Placed
<1>3. PICK k \in Nat : IsAt(L, fr, k) /\ H = Passed(L, from, fr.sec, k)
  BY DEF Progress
<1> DEFINE n == Len(L[fr.sec])
<1>4. \A j \in 1..n : L[fr.sec][j] \in Session
  BY <1>2, ElementOfSeq
<1>5. k \in 1..n + 1
  BY <1>3 DEF IsAt
<1>6. CASE k \in 1..n
  <2>1. fr.node = L[fr.sec][k]
    BY <1>2, <1>3, <1>6 DEF IsAt
  <2>2. fr.node # NoNode
    BY <1>4, <1>6, <2>1, CallAssumption
  <2> QED
    BY <1>1, <1>2, <1>3, <1>6, <2>1, <2>2 DEF Spot
<1>7. CASE k = n + 1
  <2>1. fr.node = NoNode
    BY <1>2, <1>3, <1>7 DEF IsAt
  <2> QED
    BY <1>1, <1>2, <1>3, <1>7, <2>1, CallAssumption DEF Spot
<1>8. k \in 1..n \/ k = n + 1
  BY <1>2, <1>5
<1> QED
  BY <1>6, <1>7, <1>8

(* The element a walk is on is in the list and not yet passed.             *)
LEMMA ProgressHere ==
  ASSUME NEW L, Placed(L), NEW from \in 1..Sectors, NEW fr, NEW H, Progress(L, from, fr, H),
         fr.node \in Session
  PROVE  fr.node \in ToSet(L[fr.sec]) /\ fr.node \notin H
<1> DEFINE sec == fr.sec  n == Len(L[sec])
<1>1. PICK k \in Nat : Spot(L, from, fr, H, k)
  BY ProgressAt
<1>2. /\ sec \in from..Sectors /\ sec \in 1..Sectors /\ L[sec] \in Seq(Session) /\ n \in Nat
      /\ k \in 1..n /\ fr.node = L[sec][k] /\ H = Passed(L, from, sec, k)
  BY <1>1 DEF Spot
<1>3. fr.node \in ToSet(L[sec])
  BY <1>2, ElementAt
<1>4. ASSUME NEW i \in from..sec, NEW j \in Nat \ {0}, j <= Len(L[i]), fr.node = L[i][j], i = sec => j < k
      PROVE  FALSE
  <2>1. i \in 1..Sectors
    BY <1>2, CallAssumption
  <2>2. Len(L[i]) \in Nat
    BY <2>1, LenProperties DEF Placed
  <2>3. j \in 1..Len(L[i])
    BY <1>4, <2>2
  <2>4. i = sec /\ j = k
    <3>1. L[i][j] = L[sec][k]
      BY <1>2, <1>4
    <3> QED
      BY <1>2, <2>1, <2>3, <3>1, OnePlace
  <2> QED
    BY <1>4, <2>4
<1> QED
  BY <1>2, <1>3, <1>4 DEF Passed

(* ++it passes the element.                                                *)
LEMMA ProgressAdvance ==
  ASSUME NEW L, Placed(L), NEW from \in 1..Sectors, NEW fr, NEW H, Progress(L, from, fr, H),
         fr.node \in Session, NEW fn, fn.sec = fr.sec, fn.node = Successor(L[fr.sec], fr.node)
  PROVE  Progress(L, from, fn, H \cup {fr.node})
<1> DEFINE sec == fr.sec  n == Len(L[sec])
<1>1. PICK k \in Nat : Spot(L, from, fr, H, k)
  BY ProgressAt
<1>2. /\ sec \in from..Sectors /\ sec \in 1..Sectors
      /\ L[sec] \in Seq(Session) /\ Distinct(L[sec]) /\ n \in Nat
      /\ k \in 1..n /\ fr.node = L[sec][k] /\ H = Passed(L, from, sec, k)
  BY <1>1 DEF Spot
<1>3. /\ k = n => fn.node = NoNode
      /\ k # n => fn.node = L[sec][k + 1]
  BY <1>2, PositionIs
<1>4. IsAt(L, fn, k + 1)
  BY <1>2, <1>3 DEF IsAt
<1>5. Passed(L, from, sec, k + 1) = H \cup {fr.node}
  <2>1. \A j \in Nat \ {0} : j < k + 1 <=> j < k \/ j = k
    BY <1>2
  <2>2. k \in Nat \ {0} /\ k <= Len(L[sec]) /\ sec \in from..sec /\ k < k + 1
    BY <1>2, CallAssumption
  <2>3. H \cup {fr.node} \subseteq Passed(L, from, sec, k + 1)
    BY <1>2, <2>1, <2>2 DEF Passed
  <2>4. ASSUME NEW s \in Passed(L, from, sec, k + 1) PROVE s \in H \cup {fr.node}
    <3>1. PICK i \in from..sec, j \in Nat \ {0} : j <= Len(L[i]) /\ s = L[i][j] /\ (i = sec => j < k + 1)
      BY <2>4 DEF Passed
    <3>2. CASE i = sec /\ j = k
      BY <1>2, <3>1, <3>2
    <3>3. CASE ~(i = sec /\ j = k)
      <4>1. i = sec => j < k
        BY <2>1, <3>1, <3>3
      <4> QED
        BY <1>2, <2>4, <3>1, <4>1 DEF Passed
    <3> QED
      BY <3>2, <3>3
  <2> QED
    BY <2>3, <2>4
<1>6. k + 1 \in Nat
  BY <1>2
<1> QED
  BY <1>2, <1>4, <1>5, <1>6 DEF Progress

(* The next sector passes nobody.                                          *)
LEMMA ProgressNext ==
  ASSUME NEW L, Placed(L), NEW from \in 1..Sectors, NEW fr, NEW H, Progress(L, from, fr, H),
         fr.node = NoNode, fr.sec < Sectors,
         NEW fn, fn.sec = fr.sec + 1, fn.node = First(L[fr.sec + 1])
  PROVE  Progress(L, from, fn, H)
<1> DEFINE sec == fr.sec  n == Len(L[sec])
<1>1. /\ sec \in from..Sectors /\ sec \in 1..Sectors /\ n \in Nat
      /\ H = Passed(L, from, sec, n + 1)
  BY ProgressAt DEF Spot
<1>2. H = Passed(L, from, sec, n + 1)
  BY <1>1
<1>3. sec + 1 \in from..Sectors /\ sec + 1 \in 1..Sectors
  BY <1>1, CallAssumption
<1>4. L[sec + 1] \in Seq(Session)
  BY <1>3 DEF Placed
<1>5. Len(L[sec + 1]) \in Nat /\ (L[sec + 1] = <<>> <=> Len(L[sec + 1]) = 0)
  BY <1>4, LenProperties, EmptySeq
<1>6. IsAt(L, fn, 1)
  BY <1>5 DEF IsAt, First
<1>7. H = Passed(L, from, sec + 1, 1)
  <2>1. \A i \in from..sec : i \in from..sec + 1 /\ i # sec + 1
    BY <1>1, CallAssumption
  <2>2. \A i \in from..sec + 1 : i # sec + 1 => i \in from..sec
    BY <1>1, CallAssumption
  <2>3. \A j \in Nat \ {0} : ~(j < 1) /\ (j <= n => j < n + 1)
    BY <1>1
  <2>4. H \subseteq Passed(L, from, sec + 1, 1)
    BY <1>2, <2>1 DEF Passed
  <2>5. ASSUME NEW s \in Passed(L, from, sec + 1, 1) PROVE s \in Passed(L, from, sec, n + 1)
    <3>1. PICK i \in from..sec + 1, j \in Nat \ {0} : j <= Len(L[i]) /\ s = L[i][j] /\ (i = sec + 1 => j < 1)
      BY <2>5 DEF Passed
    <3>2. i \in from..sec
      BY <2>2, <2>3, <3>1
    <3>3. i = sec => j < n + 1
      BY <2>3, <3>1
    <3> QED
      BY <2>5, <3>1, <3>2, <3>3 DEF Passed
  <2> QED
    BY <1>2, <2>4, <2>5
<1> QED
  BY <1>3, <1>6, <1>7 DEF Progress

(* At the end everyone is passed.                                          *)
LEMMA ProgressEnd ==
  ASSUME NEW L, Placed(L), NEW from \in 1..Sectors, NEW fr, NEW H, Progress(L, from, fr, H),
         fr.node = NoNode, fr.sec = Sectors
  PROVE  H = Scope(L, from)
<1> DEFINE n == Len(L[Sectors])
<1>1. n \in Nat /\ H = Passed(L, from, Sectors, n + 1)
  BY ProgressAt DEF Spot
<1>2. H = Passed(L, from, Sectors, n + 1)
  BY <1>1
<1>3. ASSUME NEW i \in from..Sectors, NEW s
      PROVE  s \in ToSet(L[i]) <=> \E j \in Nat \ {0} : j <= Len(L[i]) /\ s = L[i][j] /\ (i = Sectors => j < n + 1)
  <2>1. i \in 1..Sectors
    BY CallAssumption
  <2>2. L[i] \in Seq(Session) /\ Len(L[i]) \in Nat
    BY <2>1, LenProperties DEF Placed
  <2>3. s \in ToSet(L[i]) <=> \E j \in 1..Len(L[i]) : s = L[i][j]
    BY <2>2, ElementAt
  <2>4. \A j : j \in 1..Len(L[i]) <=> j \in Nat \ {0} /\ j <= Len(L[i])
    BY <2>2
  <2>5. \A j \in Nat \ {0} : i = Sectors /\ j <= Len(L[i]) => j < n + 1
    BY <1>1
  <2> QED
    BY <2>3, <2>4, <2>5
<1> QED
  BY <1>2, <1>3 DEF Passed, Scope

-----------------------------------------------------------------------------
(* Whom a call is about.                                                   *)

(* A broadcast is for everyone, an exchange for everyone but c's sector.   *)
LEMMA ScopeIs ==
  ASSUME Given
  PROVE  /\ Scope(lists0, 1) = Session /\ Scope(lists0, 2) = Met
         /\ Met \subseteq Session /\ op.c \notin Met /\ op.c \in Session
<1>1. /\ Placed(lists0) /\ op.c \in ToSet(lists0[1]) /\ op.c \in Session
  BY DEF Given, Calls
<1>2. \A i \in 2..Sectors : i \in 1..Sectors /\ i # 1
  OBVIOUS
<1>3. UNION {ToSet(lists0[i]) : i \in 1..Sectors} = Session /\ 1 \in 1..Sectors
  BY <1>1, CallAssumption DEF Placed
<1>4. Scope(lists0, 1) = Session
  BY <1>3 DEF Scope
<1>5. \A i \in 2..Sectors : ToSet(lists0[i]) \subseteq Session /\ op.c \notin ToSet(lists0[i])
  BY <1>1, <1>2, <1>3 DEF Placed
<1> QED
  BY <1>1, <1>4, <1>5 DEF Scope, Met

(* If there is anyone to meet, there is a last one.                        *)
LEMMA LastMetIs ==
  ASSUME Given, Met # {}
  PROVE  LastMet \in Met /\ IsLastMet(LastMet)
<1> DEFINE full == {i \in 2..Sectors : lists0[i] # <<>>}
           T == {i..Sectors : i \in full}
<1>1. \A i \in 2..Sectors : i \in 1..Sectors
  OBVIOUS
<1>2. \A i \in 2..Sectors : /\ lists0[i] \in Seq(Session) /\ Len(lists0[i]) \in Nat
                            /\ (lists0[i] = <<>> <=> Len(lists0[i]) = 0)
  BY <1>1, LenProperties, EmptySeq DEF Given, Placed
<1>3. full # {}
  <2>1. PICK i \in 2..Sectors : \E s : s \in ToSet(lists0[i])
    BY DEF Met
  <2>2. \E k \in 1..Len(lists0[i]) : TRUE
    BY <1>2, <2>1, ElementAt
  <2>3. lists0[i] # <<>>
    BY <1>2, <2>2
  <2> QED
    BY <2>3
<1>4. T \subseteq SUBSET (1..Sectors) /\ T # {}
  <2>1. \A i \in full : i..Sectors \in SUBSET (1..Sectors)
    OBVIOUS
  <2> HIDE DEF full
  <2> QED
    BY <1>3, <2>1
<1>5. IsFiniteSet(1..Sectors)
  BY CallAssumption, FS_Interval
<1>6. PICK U \in T : \A V \in T : V \subseteq U => V = U
  <2> DEFINE S == 1..Sectors
  <2>1. T \subseteq SUBSET S /\ T # {} /\ IsFiniteSet(S)
    BY <1>4, <1>5
  <2> HIDE DEF T, S
  <2> QED
    BY <2>1, LeastSubset
<1>7. PICK i \in full : U = i..Sectors
  OBVIOUS
<1>8. \A j \in i + 1..Sectors : lists0[j] = <<>>
  <2> SUFFICES ASSUME NEW j \in i + 1..Sectors, lists0[j] # <<>> PROVE FALSE
    OBVIOUS
  <2>1. j \in full /\ j..Sectors \subseteq i..Sectors /\ i \in i..Sectors /\ i \notin j..Sectors
    BY <1>7, CallAssumption
  <2>2. j..Sectors \in T
    BY <2>1
  <2> QED
    BY <1>6, <1>7, <2>1, <2>2
<1> DEFINE s == lists0[i][Len(lists0[i])]
<1>9. i \in 2..Sectors /\ lists0[i] # <<>>
  BY <1>7
<1>10. s \in ToSet(lists0[i])
  <2>1. Len(lists0[i]) \in 1..Len(lists0[i])
    BY <1>2, <1>9
  <2> QED
    BY <1>2, <1>9, <2>1, ElementAt
<1> HIDE DEF full, T
<1>11. s \in Met
  BY <1>9, <1>10 DEF Met
<1>12. IsLastMet(s)
  BY <1>8, <1>9 DEF IsLastMet
<1> QED
  BY <1>11, <1>12 DEF LastMet

(* While an exchange is on a character, the last one is still ahead, or    *)
(* the walk is on it and has met everyone else.                            *)
LEMMA LastAhead ==
  ASSUME Given, NEW fr, NEW A, Progress(lists0, 2, fr, A), fr.node \in Session, Sectors > 1
  PROVE  /\ A \subseteq Met /\ fr.node \in Met /\ Met # {}
         /\ LastMet \in Met /\ LastMet \notin A
         /\ fr.node = LastMet => A \cup {fr.node} = Met
<1> DEFINE L == lists0  sec == fr.sec  n == Len(L[sec])  x == fr.node
<1>1. Placed(L) /\ 2 \in 1..Sectors
  BY CallAssumption DEF Given
<1>2. PICK k \in Nat : Spot(L, 2, fr, A, k)
  BY <1>1, ProgressAt
<1>3. /\ sec \in 2..Sectors /\ sec \in 1..Sectors /\ n \in Nat /\ k \in 1..n
      /\ x = L[sec][k] /\ L[sec] \in Seq(Session) /\ A = Passed(L, 2, sec, k)
  BY <1>2 DEF Spot
<1>4. \A i \in 2..Sectors : i \in 1..Sectors /\ L[i] \in Seq(Session) /\ Len(L[i]) \in Nat
  <2> TAKE i \in 2..Sectors
  <2>1. i \in 1..Sectors
    OBVIOUS
  <2> QED
    BY <1>1, <2>1, LenProperties DEF Placed
<1>5. x \in ToSet(L[sec]) /\ L[sec] # <<>>
  BY <1>3, ElementAt, EmptySeq
<1>6. x \in Met
  BY <1>3, <1>5 DEF Met
<1>7. A \subseteq Met
  <2> SUFFICES ASSUME NEW s \in A PROVE s \in Met
    OBVIOUS
  <2>1. PICK i \in 2..sec, j \in Nat \ {0} : j <= Len(L[i]) /\ s = L[i][j]
    BY <1>3 DEF Passed
  <2>2. i \in 2..Sectors
    BY <1>3, CallAssumption
  <2>3. j \in 1..Len(L[i])
    BY <1>4, <2>1, <2>2
  <2>4. s \in ToSet(L[i])
    BY <1>4, <2>1, <2>2, <2>3, ElementAt
  <2> QED
    BY <2>2, <2>4 DEF Met
<1>8. LastMet \in Met /\ IsLastMet(LastMet)
  BY <1>6, LastMetIs
<1>9. PICK i \in 2..Sectors : /\ L[i] # <<>> /\ LastMet = L[i][Len(L[i])]
                              /\ \A j \in i + 1..Sectors : L[j] = <<>>
  BY <1>8 DEF IsLastMet
<1> DEFINE m == Len(L[i])
<1>10. m \in 1..m /\ i \in 1..Sectors
  BY <1>4, <1>9, EmptySeq
<1>11. \A j \in 2..Sectors : L[j] # <<>> => j <= i
  BY <1>9, CallAssumption
<1>12. LastMet \notin A
  <2> SUFFICES ASSUME LastMet \in A PROVE FALSE
    OBVIOUS
  <2>1. PICK h \in 2..sec, j \in Nat \ {0} : j <= Len(L[h]) /\ LastMet = L[h][j] /\ (h = sec => j < k)
    BY <1>3 DEF Passed
  <2>2. h \in 2..Sectors /\ h <= sec
    BY <1>3, CallAssumption
  <2>3. j \in 1..Len(L[h])
    BY <1>4, <2>1, <2>2
  <2>4. h = i /\ j = m
    <3>1. L[h][j] = L[i][m] /\ h \in 1..Sectors
      BY <1>4, <1>9, <2>1, <2>2
    <3> QED
      BY <1>1, <1>10, <2>3, <3>1, OnePlace
  <2>5. sec <= i
    BY <1>3, <1>5, <1>11
  <2>6. h = sec
    BY <1>3, <2>2, <2>4, <2>5
  <2> QED
    BY <1>3, <1>10, <2>1, <2>4, <2>6
<1>13. ASSUME x = LastMet PROVE Met \subseteq A \cup {x}
  <2>1. i = sec /\ m = k
    <3>1. L[i][m] = L[sec][k]
      BY <1>3, <1>9, <1>13
    <3> QED
      BY <1>1, <1>3, <1>10, <3>1, OnePlace
  <2> SUFFICES ASSUME NEW s \in Met, s # x PROVE s \in A
    OBVIOUS
  <2>2. PICK h \in 2..Sectors : s \in ToSet(L[h])
    BY DEF Met
  <2>3. PICK j \in 1..Len(L[h]) : s = L[h][j]
    BY <1>4, <2>2, ElementAt
  <2>4. L[h] # <<>> /\ j \in Nat \ {0} /\ j <= Len(L[h])
    BY <1>4, <2>3, EmptySeq
  <2>5. h \in 2..sec
    BY <1>3, <1>11, <2>1, <2>4
  <2>6. ASSUME h = sec PROVE j < k
    <3>1. j # k
      BY <1>3, <2>3, <2>6
    <3> QED
      BY <1>3, <2>1, <2>4, <2>6, <3>1
  <2>7. s \in Session
    BY <1>4, <2>3, ElementOfSeq
  <2> QED
    BY <1>3, <2>3, <2>4, <2>5, <2>6, <2>7 DEF Passed
<1> QED
  BY <1>6, <1>7, <1>8, <1>12, <1>13

-----------------------------------------------------------------------------
(* What a call needs.                                                      *)

(* The call and the bytes free when it was made.                           *)
LEMMA GivenTypes ==
  ASSUME Given
  PROVE  /\ op.kind \in Kind /\ op.c \in Session /\ op.len \in Nat \ {0} /\ op.answer \in [Session -> Nat]
         /\ \A r \in Session : op.answer[r] \in Nat \ {0} /\ room0[r] \in Nat
         /\ LenDelete \in Nat \ {0} /\ Each(op) \in Nat \ {0}
<1>1. op \in Calls /\ room0 \in [Session -> 0..MaxRoom]
  BY DEF Given
<1>2. op.answer \in [Session -> MsgLen] /\ op.len \in MsgLen /\ op.kind \in Kind /\ op.c \in Session
  BY <1>1 DEF Calls
<1>3. \A r \in Session : op.answer[r] \in Nat \ {0} /\ room0[r] \in Nat
  <2> TAKE r \in Session
  <2>1. room0[r] \in 0..MaxRoom
    BY <1>1
  <2>2. op.answer[r] \in MsgLen
    BY <1>2
  <2>3. op.answer[r] \in Nat \ {0}
    BY <2>2, CallAssumption
  <2>4. room0[r] \in Nat
    BY <2>1
  <2> QED
    BY <2>3, <2>4
<1>4. op.answer \in [Session -> Nat]
  BY <1>2, <1>3
<1> QED
  BY <1>2, <1>3, <1>4, CallAssumption DEF Each

(* The answers.                                                            *)
LEMMA AnswerSums ==
  ASSUME Given, NEW A \in SUBSET Session
  PROVE  /\ SumOf(op.answer, A) \in Nat /\ SumOf(op.answer, {}) = 0
         /\ \A R \in SUBSET A : SumOf(op.answer, R) <= SumOf(op.answer, A)
         /\ \A x \in Session : x \notin A =>
              SumOf(op.answer, A \cup {x}) = op.answer[x] + SumOf(op.answer, A)
         /\ \A x \in A : SumOf(op.answer, A) = op.answer[x] + SumOf(op.answer, A \ {x})
<1> DEFINE f == op.answer
<1>1. f \in [Session -> Nat]
  BY GivenTypes
<1> HIDE DEF f
<1>2. \A S \in SUBSET Session : IsFiniteSet(S)
  BY CallAssumption, FS_Subset
<1>3. SumOf(f, A) \in Nat
  BY <1>1, <1>2, SumStep
<1>4. SumOf(f, {}) = 0
  <2>1. {} \in SUBSET Session /\ IsFiniteSet({})
    BY <1>2
  <2> QED
    BY <1>1, <2>1, SumStep
<1>5. \A R \in SUBSET A : SumOf(f, R) <= SumOf(f, A)
  BY <1>1, <1>2, SumMonotone
<1>6. ASSUME NEW x \in Session, x \notin A PROVE SumOf(f, A \cup {x}) = f[x] + SumOf(f, A)
  <2>1. A \cup {x} \in SUBSET Session /\ x \in A \cup {x} /\ (A \cup {x}) \ {x} = A
    BY <1>6
  <2>2. SumOf(f, A \cup {x}) = f[x] + SumOf(f, (A \cup {x}) \ {x})
    BY <1>1, <1>2, <2>1, SumTake
  <2> QED
    BY <2>1, <2>2
<1>7. \A x \in A : SumOf(f, A) = f[x] + SumOf(f, A \ {x})
  BY <1>1, <1>2, SumTake
<1> QED
  BY <1>3, <1>4, <1>5, <1>6, <1>7 DEF f

(* What was sent so far.                                                   *)
LEMMA ToldIs ==
  ASSUME Given, NEW H, NEW A \in SUBSET Session
  PROVE  /\ Told(op, H, A) \in [Session -> Nat]
         /\ \A r \in Session : r # op.c => Told(op, H, A)[r] = IF r \in H THEN Each(op) ELSE 0
         /\ Skips(op) => Told(op, H, A)[op.c] = SumOf(op.answer, A)
         /\ ~Skips(op) =>
              Told(op, H, A)[op.c] = (IF op.c \in H THEN Each(op) ELSE 0) + SumOf(op.answer, A)
<1>1. SumOf(op.answer, A) \in Nat /\ op.c \in Session /\ Each(op) \in Nat
  BY AnswerSums, GivenTypes
<1> QED
  BY <1>1 DEF Told

(* What a walk has sent when it is over is what the call needs.            *)
LEMMA NeedWalk ==
  ASSUME Given, op.kind # "unicast"
  PROVE  /\ Need = Told(op, Scope(lists0, Start(op)), IF op.kind = "exchange" THEN Met ELSE {})
         /\ Need \in [Session -> Nat]
<1> DEFINE W == Scope(lists0, Start(op))  A == IF op.kind = "exchange" THEN Met ELSE {}
<1>1. /\ Scope(lists0, 1) = Session /\ Scope(lists0, 2) = Met
      /\ Met \subseteq Session /\ op.c \notin Met /\ op.c \in Session
  BY ScopeIs
<1>2. op.kind \in {"around", "aroundMe", "exchange", "disconnect"} /\ op.len \in Nat
  BY GivenTypes DEF Kind
<1>3. A \in SUBSET Session
  BY <1>1
<1>4. SumOf(op.answer, {}) = 0
  BY <1>3, AnswerSums
<1>5. W = IF op.kind = "exchange" THEN Met ELSE Session
  BY <1>1 DEF Start
<1>6. Told(op, W, A) \in [Session -> Nat]
  BY <1>3, ToldIs
<1> HIDE DEF W
<1>7. Need = Told(op, W, A)
  <2>1. CASE op.kind = "around"
    BY <1>1, <1>4, <1>5, <1>2, <2>1 DEF Need, Told, Skips, Each
  <2>2. CASE op.kind = "aroundMe"
    BY <1>1, <1>4, <1>5, <1>2, <2>2 DEF Need, Told, Skips, Each
  <2>3. CASE op.kind = "disconnect"
    BY <1>1, <1>4, <1>5, CallAssumption, <2>3 DEF Need, Told, Skips, Each
  <2>4. CASE op.kind = "exchange"
    <3>1. SumOf(op.answer, Met) \in Nat
      BY <1>1, AnswerSums
    <3> QED
      BY <1>1, <1>5, <1>2, <2>4, <3>1 DEF Need, Told, Skips, Each
  <2> QED
    BY <1>2, <2>1, <2>2, <2>3, <2>4
<1> QED
  BY <1>6, <1>7 DEF W

(* What a single message needs.                                            *)
LEMMA NeedUnicast ==
  ASSUME Given, op.kind = "unicast"
  PROVE  /\ Need = [r \in Session |-> IF r = op.c THEN op.len ELSE 0]
         /\ Leaving = [r \in Session |-> 0 + LenDelete]
<1>1. op.len \in Nat /\ LenDelete \in Nat
  BY GivenTypes
<1>2. Need = [r \in Session |-> IF r = op.c THEN op.len ELSE 0]
  BY DEF Need
<1>3. Leaving = [r \in Session |-> Need[r] - (IF r = op.c THEN op.len ELSE 0) + LenDelete]
  BY DEF Leaving
<1>4. \A r \in Session : Need[r] - (IF r = op.c THEN op.len ELSE 0) + LenDelete = 0 + LenDelete
  BY <1>1, <1>2
<1> QED
  BY <1>2, <1>3, <1>4

(* What c would be sent if it overflows on its last answer.                *)
LEMMA LeavingExchange ==
  ASSUME Given, op.kind = "exchange", Met # {}
  PROVE  \A r \in Session :
           Leaving[r] = Need[r] - (IF r = op.c THEN op.answer[LastMet] ELSE 0) + LenDelete
BY DEF Leaving

(* The needs are those of the call and stay as they are.                   *)
LEMMA NeedKept ==
  ASSUME op'.kind = op.kind, op'.c = op.c, op'.len = op.len, op'.answer = op.answer,
         UNCHANGED <<room0, lists0>>
  PROVE  /\ Need' = Need /\ Leaving' = Leaving /\ LastMet' = LastMet
         /\ Bad <=> Bad'
<1>1. Met' = Met
  BY DEF Met
<1>2. \A s : IsLastMet(s)' <=> IsLastMet(s)
  BY DEF IsLastMet
<1>3. LastMet' = LastMet
  BY <1>1, <1>2 DEF LastMet
<1>4. Need' = Need
  BY <1>1 DEF Need
<1>5. Leaving' = Leaving
  BY <1>1, <1>3, <1>4 DEF Leaving
<1> QED
  BY <1>3, <1>4, <1>5 DEF Bad, Fits

-----------------------------------------------------------------------------
(* When the process must end.                                              *)

(* A message that does not fit and is not the last one for c.              *)
LEMMA WalkOverflow ==
  ASSUME Given, op.kind # "unicast", NEW r \in Session, r \in Scope(lists0, Start(op)),
         ~(r = op.c /\ Skips(op)), Each(op) > room0[r]
  PROVE  Bad
<1> DEFINE A == IF op.kind = "exchange" THEN Met ELSE {}
<1>1. A \in SUBSET Session
  BY ScopeIs
<1>2. Need = Told(op, Scope(lists0, Start(op)), A) /\ Need \in [Session -> Nat]
  BY NeedWalk
<1>3. SumOf(op.answer, A) \in Nat /\ room0[r] \in Nat /\ Each(op) \in Nat /\ LenDelete \in Nat
  BY <1>1, AnswerSums, GivenTypes
<1>4. Need[r] >= Each(op)
  <2>1. CASE r # op.c
    BY <1>1, <1>2, <1>3, <2>1, ToldIs
  <2>2. CASE r = op.c
    BY <1>1, <1>2, <1>3, <2>2, ToldIs
  <2> QED
    BY <2>1, <2>2
<1>5. Need[r] \in Nat
  BY <1>2
<1>6. ~(Need[r] <= room0[r])
  BY <1>3, <1>4, <1>5
<1>7. ~Fits(Need)
  BY <1>6 DEF Fits
<1>8. ASSUME op.kind = "exchange" PROVE ~Fits(Leaving)
  <2>1. r # op.c
    BY <1>8 DEF Skips
  <2>2. Leaving[r] = Need[r] - 0 + LenDelete
    BY <2>1 DEF Leaving
  <2>3. ~(Leaving[r] <= room0[r])
    BY <1>3, <1>5, <1>6, <2>2
  <2> QED
    BY <2>3 DEF Fits
<1> QED
  BY <1>7, <1>8 DEF Bad

(* c overflowed before its last message, or someone has no room to be told *)
(* that it left.                                                           *)
LEMMA CutOverflow ==
  ASSUME Given, NEW bytes \in [Session -> Nat], Cut(bytes),
         Need \in [Session -> Nat], \A r \in Session : Leaving[r] \in Int,
         \/ Leaving[op.c] > room0[op.c]
         \/ \E r \in Session : bytes[r] + LenDelete > room0[r]
  PROVE  Bad
<1>1. \A r \in Session : room0[r] \in Nat /\ Need[r] \in Nat /\ bytes[r] \in Nat
  BY GivenTypes
<1>2. op.c \in Session /\ LenDelete \in Nat
  BY GivenTypes
<1>3. ~(Need[op.c] <= room0[op.c])
  BY <1>1, <1>2 DEF Cut
<1>4. \E r \in Session : Leaving[r] > room0[r]
  <2>1. CASE Leaving[op.c] > room0[op.c]
    BY <1>2, <2>1
  <2>2. CASE /\ Leaving = [r \in Session |-> bytes[r] + LenDelete]
             /\ \E r \in Session : bytes[r] + LenDelete > room0[r]
    BY <2>2
  <2> QED
    BY <2>1, <2>2 DEF Cut
<1>5. \E r \in Session : ~(Leaving[r] <= room0[r])
  BY <1>1, <1>4
<1> QED
  BY <1>2, <1>3, <1>5 DEF Bad, Fits

(* Beyond what is left for c, the last answer does not count.              *)
LEMMA LeavingLast ==
  ASSUME Given, op.kind = "exchange", NEW A \in SUBSET Session, LastMet \notin A, LastMet \in Session,
         A \cup {LastMet} = Met
  PROVE  Leaving = [r \in Session |-> Told(op, A \cup {LastMet}, A)[r] + LenDelete]
<1> DEFINE x == LastMet  told == Told(op, A \cup {x}, A)
<1>1. Met \in SUBSET Session /\ op.c \notin Met /\ op.c \in Session /\ Scope(lists0, 2) = Met
  BY ScopeIs
<1>2. Need = Told(op, Met, Met) /\ Need \in [Session -> Nat]
  BY <1>1, NeedWalk DEF Start
<1>3. Skips(op)
  BY DEF Skips
<1>4. Leaving = [r \in Session |-> Leaving[r]]
  BY DEF Leaving
<1>5. \A r \in Session :
         Leaving[r] = Need[r] - (IF r = op.c THEN op.answer[x] ELSE 0) + LenDelete
  <2>1. Met # {}
    OBVIOUS
  <2> QED
    BY <2>1, LeavingExchange
<1> HIDE DEF x
<1>6. /\ SumOf(op.answer, A \cup {x}) = op.answer[x] + SumOf(op.answer, A)
      /\ SumOf(op.answer, A) \in Nat
  BY AnswerSums DEF x
<1>7. op.answer[x] \in Nat /\ LenDelete \in Nat
  BY GivenTypes DEF x
<1>8. A \cup {x} = Met
  BY DEF x
<1>9. Need[op.c] = SumOf(op.answer, Met)
  BY <1>1, <1>2, <1>3, ToldIs
<1>10. /\ \A r \in Session : r # op.c => told[r] = IF r \in Met THEN Each(op) ELSE 0
       /\ told[op.c] = SumOf(op.answer, A)
  BY <1>3, <1>8, ToldIs
<1>11. \A r \in Session : r # op.c => Need[r] = IF r \in Met THEN Each(op) ELSE 0
  BY <1>1, <1>2, ToldIs
<1> HIDE DEF told
<1>12. ASSUME NEW r \in Session PROVE Leaving[r] = told[r] + LenDelete
  <2>1. CASE r = op.c
    <3>1. Leaving[r] = Need[op.c] - op.answer[x] + LenDelete
      BY <1>5, <2>1
    <3>2. Need[op.c] = op.answer[x] + SumOf(op.answer, A)
      BY <1>6, <1>8, <1>9
    <3> QED
      BY <1>6, <1>7, <1>10, <2>1, <3>1, <3>2
  <2>2. CASE r # op.c
    <3>1. Leaving[r] = Need[r] - 0 + LenDelete /\ Need[r] = told[r] /\ Need[r] \in Nat
      BY <1>2, <1>5, <1>10, <1>11, <2>2
    <3> QED
      BY <1>7, <3>1
  <2> QED
    BY <2>1, <2>2
<1>13. Leaving = [r \in Session |-> told[r] + LenDelete]
  BY <1>4, <1>12
<1> QED
  BY <1>13 DEF told, x

(* c overflows before the last answer.                                     *)
LEMMA TooEarly ==
  ASSUME Given, op.kind = "exchange", NEW R \in SUBSET Met, SumOf(op.answer, R) > room0[op.c],
         LastMet \in Met
  PROVE  /\ Need[op.c] > room0[op.c] /\ Leaving[op.c] \in Int
         /\ LastMet \notin R => Leaving[op.c] > room0[op.c] /\ Bad
<1> DEFINE x == LastMet
<1>1. Met \in SUBSET Session /\ op.c \notin Met /\ op.c \in Session /\ Scope(lists0, 2) = Met
  BY ScopeIs
<1>2. Need = Told(op, Met, Met) /\ Need \in [Session -> Nat]
  BY <1>1, NeedWalk DEF Start
<1>3. Need[op.c] = SumOf(op.answer, Met)
  BY <1>1, <1>2, ToldIs DEF Skips
<1>4. Leaving[op.c] = Need[op.c] - op.answer[x] + LenDelete
  <2>1. Met # {}
    OBVIOUS
  <2> QED
    BY <1>1, <2>1, LeavingExchange
<1> HIDE DEF x
<1>5. x \in Met /\ x \in Session
  BY <1>1 DEF x
<1>6. /\ SumOf(op.answer, R) <= SumOf(op.answer, Met)
      /\ SumOf(op.answer, Met) = op.answer[x] + SumOf(op.answer, Met \ {x})
      /\ SumOf(op.answer, Met) \in Nat
  BY <1>1, <1>5, AnswerSums
<1>7. /\ SumOf(op.answer, R) \in Nat /\ SumOf(op.answer, Met \ {x}) \in Nat
      /\ x \notin R => SumOf(op.answer, R) <= SumOf(op.answer, Met \ {x})
  <2>1. R \in SUBSET Session /\ Met \ {x} \in SUBSET Session /\ (x \notin R => R \in SUBSET (Met \ {x}))
    BY <1>1
  <2> QED
    BY <2>1, AnswerSums
<1>8. op.answer[x] \in Nat /\ room0[op.c] \in Nat /\ LenDelete \in Nat
  BY <1>1, <1>5, GivenTypes
<1>9. Need[op.c] > room0[op.c] /\ Leaving[op.c] \in Int
  BY <1>3, <1>4, <1>6, <1>7, <1>8
<1>10. x \notin R => Leaving[op.c] > room0[op.c]
  BY <1>3, <1>4, <1>6, <1>7, <1>8
<1>11. ASSUME x \notin R PROVE Bad
  <2>1. ~(Need[op.c] <= room0[op.c]) /\ ~(Leaving[op.c] <= room0[op.c])
    BY <1>3, <1>6, <1>8, <1>9, <1>10, <1>11
  <2> QED
    BY <1>1, <2>1 DEF Bad, Fits
<1> QED
  BY <1>9, <1>10, <1>11 DEF x

(* c overflows on the answer about the character the exchange is on.       *)
LEMMA CutExchange ==
  ASSUME Given, op.kind = "exchange", NEW fr, NEW A, Progress(lists0, 2, fr, A), fr.node \in Session,
         SumOf(op.answer, A \cup {fr.node}) > room0[op.c]
  PROVE  Cut(Told(op, A \cup {fr.node}, A)) /\ LastMet \notin A
<1>1. Sectors > 1
  BY DEF Given
<1>2. /\ A \subseteq Met /\ fr.node \in Met /\ LastMet \in Met /\ LastMet \notin A
      /\ fr.node = LastMet => A \cup {fr.node} = Met
  BY <1>1, LastAhead
<1>3. A \cup {fr.node} \in SUBSET Met
  BY <1>2
<1>4. /\ Need[op.c] > room0[op.c]
      /\ LastMet \notin A \cup {fr.node} => Leaving[op.c] > room0[op.c]
  BY <1>2, <1>3, TooEarly
<1>5. CASE fr.node # LastMet
  BY <1>2, <1>4, <1>5 DEF Cut
<1>6. CASE fr.node = LastMet
  <2>1. A \in SUBSET Session /\ LastMet \in Session
    BY <1>2, ScopeIs
  <2>2. Leaving = [r \in Session |-> Told(op, A \cup {LastMet}, A)[r] + LenDelete]
    BY <1>2, <1>6, <2>1, LeavingLast
  <2> QED
    BY <1>2, <1>4, <1>6, <2>2 DEF Cut
<1> QED
  BY <1>5, <1>6

-----------------------------------------------------------------------------
(* A walk on an element that goes away does not come out of it.            *)

(* Where the same sessions leave, the same walks are doomed.               *)
LEMMA DoomedReplace ==
  ASSUME NEW t \in Seq(Frame), t # <<>>, NEW fr \in Frame, fr.proc = t[1].proc, fr.c = t[1].c,
         NEW ls, NEW ps, NEW i \in 1..Len(t), i # 1, DoomedAt(t, ls, ps, i)
  PROVE  DoomedIn(<<fr>> \o Tail(t), ls, ps)
<1> DEFINE u == <<fr>> \o Tail(t)
<1>1. /\ Len(u) = Len(t) /\ u[1] = fr /\ Len(t) \in Nat
      /\ \A j \in 1..Len(t) : j # 1 => u[j] = t[j]
  BY ReplaceTop, DropTop
<1> HIDE DEF u
<1>2. u[i] = t[i]
  BY <1>1
<1>3. \A j \in 1..i - 1 : u[j].proc = t[j].proc /\ u[j].c = t[j].c
  <2> TAKE j \in 1..i - 1
  <2>1. j \in 1..Len(t)
    BY <1>1
  <2>2. CASE j = 1
    BY <1>1, <2>2
  <2>3. CASE j # 1
    BY <1>1, <2>1, <2>3
  <2> QED
    BY <2>2, <2>3
<1>4. Leaves(t, i) => Leaves(u, i)
  BY <1>2, <1>3 DEF Leaves
<1>5. DoomedAt(u, ls, ps, i)
  BY <1>2, <1>4 DEF DoomedAt
<1> QED
  BY <1>1, <1>5 DEF DoomedIn, u

(* One more walk above saves none.                                         *)
LEMMA DoomedPush ==
  ASSUME NEW t \in Seq(Frame), NEW fr \in Frame, NEW ls, NEW ps, DoomedIn(t, ls, ps)
  PROVE  DoomedIn(<<fr>> \o t, ls, ps)
<1> DEFINE u == <<fr>> \o t
<1>1. /\ Len(u) = Len(t) + 1 /\ Len(t) \in Nat
      /\ \A j \in 1..Len(t) + 1 : j # 1 => u[j] = t[j - 1]
  BY PushTop, LenProperties
<1> HIDE DEF u
<1>2. \A j \in 1..Len(t) : j + 1 \in 1..Len(u) /\ u[j + 1] = t[j]
  <2> TAKE j \in 1..Len(t)
  <2>1. j + 1 \in 1..Len(t) + 1 /\ j + 1 # 1 /\ (j + 1) - 1 = j
    BY <1>1
  <2> QED
    BY <1>1, <2>1
<1>3. PICK i \in 1..Len(t) : DoomedAt(t, ls, ps, i)
  BY DEF DoomedIn
<1>4. ASSUME Leaves(t, i) PROVE Leaves(u, i + 1)
  <2>1. PICK j \in 1..i - 1 : t[j].proc = "goodbye" /\ t[j].c = t[i].node
    BY <1>4 DEF Leaves
  <2>2. j \in 1..Len(t) /\ j + 1 \in 1..(i + 1) - 1
    BY <1>1
  <2> QED
    BY <1>2, <2>1, <2>2 DEF Leaves
<1>5. DoomedAt(u, ls, ps, i + 1)
  BY <1>2, <1>3, <1>4 DEF DoomedAt
<1> QED
  BY <1>2, <1>5 DEF DoomedIn, u

(* The deletion of the character a walk is on dooms it.                    *)
LEMMA DoomedNew ==
  ASSUME NEW t \in Seq(Frame), t # <<>>, NEW fr \in Frame, NEW ls, NEW ps,
         fr.proc = "goodbye", fr.c = t[1].node, t[1].part \in {"advance", "answer"}
  PROVE  DoomedIn(<<fr>> \o t, ls, ps)
<1> DEFINE u == <<fr>> \o t
<1>1. /\ Len(u) = Len(t) + 1 /\ Len(t) \in Nat \ {0} /\ u[1] = fr
      /\ \A j \in 1..Len(t) + 1 : j # 1 => u[j] = t[j - 1]
  BY PushTop, DropTop
<1> HIDE DEF u
<1>2. 2 \in 1..Len(u) /\ u[2] = t[1] /\ 1 \in 1..2 - 1
  <2>1. 2 \in 1..Len(t) + 1 /\ 2 # 1 /\ 2 - 1 = 1
    BY <1>1
  <2> QED
    BY <1>1, <2>1
<1>3. Leaves(u, 2)
  BY <1>1, <1>2 DEF Leaves
<1>4. DoomedAt(u, ls, ps, 2)
  BY <1>2, <1>3 DEF DoomedAt
<1> QED
  BY <1>2, <1>4 DEF DoomedIn, u

(* When a deletion is over, its character is out of every list.            *)
LEMMA DoomedDrop ==
  ASSUME NEW t \in Seq(Frame), t # <<>>, NEW ls \in [1..Sectors -> Seq(Session)],
         \A s \in 1..Sectors : Distinct(ls[s]), NEW ps, NEW ln, NEW pn,
         IF t[1].proc = "goodbye" THEN ln = Without(t[1].c, ls) /\ pn = ps \ {t[1].c}
                                  ELSE ln = ls /\ pn = ps,
         NEW i \in 1..Len(t), i # 1, DoomedAt(t, ls, ps, i)
  PROVE  DoomedIn(Tail(t), ln, pn)
<1> DEFINE u == Tail(t)
<1>1. /\ Len(u) = Len(t) - 1 /\ Len(t) \in Nat \ {0}
      /\ \A j \in 1..Len(t) - 1 : u[j] = t[j + 1]
  BY DropTop
<1> HIDE DEF u
<1>2. i - 1 \in 1..Len(u) /\ u[i - 1] = t[i]
  <2>1. i - 1 \in 1..Len(t) - 1 /\ (i - 1) + 1 = i
    BY <1>1
  <2> QED
    BY <1>1, <2>1
<1> DEFINE node == t[i].node  sec == t[i].sec
<1>3. sec \in 1..Sectors
  <2>1. t[i] \in Frame
    BY ElementOfSeq
  <2> QED
    BY <2>1 DEF Frame
<1>4. pn \subseteq ps /\ ToSet(ln[sec]) \subseteq ToSet(ls[sec])
  <2>1. ToSet(Erase(ls[sec], t[1].c)) \subseteq ToSet(ls[sec]) \ {t[1].c}
    BY <1>3, EraseIs
  <2> QED
    BY <1>3, <2>1 DEF Without
<1>5. ASSUME Leaves(t, i) PROVE Leaves(u, i - 1) \/ (node \notin ToSet(ln[sec]) /\ node \notin pn)
  <2>1. PICK j \in 1..i - 1 : t[j].proc = "goodbye" /\ t[j].c = node
    BY <1>5 DEF Leaves
  <2>2. CASE j = 1
    <3>1. ToSet(Erase(ls[sec], node)) \subseteq ToSet(ls[sec]) \ {node}
      BY <1>3, EraseIs
    <3>2. ln = Without(node, ls) /\ pn = ps \ {node}
      BY <2>1, <2>2
    <3>3. ln[sec] = Erase(ls[sec], node)
      BY <1>3, <3>2 DEF Without
    <3> QED
      BY <3>1, <3>2, <3>3
  <2>3. CASE j # 1
    <3>1. j - 1 \in 1..(i - 1) - 1 /\ j - 1 \in 1..Len(t) - 1 /\ (j - 1) + 1 = j
      BY <1>1, <2>3
    <3>2. u[j - 1] = t[j]
      BY <1>1, <3>1
    <3> QED
      BY <1>2, <2>1, <3>1, <3>2 DEF Leaves
  <2> QED
    BY <2>2, <2>3
<1>6. DoomedAt(u, ln, pn, i - 1)
  BY <1>2, <1>4, <1>5 DEF DoomedAt
<1> QED
  BY <1>2, <1>6 DEF DoomedIn, u

(* Disconnect above a doomed walk.                                         *)
LEMMA DoomedDisconnect ==
  ASSUME Held, NEW s \in Session, NEW below, Stacked(below, closed), DoomedIn(below, lists, players),
         Disconnect(s, below)
  PROVE  Doomed'
<1>1. below \in Seq(Frame) /\ lists' = lists /\ players' = players
  BY DEF Stacked, Disconnect
<1>2. CASE stack' = below
  BY <1>1, <1>2 DEF Doomed
<1>3. CASE stack' = <<Goodbye(s)>> \o below
  <2>1. LenDelete \in Nat /\ 1 \in 1..Sectors
    BY CallAssumption
  <2>2. Goodbye(s) \in Frame
    BY <2>1, WalkIsFrame DEF Goodbye
  <2>3. DoomedIn(stack', lists, players)
    BY <1>1, <1>3, <2>2, DoomedPush
  <2> QED
    BY <1>1, <2>3 DEF Doomed
<1> QED
  BY <1>2, <1>3 DEF Disconnect

(* SendUniCast above a doomed walk.                                        *)
LEMMA DoomedSend ==
  ASSUME Held, NEW s \in Session, NEW len, NEW below, Stacked(below, closed),
         DoomedIn(below, lists, players), SendUniCast(s, len, below)
  PROVE  Doomed'
<1>1. CASE stack' = below /\ UNCHANGED <<lists, players>>
  BY <1>1 DEF Doomed
<1>2. CASE Disconnect(s, below)
  BY <1>2, DoomedDisconnect
<1> QED
  BY <1>1, <1>2 DEF SendUniCast

(* A doomed walk stays doomed, or the process ends.                        *)
LEMMA DoomedStep ==
  ASSUME TypeInv, Doomed, Tell \/ Answer \/ Advance \/ NextSector \/ Return
  PROVE  Doomed' \/ fault' # "none"
<1>1. /\ Running /\ Held /\ Stacked(stack, closed) /\ op \in Calls
  BY DEF TypeInv, Given, Tell, Answer, Advance, NextSector, Return
<1>2. /\ Top = stack[1] /\ Top \in Frame /\ Sound(stack, closed, 1)
      /\ stack \in Seq(Frame) /\ stack # <<>>
  BY <1>1, TopIs
<1>3. PICK i \in 1..Len(stack) : DoomedAt(stack, lists, players, i)
  BY DEF Doomed, DoomedIn
<1>4. ASSUME NEW fr \in Frame, fr.proc = Top.proc, fr.c = Top.c, i # 1
      PROVE  DoomedIn(<<fr>> \o Tail(stack), lists, players)
  BY <1>2, <1>3, <1>4, DoomedReplace
<1>5. ASSUME NEW part \in {"send", "answer", "advance"}, i # 1 PROVE DoomedIn(Then(part), lists, players)
  <2>1. /\ Then(part) = <<[Top EXCEPT !.part = part]>> \o Tail(stack)
        /\ [Top EXCEPT !.part = part] \in Frame
        /\ [Top EXCEPT !.part = part].proc = Top.proc /\ [Top EXCEPT !.part = part].c = Top.c
    BY <1>2 DEF Then, Frame
  <2> QED
    BY <1>4, <1>5, <2>1
<1>6. i = 1 => ~Leaves(stack, 1)
  BY DEF Leaves
<1>7. CASE Tell
  <2> DEFINE part == IF Top.proc = "exchange" THEN "answer" ELSE "advance"
  <2>1. Top.node \in Session /\ Top.part = "send" /\ part \in {"answer", "advance"}
    BY <1>2, <1>7 DEF Tell, Frame
  <2>2. i # 1
    BY <1>2, <1>3, <2>1 DEF DoomedAt
  <2>3. DoomedIn(Then(part), lists, players) /\ DoomedIn(Then("advance"), lists, players)
    BY <1>5, <2>1, <2>2
  <2>4. Stacked(Then(part), closed)
    <3>1. part = "answer" => Top.proc = "exchange"
      OBVIOUS
    <3> HIDE DEF part
    <3> QED
      BY <1>1, <2>1, <3>1, ThenTypes
  <2>5. CASE Crash("freed_character")
    BY <2>5 DEF Crash
  <2>6. CASE stack' = Then("advance") /\ UNCHANGED <<room, lists, players, closed, fault>>
    BY <2>3, <2>6 DEF Doomed
  <2>7. CASE SendUniCast(Top.node, Top.len, Then(part))
    <3> HIDE DEF part
    <3> QED
      BY <1>1, <2>1, <2>3, <2>4, <2>7, DoomedSend
  <2> QED
    BY <1>7, <2>5, <2>6, <2>7 DEF Tell
<1>8. CASE Answer
  <2>1. Top.part = "answer" /\ Top.node \in Session /\ Top.c \in Session
    BY <1>2, <1>8 DEF Answer, Sound, Frame
  <2>2. CASE i = 1
    <3>1. Top.node \notin players
      BY <1>2, <1>3, <1>6, <2>1, <2>2 DEF DoomedAt
    <3>2. Crash("freed_character")
      BY <1>8, <3>1 DEF Answer
    <3> QED
      BY <3>2 DEF Crash
  <2>3. CASE i # 1
    <3>1. DoomedIn(Then("advance"), lists, players)
      BY <1>5, <2>3
    <3>2. Stacked(Then("advance"), closed)
      BY <1>1, <2>1, ThenTypes
    <3>3. CASE Crash("freed_character")
      BY <3>3 DEF Crash
    <3>4. CASE SendUniCast(Top.c, op.answer[Top.node], Then("advance"))
      BY <1>1, <2>1, <3>1, <3>2, <3>4, DoomedSend
    <3> QED
      BY <1>8, <3>3, <3>4 DEF Answer
  <2> QED
    BY <2>2, <2>3
<1>9. CASE Advance
  <2>1. CASE Crash("erased_node")
    BY <2>1 DEF Crash
  <2>2. CASE /\ Top.node \in ToSet(lists[Top.sec])
             /\ stack' = <<[Top EXCEPT !.part = "send", !.node = Successor(lists[Top.sec], Top.node)]>>
                          \o Tail(stack)
             /\ UNCHANGED <<room, lists, players, closed, fault>>
    <3> DEFINE next == Successor(lists[Top.sec], Top.node)
               fr == [Top EXCEPT !.part = "send", !.node = next]
    <3>1. next \in Session \cup {NoNode}
      BY <1>1, <1>2, <2>2, SuccessorIs DEF Held, Frame
    <3>2. i # 1
      <4>1. Top.part = "advance"
        BY <1>9 DEF Advance
      <4> QED
        BY <1>2, <1>3, <1>6, <2>2, <4>1 DEF DoomedAt
    <3> HIDE DEF next
    <3>3. fr \in Frame /\ fr.proc = Top.proc /\ fr.c = Top.c
      BY <1>2, <3>1 DEF Frame
    <3>4. stack' = <<fr>> \o Tail(stack) /\ UNCHANGED <<lists, players>>
      BY <2>2 DEF next
    <3> HIDE DEF fr
    <3>5. DoomedIn(stack', lists, players)
      BY <1>4, <3>2, <3>3, <3>4
    <3> QED
      BY <3>4, <3>5 DEF Doomed
  <2> QED
    BY <1>9, <2>1, <2>2 DEF Advance
<1>10. CASE NextSector
  <2> DEFINE next == First(lists[Top.sec + 1])
             fr == [Top EXCEPT !.sec = @ + 1, !.node = next]
  <2>1. Top.sec + 1 \in 1..Sectors /\ Top.part = "send"
    BY <1>2, <1>10, CallAssumption DEF NextSector, Frame
  <2>2. next \in Session \cup {NoNode}
    BY <1>1, <2>1, FirstIs DEF Held
  <2>3. stack' = <<fr>> \o Tail(stack) /\ UNCHANGED <<lists, players>>
    BY <1>10 DEF NextSector
  <2>4. i # 1
    BY <1>2, <1>3, <2>1 DEF DoomedAt
  <2> HIDE DEF next
  <2>5. fr \in Frame /\ fr.proc = Top.proc /\ fr.c = Top.c
    BY <1>2, <2>1, <2>2 DEF Frame
  <2> HIDE DEF fr
  <2>6. DoomedIn(stack', lists, players)
    BY <1>4, <2>3, <2>4, <2>5
  <2> QED
    BY <2>3, <2>6 DEF Doomed
<1>11. CASE Return
  <2>1. Top.part = "send" /\ stack' = Tail(stack)
    BY <1>11 DEF Return
  <2>2. i # 1
    BY <1>2, <1>3, <2>1 DEF DoomedAt
  <2>3. IF stack[1].proc = "goodbye"
          THEN lists' = Without(stack[1].c, lists) /\ players' = players \ {stack[1].c}
          ELSE lists' = lists /\ players' = players
    BY <1>2, <1>11 DEF Return
  <2>4. /\ lists \in [1..Sectors -> Seq(Session)] /\ \A s \in 1..Sectors : Distinct(lists[s])
    BY <1>1 DEF Held
  <2>5. DoomedIn(Tail(stack), lists', players')
    BY <1>2, <1>3, <2>2, <2>3, <2>4, DoomedDrop
  <2> QED
    BY <2>1, <2>5 DEF Doomed
<1> QED
  BY <1>7, <1>8, <1>9, <1>10, <1>11

-----------------------------------------------------------------------------
(* One step of the innermost walk.                                         *)

(* Only the place of the innermost walk changes.                           *)
Moves ==
  /\ Len(stack') = Len(stack) /\ stack' \in Seq(Frame)
  /\ \A i \in 1..Len(stack) : i # 1 => stack'[i] = stack[i]
  /\ stack'[1].proc = Top.proc /\ stack'[1].c = Top.c
  /\ stack'[1].len = Top.len /\ stack'[1].me = Top.me
  /\ stack'[1].part = "send"
  /\ UNCHANGED <<room, lists, players, closed, fault>>

(* ++it, in a sector nothing was erased from.                              *)
LEMMA AdvanceMoves ==
  ASSUME TypeInv, Advance, NEW from \in 1..Sectors, NEW H, Progress(lists0, from, stack[1], H),
         lists[Top.sec] = lists0[Top.sec]
  PROVE  Moves /\ Progress(lists0, from, stack'[1], H \cup {Top.node})
<1>1. /\ Running /\ Top.part = "advance" /\ Placed(lists0)
  BY DEF TypeInv, Given, Advance
<1>2. /\ Top = stack[1] /\ Top \in Frame /\ Top.node \in Session
      /\ stack \in Seq(Frame) /\ stack # <<>>
  BY <1>1, TopIs DEF Sound
<1>3. Top.node \in ToSet(lists[Top.sec])
  BY <1>1, <1>2, ProgressHere
<1> DEFINE next == Successor(lists[Top.sec], Top.node)
           fr == [Top EXCEPT !.part = "send", !.node = next]
<1>4. stack' = <<fr>> \o Tail(stack) /\ UNCHANGED <<room, lists, players, closed, fault>>
  BY <1>3 DEF Advance
<1>5. next \in Session \cup {NoNode}
  BY <1>2, <1>3, SuccessorIs DEF TypeInv, Held, Frame
<1>6. next = Successor(lists0[Top.sec], Top.node)
  OBVIOUS
<1> HIDE DEF next
<1>7. /\ fr \in Frame /\ fr.proc = Top.proc /\ fr.c = Top.c /\ fr.len = Top.len /\ fr.me = Top.me
      /\ fr.sec = Top.sec /\ fr.node = next /\ fr.part = "send"
  BY <1>2, <1>5 DEF Frame
<1> HIDE DEF fr
<1>8. /\ stack' \in Seq(Frame) /\ Len(stack') = Len(stack) /\ stack'[1] = fr
      /\ \A i \in 1..Len(stack) : i # 1 => stack'[i] = stack[i]
  BY <1>2, <1>4, <1>7, ReplaceTop
<1>9. Progress(lists0, from, fr, H \cup {Top.node})
  BY <1>1, <1>2, <1>6, <1>7, ProgressAdvance
<1> QED
  BY <1>4, <1>7, <1>8, <1>9 DEF Moves

(* The next sector, if nothing was erased from it.                         *)
LEMMA NextMoves ==
  ASSUME TypeInv, NextSector, NEW from \in 1..Sectors, NEW H, Progress(lists0, from, stack[1], H),
         lists[Top.sec + 1] = lists0[Top.sec + 1]
  PROVE  Moves /\ Progress(lists0, from, stack'[1], H)
<1>1. /\ Running /\ Top.part = "send" /\ Placed(lists0) /\ Top.node = NoNode /\ Top.sec < Sectors
  BY DEF TypeInv, Given, NextSector
<1>2. /\ Top = stack[1] /\ Top \in Frame /\ stack \in Seq(Frame) /\ stack # <<>>
  BY <1>1, TopIs
<1> DEFINE next == First(lists[Top.sec + 1])
           fr == [Top EXCEPT !.sec = @ + 1, !.node = next]
<1>3. stack' = <<fr>> \o Tail(stack) /\ UNCHANGED <<room, lists, players, closed, fault>>
  BY DEF NextSector
<1>4. Top.sec + 1 \in 1..Sectors
  BY <1>1, <1>2, CallAssumption DEF Frame
<1>5. next \in Session \cup {NoNode}
  BY <1>4, FirstIs DEF TypeInv, Held
<1>6. next = First(lists0[Top.sec + 1])
  OBVIOUS
<1> HIDE DEF next
<1>7. /\ fr \in Frame /\ fr.proc = Top.proc /\ fr.c = Top.c /\ fr.len = Top.len /\ fr.me = Top.me
      /\ fr.sec = Top.sec + 1 /\ fr.node = next /\ fr.part = "send"
  BY <1>1, <1>2, <1>4, <1>5 DEF Frame
<1> HIDE DEF fr
<1>8. /\ stack' \in Seq(Frame) /\ Len(stack') = Len(stack) /\ stack'[1] = fr
      /\ \A i \in 1..Len(stack) : i # 1 => stack'[i] = stack[i]
  BY <1>2, <1>3, <1>7, ReplaceTop
<1>9. Progress(lists0, from, fr, H)
  BY <1>1, <1>2, <1>6, <1>7, ProgressNext
<1> QED
  BY <1>3, <1>7, <1>8, <1>9 DEF Moves

(* SendUniCast to a player in the middle of a walk: the message fits, or   *)
(* the deletion of the player goes on top, or the stack is full.           *)
LEMMA SendMoves ==
  ASSUME TypeInv, NEW s \in Session, s \in players, NEW len \in Nat, fault = "none",
         NEW below \in Seq(Frame), SendUniCast(s, len, below)
  PROVE  /\ UNCHANGED <<lists, players>>
         /\ \/ /\ len <= room[s] /\ stack' = below /\ fault' = "none" /\ closed' = closed
               /\ \A r \in Session : room'[r] = room[r] - (IF r = s THEN len ELSE 0)
            \/ /\ len > room[s] /\ stack' = below /\ fault' # "none" /\ Len(below) = MaxDepth
            \/ /\ len > room[s] /\ fault' = "none" /\ closed' = closed \cup {s} /\ room' = room
               /\ stack' = <<Goodbye(s)>> \o below /\ Len(below) # MaxDepth
<1>1. room \in [Session -> 0..MaxRoom]
  BY DEF TypeInv, Held
<1>2. CASE /\ len <= room[s] /\ room' = [room EXCEPT ![s] = @ - len]
           /\ stack' = below /\ UNCHANGED <<lists, players, closed, fault>>
  <2>1. \A r \in Session : room[r] \in Int
    BY <1>1
  <2>2. \A r \in Session : room'[r] = room[r] - (IF r = s THEN len ELSE 0)
    BY <1>1, <1>2, <2>1
  <2> QED
    BY <1>2, <2>2
<1>3. CASE len > room[s] /\ Disconnect(s, below)
  BY <1>3 DEF Disconnect
<1> QED
  BY <1>2, <1>3 DEF SendUniCast

(* The deletion of a session begins.                                       *)
LEMMA GoodbyeIs ==
  ASSUME TypeInv, NEW s \in Session
  PROVE  /\ Goodbye(s) \in Frame /\ Goodbye(s).proc = "goodbye" /\ Goodbye(s).c = s
         /\ Goodbye(s).len = LenDelete /\ Goodbye(s).me /\ Goodbye(s).part = "send"
         /\ lists = lists0 => Progress(lists0, 1, Goodbye(s), {})
<1>1. LenDelete \in Nat /\ 1 \in 1..Sectors /\ Held /\ Placed(lists0)
  BY CallAssumption DEF TypeInv, Given
<1>2. Goodbye(s) \in Frame
  BY <1>1, WalkIsFrame DEF Goodbye
<1>3. /\ Goodbye(s).proc = "goodbye" /\ Goodbye(s).c = s /\ Goodbye(s).len = LenDelete
      /\ Goodbye(s).me /\ Goodbye(s).part = "send" /\ Goodbye(s).sec = 1
      /\ Goodbye(s).node = First(lists[1])
  BY DEF Goodbye, Walk
<1>4. lists = lists0 => Progress(lists0, 1, Goodbye(s), {})
  BY <1>1, <1>3, ProgressBegin
<1> QED
  BY <1>2, <1>3, <1>4

(* What a call needs is numbers.                                           *)
LEMMA NeedTypes ==
  ASSUME Given
  PROVE  Need \in [Session -> Nat] /\ \A r \in Session : Leaving[r] \in Int
<1>1. op.len \in Nat /\ LenDelete \in Nat /\ op.answer \in [Session -> Nat] /\ op.kind \in Kind
  BY GivenTypes
<1>2. Need \in [Session -> Nat]
  <2>1. CASE op.kind = "unicast"
    BY <1>1, <2>1, NeedUnicast
  <2>2. CASE op.kind # "unicast"
    BY <2>2, NeedWalk
  <2> QED
    BY <2>1, <2>2
<1>3. CASE op.kind = "unicast"
  BY <1>1, <1>2, <1>3, NeedUnicast
<1>4. CASE op.kind = "exchange" /\ Met # {}
  <2>1. op.answer[LastMet] \in Nat
    BY <1>1, <1>4, LastMetIs, ScopeIs
  <2>2. \A r \in Session :
          Leaving[r] = Need[r] - (IF r = op.c THEN op.answer[LastMet] ELSE 0) + LenDelete
    BY <1>4, LeavingExchange
  <2> QED
    BY <1>1, <1>2, <2>1, <2>2
<1>5. CASE op.kind # "unicast" /\ ~(op.kind = "exchange" /\ Met # {})
  <2>1. Leaving = [r \in Session |-> Need[r] - (IF r = op.c THEN 0 ELSE 0) + LenDelete]
    BY <1>5 DEF Leaving
  <2> QED
    BY <1>1, <1>2, <2>1
<1> QED
  BY <1>2, <1>3, <1>4, <1>5

-----------------------------------------------------------------------------
(* The deletion of c, which overflowed.                                    *)

Rest == \A i \in 1..Len(stack) : i # 1 => stack'[i] = stack[i]

(* A session is told that c left.                                          *)
LEMMA PartingTell ==
  ASSUME TypeInv, Tell, NEW bytes \in [Session -> Nat], PartingFrom(bytes)
  PROVE  \/ PartingFrom(bytes)' /\ fault' = "none" /\ Len(stack') = Len(stack) /\ Rest
         \/ Bad /\ (fault' # "none" \/ Doomed')
<1>1. /\ Running /\ fault = "none" /\ Given /\ Top.part = "send" /\ Top.node # NoNode
      /\ UNCHANGED <<op, room0, lists0>>
  BY DEF TypeInv, Running, Tell
<1>2. /\ Top = stack[1] /\ Top \in Frame /\ Sound(stack, closed, 1)
      /\ stack \in Seq(Frame) /\ stack # <<>>
  BY <1>1, TopIs
<1>3. /\ Top.proc = "goodbye" /\ Top.c = op.c /\ players = Session /\ lists = lists0
      /\ closed = {op.c} /\ Cut(bytes)
  BY <1>2 DEF PartingFrom
<1>4. Top.node \in Session /\ Top.len = LenDelete /\ Top.me
  BY <1>1, <1>2, <1>3 DEF Frame, Sound
<1> DEFINE x == Top.node  below == Then("advance")
<1>5. PICK H \in SUBSET Session :
        /\ Progress(lists0, 1, stack[1], H)
        /\ room = [r \in Session |->
                    room0[r] - bytes[r] - (IF r \in Heard(stack[1], H) THEN LenDelete ELSE 0)]
  BY DEF PartingFrom
<1>6. Heard(stack[1], H) = H
  BY <1>1, <1>2 DEF Heard
<1>7. x \notin H
  <2>1. Placed(lists0) /\ 1 \in 1..Sectors
    BY <1>1, CallAssumption DEF Given
  <2> QED
    BY <1>2, <1>4, <1>5, <2>1, ProgressHere
<1>8. /\ below \in Seq(Frame) /\ Len(below) = Len(stack) /\ below # <<>>
      /\ below[1].proc = "goodbye" /\ below[1].c = op.c /\ below[1].sec = Top.sec
      /\ below[1].node = x /\ below[1].part = "advance"
      /\ \A i \in 1..Len(stack) : i # 1 => below[i] = stack[i]
  <2>1. "advance" \in {"send", "answer", "advance"}
    OBVIOUS
  <2>2. /\ Then("advance") \in Seq(Frame) /\ Len(Then("advance")) = Len(stack)
        /\ Then("advance") # <<>> /\ Then("advance")[1].proc = Top.proc
        /\ Then("advance")[1].c = Top.c /\ Then("advance")[1].sec = Top.sec
        /\ Then("advance")[1].node = Top.node /\ Then("advance")[1].part = "advance"
        /\ \A i \in 1..Len(stack) : i # 1 => Then("advance")[i] = stack[i]
    BY <1>1, <2>1, ThenIs
  <2> QED
    BY <1>3, <2>2
<1>9. SendUniCast(x, LenDelete, below)
  BY <1>3, <1>4 DEF Tell
<1>10. LenDelete \in Nat /\ \A r \in Session : room0[r] \in Nat /\ bytes[r] \in Nat
  BY <1>1, GivenTypes
<1>11. Need' = Need /\ Leaving' = Leaving
  BY <1>1, NeedKept
<1> HIDE DEF x, below
<1>12. x \in Session
  BY <1>4 DEF x
<1>13. /\ UNCHANGED <<lists, players>>
       /\ \/ /\ LenDelete <= room[x] /\ stack' = below /\ fault' = "none" /\ closed' = closed
             /\ \A r \in Session : room'[r] = room[r] - (IF r = x THEN LenDelete ELSE 0)
          \/ /\ LenDelete > room[x] /\ stack' = below /\ fault' # "none" /\ Len(below) = MaxDepth
          \/ /\ LenDelete > room[x] /\ fault' = "none" /\ closed' = closed \cup {x} /\ room' = room
             /\ stack' = <<Goodbye(x)>> \o below /\ Len(below) # MaxDepth
  BY <1>1, <1>3, <1>8, <1>9, <1>10, <1>12, SendMoves
<1>14. CASE /\ stack' = below /\ fault' = "none" /\ closed' = closed
            /\ \A r \in Session : room'[r] = room[r] - (IF r = x THEN LenDelete ELSE 0)
  <2>1. room' = [r \in Session |-> room'[r]]
    <3>1. TypeInv'
      BY TypeTell
    <3> QED
      BY <3>1 DEF TypeInv, Held
  <2>2. Heard(stack'[1], H) = H \cup {x}
    BY <1>8, <1>14 DEF Heard
  <2>3. \A r \in Session :
          room'[r] = room0[r] - bytes[r] - (IF r \in H \cup {x} THEN LenDelete ELSE 0)
    <3> TAKE r \in Session
    <3>1. room[r] = room0[r] - bytes[r] - (IF r \in H THEN LenDelete ELSE 0)
      BY <1>5, <1>6
    <3>2. room'[r] = room[r] - (IF r = x THEN LenDelete ELSE 0)
      BY <1>14
    <3>3. room0[r] \in Nat /\ bytes[r] \in Nat
      BY <1>10
    <3> QED
      BY <1>7, <1>10, <3>1, <3>2, <3>3
  <2>4. room' = [r \in Session |->
                 room0[r] - bytes[r] - (IF r \in Heard(stack'[1], H) THEN LenDelete ELSE 0)]
    BY <2>1, <2>2, <2>3
  <2>5. Progress(lists0, 1, stack'[1], H)
    <3>1. stack'[1].sec = stack[1].sec /\ stack'[1].node = stack[1].node
      BY <1>2, <1>8, <1>14 DEF x
    <3> QED
      BY <1>5, <3>1, ProgressSame
  <2>6. Cut(bytes)'
    BY <1>1, <1>3, <1>11 DEF Cut
  <2>7. stack'[1].proc = "goodbye" /\ stack'[1].c = op.c
    BY <1>8, <1>14
  <2>8. PartingFrom(bytes)'
    BY <1>1, <1>3, <1>13, <1>14, <2>4, <2>5, <2>6, <2>7 DEF PartingFrom
  <2> QED
    BY <1>8, <1>14, <2>8 DEF Rest
<1>15. ASSUME LenDelete > room[x] PROVE Bad
  <2>1. room[x] = room0[x] - bytes[x] - 0
    BY <1>5, <1>6, <1>7, <1>12
  <2>2. bytes[x] + LenDelete > room0[x]
    BY <1>10, <1>12, <1>15, <2>1
  <2> QED
    BY <1>1, <1>3, <1>12, <2>2, NeedTypes, CutOverflow
<1>16. CASE LenDelete > room[x] /\ stack' = <<Goodbye(x)>> \o below
  <2>1. Goodbye(x) \in Frame /\ Goodbye(x).proc = "goodbye" /\ Goodbye(x).c = x
    BY <1>12, GoodbyeIs
  <2>2. DoomedIn(stack', lists', players')
    BY <1>8, <1>16, <2>1, DoomedNew
  <2> QED
    BY <1>15, <1>16, <2>2 DEF Doomed
<1>17. CASE LenDelete > room[x] /\ fault' # "none"
  BY <1>15, <1>17
<1> QED
  BY <1>13, <1>14, <1>16, <1>17

(* The deletion goes on.                                                   *)
LEMMA PartingMoves ==
  ASSUME TypeInv, Advance \/ NextSector, NEW bytes, PartingFrom(bytes)
  PROVE  PartingFrom(bytes)' /\ fault' = "none" /\ Len(stack') = Len(stack) /\ Rest
<1>1. /\ Running /\ fault = "none" /\ Given /\ UNCHANGED <<op, room0, lists0>>
  BY DEF TypeInv, Running, Advance, NextSector
<1>2. /\ Top = stack[1] /\ Top \in Frame
  BY <1>1, TopIs
<1>3. /\ Top.proc = "goodbye" /\ Top.c = op.c /\ players = Session /\ lists = lists0
      /\ closed = {op.c} /\ Cut(bytes)
  BY <1>2 DEF PartingFrom
<1>4. PICK H \in SUBSET Session :
        /\ Progress(lists0, 1, stack[1], H)
        /\ room = [r \in Session |->
                    room0[r] - bytes[r] - (IF r \in Heard(stack[1], H) THEN LenDelete ELSE 0)]
  BY DEF PartingFrom
<1>5. 1 \in 1..Sectors
  BY CallAssumption
<1>6. Moves /\ \E K \in SUBSET Session :
                 Progress(lists0, 1, stack'[1], K) /\ Heard(stack'[1], K) = Heard(stack[1], H)
  <2>1. CASE Advance
    <3>1. Moves /\ Progress(lists0, 1, stack'[1], H \cup {Top.node})
      BY <1>3, <1>4, <1>5, <2>1, AdvanceMoves
    <3>2. Top.part = "advance" /\ Top.node \in Session
      BY <1>1, <2>1, TopIs DEF Advance, Sound
    <3>3. Heard(stack'[1], H \cup {Top.node}) = Heard(stack[1], H)
      BY <1>2, <3>1, <3>2 DEF Heard, Moves
    <3>4. H \cup {Top.node} \in SUBSET Session
      BY <3>2
    <3> QED
      BY <3>1, <3>3, <3>4
  <2>2. CASE NextSector
    <3>1. Moves /\ Progress(lists0, 1, stack'[1], H)
      BY <1>3, <1>4, <1>5, <2>2, NextMoves
    <3>2. Heard(stack'[1], H) = Heard(stack[1], H)
      BY <1>2, <2>2, <3>1 DEF Heard, Moves, NextSector
    <3> QED
      BY <3>1, <3>2
  <2> QED
    BY <2>1, <2>2
<1>7. PICK K \in SUBSET Session :
        Progress(lists0, 1, stack'[1], K) /\ Heard(stack'[1], K) = Heard(stack[1], H)
  BY <1>6
<1>8. room' = [r \in Session |->
               room0[r] - bytes[r] - (IF r \in Heard(stack'[1], K) THEN LenDelete ELSE 0)]
  BY <1>4, <1>6, <1>7 DEF Moves
<1>9. Cut(bytes)'
  <2>1. Need' = Need /\ Leaving' = Leaving
    BY <1>1, NeedKept
  <2> QED
    BY <1>1, <1>3, <2>1 DEF Cut
<1>10. PartingFrom(bytes)'
  BY <1>1, <1>3, <1>6, <1>7, <1>8, <1>9 DEF PartingFrom, Moves
<1> QED
  BY <1>1, <1>6, <1>10 DEF Moves, Rest

(* Everyone was told that c left, and c is erased.                         *)
LEMMA PartingReturn ==
  ASSUME TypeInv, Return, NEW bytes, PartingFrom(bytes)
  PROVE  /\ fault' = "none" /\ stack' = Tail(stack) /\ closed' = {op.c} /\ players' = Session \ {op.c}
         /\ lists' = Without(op.c, lists0) /\ Cut(bytes)
         /\ room' = [r \in Session |-> room0[r] - bytes[r] - LenDelete]
<1>1. /\ Running /\ fault = "none" /\ Given
      /\ Top.part = "send" /\ Top.node = NoNode /\ Top.sec = Sectors
      /\ stack' = Tail(stack) /\ UNCHANGED <<room, closed, fault>>
  BY DEF TypeInv, Running, Return
<1>2. Top = stack[1]
  BY <1>1, TopIs
<1>3. /\ Top.proc = "goodbye" /\ Top.c = op.c /\ players = Session /\ lists = lists0
      /\ closed = {op.c} /\ Cut(bytes)
  BY <1>2 DEF PartingFrom
<1>4. PICK H \in SUBSET Session :
        /\ Progress(lists0, 1, stack[1], H)
        /\ room = [r \in Session |->
                    room0[r] - bytes[r] - (IF r \in Heard(stack[1], H) THEN LenDelete ELSE 0)]
  BY DEF PartingFrom
<1>5. Heard(stack[1], H) = Session
  <2>1. Placed(lists0) /\ 1 \in 1..Sectors
    BY <1>1, CallAssumption DEF Given
  <2>2. H = Scope(lists0, 1)
    BY <1>1, <1>2, <1>4, <2>1, ProgressEnd
  <2> QED
    BY <1>1, <1>2, <2>2, ScopeIs DEF Heard
<1>6. room = [r \in Session |-> room0[r] - bytes[r] - LenDelete]
  BY <1>4, <1>5
<1> QED
  BY <1>1, <1>3, <1>6 DEF Return

-----------------------------------------------------------------------------
(* The call is made.                                                       *)

(* The call is the same while it runs.                                     *)
Same ==
  /\ op'.kind = op.kind /\ op'.c = op.c /\ op'.len = op.len /\ op'.answer = op.answer
  /\ UNCHANGED <<room0, lists0>>

(* What is computed from the call stays as it is.                          *)
LEMMA CallKept ==
  ASSUME Same
  PROVE  /\ Start(op') = Start(op) /\ Each(op') = Each(op) /\ Gone(op') = Gone(op)
         /\ Skips(op') <=> Skips(op)
         /\ \A H, A : Told(op', H, A) = Told(op, H, A)
         /\ \A fr, H : Answered(op', fr, H) = Answered(op, fr, H)
         /\ \A fr : Mine(op', fr) <=> Mine(op, fr)
<1>1. /\ Start(op') = Start(op) /\ Each(op') = Each(op) /\ Gone(op') = Gone(op)
      /\ Skips(op') <=> Skips(op)
  BY DEF Same, Start, Each, Gone, Skips
<1>2. ASSUME NEW H, NEW A PROVE Told(op', H, A) = Told(op, H, A)
  BY <1>1 DEF Same, Told
<1>3. ASSUME NEW fr, NEW H PROVE Answered(op', fr, H) = Answered(op, fr, H)
  BY DEF Same, Answered
<1>4. ASSUME NEW fr PROVE Mine(op', fr) <=> Mine(op, fr)
  BY <1>1 DEF Same, Mine
<1> QED
  BY <1>1, <1>2, <1>3, <1>4

(* Everything still fits after a step.                                     *)
LEMMA WalkingNext ==
  ASSUME Same, op.kind # "unicast", Len(stack') = 1, Mine(op, stack'[1]),
         players' = Session, lists' = lists0, closed' = Gone(op),
         NEW H \in SUBSET Session, Progress(lists0, Start(op), stack'[1], H),
         room' = [r \in Session |->
                   room0[r] - Told(op, Heard(stack'[1], H), Answered(op, stack'[1], H))[r]]
  PROVE  Walking'
<1>1. /\ Start(op') = Start(op) /\ Gone(op') = Gone(op) /\ Mine(op', stack'[1])
      /\ Told(op', Heard(stack'[1], H), Answered(op', stack'[1], H))
           = Told(op, Heard(stack'[1], H), Answered(op, stack'[1], H))
  BY CallKept
<1>2. op'.kind = op.kind /\ room0' = room0 /\ lists0' = lists0
  BY DEF Same
<1> QED
  BY <1>1, <1>2 DEF Walking

(* A walk has not told anyone when it begins.                              *)
LEMMA WalkingBegins ==
  ASSUME TypeInv, Same, op.kind # "unicast", op.state = "called", NEW fr, stack' = <<fr>>,
         Mine(op, fr), fr.part = "send", fr.sec = Start(op), fr.node = First(lists[Start(op)]),
         UNCHANGED <<room, lists, players>>, closed' = Gone(op)
  PROVE  Walking'
<1>1. /\ players = Session /\ room = room0 /\ lists = lists0 /\ Given /\ Placed(lists0)
  BY DEF TypeInv, Unstarted, Given
<1>2. Start(op) \in 1..Sectors
  BY <1>1, CallAssumption DEF Given, Start
<1>3. Len(stack') = 1 /\ stack'[1] = fr
  OBVIOUS
<1>4. Progress(lists0, Start(op), fr, {})
  BY <1>1, <1>2, ProgressBegin
<1>5. Heard(fr, {}) = {} /\ Answered(op, fr, {}) = {}
  BY DEF Heard, Answered
<1>6. \A r \in Session : Told(op, {}, {})[r] = 0 /\ room0[r] \in Nat
  BY <1>1, AnswerSums, GivenTypes DEF Told
<1>7. room' = [r \in Session |-> room0[r] - Told(op, {}, {})[r]]
  <2>1. room0 \in [Session -> 0..MaxRoom]
    BY <1>1 DEF Given
  <2>2. room0 = [r \in Session |-> room0[r]]
    BY <2>1
  <2>3. \A r \in Session : room0[r] - Told(op, {}, {})[r] = room0[r]
    BY <1>6
  <2> QED
    BY <1>1, <2>2, <2>3
<1> QED
  BY <1>1, <1>3, <1>4, <1>5, <1>7, WalkingNext

(* The call begins.                                                        *)
LEMMA GoingCall == TypeInv /\ Call => Going'
<1> SUFFICES ASSUME TypeInv, Call PROVE Going'
  OBVIOUS
<1>1. /\ op.state = "called" /\ stack = <<>> /\ fault = "none" /\ players = Session /\ closed = {}
      /\ room = room0 /\ lists = lists0 /\ Given /\ Placed(lists0)
  BY DEF TypeInv, Unstarted, Call, Given
<1>2. op \in Calls /\ op' = [op EXCEPT !.state = "running"] /\ UNCHANGED <<room0, lists0>>
  BY <1>1 DEF Call, Given
<1>3. Same
  BY <1>2 DEF Same, Calls
<1>4. /\ op.kind \in Kind /\ op.c \in Session /\ op.len \in Nat \ {0} /\ LenDelete \in Nat \ {0}
      /\ \A r \in Session : room0[r] \in Nat
  BY <1>1, GivenTypes
<1>5. op'.kind = op.kind /\ op'.c = op.c /\ Gone(op') = Gone(op)
  BY <1>3, CallKept DEF Same
<1>6. CASE op.kind \in {"around", "aroundMe"}
  <2> DEFINE fr == Walk("around", op.c, op.len, op.kind = "aroundMe", 1)
  <2>1. stack' = <<fr>> /\ UNCHANGED <<room, lists, players, closed, fault>>
    BY <1>6 DEF Call
  <2>2. Mine(op, fr) /\ fr.part = "send" /\ fr.sec = Start(op) /\ fr.node = First(lists[Start(op)])
    BY <1>6 DEF Walk, Mine, Each, Skips, Start
  <2>3. closed' = Gone(op)
    BY <1>1, <1>6, <2>1 DEF Gone
  <2> HIDE DEF fr
  <2>4. Walking'
    BY <1>1, <1>3, <1>6, <2>1, <2>2, <2>3, WalkingBegins
  <2> QED
    BY <1>1, <2>1, <2>4 DEF Going
<1>7. CASE op.kind = "exchange"
  <2> DEFINE fr == Walk("exchange", op.c, op.len, FALSE, 2)
  <2>1. stack' = <<fr>> /\ UNCHANGED <<room, lists, players, closed, fault>>
    BY <1>7 DEF Call
  <2>2. Mine(op, fr) /\ fr.part = "send" /\ fr.sec = Start(op) /\ fr.node = First(lists[Start(op)])
    BY <1>7 DEF Walk, Mine, Each, Skips, Start
  <2>3. closed' = Gone(op)
    BY <1>1, <1>7, <2>1 DEF Gone
  <2> HIDE DEF fr
  <2>4. Walking'
    BY <1>1, <1>3, <1>7, <2>1, <2>2, <2>3, WalkingBegins
  <2> QED
    BY <1>1, <2>1, <2>4 DEF Going
<1>8. CASE op.kind = "disconnect"
  <2> DEFINE fr == Goodbye(op.c)
  <2>1. Disconnect(op.c, <<>>)
    BY <1>8 DEF Call
  <2>2. Len(<<>>) # MaxDepth
    BY CallAssumption
  <2>3. /\ stack' = <<fr>> \o <<>> /\ UNCHANGED <<room, lists, players, fault>> /\ closed' = {op.c}
    BY <1>1, <1>4, <2>1, <2>2 DEF Disconnect
  <2>4. Mine(op, fr) /\ fr.part = "send" /\ fr.sec = Start(op) /\ fr.node = First(lists[Start(op)])
    BY <1>8 DEF Goodbye, Walk, Mine, Each, Skips, Start
  <2>5. closed' = Gone(op)
    BY <1>8, <2>3 DEF Gone
  <2> HIDE DEF fr
  <2>6. stack' = <<fr>>
    BY <2>3
  <2>7. Walking'
    BY <1>1, <1>3, <1>8, <2>3, <2>4, <2>5, <2>6, WalkingBegins
  <2> QED
    BY <1>1, <2>3, <2>7 DEF Going
<1>9. CASE op.kind = "unicast"
  <2>1. SendUniCast(op.c, op.len, <<>>)
    BY <1>9 DEF Call
  <2>2. /\ Need = [r \in Session |-> IF r = op.c THEN op.len ELSE 0]
        /\ Leaving = [r \in Session |-> 0 + LenDelete]
    BY <1>1, <1>9, NeedUnicast
  <2>3. Need' = Need /\ Leaving' = Leaving
    BY <1>3, NeedKept DEF Same
  <2>4. room0 \in [Session -> 0..MaxRoom]
    BY <1>1 DEF Given
  <2>5. CASE /\ op.len <= room[op.c] /\ room' = [room EXCEPT ![op.c] = @ - op.len]
             /\ stack' = <<>> /\ UNCHANGED <<lists, players, closed, fault>>
    <3>1. room' = [r \in Session |-> room0[r] - Need[r]]
      <4>1. room' = [r \in Session |-> room'[r]]
        BY <1>1, <2>4, <2>5
      <4>2. ASSUME NEW r \in Session PROVE room'[r] = room0[r] - Need[r]
        BY <1>1, <1>4, <2>2, <2>4, <2>5
      <4> QED
        BY <4>1, <4>2
    <3>2. Gone(op') = {}
      BY <1>5, <1>9 DEF Gone
    <3>3. room0' = room0 /\ lists0' = lists0
      BY <1>2
    <3>4. Outcome(Need, Gone(op))'
      BY <1>1, <2>3, <2>5, <3>1, <3>2, <3>3 DEF Outcome
    <3> QED
      BY <1>1, <2>5, <3>4 DEF Going, Finished
  <2>6. CASE op.len > room[op.c] /\ Disconnect(op.c, <<>>)
    <3> DEFINE fr == Goodbye(op.c)  bytes == [r \in Session |-> 0]
    <3>1. Len(<<>>) # MaxDepth
      BY CallAssumption
    <3>2. /\ stack' = <<fr>> \o <<>> /\ UNCHANGED <<room, lists, players, fault>> /\ closed' = {op.c}
      BY <1>1, <1>4, <2>6, <3>1 DEF Disconnect
    <3>3. fr.proc = "goodbye" /\ fr.c = op.c /\ fr.part = "send" /\ Progress(lists0, 1, fr, {})
      BY <1>1, <1>4, GoodbyeIs
    <3> HIDE DEF fr
    <3>4. stack' = <<fr>>
      BY <3>2
    <3>5. Len(stack') = 1 /\ stack'[1] = fr
      BY <3>4
    <3>6. Cut(bytes)'
      <4>1. Need[op.c] > room0[op.c]
        BY <1>1, <1>4, <2>2, <2>6
      <4>2. Leaving = [r \in Session |-> bytes[r] + LenDelete]
        BY <2>2
      <4> QED
        BY <1>2, <1>5, <2>3, <4>1, <4>2 DEF Cut
    <3>7. Heard(stack'[1], {}) = {}
      BY <3>3, <3>5 DEF Heard
    <3>8. room' = [r \in Session |->
                   room0[r] - bytes[r] - (IF r \in Heard(stack'[1], {}) THEN LenDelete ELSE 0)]
      <4>1. \A r \in Session : room0[r] - bytes[r] - 0 = room0[r]
        BY <1>4
      <4>2. room0 = [r \in Session |-> room0[r]]
        BY <2>4
      <4> QED
        BY <1>1, <3>2, <3>7, <4>1, <4>2
    <3>9. PartingFrom(bytes)'
      BY <1>1, <1>2, <1>5, <3>2, <3>3, <3>5, <3>6, <3>8 DEF PartingFrom
    <3> QED
      BY <1>1, <1>5, <1>9, <3>2, <3>5, <3>9 DEF Going, PartingUnicast
  <2> QED
    BY <2>1, <2>5, <2>6 DEF SendUniCast
<1> QED
  BY <1>4, <1>6, <1>7, <1>8, <1>9 DEF Kind

-----------------------------------------------------------------------------
(* While everything fits.                                                  *)

(* A walk of the call is on someone it is for.                             *)
LEMMA InScope ==
  ASSUME Given, NEW from \in 1..Sectors, NEW fr, NEW H, Progress(lists0, from, fr, H), fr.node \in Session
  PROVE  fr.node \in Scope(lists0, from) /\ fr.node \notin H
<1>1. fr.node \in ToSet(lists0[fr.sec]) /\ fr.node \notin H
  BY ProgressHere DEF Given
<1>2. fr.sec \in from..Sectors
  BY DEF Progress
<1> QED
  BY <1>1, <1>2 DEF Scope

(* Where the call's walk starts.                                           *)
LEMMA StartIs == ASSUME Given PROVE Start(op) \in 1..Sectors
BY CallAssumption DEF Given, Start

(* One more was told.                                                      *)
LEMMA ToldMore ==
  ASSUME Given, NEW H, NEW A \in SUBSET Session, NEW x \in Session, x \notin H
  PROVE  /\ x = op.c /\ Skips(op) => Told(op, H \cup {x}, A) = Told(op, H, A)
         /\ ~(x = op.c /\ Skips(op)) =>
              \A r \in Session : Told(op, H \cup {x}, A)[r]
                                   = Told(op, H, A)[r] + (IF r = x THEN Each(op) ELSE 0)
         /\ ~(x = op.c /\ Skips(op)) /\ (A = {} \/ Skips(op)) => Told(op, H, A)[x] = 0
<1>1. SumOf(op.answer, A) \in Nat /\ op.c \in Session /\ Each(op) \in Nat /\ SumOf(op.answer, {}) = 0
  BY AnswerSums, GivenTypes
<1>2. CASE x = op.c /\ Skips(op)
  BY <1>2 DEF Told
<1>3. CASE ~(x = op.c /\ Skips(op))
  <2>1. ASSUME NEW r \in Session
        PROVE  Told(op, H \cup {x}, A)[r] = Told(op, H, A)[r] + (IF r = x THEN Each(op) ELSE 0)
    <3>1. CASE r = x
      BY <1>1, <1>3, <3>1 DEF Told
    <3>2. CASE r # x
      BY <1>1, <3>2 DEF Told
    <3> QED
      BY <3>1, <3>2
  <2>2. A = {} \/ Skips(op) => Told(op, H, A)[x] = 0
    BY <1>1, <1>3 DEF Told
  <2> QED
    BY <1>3, <2>1, <2>2
<1> QED
  BY <1>2, <1>3

(* A session is told.                                                      *)
LEMMA WalkingTell ==
  ASSUME TypeInv, Tell, Walking
  PROVE  \/ Walking' /\ fault' = "none"
         \/ Bad /\ (fault' # "none" \/ Doomed')
<1>1. /\ Running /\ fault = "none" /\ Given /\ Top.part = "send" /\ Top.node # NoNode
      /\ UNCHANGED <<op, room0, lists0>> /\ Same
  BY DEF TypeInv, Running, Tell, Same
<1>2. /\ Top = stack[1] /\ Top \in Frame /\ Sound(stack, closed, 1)
      /\ stack \in Seq(Frame) /\ stack # <<>> /\ 1 \in 1..Len(stack)
  BY <1>1, TopIs
<1>3. /\ Mine(op, Top) /\ op.kind # "unicast" /\ Len(stack) = 1
      /\ players = Session /\ lists = lists0 /\ closed = Gone(op)
  BY <1>2 DEF Walking
<1>4. Top.node \in Session /\ Top.c = op.c /\ Top.len = Each(op) /\ (Top.me <=> ~Skips(op))
  BY <1>1, <1>2, <1>3 DEF Frame, Mine
<1> DEFINE x == Top.node
           part == IF op.kind = "exchange" /\ ~(x = op.c) THEN "answer" ELSE "advance"
           below == Then(part)
<1>5. PICK H \in SUBSET Session :
        /\ Progress(lists0, Start(op), stack[1], H)
        /\ room = [r \in Session |->
                    room0[r] - Told(op, Heard(stack[1], H), Answered(op, stack[1], H))[r]]
  BY DEF Walking
<1> DEFINE A == IF op.kind = "exchange" THEN H ELSE {}
<1>6. Heard(stack[1], H) = H /\ Answered(op, stack[1], H) = A /\ A \in SUBSET Session
  BY <1>1, <1>2 DEF Heard, Answered
<1>7. x \in Scope(lists0, Start(op)) /\ x \notin H
  BY <1>1, <1>2, <1>4, <1>5, StartIs, InScope
<1>8. op.kind = "exchange" => x # op.c
  <2> SUFFICES ASSUME op.kind = "exchange" PROVE x # op.c
    OBVIOUS
  <2>1. x \in Scope(lists0, 2)
    BY <1>7 DEF Start
  <2> QED
    BY <1>1, <2>1, ScopeIs
<1>9. part \in {"answer", "advance"} /\ part \in {"send", "answer", "advance"}
  OBVIOUS
<1>10. /\ below \in Seq(Frame) /\ Len(below) = 1 /\ below # <<>>
       /\ Mine(op, below[1]) /\ below[1].sec = Top.sec
       /\ below[1].node = x /\ below[1].part = part
  <2> HIDE DEF part
  <2>1. /\ Then(part) \in Seq(Frame) /\ Len(Then(part)) = Len(stack)
        /\ Then(part) # <<>> /\ Then(part)[1].proc = Top.proc
        /\ Then(part)[1].c = Top.c /\ Then(part)[1].sec = Top.sec
        /\ Then(part)[1].len = Top.len /\ Then(part)[1].me = Top.me
        /\ Then(part)[1].node = Top.node /\ Then(part)[1].part = part
    BY <1>1, <1>9, ThenIs
  <2> QED
    BY <1>3, <2>1 DEF Mine
<1>11. Heard(below[1], H) = H \cup {x} /\ Answered(op, below[1], H) = A
  <2>1. below[1].node = x /\ below[1].part = part
    BY <1>10
  <2> HIDE DEF below
  <2>2. Heard(below[1], H) = H \cup {x}
    BY <1>9, <2>1 DEF Heard
  <2>3. CASE op.kind = "exchange"
    <3>1. part = "answer"
      BY <1>8, <2>3
    <3> QED
      BY <2>1, <2>2, <2>3, <3>1 DEF Answered
  <2>4. CASE op.kind # "exchange"
    BY <2>2, <2>4 DEF Answered
  <2> QED
    BY <2>3, <2>4
<1>12. Progress(lists0, Start(op), below[1], H)
  BY <1>2, <1>5, <1>10, ProgressSame
<1>13. CASE x = op.c /\ Skips(op)
  <2>1. op.kind # "exchange"
    BY <1>8, <1>13
  <2>2. stack' = below /\ UNCHANGED <<room, lists, players, closed, fault>>
    BY <1>3, <1>4, <1>13, <2>1 DEF Tell
  <2>3. Told(op, H \cup {x}, A) = Told(op, H, A)
    BY <1>1, <1>4, <1>6, <1>7, <1>13, ToldMore
  <2> HIDE DEF below, x, A
  <2>4. room' = [r \in Session |->
                 room0[r] - Told(op, Heard(stack'[1], H), Answered(op, stack'[1], H))[r]]
    BY <1>5, <1>6, <1>11, <2>2, <2>3
  <2>5. Walking'
    BY <1>1, <1>3, <1>10, <1>12, <2>2, <2>4, WalkingNext
  <2> QED
    BY <1>1, <2>2, <2>5
<1>14. CASE ~(x = op.c /\ Skips(op))
  <2>1. SendUniCast(x, Each(op), below)
    <3>1. ~(~Top.me /\ Top.c \notin players) /\ ~(~Top.me /\ Top.node = Top.c)
      <4>1. op.c \in Session
        BY <1>1, GivenTypes
      <4>2. Top.c \in players
        BY <1>3, <1>4, <4>1
      <4>3. ~(~Top.me /\ Top.node = Top.c)
        BY <1>4, <1>14
      <4> QED
        BY <4>2, <4>3
    <3>2. part = IF Top.proc = "exchange" THEN "answer" ELSE "advance"
      <4>1. CASE op.kind = "exchange"
        BY <1>3, <1>8, <4>1 DEF Mine
      <4>2. CASE op.kind # "exchange"
        BY <1>3, <4>2 DEF Mine
      <4> QED
        BY <4>1, <4>2
    <3> HIDE DEF part
    <3> QED
      BY <1>4, <3>1, <3>2 DEF Tell
  <2>2. /\ \A r \in Session : Told(op, H \cup {x}, A)[r]
                                = Told(op, H, A)[r] + (IF r = x THEN Each(op) ELSE 0)
        /\ Told(op, H, A)[x] = 0
    <3>1. A = {} \/ Skips(op)
      BY DEF Skips
    <3> HIDE DEF A, x, below, part
    <3>2. x \in Session
      BY <1>4 DEF x
    <3> QED
      BY <1>1, <1>6, <1>7, <1>14, <3>1, <3>2, ToldMore
  <2>3. Each(op) \in Nat /\ \A r \in Session : room0[r] \in Nat /\ Told(op, H, A)[r] \in Nat
    BY <1>1, <1>6, GivenTypes, ToldIs
  <2> HIDE DEF x, A, below, part
  <2>4. x \in Session
    BY <1>4 DEF x
  <2>5. /\ UNCHANGED <<lists, players>>
        /\ \/ /\ Each(op) <= room[x] /\ stack' = below /\ fault' = "none" /\ closed' = closed
              /\ \A r \in Session : room'[r] = room[r] - (IF r = x THEN Each(op) ELSE 0)
           \/ /\ Each(op) > room[x] /\ stack' = below /\ fault' # "none" /\ Len(below) = MaxDepth
           \/ /\ Each(op) > room[x] /\ fault' = "none" /\ closed' = closed \cup {x} /\ room' = room
              /\ stack' = <<Goodbye(x)>> \o below /\ Len(below) # MaxDepth
    BY <1>1, <1>3, <1>10, <2>1, <2>3, <2>4, SendMoves
  <2>6. \A r \in Session : room[r] = room0[r] - Told(op, H, A)[r]
    BY <1>5, <1>6
  <2>7. CASE /\ stack' = below /\ fault' = "none" /\ closed' = closed
             /\ \A r \in Session : room'[r] = room[r] - (IF r = x THEN Each(op) ELSE 0)
    <3>1. room' = [r \in Session |-> room'[r]]
      <4>1. TypeInv'
        BY TypeTell
      <4> QED
        BY <4>1 DEF TypeInv, Held
    <3>2. ASSUME NEW r \in Session PROVE room'[r] = room0[r] - Told(op, H \cup {x}, A)[r]
      <4>1. room'[r] = room[r] - (IF r = x THEN Each(op) ELSE 0)
        BY <2>7
      <4>2. /\ Told(op, H \cup {x}, A)[r] = Told(op, H, A)[r] + (IF r = x THEN Each(op) ELSE 0)
            /\ room[r] = room0[r] - Told(op, H, A)[r]
        BY <2>2, <2>6
      <4>3. Each(op) \in Nat /\ room0[r] \in Nat /\ Told(op, H, A)[r] \in Nat
        BY <2>3
      <4> QED
        BY <4>1, <4>2, <4>3
    <3>3. room' = [r \in Session |->
                   room0[r] - Told(op, Heard(stack'[1], H), Answered(op, stack'[1], H))[r]]
      BY <1>11, <2>7, <3>1, <3>2
    <3>4. Walking'
      BY <1>1, <1>3, <1>10, <1>12, <2>5, <2>7, <3>3, WalkingNext
    <3> QED
      BY <2>7, <3>4
  <2>8. ASSUME Each(op) > room[x] PROVE Bad
    <3>1. Each(op) > room0[x]
      BY <2>2, <2>3, <2>4, <2>6, <2>8
    <3> QED
      BY <1>1, <1>3, <1>7, <1>14, <2>4, <3>1, WalkOverflow
  <2>9. CASE Each(op) > room[x] /\ stack' = <<Goodbye(x)>> \o below
    <3>1. Goodbye(x) \in Frame /\ Goodbye(x).proc = "goodbye" /\ Goodbye(x).c = x
      BY <2>4, GoodbyeIs
    <3>2. DoomedIn(stack', lists', players')
      BY <1>9, <1>10, <2>9, <3>1, DoomedNew
    <3> QED
      BY <2>8, <2>9, <3>2 DEF Doomed
  <2>10. CASE Each(op) > room[x] /\ fault' # "none"
    BY <2>8, <2>10
  <2> QED
    BY <2>5, <2>7, <2>9, <2>10
<1> QED
  BY <1>13, <1>14


(* c is told of the one just told.                                         *)
LEMMA ToldAnswer ==
  ASSUME Given, op.kind = "exchange", NEW H \in SUBSET Session, NEW x \in Session, x \notin H
  PROVE  /\ SumOf(op.answer, H \cup {x}) = SumOf(op.answer, H) + op.answer[x]
         /\ Told(op, H \cup {x}, H)[op.c] = SumOf(op.answer, H)
         /\ \A r \in Session : Told(op, H \cup {x}, H \cup {x})[r]
                                 = Told(op, H \cup {x}, H)[r] + (IF r = op.c THEN op.answer[x] ELSE 0)
<1>1. H \in SUBSET Session /\ H \cup {x} \in SUBSET Session
  OBVIOUS
<1>2. /\ SumOf(op.answer, H) \in Nat /\ SumOf(op.answer, H \cup {x}) \in Nat
      /\ SumOf(op.answer, H \cup {x}) = SumOf(op.answer, H) + op.answer[x]
  <2>1. SumOf(op.answer, H) \in Nat /\ SumOf(op.answer, H \cup {x}) \in Nat
    BY <1>1, AnswerSums
  <2>2. SumOf(op.answer, H \cup {x}) = op.answer[x] + SumOf(op.answer, H)
    BY <1>1, AnswerSums
  <2>3. op.answer[x] \in Nat
    BY GivenTypes
  <2> QED
    BY <2>1, <2>2, <2>3
<1>3. op.c \in Session /\ Each(op) \in Nat /\ op.answer[x] \in Nat /\ Skips(op)
  BY GivenTypes DEF Skips
<1>4. Told(op, H \cup {x}, H)[op.c] = SumOf(op.answer, H)
  BY <1>1, <1>3, ToldIs
<1>5. ASSUME NEW r \in Session
      PROVE  Told(op, H \cup {x}, H \cup {x})[r]
               = Told(op, H \cup {x}, H)[r] + (IF r = op.c THEN op.answer[x] ELSE 0)
  <2>1. CASE r = op.c
    <3>1. Told(op, H \cup {x}, H \cup {x})[op.c] = SumOf(op.answer, H \cup {x})
      BY <1>1, <1>3, ToldIs
    <3> QED
      BY <1>2, <1>4, <2>1, <3>1
  <2>2. CASE r # op.c
    <3>1. /\ Told(op, H \cup {x}, H \cup {x})[r] = IF r \in H \cup {x} THEN Each(op) ELSE 0
          /\ Told(op, H \cup {x}, H)[r] = IF r \in H \cup {x} THEN Each(op) ELSE 0
      BY <1>1, <2>2, ToldIs
    <3> QED
      BY <1>3, <2>2, <3>1
  <2> QED
    BY <2>1, <2>2
<1> QED
  BY <1>2, <1>4, <1>5

(* c is told of the character the exchange is on.                          *)
LEMMA WalkingAnswer ==
  ASSUME TypeInv, Answer, Walking, MaxDepth >= 2
  PROVE  fault' = "none" /\ (Walking' \/ PartingExchange')
<1>1. /\ Running /\ fault = "none" /\ Given /\ Top.part = "answer"
      /\ UNCHANGED <<op, room0, lists0>> /\ Same
  BY DEF TypeInv, Running, Answer, Same
<1>2. /\ Top = stack[1] /\ Top \in Frame /\ Sound(stack, closed, 1)
      /\ stack \in Seq(Frame) /\ stack # <<>> /\ 1 \in 1..Len(stack)
  BY <1>1, TopIs
<1>3. /\ Mine(op, Top) /\ op.kind # "unicast" /\ Len(stack) = 1
      /\ players = Session /\ lists = lists0 /\ closed = Gone(op)
  BY <1>2 DEF Walking
<1>4. Top.node \in Session /\ Top.c = op.c /\ Top.proc = "exchange" /\ op.kind = "exchange"
  BY <1>1, <1>2, <1>3 DEF Sound, Mine
<1> DEFINE x == Top.node  below == Then("advance")  c == op.c
<1>5. PICK H \in SUBSET Session :
        /\ Progress(lists0, Start(op), stack[1], H)
        /\ room = [r \in Session |->
                    room0[r] - Told(op, Heard(stack[1], H), Answered(op, stack[1], H))[r]]
  BY DEF Walking
<1>6. Heard(stack[1], H) = H \cup {x} /\ Answered(op, stack[1], H) = H /\ Start(op) = 2
  BY <1>1, <1>2, <1>4 DEF Heard, Answered, Start
<1>7. x \notin H
  BY <1>1, <1>2, <1>4, <1>5, StartIs, InScope
<1>8. /\ below \in Seq(Frame) /\ Len(below) = 1 /\ below # <<>>
      /\ Mine(op, below[1]) /\ below[1].sec = Top.sec
      /\ below[1].node = x /\ below[1].part = "advance"
  <2>1. "advance" \in {"send", "answer", "advance"}
    OBVIOUS
  <2>2. /\ Then("advance") \in Seq(Frame) /\ Len(Then("advance")) = Len(stack)
        /\ Then("advance") # <<>> /\ Then("advance")[1].proc = Top.proc
        /\ Then("advance")[1].c = Top.c /\ Then("advance")[1].sec = Top.sec
        /\ Then("advance")[1].len = Top.len /\ Then("advance")[1].me = Top.me
        /\ Then("advance")[1].node = Top.node /\ Then("advance")[1].part = "advance"
    BY <1>1, <2>1, ThenIs
  <2> QED
    BY <1>3, <2>2 DEF Mine
<1>9. Heard(below[1], H) = H \cup {x} /\ Answered(op, below[1], H) = H \cup {x}
  BY <1>4, <1>8 DEF Heard, Answered
<1>10. Progress(lists0, Start(op), below[1], H)
  BY <1>2, <1>5, <1>8, ProgressSame
<1>11. c \in Session /\ op.answer[x] \in Nat /\ \A r \in Session : room0[r] \in Nat
  BY <1>1, <1>4, GivenTypes
<1>12. SendUniCast(c, op.answer[x], below)
  <2>1. {Top.node, Top.c} \subseteq players
    BY <1>3, <1>4, <1>11
  <2> QED
    BY <1>4, <2>1 DEF Answer
<1> HIDE DEF x, below, c
<1>13. x \in Session
  BY <1>4 DEF x
<1>14. /\ SumOf(op.answer, H \cup {x}) = SumOf(op.answer, H) + op.answer[x]
       /\ Told(op, H \cup {x}, H)[c] = SumOf(op.answer, H)
       /\ \A r \in Session : Told(op, H \cup {x}, H \cup {x})[r]
                               = Told(op, H \cup {x}, H)[r] + (IF r = c THEN op.answer[x] ELSE 0)
  BY <1>1, <1>4, <1>7, <1>13, ToldAnswer DEF c
<1>15. \A r \in Session : room[r] = room0[r] - Told(op, H \cup {x}, H)[r]
  BY <1>5, <1>6
<1>16. \A r \in Session : Told(op, H \cup {x}, H)[r] \in Nat
  BY <1>1, ToldIs
<1>17. /\ UNCHANGED <<lists, players>>
       /\ \/ /\ op.answer[x] <= room[c] /\ stack' = below /\ fault' = "none" /\ closed' = closed
             /\ \A r \in Session : room'[r] = room[r] - (IF r = c THEN op.answer[x] ELSE 0)
          \/ /\ op.answer[x] > room[c] /\ stack' = below /\ fault' # "none" /\ Len(below) = MaxDepth
          \/ /\ op.answer[x] > room[c] /\ fault' = "none" /\ closed' = closed \cup {c} /\ room' = room
             /\ stack' = <<Goodbye(c)>> \o below /\ Len(below) # MaxDepth
  BY <1>1, <1>3, <1>8, <1>11, <1>12, SendMoves
<1>18. CASE /\ stack' = below /\ fault' = "none" /\ closed' = closed
            /\ \A r \in Session : room'[r] = room[r] - (IF r = c THEN op.answer[x] ELSE 0)
  <2>1. room' = [r \in Session |-> room'[r]]
    <3>1. TypeInv'
      BY TypeAnswer
    <3> QED
      BY <3>1 DEF TypeInv, Held
  <2>2. ASSUME NEW r \in Session PROVE room'[r] = room0[r] - Told(op, H \cup {x}, H \cup {x})[r]
    <3>1. /\ room'[r] = room[r] - (IF r = c THEN op.answer[x] ELSE 0)
          /\ room[r] = room0[r] - Told(op, H \cup {x}, H)[r]
          /\ Told(op, H \cup {x}, H \cup {x})[r]
               = Told(op, H \cup {x}, H)[r] + (IF r = c THEN op.answer[x] ELSE 0)
          /\ Told(op, H \cup {x}, H)[r] \in Nat /\ room0[r] \in Nat
      BY <1>11, <1>14, <1>15, <1>16, <1>18
    <3> QED
      BY <1>11, <3>1
  <2>3. room' = [r \in Session |->
                 room0[r] - Told(op, Heard(stack'[1], H), Answered(op, stack'[1], H))[r]]
    BY <1>9, <1>18, <2>1, <2>2
  <2>4. Walking'
    BY <1>1, <1>3, <1>8, <1>10, <1>17, <1>18, <2>3, WalkingNext
  <2> QED
    BY <1>18, <2>4
<1>19. CASE /\ op.answer[x] > room[c] /\ fault' = "none" /\ closed' = closed \cup {c} /\ room' = room
            /\ stack' = <<Goodbye(c)>> \o below
  <2> DEFINE fr == Goodbye(c)
  <2>12. PICK bytes \in [Session -> Nat] : bytes = Told(op, H \cup {x}, H)
    BY <1>1, ToldIs
  <2>1. /\ fr \in Frame /\ fr.proc = "goodbye" /\ fr.c = c /\ fr.part = "send"
        /\ Progress(lists0, 1, fr, {})
    BY <1>3, <1>11, GoodbyeIs
  <2>2. SumOf(op.answer, H \cup {x}) > room0[c]
    <3>1. room[c] = room0[c] - SumOf(op.answer, H) /\ SumOf(op.answer, H) \in Nat /\ room0[c] \in Nat
      BY <1>1, <1>11, <1>14, <1>15, AnswerSums
    <3> QED
      BY <1>11, <1>14, <1>19, <3>1
  <2>3. Cut(bytes)
    <3>1. Progress(lists0, 2, stack[1], H) /\ stack[1].node = x /\ stack[1].node \in Session
      BY <1>2, <1>5, <1>6, <1>13 DEF x
    <3>2. SumOf(op.answer, H \cup {stack[1].node}) > room0[op.c]
      BY <2>2, <3>1 DEF c
    <3>3. Cut(Told(op, H \cup {x}, H))
      BY <1>1, <1>4, <3>1, <3>2, CutExchange
    <3> QED
      BY <2>12, <3>3
  <2> HIDE DEF fr
  <2>4. Len(stack') = 2 /\ stack'[1] = fr /\ stack'[2] = below[1]
    <3>1. stack' = <<fr>> \o below
      BY <1>19 DEF fr
    <3>2. /\ Len(<<fr>> \o below) = Len(below) + 1 /\ (<<fr>> \o below)[1] = fr
          /\ \A j \in 1..Len(below) + 1 : j # 1 => (<<fr>> \o below)[j] = below[j - 1]
      BY <1>8, <2>1, PushTop
    <3>3. 2 \in 1..Len(below) + 1 /\ 2 # 1 /\ 2 - 1 = 1 /\ Len(below) + 1 = 2
      BY <1>8
    <3>4. (<<fr>> \o below)[2] = below[2 - 1]
      BY <3>2, <3>3
    <3> QED
      BY <3>1, <3>2, <3>3, <3>4
  <2>5. closed' = {c}
    BY <1>3, <1>4, <1>19 DEF Gone
  <2>6. Cut(bytes)'
    <3>1. Need' = Need /\ Leaving' = Leaving
      BY <1>1, NeedKept
    <3> QED
      BY <1>1, <2>3, <3>1 DEF Cut
  <2>7. Heard(stack'[1], {}) = {}
    BY <2>1, <2>4 DEF Heard
  <2>8. room' = [r \in Session |->
                 room0[r] - bytes[r] - (IF r \in Heard(stack'[1], {}) THEN LenDelete ELSE 0)]
    <3>1. ASSUME NEW r \in Session PROVE room[r] = room0[r] - bytes[r] - 0
      <4>1. room[r] = room0[r] - bytes[r] /\ room0[r] \in Nat /\ bytes[r] \in Nat
        BY <1>11, <1>15, <2>12
      <4> QED
        BY <4>1
    <3>2. room = [r \in Session |-> room[r]]
      BY DEF TypeInv, Held
    <3> QED
      BY <1>19, <2>7, <3>1, <3>2
  <2>9. PartingFrom(bytes)'
    BY <1>1, <1>3, <1>17, <2>1, <2>4, <2>5, <2>6, <2>8 DEF PartingFrom, c
  <2>10. /\ Mine(op, stack'[2]) /\ stack'[2].part = "advance" /\ stack'[2].node = x
         /\ Progress(lists0, 2, stack'[2], H)
    BY <1>6, <1>8, <1>10, <2>4
  <2>11. PartingExchange'
    <3>1. PartingFrom(Told(op, H \cup {stack[2].node}, H))'
      <4>1. Told(op', H \cup {stack'[2].node}, H) = bytes
        BY <1>1, <2>10, <2>12
      <4> QED
        BY <2>9, <4>1 DEF PartingFrom, Cut
    <3> QED
      BY <1>1, <1>4, <2>2, <2>4, <2>10, <3>1 DEF PartingExchange, c
  <2> QED
    BY <1>19, <2>11
<1> QED
  BY <1>8, <1>17, <1>18, <1>19

(* The walk goes on.                                                       *)
LEMMA WalkingMoves ==
  ASSUME TypeInv, Advance \/ NextSector, Walking
  PROVE  Walking' /\ fault' = "none"
<1>1. /\ Running /\ fault = "none" /\ Given /\ UNCHANGED <<op, room0, lists0>> /\ Same
  BY DEF TypeInv, Running, Advance, NextSector, Same
<1>2. /\ Top = stack[1] /\ Top \in Frame
  BY <1>1, TopIs
<1>3. /\ Mine(op, Top) /\ op.kind # "unicast" /\ Len(stack) = 1
      /\ players = Session /\ lists = lists0 /\ closed = Gone(op)
  BY <1>2 DEF Walking
<1>4. PICK H \in SUBSET Session :
        /\ Progress(lists0, Start(op), stack[1], H)
        /\ room = [r \in Session |->
                    room0[r] - Told(op, Heard(stack[1], H), Answered(op, stack[1], H))[r]]
  BY DEF Walking
<1>5. Start(op) \in 1..Sectors
  BY <1>1, StartIs
<1>6. Moves /\ \E K \in SUBSET Session :
                 /\ Progress(lists0, Start(op), stack'[1], K)
                 /\ Heard(stack'[1], K) = Heard(stack[1], H)
                 /\ Answered(op, stack'[1], K) = Answered(op, stack[1], H)
  <2>1. CASE Advance
    <3>1. Moves /\ Progress(lists0, Start(op), stack'[1], H \cup {Top.node})
      BY <1>3, <1>4, <1>5, <2>1, AdvanceMoves
    <3>2. Top.part = "advance" /\ Top.node \in Session
      BY <1>1, <2>1, TopIs DEF Advance, Sound
    <3>3. /\ Heard(stack'[1], H \cup {Top.node}) = Heard(stack[1], H)
          /\ Answered(op, stack'[1], H \cup {Top.node}) = Answered(op, stack[1], H)
      BY <1>2, <3>1, <3>2 DEF Heard, Answered, Moves
    <3>4. H \cup {Top.node} \in SUBSET Session
      BY <3>2
    <3> QED
      BY <3>1, <3>3, <3>4
  <2>2. CASE NextSector
    <3>1. Moves /\ Progress(lists0, Start(op), stack'[1], H)
      BY <1>3, <1>4, <1>5, <2>2, NextMoves
    <3>2. /\ Heard(stack'[1], H) = Heard(stack[1], H)
          /\ Answered(op, stack'[1], H) = Answered(op, stack[1], H)
      BY <1>2, <2>2, <3>1 DEF Heard, Answered, Moves, NextSector
    <3> QED
      BY <3>1, <3>2
  <2> QED
    BY <2>1, <2>2
<1>7. PICK K \in SUBSET Session :
        /\ Progress(lists0, Start(op), stack'[1], K)
        /\ Heard(stack'[1], K) = Heard(stack[1], H)
        /\ Answered(op, stack'[1], K) = Answered(op, stack[1], H)
  BY <1>6
<1>8. room' = [r \in Session |->
               room0[r] - Told(op, Heard(stack'[1], K), Answered(op, stack'[1], K))[r]]
  BY <1>4, <1>6, <1>7 DEF Moves
<1>9. Mine(op, stack'[1])
  BY <1>3, <1>6 DEF Mine, Moves
<1>10. Len(stack') = 1 /\ players' = Session /\ lists' = lists0 /\ closed' = Gone(op)
  BY <1>3, <1>6 DEF Moves
<1>11. Walking'
  BY <1>1, <1>3, <1>7, <1>8, <1>9, <1>10, WalkingNext
<1> QED
  BY <1>1, <1>6, <1>11 DEF Moves

(* The call is over and everything fitted.                                 *)
LEMMA WalkingReturn ==
  ASSUME TypeInv, Return, Walking
  PROVE  Finished' /\ fault' = "none"
<1>1. /\ Running /\ fault = "none" /\ Given /\ UNCHANGED <<op, room0, lists0>> /\ Same
      /\ Top.part = "send" /\ Top.node = NoNode /\ Top.sec = Sectors
      /\ stack' = Tail(stack) /\ UNCHANGED <<room, closed, fault>>
  BY DEF TypeInv, Running, Return, Same
<1>2. /\ Top = stack[1] /\ Top \in Frame /\ stack \in Seq(Frame) /\ stack # <<>>
  BY <1>1, TopIs
<1>3. /\ Mine(op, Top) /\ op.kind # "unicast" /\ Len(stack) = 1
      /\ players = Session /\ lists = lists0 /\ closed = Gone(op)
  BY <1>2 DEF Walking
<1>4. PICK H \in SUBSET Session :
        /\ Progress(lists0, Start(op), stack[1], H)
        /\ room = [r \in Session |->
                    room0[r] - Told(op, Heard(stack[1], H), Answered(op, stack[1], H))[r]]
  BY DEF Walking
<1>5. H = Scope(lists0, Start(op))
  BY <1>1, <1>2, <1>4, StartIs, ProgressEnd DEF Given
<1>6. Heard(stack[1], H) = H /\ Answered(op, stack[1], H) = IF op.kind = "exchange" THEN Met ELSE {}
  <2>1. Heard(stack[1], H) = H
    BY <1>1, <1>2 DEF Heard
  <2>2. op.kind = "exchange" => H = Met
    BY <1>1, <1>5, ScopeIs DEF Start
  <2> QED
    BY <1>1, <1>2, <2>1, <2>2 DEF Answered
<1>7. room = [r \in Session |-> room0[r] - Need[r]]
  <2>1. Need = Told(op, H, IF op.kind = "exchange" THEN Met ELSE {})
    BY <1>1, <1>3, <1>5, NeedWalk
  <2> QED
    BY <1>4, <1>6, <2>1
<1>8. stack' = <<>>
  <2>1. Len(Tail(stack)) = Len(stack) - 1 /\ Tail(stack) \in Seq(Frame)
    BY <1>2, DropTop
  <2>2. Len(Tail(stack)) = 0
    BY <1>3, <2>1
  <2> QED
    BY <1>1, <2>1, <2>2, EmptySeq
<1>9. Need' = Need /\ Gone(op') = Gone(op)
  BY <1>1, NeedKept
<1>10. /\ players' = Session \ Gone(op)
       /\ lists' = IF Gone(op) = {} THEN lists0 ELSE Without(op.c, lists0)
  <2>1. CASE op.kind = "disconnect"
    <3>1. Top.proc = "goodbye" /\ Top.c = op.c
      BY <1>3, <2>1 DEF Mine
    <3>2. Gone(op) = {op.c}
      BY <2>1 DEF Gone
    <3> QED
      BY <1>3, <3>1, <3>2 DEF Return
  <2>2. CASE op.kind # "disconnect"
    <3>1. Top.proc # "goodbye"
      BY <1>3, <2>2 DEF Mine
    <3>2. Gone(op) = {}
      BY <2>2 DEF Gone
    <3> QED
      BY <1>3, <3>1, <3>2 DEF Return
  <2> QED
    BY <2>1, <2>2
<1>11. Outcome(Need, Gone(op))'
  BY <1>1, <1>3, <1>7, <1>9, <1>10 DEF Outcome
<1> QED
  BY <1>1, <1>8, <1>11 DEF Finished

-----------------------------------------------------------------------------
(* While c, which overflowed, leaves.                                      *)

Steps == Tell \/ Answer \/ Advance \/ NextSector \/ Return

(* A step of the calls is made while they run, and leaves what they were   *)
(* made with.                                                              *)
LEMMA StepIs ==
  ASSUME TypeInv, Steps
  PROVE  Running /\ fault = "none" /\ Given /\ UNCHANGED <<op, room0, lists0>>
BY DEF TypeInv, Running, Steps, Tell, Answer, Advance, NextSector, Return

(* A deletion answers nobody.                                              *)
LEMMA PartingSteps ==
  ASSUME TypeInv, Steps, NEW bytes, PartingFrom(bytes)
  PROVE  Tell \/ Advance \/ NextSector \/ Return
<1>1. Running
  BY StepIs
<1>2. Top = stack[1] /\ Sound(stack, closed, 1)
  BY <1>1, TopIs
<1> QED
  BY <1>2 DEF Steps, Answer, PartingFrom, Sound

(* After a message that overflowed c.                                      *)
LEMMA UnicastParts ==
  ASSUME TypeInv, Steps, PartingUnicast
  PROVE  \/ fault' = "none" /\ (PartingUnicast' \/ Parted')
         \/ Bad /\ (fault' # "none" \/ Doomed')
<1> DEFINE bytes == [r \in Session |-> 0]
<1>1. /\ Running /\ fault = "none" /\ Given /\ UNCHANGED <<op, room0, lists0>>
  BY StepIs
<1>2. op.kind = "unicast" /\ Len(stack) = 1 /\ PartingFrom(bytes) /\ bytes \in [Session -> Nat]
  BY DEF PartingUnicast
<1>3. Tell \/ Advance \/ NextSector \/ Return
  BY <1>2, PartingSteps
<1>4. CASE PartingFrom(bytes)' /\ fault' = "none" /\ Len(stack') = Len(stack)
  BY <1>1, <1>2, <1>4 DEF PartingUnicast
<1>5. CASE Return
  <2> HIDE DEF bytes
  <2>1. /\ fault' = "none" /\ stack' = Tail(stack) /\ closed' = {op.c} /\ players' = Session \ {op.c}
        /\ lists' = Without(op.c, lists0) /\ Cut(bytes)
        /\ room' = [r \in Session |-> room0[r] - bytes[r] - LenDelete]
    BY <1>2, <1>5, PartingReturn
  <2>2. stack' = <<>>
    <3>1. stack \in Seq(Frame) /\ stack # <<>>
      BY <1>1, TopIs
    <3>2. Len(Tail(stack)) = Len(stack) - 1 /\ Tail(stack) \in Seq(Frame)
      BY <3>1, DropTop
    <3>3. Len(Tail(stack)) = 0
      BY <1>2, <3>2
    <3> QED
      BY <2>1, <3>2, <3>3, EmptySeq
  <2>3. Leaving = [r \in Session |-> 0 + LenDelete]
    BY <1>1, <1>2, NeedUnicast
  <2>4. room' = [r \in Session |-> room0[r] - Leaving[r]]
    <3>1. ASSUME NEW r \in Session PROVE room0[r] - bytes[r] - LenDelete = room0[r] - Leaving[r]
      <4>1. room0[r] \in Nat /\ LenDelete \in Nat /\ bytes[r] = 0 /\ Leaving[r] = 0 + LenDelete
        BY <1>1, <2>3, GivenTypes DEF bytes
      <4> QED
        BY <4>1
    <3> QED
      BY <2>1, <3>1
  <2>5. Need' = Need /\ Leaving' = Leaving
    BY <1>1, NeedKept
  <2>6. Outcome(Leaving, {op.c})'
    BY <1>1, <2>1, <2>4, <2>5 DEF Outcome
  <2>7. Need[op.c] > room0[op.c]
    BY <2>1 DEF Cut
  <2> QED
    BY <1>1, <1>2, <2>1, <2>2, <2>5, <2>6, <2>7 DEF Parted
<1>6. CASE Tell
  BY <1>2, <1>4, <1>6, PartingTell
<1>7. CASE Advance \/ NextSector
  BY <1>2, <1>4, <1>7, PartingMoves
<1> QED
  BY <1>3, <1>5, <1>6, <1>7

(* After an answer that overflowed c: the exchange waits, and goes on.     *)
LEMMA ExchangeParts ==
  ASSUME TypeInv, Steps, PartingExchange
  PROVE  \/ fault' = "none" /\ (PartingExchange' \/ GoingOn')
         \/ Bad /\ (fault' # "none" \/ Doomed')
<1>1. /\ Running /\ fault = "none" /\ Given /\ UNCHANGED <<op, room0, lists0>>
  BY StepIs
<1>2. op.kind = "exchange" /\ Len(stack) = 2 /\ Mine(op, stack[2]) /\ stack[2].part = "advance"
  BY DEF PartingExchange
<1>3. PICK A \in SUBSET Session :
        /\ Progress(lists0, 2, stack[2], A)
        /\ SumOf(op.answer, A \cup {stack[2].node}) > room0[op.c]
        /\ PartingFrom(Told(op, A \cup {stack[2].node}, A))
  BY DEF PartingExchange
<1>4. PICK bytes \in [Session -> Nat] : bytes = Told(op, A \cup {stack[2].node}, A)
  BY <1>1, ToldIs
<1>5. PartingFrom(bytes)
  BY <1>3, <1>4
<1>6. Tell \/ Advance \/ NextSector \/ Return
  BY <1>5, PartingSteps
<1>7. /\ stack \in Seq(Frame) /\ stack # <<>> /\ 2 \in 1..Len(stack)
      /\ Sound(stack, closed, 2)
  <2>1. stack \in Seq(Frame) /\ stack # <<>>
    BY <1>1, TopIs
  <2>2. 2 \in 1..Len(stack)
    BY <1>2
  <2> QED
    BY <2>1, <2>2 DEF TypeInv, Stacked
<1>8. stack[2].node \in Session
  BY <1>2, <1>7 DEF Sound
<1>9. CASE PartingFrom(bytes)' /\ fault' = "none" /\ Len(stack') = Len(stack) /\ Rest
  <2>1. stack'[2] = stack[2]
    BY <1>7, <1>9 DEF Rest
  <2>2. PartingFrom(Told(op, A \cup {stack[2].node}, A))'
    <3>1. Told(op', A \cup {stack'[2].node}, A) = bytes
      BY <1>1, <1>4, <2>1
    <3> QED
      BY <1>9, <3>1 DEF PartingFrom, Cut
  <2> QED
    BY <1>1, <1>2, <1>3, <1>9, <2>1, <2>2 DEF PartingExchange
<1>10. CASE Return
  <2>1. /\ fault' = "none" /\ stack' = Tail(stack) /\ closed' = {op.c} /\ players' = Session \ {op.c}
        /\ lists' = Without(op.c, lists0)
        /\ room' = [r \in Session |-> room0[r] - bytes[r] - LenDelete]
    BY <1>5, <1>10, PartingReturn
  <2> DEFINE x == stack[2].node
  <2>2. Len(stack') = 1 /\ stack'[1] = stack[2]
    <3>1. /\ Len(Tail(stack)) = Len(stack) - 1
          /\ \A i \in 1..Len(stack) - 1 : Tail(stack)[i] = stack[i + 1]
      BY <1>7, DropTop
    <3>2. 1 \in 1..Len(stack) - 1 /\ 1 + 1 = 2 /\ Len(stack) - 1 = 1
      BY <1>2
    <3>3. Tail(stack)[1] = stack[1 + 1]
      BY <3>1, <3>2
    <3> QED
      BY <2>1, <3>1, <3>2, <3>3
  <2>3. LastMet \notin A
    BY <1>1, <1>2, <1>3, <1>8, CutExchange
  <2>4. LastMet' = LastMet
    BY <1>1, NeedKept
  <2>5. room' = [r \in Session |-> room0[r] - Told(op, A \cup {x}, A)[r] - LenDelete]
    BY <1>4, <2>1
  <2>6. x \in Session
    BY <1>8
  <2>7. /\ stack'[1].part = "advance" /\ stack'[1].node = x /\ Progress(lists0, 2, stack'[1], A)
        /\ Mine(op, stack'[1]) /\ SumOf(op.answer, A \cup {x}) > room0[op.c]
    BY <1>2, <1>3, <2>2
  <2> HIDE DEF x
  <2>8. GoingOn'
    BY <1>1, <1>2, <2>1, <2>2, <2>3, <2>4, <2>5, <2>6, <2>7 DEF GoingOn
  <2> QED
    BY <2>1, <2>8
<1>11. CASE Tell
  BY <1>5, <1>9, <1>11, PartingTell
<1>12. CASE Advance \/ NextSector
  BY <1>5, <1>9, <1>12, PartingMoves
<1> QED
  BY <1>6, <1>10, <1>11, <1>12

(* c is not in the lists of those who came into sight.                     *)
LEMMA OthersKept ==
  ASSUME Given, NEW i \in 2..Sectors
  PROVE  i \in 1..Sectors /\ Without(op.c, lists0)[i] = lists0[i]
<1>1. Sectors \in Nat
  BY CallAssumption
<1>2. i \in 1..Sectors
  BY <1>1
<1>3. op.c \notin ToSet(lists0[i])
  BY ScopeIs DEF Met
<1>4. Erase(lists0[i], op.c) = lists0[i]
  BY <1>3 DEF Erase
<1> QED
  BY <1>2, <1>4 DEF Without

(* The exchange goes on without c, and may not tell anyone else.           *)
LEMMA ExchangeEnds ==
  ASSUME TypeInv, Steps, GoingOn
  PROVE  \/ fault' = "none" /\ (GoingOn' \/ Parted')
         \/ Bad /\ fault' # "none"
<1>1. /\ Running /\ fault = "none" /\ Given /\ UNCHANGED <<op, room0, lists0>>
  BY StepIs
<1>2. /\ Top = stack[1] /\ Top \in Frame /\ stack \in Seq(Frame) /\ stack # <<>>
  BY <1>1, TopIs
<1>3. /\ op.kind = "exchange" /\ Len(stack) = 1 /\ Mine(op, Top)
      /\ players = Session \ {op.c} /\ lists = Without(op.c, lists0) /\ closed = {op.c}
  BY <1>2 DEF GoingOn
<1>4. PICK A \in SUBSET Session, x \in Session :
        /\ \/ stack[1].part = "advance" /\ stack[1].node = x /\ Progress(lists0, 2, stack[1], A)
           \/ stack[1].part = "send" /\ Progress(lists0, 2, stack[1], A \cup {x})
        /\ SumOf(op.answer, A \cup {x}) > room0[op.c] /\ LastMet \notin A
        /\ room = [r \in Session |-> room0[r] - Told(op, A \cup {x}, A)[r] - LenDelete]
  BY DEF GoingOn
<1>5. Sectors > 1 /\ 2 \in 1..Sectors /\ Placed(lists0)
  BY <1>1, <1>3, CallAssumption DEF Given
<1>6. Top.proc = "exchange" /\ Top.c = op.c /\ ~Top.me
  BY <1>3 DEF Mine, Skips
<1>7. Top.sec \in 2..Sectors
  BY <1>2, <1>4 DEF Progress
<1>8. LastMet' = LastMet /\ Need' = Need /\ Leaving' = Leaving
  BY <1>1, NeedKept
<1>14. ASSUME Moves, Progress(lists0, 2, stack'[1], A \cup {x})
       PROVE  fault' = "none" /\ GoingOn'
  <2>1. Mine(op, stack'[1])
    BY <1>3, <1>14 DEF Mine, Moves
  <2>2. /\ Len(stack') = 1 /\ stack'[1].part = "send"
        /\ UNCHANGED <<room, lists, players, closed, fault>>
    BY <1>3, <1>14 DEF Moves
  <2>3. room' = [r \in Session |-> room0[r] - Told(op, A \cup {x}, A)[r] - LenDelete]
    BY <1>4, <2>2
  <2>4. SumOf(op.answer, A \cup {x}) > room0[op.c] /\ LastMet \notin A
    BY <1>4
  <2>5. /\ op.kind = "exchange" /\ players = Session \ {op.c}
        /\ lists = Without(op.c, lists0) /\ closed = {op.c}
    BY <1>3
  <2>6. GoingOn'
    <3>1. op' = op /\ room0' = room0 /\ lists0' = lists0 /\ LastMet' = LastMet
      BY <1>1, <1>8
    <3>2. /\ players' = Session \ {op.c} /\ closed' = {op.c}
          /\ lists' = Without(op.c, lists0)
      BY <2>2, <2>5
    <3>3. /\ stack'[1].part = "send" /\ Progress(lists0', 2, stack'[1], A \cup {x})
          /\ SumOf(op'.answer, A \cup {x}) > room0'[op'.c] /\ LastMet' \notin A
          /\ room' = [r \in Session |-> room0'[r] - Told(op', A \cup {x}, A)[r] - LenDelete]
      BY <1>14, <2>2, <2>3, <2>4, <3>1
    <3> QED
      BY <2>1, <2>2, <2>5, <3>1, <3>2, <3>3 DEF GoingOn
  <2> QED
    BY <1>1, <2>2, <2>6
<1>9. CASE Tell
  <2>1. Top.part = "send" /\ Top.node \in Session
    BY <1>2, <1>9 DEF Tell, Frame
  <2>2. fault' = "freed_character"
    BY <1>3, <1>6, <1>9 DEF Tell, Crash
  <2>3. Progress(lists0, 2, stack[1], A \cup {x})
    BY <1>2, <1>4, <2>1
  <2>4. A \cup {x} \subseteq Met /\ LastMet \in Met /\ LastMet \notin A \cup {x}
    BY <1>1, <1>2, <1>5, <2>1, <2>3, LastAhead
  <2>5. Bad
    BY <1>1, <1>3, <1>4, <2>4, TooEarly
  <2> QED
    BY <2>2, <2>5
<1>10. CASE Answer
  BY <1>2, <1>4, <1>10 DEF Answer
<1>11. CASE Advance
  <2>1. Top.part = "advance"
    BY <1>11 DEF Advance
  <2>2. Top.node = x /\ Progress(lists0, 2, stack[1], A)
    BY <1>2, <1>4, <2>1
  <2>3. lists[Top.sec] = lists0[Top.sec]
    BY <1>1, <1>3, <1>7, OthersKept
  <2>4. Moves /\ Progress(lists0, 2, stack'[1], A \cup {x})
    BY <1>5, <1>11, <2>2, <2>3, AdvanceMoves
  <2> QED
    BY <1>14, <2>4
<1>12. CASE NextSector
  <2>1. Top.part = "send" /\ Top.sec < Sectors
    BY <1>12 DEF NextSector
  <2>2. Progress(lists0, 2, stack[1], A \cup {x})
    BY <1>2, <1>4, <2>1
  <2>3. Top.sec + 1 \in 2..Sectors
    BY <1>5, <1>7, <2>1, CallAssumption
  <2>4. lists[Top.sec + 1] = lists0[Top.sec + 1]
    BY <1>1, <1>3, <2>3, OthersKept
  <2>5. Moves /\ Progress(lists0, 2, stack'[1], A \cup {x})
    BY <1>5, <1>12, <2>2, <2>4, NextMoves
  <2> QED
    BY <1>14, <2>5
<1>13. CASE Return
  <2>1. /\ Top.part = "send" /\ Top.node = NoNode /\ Top.sec = Sectors
        /\ stack' = Tail(stack) /\ UNCHANGED <<room, lists, players, closed, fault>>
    BY <1>6, <1>13 DEF Return
  <2>2. Progress(lists0, 2, stack[1], A \cup {x})
    BY <1>2, <1>4, <2>1
  <2>3. A \cup {x} = Met
    <3>1. A \cup {x} = Scope(lists0, 2)
      BY <1>2, <1>5, <2>1, <2>2, ProgressEnd
    <3> QED
      BY <1>1, <3>1, ScopeIs
  <2>4. LastMet \in Met /\ x = LastMet /\ LastMet \in Session
    <3>1. LastMet \in Met
      BY <1>1, <2>3, LastMetIs
    <3> QED
      BY <1>1, <1>4, <2>3, <3>1, ScopeIs
  <2>5. Need[op.c] > room0[op.c]
    BY <1>1, <1>3, <1>4, <2>3, <2>4, TooEarly
  <2>6. Leaving = [r \in Session |-> Told(op, A \cup {LastMet}, A)[r] + LenDelete]
    BY <1>1, <1>3, <1>4, <2>3, <2>4, LeavingLast
  <2>7. room = [r \in Session |-> room0[r] - Leaving[r]]
    <3> DEFINE told == Told(op, A \cup {x}, A)
    <3>1. told \in [Session -> Nat] /\ LenDelete \in Nat
      BY <1>1, ToldIs, GivenTypes
    <3>2. Leaving = [r \in Session |-> told[r] + LenDelete]
      BY <2>4, <2>6
    <3>3. room = [r \in Session |-> room0[r] - told[r] - LenDelete]
      BY <1>4
    <3> HIDE DEF told
    <3>4. ASSUME NEW r \in Session PROVE room0[r] - told[r] - LenDelete = room0[r] - Leaving[r]
      <4>1. told[r] \in Nat /\ room0[r] \in Nat /\ Leaving[r] = told[r] + LenDelete
        BY <1>1, <3>1, <3>2, GivenTypes
      <4> QED
        BY <3>1, <4>1
    <3> QED
      BY <3>3, <3>4
  <2>8. stack' = <<>>
    <3>1. Len(Tail(stack)) = Len(stack) - 1 /\ Tail(stack) \in Seq(Frame)
      BY <1>2, DropTop
    <3>2. Len(Tail(stack)) = 0
      BY <1>3, <3>1
    <3> QED
      BY <2>1, <3>1, <3>2, EmptySeq
  <2>9. Outcome(Leaving, {op.c})'
    BY <1>1, <1>3, <1>8, <2>1, <2>7 DEF Outcome
  <2> QED
    BY <1>1, <1>3, <1>8, <2>1, <2>5, <2>8, <2>9 DEF Parted
<1> QED
  BY <1>9, <1>10, <1>11, <1>12, <1>13 DEF Steps

-----------------------------------------------------------------------------
(* The outcome of every call.                                              *)

(* Before the call there is nothing to say.                                *)
LEMMA GoingInit == Init => Going
BY DEF Init, Going

(* A step ends the process only where it must, and otherwise takes a call  *)
(* from one of the ways it can go to another.                              *)
LEMMA GoingSteps ==
  ASSUME MaxDepth >= 2, TypeInv, Going, Steps
  PROVE  Going'
<1>1. /\ Running /\ fault = "none" /\ Given /\ UNCHANGED <<op, room0, lists0>>
  BY StepIs
<1>2. op.state = "running" /\ stack # <<>>
  <2>1. op.state # "called" /\ stack # <<>>
    BY <1>1, TopIs
  <2> QED
    BY <1>1, <2>1 DEF Given, Calls
<1>3. \/ Walking \/ Finished
      \/ PartingUnicast \/ PartingExchange \/ GoingOn \/ Parted
      \/ Doomed /\ Bad
  BY <1>1, <1>2 DEF Going
<1>4. Bad' <=> Bad
  BY <1>1, NeedKept
<1>5. CASE Walking
  <2>1. \/ fault' = "none" /\ (Walking' \/ PartingExchange' \/ Finished')
        \/ Bad /\ (fault' # "none" \/ Doomed')
    <3>1. CASE Tell
      BY <1>5, <3>1, WalkingTell
    <3>2. CASE Answer
      BY <1>5, <3>2, WalkingAnswer
    <3>3. CASE Advance \/ NextSector
      BY <1>5, <3>3, WalkingMoves
    <3>4. CASE Return
      BY <1>5, <3>4, WalkingReturn
    <3> QED
      BY <3>1, <3>2, <3>3, <3>4 DEF Steps
  <2> QED
    BY <1>4, <2>1 DEF Going
<1>6. CASE PartingUnicast
  BY <1>4, <1>6, UnicastParts DEF Going
<1>7. CASE PartingExchange
  BY <1>4, <1>7, ExchangeParts DEF Going
<1>8. CASE GoingOn
  BY <1>4, <1>8, ExchangeEnds DEF Going
<1>9. CASE Doomed /\ Bad
  <2>1. Doomed' \/ fault' # "none"
    BY <1>9, DoomedStep DEF Steps
  <2> QED
    BY <1>4, <1>9, <2>1 DEF Going
<1>10. ~Finished /\ ~Parted
  BY <1>2 DEF Finished, Parted
<1> QED
  BY <1>3, <1>5, <1>6, <1>7, <1>8, <1>9, <1>10

(* Nothing happens.                                                        *)
LEMMA GoingStutters == ASSUME Going, UNCHANGED vars PROVE Going'
<1>1. /\ op' = op /\ room' = room /\ lists' = lists /\ players' = players /\ closed' = closed
      /\ stack' = stack /\ fault' = fault /\ room0' = room0 /\ lists0' = lists0
  BY DEF vars
<1>2. Need' = Need /\ Leaving' = Leaving /\ LastMet' = LastMet /\ (Bad' <=> Bad)
  BY <1>1, NeedKept
<1>3. Walking => Walking'
  BY <1>1 DEF Walking
<1>4. Finished => Finished'
  BY <1>1, <1>2 DEF Finished, Outcome
<1>5. ASSUME NEW bytes, PartingFrom(bytes) PROVE PartingFrom(bytes)'
  BY <1>1, <1>2, <1>5 DEF PartingFrom, Cut
<1>6. PartingUnicast => PartingUnicast'
  BY <1>1, <1>5 DEF PartingUnicast
<1>7. PartingExchange => PartingExchange'
  <2> SUFFICES ASSUME PartingExchange PROVE PartingExchange'
    OBVIOUS
  <2>1. PICK A \in SUBSET Session :
          /\ Progress(lists0, 2, stack[2], A)
          /\ SumOf(op.answer, A \cup {stack[2].node}) > room0[op.c]
          /\ PartingFrom(Told(op, A \cup {stack[2].node}, A))
    BY DEF PartingExchange
  <2>2. PICK bytes : bytes = Told(op, A \cup {stack[2].node}, A)
    OBVIOUS
  <2>3. PartingFrom(bytes)'
    BY <1>5, <2>1, <2>2
  <2>4. Told(op', A \cup {stack'[2].node}, A) = bytes
    BY <1>1, <2>2
  <2>5. PartingFrom(Told(op, A \cup {stack[2].node}, A))'
    BY <2>3, <2>4 DEF PartingFrom, Cut
  <2> QED
    BY <1>1, <2>1, <2>5 DEF PartingExchange
<1>8. GoingOn => GoingOn'
  <2> SUFFICES ASSUME GoingOn PROVE GoingOn'
    OBVIOUS
  <2>1. PICK A \in SUBSET Session, x \in Session :
          /\ \/ stack[1].part = "advance" /\ stack[1].node = x /\ Progress(lists0, 2, stack[1], A)
             \/ stack[1].part = "send" /\ Progress(lists0, 2, stack[1], A \cup {x})
          /\ SumOf(op.answer, A \cup {x}) > room0[op.c] /\ LastMet \notin A
          /\ room = [r \in Session |-> room0[r] - Told(op, A \cup {x}, A)[r] - LenDelete]
    BY DEF GoingOn
  <2>2. /\ \/ stack'[1].part = "advance" /\ stack'[1].node = x /\ Progress(lists0', 2, stack'[1], A)
           \/ stack'[1].part = "send" /\ Progress(lists0', 2, stack'[1], A \cup {x})
        /\ SumOf(op'.answer, A \cup {x}) > room0'[op'.c] /\ LastMet' \notin A
        /\ room' = [r \in Session |-> room0'[r] - Told(op', A \cup {x}, A)[r] - LenDelete]
    BY <1>1, <1>2, <2>1
  <2>3. /\ op'.kind = "exchange" /\ Len(stack') = 1 /\ Mine(op', stack'[1])
        /\ players' = Session \ {op'.c} /\ lists' = Without(op'.c, lists0') /\ closed' = {op'.c}
    BY <1>1 DEF GoingOn
  <2> QED
    BY <2>2, <2>3 DEF GoingOn
<1>9. Parted => Parted'
  BY <1>1, <1>2 DEF Parted, Outcome
<1>10. Doomed => Doomed'
  BY <1>1 DEF Doomed
<1> QED
  BY <1>1, <1>2, <1>3, <1>4, <1>6, <1>7, <1>8, <1>9, <1>10 DEF Going

(* What the ways a call can go mean for its outcome.                       *)
LEMMA GoingSummary == TypeInv /\ Going => SummaryExact
<1> SUFFICES ASSUME TypeInv, Going, op.state = "running", stack = <<>> \/ fault # "none"
             PROVE  IF Fits(Need) THEN Outcome(Need, IF op.kind = "disconnect" THEN {op.c} ELSE {})
                    ELSE IF op.kind \in {"unicast", "exchange"} /\ Need[op.c] > room0[op.c] /\ Fits(Leaving)
                      THEN Outcome(Leaving, {op.c})
                    ELSE fault # "none"
  BY DEF SummaryExact
<1>1. CASE fault # "none"
  BY <1>1 DEF Going, Bad
<1>2. CASE fault = "none"
  <2>1. stack = <<>>
    BY <1>2
  <2>2. Len(stack) = 0
    BY <2>1, EmptySeq
  <2>3. ~Doomed
    BY <2>2 DEF Doomed, DoomedIn
  <2>4. Finished \/ Parted
    BY <1>2, <2>2, <2>3 DEF Going, Walking, PartingUnicast, PartingExchange, GoingOn
  <2>5. /\ Given /\ op.c \in Session /\ Need \in [Session -> Nat]
        /\ \A r \in Session : Leaving[r] \in Int /\ room0[r] \in Nat /\ room[r] \in Nat
    <3>1. Given /\ room \in [Session -> 0..MaxRoom]
      BY DEF TypeInv, Held
    <3>2. \A r \in Session : room[r] \in Nat
      BY <3>1
    <3> QED
      BY <3>1, <3>2, GivenTypes, NeedTypes
  <2>6. CASE Finished
    <3>1. Outcome(Need, Gone(op))
      BY <2>6 DEF Finished
    <3>2. \A r \in Session : room[r] = room0[r] - Need[r]
      BY <3>1 DEF Outcome
    <3>3. Fits(Need)
      BY <2>5, <3>2 DEF Fits
    <3> QED
      BY <3>1, <3>3 DEF Gone
  <2>7. CASE Parted
    <3>1. /\ op.kind \in {"unicast", "exchange"} /\ Need[op.c] > room0[op.c]
          /\ Outcome(Leaving, {op.c})
      BY <2>7 DEF Parted
    <3>2. \A r \in Session : room[r] = room0[r] - Leaving[r]
      BY <3>1 DEF Outcome
    <3>3. Fits(Leaving)
      BY <2>5, <3>2 DEF Fits
    <3>4. ~Fits(Need)
      BY <2>5, <3>1 DEF Fits
    <3> QED
      BY <3>1, <3>3, <3>4
  <2> QED
    BY <2>4, <2>6, <2>7
<1> QED
  BY <1>1, <1>2

(* What GameManager takes a handler's call to do in one step is what the   *)
(* calls of SendUniCast and Disconnect within one another come to, for     *)
(* every number of sessions and sectors: everyone is told if everything    *)
(* fits, c alone is gone if it overflowed on the last message meant for    *)
(* it, and the process ends in every other case.                           *)
THEOREM SummaryIsExact == ASSUME MaxDepth >= 2 PROVE Spec => []SummaryExact
<1>1. Init => TypeInv /\ Going
  BY TypeInit, GoingInit
<1>2. TypeInv /\ Going /\ TypeInv' /\ [Next]_vars => Going'
  <2> SUFFICES ASSUME TypeInv, Going, [Next]_vars PROVE Going'
    OBVIOUS
  <2>1. CASE Call
    BY <2>1, GoingCall
  <2>2. CASE Steps
    BY <2>2, GoingSteps
  <2>3. CASE UNCHANGED vars
    BY <2>3, GoingStutters
  <2> QED
    BY <2>1, <2>2, <2>3 DEF Next, Steps
<1>3. TypeInv /\ Going => SummaryExact
  BY GoingSummary
<1>4. Spec => []TypeInv
  BY TypesHold
<1> QED
  BY <1>1, <1>2, <1>3, <1>4, PTL DEF Spec

====
