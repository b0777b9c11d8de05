--------------------------- MODULE MachineProofs ---------------------------
(***************************************************************************)
(* The registers of the RCP analyser cover those of the program, the       *)
(* assertions it extracts suffice, and those it finds satisfied hold: for  *)
(* every program and number of steps, every descriptor, stack and map, and *)
(* every width of the words.                                               *)
(***************************************************************************)
EXTENDS MachinePair, RcpProofs

-----------------------------------------------------------------------------
(* Words and ints.                                                           *)

\* Differences of words are differences of the numbers they stand for.
LEMMA WordDifference ==
  ASSUME NEW a \in Int, NEW b \in Int
  PROVE  /\ ToWord(ToWord(a) - ToWord(b)) = ToWord(a - b)
         /\ ToWord(ToWord(a) + ToWord(b)) = ToWord(a + b)
<1>1. PICK m \in Nat \ {0} : m = 2 ^ Bits
  BY WordSizes
<1>2. \A n \in Int : ToWord(n) = n % m
  BY <1>1 DEF ToWord
<1>3. \E i \in Int : \E p \in 0 .. m - 1 : a = m * i + p /\ p = a % m
  BY Remainder
<1>4. \E j \in Int : \E q \in 0 .. m - 1 : b = m * j + q /\ q = b % m
  BY Remainder
<1>5. PICK i \in Int, p \in 0 .. m - 1 : a = m * i + p /\ p = a % m
  BY <1>3
<1>6. PICK j \in Int, q \in 0 .. m - 1 : b = m * j + q /\ q = b % m
  BY <1>4
<1>7. (p - q) % m = (a - b) % m
  <2>1. a - b = (p - q) + m * (i - j)
    <3>1. m * (i - j) = m * i - m * j
      OBVIOUS
    <3>2. PICK x \in Int, y \in Int : x = m * i /\ y = m * j
      OBVIOUS
    <3>3. a = x + p /\ b = y + q /\ m * (i - j) = x - y
      BY <1>5, <1>6, <3>1, <3>2
    <3>4. QED
      BY <3>3
  <2>2. PICK k \in Int, d \in Int : k = i - j /\ d = p - q
    <3>1. i - j \in Int /\ p - q \in Int
      OBVIOUS
    <3>2. QED
      BY <3>1
  <2>3. (d + m * k) % m = d % m
    BY <2>2, RemainderShift
  <2>4. QED
    BY <2>1, <2>2, <2>3
<1>8. (p + q) % m = (a + b) % m
  <2>1. a + b = (p + q) + m * (i + j)
    <3>1. m * (i + j) = m * i + m * j
      OBVIOUS
    <3>2. QED
      BY <1>5, <1>6, <3>1
  <2>2. PICK k \in Int, d \in Int : k = i + j /\ d = p + q
    <3>1. i + j \in Int /\ p + q \in Int
      OBVIOUS
    <3>2. QED
      BY <3>1
  <2>3. (d + m * k) % m = d % m
    BY <2>2, RemainderShift
  <2>4. QED
    BY <2>1, <2>2, <2>3
<1>9. ToWord(a) = p /\ ToWord(b) = q
  BY <1>2, <1>5, <1>6
<1>10. p - q \in Int /\ p + q \in Int /\ a - b \in Int /\ a + b \in Int
  OBVIOUS
<1>11. /\ ToWord(p - q) = (p - q) % m /\ ToWord(p + q) = (p + q) % m
       /\ ToWord(a - b) = (a - b) % m /\ ToWord(a + b) = (a + b) % m
  BY <1>2, <1>10
<1>12. QED
  BY <1>7, <1>8, <1>9, <1>11

LEMMA PowerDivides ==
  ASSUME NEW i \in Nat, NEW n \in Nat
  PROVE  \E q \in Nat : 2 ^ (i + n) = 2 ^ i * q
<1> DEFINE G == {k \in 0 .. n : \E q \in Nat : 2 ^ (i + k) = 2 ^ i * q}
<1>1. 2 ^ i \in Nat
  BY PowerOfTwo
<1>2. 0 \in G
  <2>1. 2 ^ (i + 0) = 2 ^ i * 1
    BY <1>1
  <2>2. QED
    BY <2>1
<1>3. ASSUME NEW k \in 0 .. n - 1, k \in G PROVE k + 1 \in G
  <2>1. PICK q \in Nat : 2 ^ (i + k) = 2 ^ i * q
    BY <1>3
  <2>2. i + k \in Nat /\ i + (k + 1) = (i + k) + 1
    BY <1>3
  <2>3. 2 ^ ((i + k) + 1) = 2 ^ (i + k) + 2 ^ (i + k)
    BY <2>2, PowerDoubles
  <2>4. PICK p \in Nat : p = 2 ^ i
    BY <1>1
  <2>5. p * q + p * q = p * (q + q)
    OBVIOUS
  <2>6. 2 ^ (i + (k + 1)) = 2 ^ i * (q + q)
    BY <2>1, <2>2, <2>3, <2>4, <2>5
  <2>7. q + q \in Nat
    OBVIOUS
  <2>8. k + 1 \in 0 .. n
    BY <1>3
  <2>9. QED
    BY <2>6, <2>7, <2>8
<1>4. 0 .. n \subseteq G
  <2> HIDE DEF G
  <2>1. QED
    BY <1>2, <1>3, IntervalInduction
<1>5. n \in G
  BY <1>4
<1>6. QED
  BY <1>5

\* An int is four times the cap on offsets, and a word many ints.
LEMMA IntSizes ==
  /\ Cap \in Nat \ {0}
  /\ 2 ^ (IntBits - 1) = 2 * Cap /\ 2 ^ IntBits = 4 * Cap
  /\ \E q \in Nat : 2 ^ Bits = (4 * Cap) * q
  /\ 4 * Cap < 2 ^ Bits
<1>1. /\ IntBits - 2 \in Nat /\ IntBits - 1 \in Nat /\ IntBits \in Nat
      /\ (IntBits - 2) + 1 = IntBits - 1 /\ (IntBits - 1) + 1 = IntBits
      /\ Bits - IntBits \in Nat /\ IntBits + (Bits - IntBits) = Bits
      /\ Bits # IntBits
  BY WidthAssumption
<1>2. Cap \in Nat \ {0} /\ 2 ^ (IntBits - 1) = Cap + Cap
  BY <1>1, PowerOfTwo, PowerDoubles DEF Cap
<1>3. 2 ^ IntBits = 2 ^ (IntBits - 1) + 2 ^ (IntBits - 1)
  BY <1>1, PowerDoubles
<1>4. 2 ^ (IntBits - 1) = 2 * Cap /\ 2 ^ IntBits = 4 * Cap
  BY <1>2, <1>3
<1>5. \E q \in Nat : 2 ^ Bits = (4 * Cap) * q
  <2>1. \E q \in Nat : 2 ^ (IntBits + (Bits - IntBits)) = 2 ^ IntBits * q
    BY <1>1, PowerDivides
  <2>2. QED
    BY <1>1, <1>4, <2>1
<1>6. 4 * Cap < 2 ^ Bits
  <2>1. Bits - IntBits - 1 \in Nat /\ IntBits + (Bits - IntBits - 1) = Bits - 1
    BY <1>1
  <2>2. PICK q \in Nat : 2 ^ (IntBits + (Bits - IntBits - 1)) = 2 ^ IntBits * q
    BY <1>1, <2>1, PowerDivides
  <2>3. PICK h \in Nat \ {0} : 2 ^ (Bits - 1) = h /\ 2 ^ Bits = h + h
    BY WordSizes
  <2>4. PICK c \in Nat \ {0} : c = 4 * Cap
    BY <1>2
  <2>5. h = c * q
    BY <1>4, <2>1, <2>2, <2>3, <2>4
  <2>6. q # 0
    BY <2>5
  <2>7. c * q >= c
    BY <2>6
  <2>8. QED
    BY <2>3, <2>4, <2>5, <2>7
<1>7. QED
  BY <1>2, <1>4, <1>5, <1>6

\* What an int can hold is not cut.
LEMMA FitsInt ==
  ASSUME NEW g \in Int, -(2 * Cap) <= g, g < 2 * Cap
  PROVE  AsInt(ToWord(g)) = g
<1>1. PICK c \in Nat \ {0}, q \in Nat : c = Cap /\ 2 ^ Bits = (4 * c) * q
  BY IntSizes
<1>2. PICK m \in Nat \ {0} : m = 4 * c
  OBVIOUS
<1>3. 2 ^ IntBits = m /\ 2 ^ (IntBits - 1) = 2 * c /\ m = 4 * c /\ 2 ^ Bits = m * q
  BY <1>1, <1>2, IntSizes
<1>4. PICK w \in Words : w = ToWord(g)
  BY WordFacts
<1>5. PICK n \in Nat \ {0} : n = 2 ^ Bits
  BY WordSizes
<1>6. PICK k \in Int : g = n * k + w
  <2>1. w = g % n
    BY <1>4, <1>5 DEF ToWord
  <2>2. \E i \in Int : \E r \in 0 .. n - 1 : g = n * i + r /\ r = g % n
    BY Remainder
  <2>3. QED
    BY <2>1, <2>2
<1>7. w \in Int
  BY WordFacts
<1>8. w % m = g % m
  <2>1. n * k = m * (q * k)
    BY <1>3, <1>5
  <2>2. PICK j \in Int : j = q * k
    OBVIOUS
  <2>3. (w + m * j) % m = w % m
    BY <1>7, RemainderShift
  <2>4. g = w + m * j
    BY <1>6, <1>7, <2>1, <2>2
  <2>5. QED
    BY <2>3, <2>4
<1>9. CASE g >= 0
  <2>1. g \in 0 .. m - 1 /\ g = m * 0 + g
    BY <1>1, <1>3, <1>9
  <2>2. g % m = g
    BY <2>1
  <2>3. QED
    BY <1>1, <1>3, <1>4, <1>8, <1>9, <2>2 DEF AsInt
<1>10. CASE g < 0
  <2>1. PICK p \in 0 .. m - 1 : p = g + m
    BY <1>1, <1>3, <1>10
  <2>2. g = m * (-1) + p
    BY <2>1
  <2>3. g % m = p
    BY <2>2, RemainderUnique
  <2>4. p >= 2 * c
    BY <1>1, <1>3, <2>1
  <2>5. w % 2 ^ IntBits = p
    BY <1>3, <1>8, <2>3
  <2>6. AsInt(w) = p - m
    BY <1>3, <2>4, <2>5 DEF AsInt
  <2>7. QED
    BY <1>4, <2>1, <2>6
<1>11. QED
  BY <1>9, <1>10

-----------------------------------------------------------------------------
(* Values without elements when they are top.                                *)

Tidy(a) == a.top => a.elems = << >>

LEMMA TidyVectors ==
  ASSUME NEW a, NEW b
  PROVE  /\ Tidy(Bot) /\ Tidy(Top) /\ Tidy(Of(<<0>>)) /\ Tidy(Join(a, b))
         /\ \A op : Tidy(Exec(op, a, b))
         /\ \A add : Tidy(OffsetExec(add, a, b))
         /\ Tidy(OffsetMinus(a, b))
<1>1. (\A s : Tidy(Of(s))) /\ Tidy(Bot) /\ Tidy(Top)
  BY DEF Tidy, Of, Bot, Top
<1>2. Tidy(Join(a, b))
  BY <1>1 DEF Join
<1>3. ASSUME NEW op PROVE Tidy(Exec(op, a, b))
  BY <1>1 DEF Exec
<1>4. ASSUME NEW add PROVE Tidy(OffsetExec(add, a, b))
  BY <1>1 DEF OffsetExec
<1>5. Tidy(OffsetMinus(a, b))
  BY <1>1 DEF OffsetMinus
<1>6. QED
  BY <1>1, <1>2, <1>3, <1>4, <1>5

\* An assumption that leaves the flag leaves nothing in an empty vector.
LEMMA TidyAssumed ==
  ASSUME NEW op \in CmpOps, NEW a, IsVector(a), Tidy(a), NEW b, IsVector(b), Tidy(b)
  PROVE  Tidy(AssumeNum(op, a, b))
<1>1. /\ a = [top |-> a.top, elems |-> a.elems] /\ a.top \in BOOLEAN
      /\ a.elems \in Seq(Int) /\ b.elems \in Seq(Int)
  BY VectorFields
<1>2. PICK r : r = AssumeNum(op, a, b)
  OBVIOUS
<1>3. ASSUME NEW s \in Seq(Int), Range(s) \subseteq Range(a.elems), Gives(a, s, r)
      PROVE  Tidy(r)
  <2>1. r.top = a.top /\ r.elems = s
    BY <1>1, <1>3 DEF Gives
  <2>2. ASSUME a.top PROVE s = << >>
    <3>1. Range(a.elems) = {}
      BY <2>2 DEF Tidy, Range
    <3>2. \A i \in 1 .. Len(s) : s[i] \in Range(s)
      BY RangeIndex
    <3>3. Len(s) = 0
      BY <1>3, <3>1, <3>2
    <3>4. QED
      BY <3>3
  <2>3. QED
    BY <2>1, <2>2 DEF Tidy
<1>4. CASE b.top \/ op \in {"SET", "NSET"}
  BY <1>4 DEF AssumeNum
<1>5. CASE ~b.top /\ op = "EQ"
  <2>1. AssumeNum(op, a, b) = Meet(a, b)
    BY <1>5 DEF AssumeNum
  <2>2. \A s : Tidy(Of(s))
    BY DEF Tidy, Of
  <2>3. QED
    BY <2>1, <2>2 DEF Meet
<1>6. CASE ~b.top /\ op = "NE"
  <2>1. Gives(a, SetDifference(a.elems, b.elems), r)
    BY <1>2, <1>6 DEF AssumeNum, Gives
  <2>2. QED
    BY <1>1, <1>2, <1>3, <2>1, DifferenceFacts
<1>7. CASE ~b.top /\ op \in Orders /\ b.elems = << >>
  <2>1. Gives(a, << >>, r)
    BY <1>2, <1>7 DEF AssumeNum, Orders, Gives
  <2>2. << >> \in Seq(Int) /\ Range(<< >>) \subseteq Range(a.elems)
    BY DEF Range
  <2>3. QED
    BY <1>2, <1>3, <2>1, <2>2
<1>8. CASE ~b.top /\ op \in Orders /\ b.elems # << >>
  <2>1. Gives(a, Keep(op, a.elems, b.elems), r)
    BY <1>2, <1>8 DEF AssumeNum, Orders, Gives
  <2>2. /\ Keep(op, a.elems, b.elems) \in Seq(Int)
        /\ Range(Keep(op, a.elems, b.elems)) \subseteq Range(a.elems)
    BY <1>1, <1>8, KeepFacts
  <2>3. QED
    BY <1>2, <1>3, <2>1, <2>2
<1>9. op \in {"SET", "NSET"} \/ op = "EQ" \/ op = "NE" \/ op \in Orders
  BY DEF Orders
<1>10. QED
  BY <1>4, <1>5, <1>6, <1>7, <1>8, <1>9

LEMMA TidyParts ==
  ASSUME NEW d
  PROVE  IsTidy(d) <=> \A t \in NonFd : Tidy(d[t])
BY DEF IsTidy, Tidy

LEMMA TidyValues ==
  ASSUME NEW a, NEW b
  PROVE  /\ IsTidy(AddVal(a, b)) /\ IsTidy(SubVal(a, b)) /\ IsTidy(JoinVal(a, b))
         /\ IsTidy(MapLookup(a)) /\ IsTidy(Zero(a))
         /\ IsTidy(a) => \A T : IsTidy(AssumeType(a, T))
         /\ IsValue(a) /\ IsTidy(a) => \A op : IsTidy(ExecVal(op, a, b))
<1>1. /\ NonFd \subseteq AllTypes /\ T_FD \notin NonFd /\ T_NUM \in NonFd
      /\ \A t \in NonFd : t \in AllTypes /\ t # T_FD
  BY TypeCases
<1>2. IsTidy(AddVal(a, b))
  <2>1. SUFFICES ASSUME NEW t \in NonFd PROVE Tidy(AddVal(a, b)[t])
    BY TidyParts
  <2>2. AddVal(a, b)[t] = IF t = T_NUM THEN Exec("ADD", a[t], b[t])
                          ELSE Join(OffsetExec(TRUE, b[t], a[T_NUM]),
                                    OffsetExec(TRUE, a[t], b[T_NUM]))
    BY <1>1 DEF AddVal
  <2>3. QED
    BY <2>2, TidyVectors
<1>3. IsTidy(SubVal(a, b))
  <2>1. SUFFICES ASSUME NEW t \in NonFd PROVE Tidy(SubVal(a, b)[t])
    BY TidyParts
  <2>2. SubVal(a, b)[t] = IF t = T_NUM THEN SubNum(a, b)
                          ELSE OffsetExec(FALSE, a[t], b[T_NUM])
    BY <1>1 DEF SubVal
  <2>3. Tidy(SubNum(a, b))
    BY TidyVectors DEF SubNum
  <2>4. QED
    BY <2>2, <2>3, TidyVectors
<1>4. IsTidy(JoinVal(a, b))
  <2>1. SUFFICES ASSUME NEW t \in NonFd PROVE Tidy(JoinVal(a, b)[t])
    BY TidyParts
  <2>2. JoinVal(a, b)[t] = Join(a[t], b[t])
    BY <1>1 DEF JoinVal
  <2>3. QED
    BY <2>2, TidyVectors
<1>5. IsTidy(MapLookup(a))
  <2>1. SUFFICES ASSUME NEW t \in NonFd PROVE Tidy(MapLookup(a)[t])
    BY TidyParts
  <2>2. MapLookup(a)[t] = Of(<<0>>) \/ MapLookup(a)[t] = Bot
    BY <1>1 DEF MapLookup
  <2>3. QED
    BY <2>2, TidyVectors
<1>6. IsTidy(Zero(a))
  <2>1. SUFFICES ASSUME NEW t \in NonFd PROVE Tidy(Zero(a)[t])
    BY TidyParts
  <2>2. Zero(a)[t] = Of(<<0>>) \/ Zero(a)[t] = Bot
    BY <1>1 DEF Zero
  <2>3. QED
    BY <2>2, TidyVectors
<1>7. ASSUME IsTidy(a), NEW T PROVE IsTidy(AssumeType(a, T))
  <2>1. SUFFICES ASSUME NEW t \in NonFd PROVE Tidy(AssumeType(a, T)[t])
    BY TidyParts
  <2>2. AssumeType(a, T)[t] = a[t] \/ AssumeType(a, T)[t] = Bot
    BY <1>1 DEF AssumeType
  <2>3. QED
    BY <1>7, <2>2, TidyParts, TidyVectors
<1>8. ASSUME IsValue(a), IsTidy(a), NEW op PROVE IsTidy(ExecVal(op, a, b))
  <2>1. SUFFICES ASSUME NEW t \in NonFd PROVE Tidy(ExecVal(op, a, b)[t])
    BY TidyParts
  <2>2. DOMAIN a = AllTypes
    BY <1>8 DEF IsValue
  <2>3. ExecVal(op, a, b)[t] = a[t] \/ ExecVal(op, a, b)[t] = Exec(op, a[T_NUM], b[T_NUM])
    BY <1>1, <2>2 DEF ExecVal
  <2>4. QED
    BY <1>8, <2>3, TidyParts, TidyVectors
<1>9. QED
  BY <1>2, <1>3, <1>4, <1>5, <1>6, <1>7, <1>8

-----------------------------------------------------------------------------
(* The values of the machine.                                                *)

\* A value that is bottom but for one part.
LEMMA WithParts ==
  ASSUME NEW t \in AllTypes, NEW c, NEW r, r = With(BotVal, t, c)
  PROVE  /\ r = [q \in AllTypes |-> r[q]] /\ r[t] = c
         /\ \A q \in AllTypes \ {t} : r[q] = BotVal[q]
         /\ BotVal = [q \in AllTypes |-> BotVal[q]] /\ BotVal[T_FD] = {}
         /\ \A q \in NonFd : BotVal[q] = Bot
<1>1. /\ NonFd \subseteq AllTypes /\ T_FD \in AllTypes /\ T_FD \notin NonFd
  BY TypeCases
<1>2. /\ BotVal = [q \in AllTypes |-> BotVal[q]] /\ BotVal[T_FD] = {}
      /\ \A q \in NonFd : BotVal[q] = Bot
  BY <1>1 DEF BotVal
<1>3. r = [BotVal EXCEPT ![t] = c]
  BY DEF With
<1>4. r = [q \in AllTypes |-> IF q = t THEN c ELSE BotVal[q]]
  BY <1>2, <1>3
<1>5. QED
  BY <1>2, <1>4

LEMMA WithValue ==
  ASSUME NEW t \in AllTypes, NEW c, NEW r, r = With(BotVal, t, c),
         \/ t = T_FD /\ c \in SUBSET Maps
         \/ t = T_NUM /\ IsNumber(c) /\ Tidy(c)
         \/ t \in PtrTypes /\ IsOffset(c) /\ Tidy(c)
  PROVE  /\ IsValue(r) /\ IsTidy(r)
         /\ InOrder(r[T_NUM]) <=> (t = T_NUM => InOrder(c))
<1>1. /\ r = [q \in AllTypes |-> r[q]] /\ r[t] = c
      /\ \A q \in AllTypes \ {t} : r[q] = BotVal[q]
      /\ BotVal[T_FD] = {} /\ \A q \in NonFd : BotVal[q] = Bot
  BY WithParts
<1>2. r[T_FD] \in SUBSET Maps
  BY <1>1, TypeCases
<1>3. IsNumber(r[T_NUM])
  BY <1>1, TypeCases, Constants
<1>4. ASSUME NEW q \in PtrTypes PROVE IsOffset(r[q])
  BY <1>1, <1>4, TypeCases, Constants
<1>5. ASSUME NEW q \in NonFd PROVE Tidy(r[q])
  <2>1. CASE q = t
    <3>1. t # T_FD
      BY <1>5, <2>1, TypeCases
    <3>2. QED
      BY <1>1, <2>1, <3>1
  <2>2. CASE q # t
    <3>1. r[q] = Bot
      BY <1>1, <1>5, <2>2, TypeCases
    <3>2. QED
      BY <3>1, TidyVectors
  <2>3. QED
    BY <2>1, <2>2
<1>6. InOrder(r[T_NUM]) <=> (t = T_NUM => InOrder(c))
  <2>1. CASE t = T_NUM
    BY <1>1, <2>1
  <2>2. CASE t # T_NUM
    <3>1. r[T_NUM] = Bot
      BY <1>1, <2>2, TypeCases
    <3>2. QED
      BY <2>2, <3>1, Constants DEF IsOffset
  <2>3. QED
    BY <2>1, <2>2
<1>7. QED
  BY <1>1, <1>2, <1>3, <1>4, <1>5, <1>6, ValueParts, TidyParts

\* A vector of one element.
LEMMA OneElement ==
  ASSUME NEW n \in Int
  PROVE  /\ IsOffset(Of(<<n>>)) /\ Tidy(Of(<<n>>))
         /\ n \in Words => IsNumber(Of(<<n>>))
         /\ \A e : Contains(Of(<<n>>), e) <=> e = n
<1>1. <<n>> \in Seq(Int) /\ Range(<<n>>) = {n} /\ Ordered(<<n>>)
  BY DEF Range, Ordered
<1>2. Of(<<n>>) = [top |-> FALSE, elems |-> <<n>>]
  BY DEF Of
<1>3. /\ IsOffset(Of(<<n>>)) /\ Of(<<n>>).elems = <<n>> /\ ~Of(<<n>>).top
      /\ n \in Words => IsNumber(Of(<<n>>))
  BY <1>1, <1>2, MakesVector
<1>4. QED
  BY <1>1, <1>3 DEF Contains, Elems, Tidy

LEMMA BottomValue ==
  /\ IsValue(BotVal) /\ IsTidy(BotVal)
<1>1. T_FD \in AllTypes /\ {} \in SUBSET Maps
  BY TypeCases
<1>2. PICK r : r = With(BotVal, T_FD, {})
  OBVIOUS
<1>3. IsValue(r) /\ IsTidy(r)
  BY <1>1, <1>2, WithValue
<1>4. /\ r = [q \in AllTypes |-> r[q]] /\ r[T_FD] = {}
      /\ \A q \in AllTypes \ {T_FD} : r[q] = BotVal[q]
      /\ BotVal = [q \in AllTypes |-> BotVal[q]] /\ BotVal[T_FD] = {}
  BY <1>1, <1>2, WithParts
<1>5. r = BotVal
  BY <1>4
<1>6. QED
  BY <1>3, <1>5

LEMMA TopValue ==
  /\ IsValue(TopVal) /\ IsTidy(TopVal)
  /\ \A x : IsReal(x) /\ (x.t = T_FD => x.n \in Maps) => Holds(TopVal, x)
<1>1. /\ TopVal = [q \in AllTypes |-> TopVal[q]] /\ TopVal[T_FD] = Maps
      /\ \A q \in NonFd : TopVal[q] = Top
  BY TypeCases DEF TopVal
<1>2. IsValue(TopVal) /\ IsTidy(TopVal)
  BY <1>1, TypeCases, Constants, TidyVectors, ValueParts, TidyParts
<1>3. ASSUME NEW x, IsReal(x), x.t = T_FD => x.n \in Maps PROVE Holds(TopVal, x)
  <2>1. CASE x.t = T_FD
    BY <1>1, <1>3, <2>1, RealParts
  <2>2. CASE x.t # T_FD
    <3>1. Contains(TopVal[x.t], x.n)
      BY <1>1, <1>3, <2>2, RealParts, TypeCases, Constants
    <3>2. QED
      BY <1>3, <2>2, <3>1, RealParts
  <2>3. QED
    BY <2>1, <2>2
<1>4. QED
  BY <1>2, <1>3

\* Any number, and one number.
LEMMA NumberValues ==
  /\ IsValue(NumTop) /\ IsTidy(NumTop) /\ InOrder(NumTop[T_NUM])
  /\ \A n \in Int : Holds(NumTop, Num(n))
  /\ \A w \in Words : /\ IsValue(OnlyNum(w)) /\ IsTidy(OnlyNum(w))
                      /\ InOrder(OnlyNum(w)[T_NUM])
                      /\ Contains(OnlyNum(w)[T_NUM], w)
  /\ \A n \in Int : Holds(OnlyNum(ToWord(n)), Num(n))
<1>1. T_NUM \in AllTypes /\ T_NUM # T_FD
  BY TypeCases
<1>2. IsNumber(Top) /\ Tidy(Top) /\ InOrder(Top) /\ \A e : Contains(Top, e)
  BY Constants, TidyVectors DEF IsOffset
<1>3. PICK d : d = NumTop
  OBVIOUS
<1>4. d = With(BotVal, T_NUM, Top)
  BY <1>3 DEF NumTop
<1>5. IsValue(d) /\ IsTidy(d) /\ InOrder(d[T_NUM]) /\ d[T_NUM] = Top
  BY <1>1, <1>2, <1>4, WithValue, WithParts
<1>6. ASSUME NEW w \in Words
      PROVE  /\ IsValue(OnlyNum(w)) /\ IsTidy(OnlyNum(w)) /\ InOrder(OnlyNum(w)[T_NUM])
             /\ Contains(OnlyNum(w)[T_NUM], w)
  <2>1. w \in Int
    BY WordFacts
  <2>2. /\ IsNumber(Of(<<w>>)) /\ Tidy(Of(<<w>>)) /\ InOrder(Of(<<w>>))
        /\ Contains(Of(<<w>>), w)
    BY <2>1, OneElement DEF IsOffset
  <2>3. PICK r : r = With(BotVal, T_NUM, Of(<<w>>))
    OBVIOUS
  <2>4. IsValue(r) /\ IsTidy(r) /\ InOrder(r[T_NUM]) /\ r[T_NUM] = Of(<<w>>)
    BY <1>1, <2>2, <2>3, WithValue, WithParts
  <2>5. QED
    BY <2>2, <2>3, <2>4 DEF OnlyNum
<1>7. ASSUME NEW n \in Int PROVE Holds(NumTop, Num(n)) /\ Holds(OnlyNum(ToWord(n)), Num(n))
  <2>1. IsReal(Num(n)) /\ Num(n).t = T_NUM /\ Num(n).n = ToWord(n) /\ ToWord(n) \in Words
    BY NumType, WordFacts
  <2>2. Contains(d[T_NUM], Num(n).n) /\ Contains(OnlyNum(ToWord(n))[T_NUM], Num(n).n)
    BY <1>2, <1>5, <1>6, <2>1
  <2>3. QED
    BY <1>1, <1>3, <2>1, <2>2, RealParts
<1>8. QED
  BY <1>3, <1>5, <1>6, <1>7

-----------------------------------------------------------------------------
(* What a bound is compared with.                                            *)

LEMMA ZeroValue ==
  ASSUME NEW d, IsValue(d), NEW r, r = Zero(d)
  PROVE  /\ IsValue(r) /\ IsTidy(r)
         /\ \A x : IsReal(x) /\ x.t # T_FD /\ Holds(d, x) => Contains(r[x.t], 0)
<1>1. /\ r = [t \in AllTypes |-> r[t]] /\ r[T_FD] = {}
      /\ \A t \in NonFd : r[t] = IF IsBot(d[t]) THEN Bot ELSE Of(<<0>>)
  BY TypeCases DEF Zero
<1>2. IsNumber(r[T_NUM])
  BY <1>1, TypeCases, Constants
<1>3. ASSUME NEW t \in PtrTypes PROVE IsOffset(r[t])
  BY <1>1, TypeCases, Constants
<1>4. IsValue(r) /\ IsTidy(r)
  BY <1>1, <1>2, <1>3, ValueParts, TidyValues
<1>5. ASSUME NEW x, IsReal(x), x.t # T_FD, Holds(d, x) PROVE Contains(r[x.t], 0)
  <2>1. Contains(d[x.t], x.n) /\ x.t \in NonFd
    BY <1>5, RealParts, TypeCases
  <2>2. Range(<< >>) = {}
    BY DEF Range
  <2>3. ~IsBot(d[x.t])
    BY <2>1, <2>2 DEF IsBot, Contains, Elems
  <2>4. QED
    BY <1>1, <2>1, <2>3, Constants
<1>6. QED
  BY <1>4, <1>5

\* The value on the right of a bound, and the number it holds: what is left of
\* i when j and k are taken away.
LEMMA RightValue ==
  ASSUME NEW d, IsValue(d), NEW v, IsValue(v), NEW w, IsValue(w), NEW o, IsValue(o),
         NEW r, r = AddVal(Zero(d), SubVal(SubVal(v, w), o))
  PROVE  /\ IsValue(r) /\ IsTidy(r) /\ InOrder(r[T_NUM])
         /\ \A i \in Int, j \in Int, k \in Int : \A x :
              /\ Contains(v[T_NUM], ToWord(i)) /\ Contains(w[T_NUM], ToWord(j))
              /\ Contains(o[T_NUM], ToWord(k))
              /\ IsReal(x) /\ x.t # T_FD /\ Holds(d, x)
              => Contains(r[x.t], IF x.t = T_NUM THEN ToWord(i - j - k)
                                  ELSE AsInt(ToWord(i - j - k)))
<1>1. PICK z, p, q : z = Zero(d) /\ p = SubVal(v, w) /\ q = SubVal(p, o)
  OBVIOUS
<1>2. /\ IsValue(z)
      /\ \A x : IsReal(x) /\ x.t # T_FD /\ Holds(d, x) => Contains(z[x.t], 0)
  BY <1>1, ZeroValue
<1>3. /\ IsValue(p)
      /\ \A m \in Words, n \in Words :
           Contains(v[T_NUM], m) /\ Contains(w[T_NUM], n) =>
             Contains(p[T_NUM], ToWord(m - n))
  BY <1>1, SubValue
<1>4. /\ IsValue(q)
      /\ \A m \in Words, n \in Words :
           Contains(p[T_NUM], m) /\ Contains(o[T_NUM], n) =>
             Contains(q[T_NUM], ToWord(m - n))
  BY <1>1, <1>3, SubValue
<1>5. /\ IsValue(r) /\ InOrder(r[T_NUM])
      /\ \A m \in Words, n \in Words :
           Contains(z[T_NUM], m) /\ Contains(q[T_NUM], n) =>
             Contains(r[T_NUM], ToWord(m + n))
      /\ \A t \in PtrTypes, m \in Int, n \in Words :
           \/ Contains(z[t], m) /\ Contains(q[T_NUM], n)
           \/ Contains(q[t], m) /\ Contains(z[T_NUM], n)
           => Contains(r[t], m + AsInt(n))
  BY <1>1, <1>2, <1>4, AddValue
<1>6. ASSUME NEW i \in Int, NEW j \in Int, NEW k \in Int, NEW x,
             Contains(v[T_NUM], ToWord(i)), Contains(w[T_NUM], ToWord(j)),
             Contains(o[T_NUM], ToWord(k)), IsReal(x), x.t # T_FD, Holds(d, x)
      PROVE  Contains(r[x.t], IF x.t = T_NUM THEN ToWord(i - j - k)
                              ELSE AsInt(ToWord(i - j - k)))
  <2>1. PICK m \in Int, n \in Int : m = i - j /\ n = m - k
    OBVIOUS
  <2>2. /\ ToWord(i) \in Words /\ ToWord(j) \in Words /\ ToWord(k) \in Words
        /\ ToWord(m) \in Words /\ ToWord(n) \in Words
    BY WordFacts
  <2>3. ToWord(ToWord(i) - ToWord(j)) = ToWord(m) /\ ToWord(ToWord(m) - ToWord(k)) = ToWord(n)
    BY <2>1, WordDifference
  <2>4. Contains(p[T_NUM], ToWord(m))
    BY <1>3, <1>6, <2>2, <2>3
  <2>5. Contains(q[T_NUM], ToWord(n))
    BY <1>4, <1>6, <2>2, <2>3, <2>4
  <2>6. Contains(z[x.t], 0)
    BY <1>2, <1>6
  <2>7. n = i - j - k
    BY <2>1
  <2>8. CASE x.t = T_NUM
    <3>1. 0 \in Words /\ ToWord(n) \in Int /\ ToWord(ToWord(n)) = ToWord(n)
      BY <2>2, WordSizes, WordFacts
    <3>2. Contains(r[T_NUM], ToWord(0 + ToWord(n)))
      BY <1>5, <2>2, <2>5, <2>6, <2>8, <3>1
    <3>3. 0 + ToWord(n) = ToWord(n)
      BY <3>1
    <3>4. QED
      BY <2>7, <2>8, <3>1, <3>2, <3>3
  <2>9. CASE x.t # T_NUM
    <3>1. x.t \in PtrTypes
      BY <1>6, <2>9, RealParts
    <3>2. Contains(r[x.t], 0 + AsInt(ToWord(n)))
      BY <1>5, <2>2, <2>5, <2>6, <3>1
    <3>3. AsInt(ToWord(n)) \in Int
      BY <2>2, AsIntType
    <3>4. QED
      BY <2>7, <2>9, <3>2, <3>3
  <2>10. QED
    BY <2>8, <2>9
<1>7. IsTidy(r)
  BY TidyValues
<1>8. QED
  BY <1>5, <1>6, <1>7

\* A bound assumed of the types T.
LEMMA BoundAt ==
  ASSUME NEW op, NEW a, NEW b, NEW T, T_FD \notin T, NEW r, r = AssumeValIn(op, T, a, b),
         NEW t \in AllTypes
  PROVE  r[t] = IF t \in T THEN AssumeNum(op, a[t], b[t]) ELSE a[t]
<1>1. CASE t \in T
  <2>1. t # T_FD
    BY <1>1
  <2>2. QED
    BY <1>1, <2>1 DEF AssumeValIn, AssumeOffset
<1>2. CASE t \notin T
  BY <1>2 DEF AssumeValIn
<1>3. QED
  BY <1>1, <1>2

LEMMA BoundParts ==
  ASSUME NEW op \in CmpOps, NEW a, IsValue(a), NEW b, IsValue(b), NEW T, T_FD \notin T,
         NEW r, r = AssumeValIn(op, T, a, b)
  PROVE  /\ IsValue(r)
         /\ IsTidy(a) /\ IsTidy(b) => IsTidy(r)
         /\ InOrder(a[T_NUM]) /\ InOrder(b[T_NUM]) => InOrder(r[T_NUM])
         /\ \A t \in AllTypes : r[t] = IF t \in T THEN AssumeNum(op, a[t], b[t]) ELSE a[t]
<1>1. /\ a[T_FD] \subseteq Maps /\ IsNumber(a[T_NUM]) /\ IsNumber(b[T_NUM])
      /\ \A t \in PtrTypes : IsOffset(a[t]) /\ IsOffset(b[t])
  BY ValueParts
<1>2. r = [t \in AllTypes |-> r[t]]
  BY DEF AssumeValIn
<1>3. \A t \in AllTypes : r[t] = IF t \in T THEN AssumeNum(op, a[t], b[t]) ELSE a[t]
  BY BoundAt
<1>4. T_FD \in AllTypes /\ T_NUM \in AllTypes /\ PtrTypes \subseteq AllTypes
      /\ NonFd = PtrTypes \cup {T_NUM}
  BY TypeCases
<1>5. r[T_FD] = a[T_FD]
  BY <1>3, <1>4
<1>6. IsVector(a[T_NUM]) /\ IsVector(b[T_NUM])
  BY <1>1, NumberIsVector
<1>7. /\ IsNumber(r[T_NUM])
      /\ InOrder(a[T_NUM]) /\ InOrder(b[T_NUM]) => InOrder(r[T_NUM])
  <2>1. PICK c : c = AssumeNum(op, a[T_NUM], b[T_NUM])
    OBVIOUS
  <2>2. /\ IsNumber(c)
        /\ InOrder(a[T_NUM]) /\ InOrder(b[T_NUM]) => InOrder(c)
    BY <1>1, <1>6, <2>1, AssumeNumTypes
  <2>3. r[T_NUM] = c \/ r[T_NUM] = a[T_NUM]
    BY <1>3, <1>4, <2>1
  <2>4. QED
    BY <1>1, <2>2, <2>3
<1>8. ASSUME NEW t \in PtrTypes PROVE IsOffset(r[t])
  <2>1. IsVector(a[t]) /\ IsVector(b[t]) /\ InOrder(a[t]) /\ InOrder(b[t])
    BY <1>1 DEF IsOffset
  <2>2. PICK c : c = AssumeNum(op, a[t], b[t])
    OBVIOUS
  <2>3. IsOffset(c)
    BY <2>1, <2>2, AssumeNumTypes DEF IsOffset
  <2>4. r[t] = c \/ r[t] = a[t]
    BY <1>3, <1>4, <2>2
  <2>5. QED
    BY <1>1, <2>3, <2>4
<1>9. ASSUME IsTidy(a), IsTidy(b), NEW t \in NonFd PROVE Tidy(r[t])
  <2>1. IsVector(a[t]) /\ IsVector(b[t]) /\ Tidy(a[t]) /\ Tidy(b[t])
    BY <1>1, <1>4, <1>6, <1>9, TidyParts DEF IsOffset
  <2>2. Tidy(AssumeNum(op, a[t], b[t]))
    BY <2>1, TidyAssumed
  <2>3. r[t] = AssumeNum(op, a[t], b[t]) \/ r[t] = a[t]
    BY <1>3, <1>4, <1>9
  <2>4. QED
    BY <2>1, <2>2, <2>3
<1>10. IsValue(r)
  BY <1>1, <1>2, <1>5, <1>7, <1>8, ValueParts
<1>11. QED
  BY <1>3, <1>7, <1>9, <1>10, TidyParts

Bounds == {"GE", "GT", "LE", "EQ"}

\* A bound that holds of the real value keeps it.
LEMMA BoundKeeps ==
  ASSUME NEW op \in Bounds, NEW a, IsValue(a), NEW b, IsValue(b), NEW T, T_FD \notin T,
         op = "EQ" => InOrder(a[T_NUM]) /\ InOrder(b[T_NUM]),
         NEW x, IsReal(x), Holds(a, x),
         x.t \in T => \E y \in Int : Contains(b[x.t], y) /\ Compare(op, x.n, y)
  PROVE  Holds(AssumeValIn(op, T, a, b), x)
<1>1. PICK r : r = AssumeValIn(op, T, a, b)
  OBVIOUS
<1>2. op \in CmpOps /\ op \notin SignedOps /\ (op = "EQ" \/ op \in Orders)
  BY DEF Bounds, CmpOps, SignedOps, Orders
<1>3. \A t \in AllTypes : r[t] = IF t \in T THEN AssumeNum(op, a[t], b[t]) ELSE a[t]
  BY <1>1, BoundAt
<1>4. CASE x.t \notin T
  <2>1. r[x.t] = a[x.t]
    BY <1>3, <1>4, RealParts
  <2>2. QED
    BY <1>1, <2>1, RealParts
<1>5. CASE x.t \in T
  <2>1. PICK y \in Int : Contains(b[x.t], y) /\ Compare(op, x.n, y)
    BY <1>5
  <2>2. PICK t : t = x.t
    OBVIOUS
  <2>3. t # T_FD /\ t \in NonFd /\ x.n \in Int /\ Contains(a[t], x.n)
    BY <1>5, <2>2, RealParts, TypeCases
  <2>4. /\ IsVector(a[t]) /\ IsVector(b[t])
        /\ op = "EQ" => InOrder(a[t]) /\ InOrder(b[t])
    <3>1. CASE t = T_NUM
      BY <3>1, ValueParts, NumberIsVector
    <3>2. CASE t \in PtrTypes
      BY <3>2, ValueParts DEF IsOffset
    <3>3. QED
      BY <2>3, <3>1, <3>2, TypeCases
  <2>5. Compares(op, x.n, y)
    <3>1. CASE op = "EQ"
      <4>1. x.n = y
        BY <2>1, <3>1, Zenon DEF Compare
      <4>2. QED
        BY <3>1, <4>1 DEF Compares
    <3>2. CASE op \in Orders
      BY <1>2, <2>1, <3>2 DEF Compares, ReadFor, Orders
    <3>3. QED
      BY <1>2, <3>1, <3>2
  <2>6. op # "NE"
    BY DEF Bounds
  <2>7. PICK c : c = AssumeNum(op, a[t], b[t])
    OBVIOUS
  <2>8. Contains(c, x.n)
    BY <1>2, <2>1, <2>2, <2>3, <2>4, <2>5, <2>6, <2>7, AssumeNumCovers
  <2>9. r[x.t] = c
    BY <1>3, <1>5, <2>2, <2>7, RealParts
  <2>10. QED
    BY <1>1, <2>2, <2>3, <2>8, <2>9, RealParts
<1>6. QED
  BY <1>4, <1>5

-----------------------------------------------------------------------------
(* The assertions as lists.                                                  *)

\* s lists the members of R.
Lists(s, R) == s \in Seq(R) /\ Range(s) = R

LEMMA ListParts ==
  ASSUME NEW s, NEW R, Lists(s, R)
  PROVE  /\ Len(s) \in Nat /\ DOMAIN s = 1 .. Len(s)
         /\ \A i \in 1 .. Len(s) : s[i] \in R
         /\ \A a \in R : \E i \in 1 .. Len(s) : s[i] = a
<1>1. s \in Seq(R) /\ R = {s[i] : i \in DOMAIN s}
  BY DEF Lists, Range
<1>2. Len(s) \in Nat /\ DOMAIN s = 1 .. Len(s) /\ \A i \in 1 .. Len(s) : s[i] \in R
  BY <1>1
<1>3. QED
  BY <1>1, <1>2

LEMMA MakesList ==
  ASSUME NEW n \in Nat, NEW s, s = [i \in 1 .. n |-> s[i]], NEW R,
         \A i \in 1 .. n : s[i] \in R, \A a \in R : \E i \in 1 .. n : s[i] = a
  PROVE  Lists(s, R)
<1>1. s \in [1 .. n -> R] /\ DOMAIN s = 1 .. n
  BY Zenon
<1>2. s \in Seq(R)
  BY <1>1
<1>3. Range(s) = {s[i] : i \in 1 .. n}
  BY <1>1, Zenon DEF Range
<1>4. Range(s) = R
  BY <1>3
<1>5. QED
  BY <1>2, <1>4 DEF Lists

LEMMA ShortLists ==
  /\ Lists(<< >>, {})
  /\ \A a : Lists(<<a>>, {a})
  /\ \A a, b : Lists(<<a, b>>, {a, b})
<1>1. Lists(<< >>, {})
  <2>1. Range(<< >>) = {}
    BY DEF Range
  <2>2. QED
    BY <2>1 DEF Lists
<1>2. ASSUME NEW a PROVE Lists(<<a>>, {a})
  <2>1. DOMAIN <<a>> = {1} /\ <<a>>[1] = a /\ <<a>> \in Seq({a})
    OBVIOUS
  <2>2. QED
    BY <2>1 DEF Lists, Range
<1>3. ASSUME NEW a, NEW b PROVE Lists(<<a, b>>, {a, b})
  <2>1. PICK s : s = <<a, b>>
    OBVIOUS
  <2>2. DOMAIN s = 1 .. 2 /\ s[1] = a /\ s[2] = b /\ s \in Seq({a, b})
    BY <2>1
  <2>3. Range(s) = {s[i] : i \in 1 .. 2}
    BY <2>2 DEF Range
  <2>4. Range(s) = {a, b}
    <3>1. 1 .. 2 = {1, 2}
      OBVIOUS
    <3>2. QED
      BY <2>2, <2>3, <3>1
  <2>5. QED
    BY <2>1, <2>2, <2>4 DEF Lists
<1>4. QED
  BY <1>1, <1>2, <1>3

LEMMA ListsJoined ==
  ASSUME NEW s, NEW R, Lists(s, R), NEW t, NEW S, Lists(t, S)
  PROVE  Lists(s \o t, R \cup S)
<1>1. PICK A : A = R \cup S
  OBVIOUS
<1>2. s \in Seq(A) /\ t \in Seq(A)
  <2>1. /\ Len(s) \in Nat /\ s \in [1 .. Len(s) -> R]
        /\ Len(t) \in Nat /\ t \in [1 .. Len(t) -> S]
    BY DEF Lists
  <2>2. s \in [1 .. Len(s) -> A] /\ t \in [1 .. Len(t) -> A]
    BY <1>1, <2>1
  <2>3. QED
    BY <2>1, <2>2
<1>3. PICK r : r = s \o t
  OBVIOUS
<1>4. PICK m \in Nat, n \in Nat : m = Len(s) /\ n = Len(t)
  BY <1>2
<1>5. /\ Len(r) = m + n /\ r \in Seq(A)
      /\ \A i \in 1 .. m : r[i] = s[i]
      /\ \A i \in 1 .. n : r[m + i] = t[i]
      /\ \A i \in 1 .. m + n : r[i] = IF i <= m THEN s[i] ELSE t[i - m]
  BY <1>2, <1>3, <1>4
<1>6. r = [i \in 1 .. m + n |-> r[i]]
  BY <1>5
<1>7. \A i \in 1 .. m + n : r[i] \in A
  BY <1>5
<1>8. ASSUME NEW a \in A PROVE \E i \in 1 .. m + n : r[i] = a
  <2>1. CASE a \in R
    <3>1. PICK i \in 1 .. m : s[i] = a
      BY <1>4, <2>1, ListParts
    <3>2. i \in 1 .. m + n /\ r[i] = a
      BY <1>5, <3>1
    <3>3. QED
      BY <3>2
  <2>2. CASE a \in S
    <3>1. PICK i \in 1 .. n : t[i] = a
      BY <1>4, <2>2, ListParts
    <3>2. m + i \in 1 .. m + n /\ r[m + i] = a
      BY <1>5, <3>1
    <3>3. QED
      BY <3>2
  <2>3. QED
    BY <1>1, <2>1, <2>2
<1>9. m + n \in Nat
  OBVIOUS
<1>10. Lists(r, A)
  BY <1>6, <1>7, <1>8, <1>9, MakesList
<1>11. QED
  BY <1>1, <1>3, <1>10

\* One assertion for each element of a list.
LEMMA ListsMapped ==
  ASSUME NEW s, NEW R, Lists(s, R), NEW g, NEW t, t = [i \in DOMAIN s |-> t[i]],
         \A i \in DOMAIN s : t[i] = g[s[i]]
  PROVE  Lists(t, {g[e] : e \in R})
<1>1. /\ Len(s) \in Nat /\ DOMAIN s = 1 .. Len(s) /\ \A i \in 1 .. Len(s) : s[i] \in R
      /\ \A e \in R : \E i \in 1 .. Len(s) : s[i] = e
  BY ListParts
<1>2. PICK n \in Nat : n = Len(s)
  BY <1>1
<1>3. t = [i \in 1 .. n |-> t[i]] /\ \A i \in 1 .. n : t[i] = g[s[i]]
  BY <1>1, <1>2
<1>4. PICK S : S = {g[e] : e \in R}
  OBVIOUS
<1>5. \A i \in 1 .. n : t[i] \in S
  BY <1>1, <1>2, <1>3, <1>4
<1>6. ASSUME NEW a \in S PROVE \E i \in 1 .. n : t[i] = a
  <2>1. PICK e \in R : a = g[e]
    BY <1>4
  <2>2. PICK i \in 1 .. n : s[i] = e
    BY <1>1, <1>2
  <2>3. QED
    BY <1>3, <2>1, <2>2
<1>7. Lists(t, S)
  BY <1>3, <1>5, <1>6, MakesList
<1>8. QED
  BY <1>4, <1>7

\* The types as they are listed.
LEMMA TypesListed ==
  /\ TypeIndices \in Seq(Int)
  /\ Range(TypeIndices) = AllTypes
<1>1. PICK n \in Nat : n = Cardinality(Maps) /\ Maps = 0 .. n - 1
  BY MapAssumption, FS_CardinalityType
<1>2. PICK s : s = [i \in 1 .. n |-> i - 1]
  OBVIOUS
<1>3. Lists(s, Maps)
  <2>1. s = [i \in 1 .. n |-> s[i]] /\ \A i \in 1 .. n : s[i] = i - 1
    BY <1>2
  <2>2. \A i \in 1 .. n : s[i] \in Maps
    <3>1. \A i \in 1 .. n : s[i] \in 0 .. n - 1
      BY <2>1
    <3>2. QED
      BY <1>1, <3>1, Zenon
  <2>3. ASSUME NEW m \in Maps PROVE \E i \in 1 .. n : s[i] = m
    <3>1. m \in 0 .. n - 1
      BY <1>1, Zenon
    <3>2. m + 1 \in 1 .. n /\ s[m + 1] = m
      BY <3>1, <2>1
    <3>3. QED
      BY <3>2
  <2>4. QED
    BY <2>1, <2>2, <2>3, MakesList
<1>4. PICK t : t = <<T_CTX, T_STACK, T_DATA, T_NUM, T_FD>>
  OBVIOUS
<1>5. PICK S : S = {T_CTX, T_STACK, T_DATA, T_NUM, T_FD}
  OBVIOUS
<1>6. Lists(t, S)
  <2>1. /\ t[1] = T_CTX /\ t[2] = T_STACK /\ t[3] = T_DATA /\ t[4] = T_NUM /\ t[5] = T_FD
        /\ t = [i \in 1 .. 5 |-> t[i]] /\ 1 .. 5 = {1, 2, 3, 4, 5}
    BY <1>4
  <2>2. \A i \in 1 .. 5 : t[i] \in S
    BY <1>5, <2>1
  <2>3. \A e \in S : \E i \in 1 .. 5 : t[i] = e
    BY <1>5, <2>1
  <2>4. PICK k \in Nat : k = 5
    OBVIOUS
  <2>5. t = [i \in 1 .. k |-> t[i]]
    BY <2>1, <2>4, Zenon
  <2>6. (\A i \in 1 .. k : t[i] \in S) /\ \A e \in S : \E i \in 1 .. k : t[i] = e
    BY <2>2, <2>3, <2>4
  <2>7. QED
    BY <2>5, <2>6, MakesList
<1>7. Lists(s \o t, AllTypes)
  BY <1>3, <1>6, <1>5, ListsJoined DEF AllTypes
<1>8. TypeIndices = s \o t
  BY <1>1, <1>2, <1>4 DEF TypeIndices
<1>9. AllTypes \subseteq Int
  BY TypeCases, <1>1 DEF AllTypes, T_CTX, T_STACK, T_DATA, T_NUM, T_FD
<1>10. PICK r : r = TypeIndices
  OBVIOUS
<1>11. r \in Seq(AllTypes) /\ Range(r) = AllTypes
  BY <1>7, <1>8, <1>10 DEF Lists
<1>12. r \in Seq(Int)
  <2>1. Len(r) \in Nat /\ r \in [1 .. Len(r) -> AllTypes]
    BY <1>11
  <2>2. r \in [1 .. Len(r) -> Int]
    BY <1>9, <2>1
  <2>3. QED
    BY <2>1, <2>2
<1>13. QED
  BY <1>10, <1>11, <1>12

LEMMA TypesAmong ==
  ASSUME NEW T, T \subseteq AllTypes
  PROVE  Lists(Among(TypeIndices, T), T)
<1>1. PICK s : s = Among(TypeIndices, T)
  OBVIOUS
<1>2. s \in Seq(Int) /\ Range(s) = T
  BY <1>1, TypesListed, AmongFacts
<1>3. s \in Seq(T)
  BY <1>2, InSeqOfRange
<1>4. QED
  BY <1>1, <1>2, <1>3 DEF Lists

\* What the lists of Extractor hold.
Accesses(T, r, offset, width) ==
    {Linear("GE", r, offset, Imm(0), Imm(0), T)}
    \cup {Linear("LE", r, offset, width, EndOf(t), {t}) : t \in T}

SameTypes(T, r1, r2) == {TypedWhen(r1, {t}, r2, {t}) : t \in T}

AskedPair(arg) ==
    (IF arg.kind = "PTR_TO_MEM_OR_NULL"
     THEN {Typed(arg.mem, MemTypes \cup {T_NUM}),
           Linear("EQ", arg.mem, 0, Imm(0), Imm(0), {T_NUM})}
     ELSE {Typed(arg.mem, MemTypes)})
    \cup {Typed(arg.size, {T_NUM}),
          Linear(IF arg.can_be_zero THEN "GE" ELSE "GT", arg.size, 0, Imm(0), Imm(0),
                 {T_NUM})}
    \cup Accesses(MemTypes, arg.mem, 0, Reg(arg.size))

AskedCall(ins) ==
    {Typed(arg.reg, ArgTypes(arg.kind)) : arg \in Range(ins.singles)}
    \cup (IF ins.pairs = << >> THEN {} ELSE AskedPair(ins.pairs[1]))

AskedAssume(ins) ==
    IF ~ins.right.reg
    THEN IF ins.right.n # 0 THEN {Typed(ins.left, {T_NUM})} ELSE {}
    ELSE (IF ins.op \notin {"EQ", "NE"} THEN {Typed(ins.left, NonFd)} ELSE {})
         \cup SameTypes(AllTypes, ins.left, ins.right.n)

AskedMem(ins) ==
    IF ins.base = 10 THEN Accesses({T_STACK}, ins.base, ins.offset, Imm(ins.width))
    ELSE {Typed(ins.base, PtrTypes)}
         \cup Accesses(PtrTypes, ins.base, ins.offset, Imm(ins.width))
         \cup (IF ins.load \/ ~ins.value.reg THEN {}
               ELSE {TypedWhen(ins.value.n, {T_NUM}, ins.base, W) :
                        W \in {Maps, {T_CTX}, {T_DATA}}})

AskedLockAdd(ins) ==
    {Typed(ins.base, Maps)} \cup Accesses(Maps, ins.base, ins.offset, Imm(ins.width))

AskedBin(ins) ==
    IF ins.op = "MOV" \/ (ins.op \in {"ADD", "SUB"} /\ ~ins.v.reg) THEN {}
    ELSE IF ins.op = "ADD"
    THEN {TypedWhen(ins.v.n, {T_NUM}, ins.dst, PtrTypes),
          TypedWhen(ins.dst, {T_NUM}, ins.v.n, PtrTypes)}
    ELSE IF ins.op = "SUB"
    THEN {Typed(ins.dst, NonFd \ Maps)} \cup SameTypes(NonFd \ Maps, ins.v.n, ins.dst)
    ELSE {Typed(ins.dst, {T_NUM})}

Asked(ins) ==
    CASE ins.kind = "Exit" -> {Typed(0, {T_NUM})}
      [] ins.kind = "Call" -> AskedCall(ins)
      [] ins.kind = "Assume" -> AskedAssume(ins)
      [] ins.kind = "Mem" -> AskedMem(ins)
      [] ins.kind = "LockAdd" -> AskedLockAdd(ins)
      [] ins.kind = "Bin" -> AskedBin(ins)
      [] OTHER -> {}

LEMMA AccessListed ==
  ASSUME NEW T, T \subseteq AllTypes, T_NUM \notin T, NEW r, NEW offset, NEW width
  PROVE  Lists(check_access(T, r, offset, width), Accesses(T, r, offset, width))
<1>1. PICK In : In = Among(TypeIndices, T)
  OBVIOUS
<1>2. T \ {T_NUM} = T
  OBVIOUS
<1>3. Lists(In, T)
  BY <1>1, TypesAmong
<1>4. PICK g : g = [t \in T |-> Linear("LE", r, offset, width, EndOf(t), {t})]
  OBVIOUS
<1>5. PICK s : s = [i \in DOMAIN In |-> Linear("LE", r, offset, width, EndOf(In[i]), {In[i]})]
  OBVIOUS
<1>6. PICK a : a = Linear("GE", r, offset, Imm(0), Imm(0), T)
  OBVIOUS
<1>7. check_access(T, r, offset, width) = <<a>> \o s
  BY <1>1, <1>2, <1>5, <1>6, Zenon DEF check_access
<1>8. \A i \in DOMAIN In : In[i] \in T
  BY <1>3, ListParts
<1>9. s = [i \in DOMAIN In |-> s[i]] /\ \A i \in DOMAIN In : s[i] = g[In[i]]
  BY <1>4, <1>5, <1>8, Zenon
<1>10. Lists(s, {g[t] : t \in T})
  BY <1>3, <1>9, ListsMapped
<1>11. Lists(<<a>>, {a})
  BY ShortLists
<1>12. Lists(<<a>> \o s, {a} \cup {g[t] : t \in T})
  BY <1>10, <1>11, ListsJoined
<1>13. {g[t] : t \in T} = {Linear("LE", r, offset, width, EndOf(t), {t}) : t \in T}
  BY <1>4
<1>14. QED
  BY <1>6, <1>7, <1>12, <1>13 DEF Accesses

LEMMA SameTypesListed ==
  ASSUME NEW T, T \subseteq AllTypes, NEW r1, NEW r2
  PROVE  Lists(same_type(T, r1, r2), SameTypes(T, r1, r2))
<1>1. PICK In : In = Among(TypeIndices, T)
  OBVIOUS
<1>2. Lists(In, T)
  BY <1>1, TypesAmong
<1>3. PICK g : g = [t \in T |-> TypedWhen(r1, {t}, r2, {t})]
  OBVIOUS
<1>4. PICK s : s = [i \in DOMAIN In |-> TypedWhen(r1, {In[i]}, r2, {In[i]})]
  OBVIOUS
<1>5. same_type(T, r1, r2) = s
  BY <1>1, <1>4, Zenon DEF same_type
<1>6. \A i \in DOMAIN In : In[i] \in T
  BY <1>2, ListParts
<1>7. s = [i \in DOMAIN In |-> s[i]] /\ \A i \in DOMAIN In : s[i] = g[In[i]]
  BY <1>3, <1>4, <1>6, Zenon
<1>8. Lists(s, {g[t] : t \in T})
  BY <1>2, <1>7, ListsMapped
<1>9. {g[t] : t \in T} = SameTypes(T, r1, r2)
  BY <1>3 DEF SameTypes
<1>10. QED
  BY <1>5, <1>8, <1>9

LEMMA MemListed ==
  ASSUME NEW ins
  PROVE  Lists(OfMem(ins), AskedMem(ins))
<1>1. PtrTypes \subseteq AllTypes /\ T_NUM \notin PtrTypes /\ {T_STACK} \subseteq PtrTypes
  BY TypeCases
<1>2. PICK w : w = Imm(ins.width)
  OBVIOUS
<1>3. CASE ins.base = 10
  <2>1. {T_STACK} \subseteq AllTypes /\ T_NUM \notin {T_STACK}
    BY <1>1
  <2>2. Lists(check_access({T_STACK}, ins.base, ins.offset, w),
              Accesses({T_STACK}, ins.base, ins.offset, w))
    BY <2>1, AccessListed
  <2>3. QED
    BY <1>2, <1>3, <2>2 DEF OfMem, AskedMem
<1>4. CASE ins.base # 10
  <2>1. PICK s, A : /\ s = check_access(PtrTypes, ins.base, ins.offset, w)
                    /\ A = Accesses(PtrTypes, ins.base, ins.offset, w)
    OBVIOUS
  <2>2. Lists(s, A)
    BY <1>1, <2>1, AccessListed
  <2>3. PICK a : a = Typed(ins.base, PtrTypes)
    OBVIOUS
  <2>4. Lists(<<a>> \o s, {a} \cup A)
    BY <2>2, ListsJoined, ShortLists
  <2>5. PICK t : t = IF ins.load \/ ~ins.value.reg THEN << >>
                     ELSE [i \in 1 .. 3 |->
                            TypedWhen(ins.value.n, {T_NUM}, ins.base,
                                      <<Maps, {T_CTX}, {T_DATA}>>[i])]
    OBVIOUS
  <2>6. PICK B : B = IF ins.load \/ ~ins.value.reg THEN {}
                     ELSE {TypedWhen(ins.value.n, {T_NUM}, ins.base, W) :
                             W \in {Maps, {T_CTX}, {T_DATA}}}
    OBVIOUS
  <2>7. Lists(t, B)
    <3>1. CASE ins.load \/ ~ins.value.reg
      BY <2>5, <2>6, <3>1, ShortLists
    <3>2. CASE ~(ins.load \/ ~ins.value.reg)
      <4>1. PICK c : c = <<Maps, {T_CTX}, {T_DATA}>>
        OBVIOUS
      <4>2. /\ c[1] = Maps /\ c[2] = {T_CTX} /\ c[3] = {T_DATA} /\ DOMAIN c = 1 .. 3
            /\ 1 .. 3 = {1, 2, 3} /\ c = [i \in 1 .. 3 |-> c[i]]
        BY <4>1
      <4>3. PICK R : R = {Maps, {T_CTX}, {T_DATA}}
        OBVIOUS
      <4>4. PICK k \in Nat : k = 3
        OBVIOUS
      <4>5. /\ c = [i \in 1 .. k |-> c[i]] /\ DOMAIN c = 1 .. k
            /\ (\A i \in 1 .. k : c[i] \in R) /\ \A W \in R : \E i \in 1 .. k : c[i] = W
        BY <4>2, <4>3, <4>4
      <4>6. Lists(c, R)
        BY <4>5, MakesList
      <4>7. PICK g : g = [W \in R |-> TypedWhen(ins.value.n, {T_NUM}, ins.base, W)]
        OBVIOUS
      <4>8. t = [i \in DOMAIN c |-> TypedWhen(ins.value.n, {T_NUM}, ins.base, c[i])]
        BY <2>5, <3>2, <4>1, <4>2, Zenon
      <4>9. t = [i \in DOMAIN c |-> t[i]] /\ \A i \in DOMAIN c : t[i] = g[c[i]]
        BY <4>5, <4>7, <4>8, Zenon
      <4>10. Lists(t, {g[W] : W \in R})
        BY <4>6, <4>9, ListsMapped
      <4>11. {g[W] : W \in R} = B
        BY <2>6, <3>2, <4>3, <4>7
      <4>12. QED
        BY <4>10, <4>11
    <3>3. QED
      BY <3>1, <3>2
  <2>8. Lists((<<a>> \o s) \o t, ({a} \cup A) \cup B)
    BY <2>4, <2>7, ListsJoined
  <2>9. OfMem(ins) = (<<a>> \o s) \o t
    BY <1>2, <1>4, <2>1, <2>3, <2>5, Zenon DEF OfMem
  <2>10. AskedMem(ins) = ({a} \cup A) \cup B
    BY <1>2, <1>4, <2>1, <2>3, <2>6, Zenon DEF AskedMem
  <2>11. QED
    BY <2>8, <2>9, <2>10
<1>5. QED
  BY <1>3, <1>4

LEMMA PairListed ==
  ASSUME NEW arg
  PROVE  Lists(OfPair(arg), AskedPair(arg))
<1>1. MemTypes \subseteq AllTypes /\ T_NUM \notin MemTypes
  BY TypeCases DEF PtrTypes
<1>2. PICK s, A : /\ s = check_access(MemTypes, arg.mem, 0, Reg(arg.size))
                  /\ A = Accesses(MemTypes, arg.mem, 0, Reg(arg.size))
  OBVIOUS
<1>3. Lists(s, A)
  BY <1>1, <1>2, AccessListed
<1>4. PICK a, b : /\ a = Typed(arg.size, {T_NUM})
                  /\ b = Linear(IF arg.can_be_zero THEN "GE" ELSE "GT", arg.size, 0,
                                Imm(0), Imm(0), {T_NUM})
  OBVIOUS
<1>5. PICK c, d, e : /\ c = Typed(arg.mem, MemTypes \cup {T_NUM})
                     /\ d = Linear("EQ", arg.mem, 0, Imm(0), Imm(0), {T_NUM})
                     /\ e = Typed(arg.mem, MemTypes)
  OBVIOUS
<1>6. Lists(<<a, b>>, {a, b}) /\ Lists(<<c, d>>, {c, d}) /\ Lists(<<e>>, {e})
  BY ShortLists
<1>7. CASE arg.kind = "PTR_TO_MEM_OR_NULL"
  <2>1. Lists((<<c, d>> \o <<a, b>>) \o s, ({c, d} \cup {a, b}) \cup A)
    BY <1>3, <1>6, ListsJoined
  <2>2. /\ OfPair(arg) = (<<c, d>> \o <<a, b>>) \o s
        /\ AskedPair(arg) = ({c, d} \cup {a, b}) \cup A
    BY <1>2, <1>4, <1>5, <1>7, Zenon DEF OfPair, AskedPair
  <2>3. QED
    BY <2>1, <2>2
<1>8. CASE arg.kind # "PTR_TO_MEM_OR_NULL"
  <2>1. Lists((<<e>> \o <<a, b>>) \o s, ({e} \cup {a, b}) \cup A)
    BY <1>3, <1>6, ListsJoined
  <2>2. /\ OfPair(arg) = (<<e>> \o <<a, b>>) \o s
        /\ AskedPair(arg) = ({e} \cup {a, b}) \cup A
    BY <1>2, <1>4, <1>5, <1>8, Zenon DEF OfPair, AskedPair
  <2>3. QED
    BY <2>1, <2>2
<1>9. QED
  BY <1>7, <1>8

LEMMA CallListed ==
  ASSUME NEW ins, NEW R, ins.singles \in Seq(R)
  PROVE  Lists(OfCall(ins), AskedCall(ins))
<1>1. PICK c : c = ins.singles
  OBVIOUS
<1>2. Lists(c, Range(c))
  <2>1. c \in Seq(Range(c))
    <3>1. Len(c) \in Nat /\ c \in [1 .. Len(c) -> R]
      BY <1>1
    <3>2. c \in [1 .. Len(c) -> Range(c)]
      BY <3>1 DEF Range
    <3>3. QED
      BY <3>1, <3>2
  <2>2. QED
    BY <2>1 DEF Lists
<1>3. PICK S : S = Range(c)
  OBVIOUS
<1>4. PICK g : g = [arg \in S |-> Typed(arg.reg, ArgTypes(arg.kind))]
  OBVIOUS
<1>5. PICK t : t = [i \in DOMAIN c |-> Typed(c[i].reg, ArgTypes(c[i].kind))]
  OBVIOUS
<1>6. \A i \in DOMAIN c : c[i] \in S
  BY <1>2, <1>3, ListParts
<1>7. t = [i \in DOMAIN c |-> t[i]] /\ \A i \in DOMAIN c : t[i] = g[c[i]]
  BY <1>4, <1>5, <1>6, Zenon
<1>8. Lists(t, {g[arg] : arg \in S})
  BY <1>2, <1>3, <1>7, ListsMapped
<1>9. PICK A : A = {g[arg] : arg \in S}
  OBVIOUS
<1>10. A = {Typed(arg.reg, ArgTypes(arg.kind)) : arg \in Range(ins.singles)}
  BY <1>1, <1>3, <1>4, <1>9
<1>11. PICK u, B : /\ u = IF ins.pairs = << >> THEN << >> ELSE OfPair(ins.pairs[1])
                   /\ B = IF ins.pairs = << >> THEN {} ELSE AskedPair(ins.pairs[1])
  OBVIOUS
<1>12. Lists(u, B)
  BY <1>11, PairListed, ShortLists
<1>13. Lists(t \o u, A \cup B)
  BY <1>8, <1>9, <1>12, ListsJoined
<1>14. OfCall(ins) = t \o u /\ AskedCall(ins) = A \cup B
  BY <1>1, <1>5, <1>10, <1>11, Zenon DEF OfCall, AskedCall
<1>15. QED
  BY <1>13, <1>14

LEMMA AssumeListed ==
  ASSUME NEW ins
  PROVE  Lists(explicate(ins), AskedAssume(ins))
<1>1. CASE ~ins.right.reg
  BY <1>1, ShortLists, Zenon DEF explicate, AskedAssume
<1>2. CASE ins.right.reg
  <2>1. PICK s, A : /\ s = same_type(AllTypes, ins.left, ins.right.n)
                    /\ A = SameTypes(AllTypes, ins.left, ins.right.n)
    OBVIOUS
  <2>2. Lists(s, A)
    BY <2>1, SameTypesListed
  <2>3. PICK t, B : /\ t = IF ins.op \notin {"EQ", "NE"} THEN <<Typed(ins.left, NonFd)>> ELSE << >>
                    /\ B = IF ins.op \notin {"EQ", "NE"} THEN {Typed(ins.left, NonFd)} ELSE {}
    OBVIOUS
  <2>4. Lists(t, B)
    BY <2>3, ShortLists, Zenon
  <2>5. Lists(t \o s, B \cup A)
    BY <2>2, <2>4, ListsJoined
  <2>6. explicate(ins) = t \o s /\ AskedAssume(ins) = B \cup A
    BY <1>2, <2>1, <2>3, Zenon DEF explicate, AskedAssume
  <2>7. QED
    BY <2>5, <2>6
<1>3. QED
  BY <1>1, <1>2

LEMMA LockAddListed ==
  ASSUME NEW ins
  PROVE  Lists(OfLockAdd(ins), AskedLockAdd(ins))
<1>1. Maps \subseteq AllTypes /\ T_NUM \notin Maps
  BY TypeCases
<1>2. PICK s, A : /\ s = check_access(Maps, ins.base, ins.offset, Imm(ins.width))
                  /\ A = Accesses(Maps, ins.base, ins.offset, Imm(ins.width))
  OBVIOUS
<1>3. Lists(s, A)
  BY <1>1, <1>2, AccessListed
<1>4. PICK a : a = Typed(ins.base, Maps)
  OBVIOUS
<1>5. Lists(<<a>> \o s, {a} \cup A)
  BY <1>3, ListsJoined, ShortLists
<1>6. QED
  BY <1>2, <1>4, <1>5 DEF OfLockAdd, AskedLockAdd

LEMMA BinListed ==
  ASSUME NEW ins
  PROVE  Lists(OfBin(ins), AskedBin(ins))
<1>1. CASE ins.op = "MOV" \/ (ins.op \in {"ADD", "SUB"} /\ ~ins.v.reg)
  BY <1>1, ShortLists, Zenon DEF OfBin, AskedBin
<1>2. CASE ins.op = "ADD" /\ ins.v.reg
  BY <1>2, ShortLists, Zenon DEF OfBin, AskedBin
<1>3. CASE ins.op = "SUB" /\ ins.v.reg
  <2>1. NonFd \ Maps \subseteq AllTypes
    BY TypeCases
  <2>2. PICK s, A : /\ s = same_type(NonFd \ Maps, ins.v.n, ins.dst)
                    /\ A = SameTypes(NonFd \ Maps, ins.v.n, ins.dst)
    OBVIOUS
  <2>3. Lists(s, A)
    BY <2>1, <2>2, SameTypesListed
  <2>4. PICK a : a = Typed(ins.dst, NonFd \ Maps)
    OBVIOUS
  <2>5. Lists(<<a>> \o s, {a} \cup A)
    BY <2>3, ListsJoined, ShortLists
  <2>6. OfBin(ins) = <<a>> \o s /\ AskedBin(ins) = {a} \cup A
    BY <1>3, <2>2, <2>4, Zenon DEF OfBin, AskedBin
  <2>7. QED
    BY <2>5, <2>6
<1>4. CASE ins.op \notin {"MOV", "ADD", "SUB"}
  BY <1>4, ShortLists, Zenon DEF OfBin, AskedBin
<1>5. QED
  BY <1>1, <1>2, <1>3, <1>4

LEMMA ExtractListed ==
  ASSUME NEW ins, IsInstruction(ins)
  PROVE  Lists(Extract(ins), Asked(ins))
<1>1. ins.kind \in {"LoadMapFd", "Bin", "Un", "Assume", "Mem", "LockAdd", "Call", "Packet", "Exit"}
  BY DEF IsInstruction
<1>2. CASE ins.kind = "Exit"
  BY <1>2, ShortLists, Zenon DEF Extract, Asked
<1>3. CASE ins.kind = "Call"
  <2>1. IsCall(ins)
    BY <1>3 DEF IsInstruction
  <2>2. Lists(OfCall(ins), AskedCall(ins))
    BY <2>1, CallListed DEF IsCall
  <2>3. Extract(ins) = OfCall(ins) /\ Asked(ins) = AskedCall(ins)
    BY <1>3 DEF Extract, Asked
  <2>4. QED
    BY <2>2, <2>3
<1>4. CASE ins.kind = "Assume"
  <2>1. Extract(ins) = explicate(ins) /\ Asked(ins) = AskedAssume(ins)
    BY <1>4 DEF Extract, Asked
  <2>2. QED
    BY <2>1, AssumeListed
<1>5. CASE ins.kind = "Mem"
  <2>1. Extract(ins) = OfMem(ins) /\ Asked(ins) = AskedMem(ins)
    BY <1>5 DEF Extract, Asked
  <2>2. QED
    BY <2>1, MemListed
<1>6. CASE ins.kind = "LockAdd"
  <2>1. Extract(ins) = OfLockAdd(ins) /\ Asked(ins) = AskedLockAdd(ins)
    BY <1>6 DEF Extract, Asked
  <2>2. QED
    BY <2>1, LockAddListed
<1>7. CASE ins.kind = "Bin"
  <2>1. Extract(ins) = OfBin(ins) /\ Asked(ins) = AskedBin(ins)
    BY <1>7 DEF Extract, Asked
  <2>2. QED
    BY <2>1, BinListed
<1>8. CASE ins.kind \in {"LoadMapFd", "Un", "Packet"}
  <2>1. Extract(ins) = << >> /\ Asked(ins) = {}
    BY <1>8 DEF Extract, Asked
  <2>2. QED
    BY <2>1, ShortLists
<1>9. QED
  BY <1>1, <1>2, <1>3, <1>4, <1>5, <1>6, <1>7, <1>8

\* What an instruction demands, and what its assertions read.
LEMMA DemandedAsked ==
  ASSUME NEW ins, IsInstruction(ins)
  PROVE  /\ Demanded(ins) <=> \A a \in Asked(ins) : Means(a)
         /\ Initialised(ins) => \A a \in Asked(ins) : ReadsOf(a) \subseteq DOMAIN regs
<1>1. PICK s : s = Extract(ins)
  OBVIOUS
<1>2. Lists(s, Asked(ins))
  BY <1>1, ExtractListed
<1>3. /\ DOMAIN s = 1 .. Len(s) /\ \A i \in 1 .. Len(s) : s[i] \in Asked(ins)
      /\ \A a \in Asked(ins) : \E i \in 1 .. Len(s) : s[i] = a
  BY <1>2, ListParts
<1>4. Demanded(ins) <=> \A i \in DOMAIN s : Means(s[i])
  BY <1>1 DEF Demanded
<1>5. Initialised(ins) => \A i \in DOMAIN s : ReadsOf(s[i]) \subseteq DOMAIN regs
  BY <1>1 DEF Initialised
<1>6. (\A i \in DOMAIN s : Means(s[i])) <=> \A a \in Asked(ins) : Means(a)
  BY <1>3, Zenon
<1>7. (\A i \in DOMAIN s : ReadsOf(s[i]) \subseteq DOMAIN regs)
      => \A a \in Asked(ins) : ReadsOf(a) \subseteq DOMAIN regs
  BY <1>3, Zenon
<1>8. QED
  BY <1>4, <1>5, <1>6, <1>7

-----------------------------------------------------------------------------
(* What the assertions say.                                                  *)

LEMMA TypedMeans ==
  ASSUME NEW r, NEW T, NEW g, NEW W
  PROVE  /\ Means(TypedWhen(r, T, g, W)) <=> (real[g].t \in W => real[r].t \in T)
         /\ IsReal(real[r]) => (Means(Typed(r, T)) <=> real[r].t \in T)
<1>1. ASSUME NEW q, NEW V PROVE Means(TypedWhen(r, T, q, V)) <=> (real[q].t \in V => real[r].t \in T)
  <2>1. PICK a : a = TypedWhen(r, T, q, V)
    OBVIOUS
  <2>2. a.kind = "type" /\ a.reg = r /\ a.types = T /\ a.given = q /\ a.when = V
    BY <2>1 DEF TypedWhen
  <2>3. Means(a) <=> (real[q].t \in V => real[r].t \in T)
    BY <2>2 DEF Means
  <2>4. QED
    BY <2>1, <2>3
<1>2. Typed(r, T) = TypedWhen(r, T, r, AllTypes)
  BY DEF Typed, TypedWhen
<1>3. IsReal(real[r]) => real[r].t \in AllTypes
  BY RealParts
<1>4. QED
  BY <1>1, <1>2, <1>3

LEMMA LinearMeans ==
  ASSUME NEW op, NEW r, NEW offset, NEW width, NEW v, NEW T
  PROVE  Means(Linear(op, r, offset, width, v, T)) <=>
           (real[r].t \in T =>
              Compare(op, real[r].n + offset
                            + (IF width.reg THEN real[width.n].n ELSE width.n),
                      IF v.reg THEN packet.end ELSE v.n))
<1>1. PICK a : a = Linear(op, r, offset, width, v, T)
  OBVIOUS
<1>2. /\ a.kind = "linear" /\ a.op = op /\ a.reg = r /\ a.offset = offset
      /\ a.width = width /\ a.v = v /\ a.types = T
  BY <1>1 DEF Linear
<1>3. Means(a) <=> (real[r].t \in T =>
              Compare(op, real[r].n + offset
                            + (IF width.reg THEN real[width.n].n ELSE width.n),
                      IF v.reg THEN packet.end ELSE v.n))
  BY <1>2, Zenon DEF Means
<1>4. QED
  BY <1>1, <1>3

LEMMA EndOfMemory ==
  ASSUME packet \in Packets, NEW t \in PtrTypes, NEW e, e = EndOf(t)
  PROVE  /\ e = [reg |-> e.reg, n |-> e.n] /\ e.reg \in BOOLEAN /\ e.n \in Int
         /\ e.reg => e.n = 13
         /\ Last(t) = IF e.reg THEN packet.end ELSE e.n
         /\ Last(t) \in 0 .. Cap
<1>1. /\ packet.end \in 3 .. Cap /\ StackSize <= Cap /\ Descriptor.size <= Cap
      /\ \A m \in Maps : ValueSize[m] <= Cap
  BY MachineAssumption
<1>2. /\ StackSize \in Nat /\ Descriptor.size \in Nat /\ \A m \in Maps : ValueSize[m] \in Nat
  BY DescriptorAssumption
<1>3. Maps \subseteq Nat
  BY TypeCases
<1>4. Cap \in Nat
  BY IntSizes
<1>5. CASE t \in Maps
  <2>1. e = Imm(ValueSize[t]) /\ Last(t) = ValueSize[t]
    BY <1>3, <1>5 DEF EndOf, Last, T_CTX, T_STACK, T_DATA
  <2>2. QED
    BY <1>1, <1>2, <1>4, <1>5, <2>1 DEF Imm
<1>6. CASE t = T_DATA
  <2>1. e = Reg(13) /\ Last(t) = packet.end
    BY <1>3, <1>6 DEF EndOf, Last, T_CTX, T_STACK, T_DATA, DATA_END_REG
  <2>2. QED
    BY <1>1, <1>4, <2>1 DEF Reg
<1>7. CASE t = T_STACK
  <2>1. e = Imm(StackSize) /\ Last(t) = StackSize
    BY <1>3, <1>7 DEF EndOf, Last, T_CTX, T_STACK, T_DATA
  <2>2. QED
    BY <1>1, <1>2, <1>4, <2>1 DEF Imm
<1>8. CASE t = T_CTX
  <2>1. e = Imm(Descriptor.size) /\ Last(t) = Descriptor.size
    BY <1>3, <1>8 DEF EndOf, Last, T_CTX, T_STACK, T_DATA
  <2>2. QED
    BY <1>1, <1>2, <1>4, <2>1 DEF Imm
<1>9. QED
  BY <1>5, <1>6, <1>7, <1>8, TypeCases

\* The bounds of an access, as the machine has them.
LEMMA AccessMeans ==
  ASSUME packet \in Packets, NEW T, T \subseteq PtrTypes, NEW r, IsReal(real[r]),
         NEW offset \in Int, NEW width, NEW W \in Int,
         W = IF width.reg THEN real[width.n].n ELSE width.n,
         \A a \in Accesses(T, r, offset, width) : Means(a),
         real[r].t \in T
  PROVE  /\ 0 <= real[r].n + offset
         /\ real[r].n + offset + W <= Last(real[r].t)
<1>1. PICK x : x = real[r]
  OBVIOUS
<1>2. x.n \in Int /\ x.t \in T /\ x.t \in PtrTypes
  BY <1>1, RealParts
<1>3. PICK e : e = EndOf(x.t)
  OBVIOUS
<1>4. PICK a, b : /\ a = Linear("GE", r, offset, Imm(0), Imm(0), T)
                  /\ b = Linear("LE", r, offset, width, e, {x.t})
  OBVIOUS
<1>5. Means(a) /\ Means(b)
  BY <1>2, <1>3, <1>4 DEF Accesses
<1>6. Imm(0).reg = FALSE /\ Imm(0).n = 0
  BY DEF Imm
<1>7. Compare("GE", x.n + offset + 0, 0)
  BY <1>1, <1>2, <1>4, <1>5, <1>6, LinearMeans
<1>8. 0 <= x.n + offset
  <2>1. x.n + offset + 0 \in Int /\ 0 \in Int
    BY <1>2
  <2>2. x.n + offset + 0 >= 0
    BY <1>7, <2>1, CompareOrders
  <2>3. QED
    BY <1>2, <2>2
<1>9. Last(x.t) = (IF e.reg THEN packet.end ELSE e.n) /\ Last(x.t) \in Int
  BY <1>2, <1>3, EndOfMemory
<1>10. Compare("LE", x.n + offset + W, Last(x.t))
  BY <1>1, <1>4, <1>5, <1>9, LinearMeans
<1>11. x.n + offset + W <= Last(x.t)
  <2>1. x.n + offset + W \in Int
    BY <1>2
  <2>2. QED
    BY <1>9, <1>10, <2>1, CompareOrders
<1>12. QED
  BY <1>1, <1>8, <1>11

LEMMA AccessIsSafe ==
  ASSUME packet \in Packets, NEW T, T \subseteq PtrTypes, NEW r, IsReal(real[r]),
         NEW offset \in Int, NEW width, NEW W \in Int,
         W = IF width.reg THEN real[width.n].n ELSE width.n,
         \A a \in Accesses(T, r, offset, width) : Means(a),
         real[r].t \in T, ~BelowMeta(r, offset)
  PROVE  SafeAccess(r, offset, W)
<1>1. PICK x : x = real[r]
  OBVIOUS
<1>2. /\ 0 <= x.n + offset /\ x.n + offset + W <= Last(x.t) /\ x.t \in PtrTypes
      /\ x.n \in Int
  BY <1>1, AccessMeans, RealParts
<1>3. First(x.t) <= x.n + offset
  <2>1. CASE x.t = T_DATA
    <3>1. packet.meta \in Int
      BY MachineAssumption
    <3>2. ~(x.n + offset < packet.meta)
      BY <1>1, <2>1 DEF BelowMeta
    <3>3. First(x.t) = packet.meta
      BY <2>1 DEF First
    <3>4. QED
      BY <1>2, <3>1, <3>2, <3>3
  <2>2. CASE x.t # T_DATA
    BY <1>2, <2>2 DEF First
  <2>3. QED
    BY <2>1, <2>2
<1>4. QED
  BY <1>1, <1>2, <1>3 DEF SafeAccess

-----------------------------------------------------------------------------
(* The assertions suffice.                                                   *)

\* The instruction ins runs, and its assertions hold.
Runs(ins) == IsInstruction(ins) /\ Initialised(ins) /\ Demanded(ins)

LEMMA RegisterParts ==
  ASSUME Tracked
  PROVE  /\ \A r \in DOMAIN regs : /\ IsReal(real[r]) /\ IsValue(regs[r]) /\ IsTidy(regs[r])
                                   /\ exact => Holds(regs[r], real[r])
         /\ DOMAIN real = DOMAIN regs /\ {10, 13, 14} \subseteq DOMAIN regs
         /\ packet \in Packets /\ exact \in BOOLEAN
         /\ real[10].t = T_STACK /\ real[10].n = StackSize
BY DEF Tracked, TypeOK, RegistersCovered, Ptr

LEMMA OperandIsReal ==
  ASSUME Tracked, NEW v, IsOperand(v), v.reg => v.n \in DOMAIN regs
  PROVE  IsReal(RealOf(v)) /\ (~v.reg => RealOf(v).t = T_NUM)
<1>1. CASE v.reg
  BY <1>1, RegisterParts DEF RealOf
<1>2. CASE ~v.reg
  <2>1. v.n \in Int /\ RealOf(v) = Num(v.n)
    BY <1>2 DEF RealOf, IsOperand
  <2>2. QED
    BY <1>2, <2>1, NumType
<1>3. QED
  BY <1>1, <1>2

LEMMA ExitSuffices ==
  ASSUME Tracked, NEW ins, Runs(ins), ins.kind = "Exit"
  PROVE  Legal(ins)
<1>1. PICK a : a = Typed(0, {T_NUM})
  OBVIOUS
<1>2. Means(a) /\ ReadsOf(a) \subseteq DOMAIN regs
  BY <1>1, DemandedAsked DEF Asked, Runs
<1>3. 0 \in DOMAIN regs
  BY <1>1, <1>2 DEF ReadsOf, Typed
<1>4. real[0].t \in {T_NUM}
  BY <1>1, <1>2, <1>3, TypedMeans, RegisterParts
<1>5. QED
  BY <1>4 DEF Legal, IsNum

LEMMA MemSuffices ==
  ASSUME Tracked, NEW ins, Runs(ins), ins.kind = "Mem", ~Unguarded(ins)
  PROVE  Legal(ins)
<1>1. PICK r, w : r = ins.base /\ w = Imm(ins.width)
  OBVIOUS
<1>2. /\ \A a \in AskedMem(ins) : Means(a)
      /\ ins.load \in BOOLEAN /\ IsAccess(r, ins.offset, ins.width) /\ IsOperand(ins.value)
      /\ Reads(ins) \subseteq DOMAIN regs
  BY <1>1, DemandedAsked DEF Asked, Runs, IsInstruction, Initialised
<1>3. r \in DOMAIN regs /\ IsReal(real[r])
  <2>1. r \in Reads(ins)
    BY <1>1 DEF Reads
  <2>2. QED
    BY <1>2, <2>1, RegisterParts
<1>4. /\ ins.offset \in Int /\ ins.width \in Int /\ w.reg = FALSE /\ w.n = ins.width
      /\ ~BelowMeta(r, ins.offset)
  <2>1. Cap \in Nat
    BY IntSizes
  <2>2. QED
    BY <1>1, <1>2, <2>1 DEF IsAccess, Imm, Unguarded
<1>5. CASE r = 10
  <2>1. PICK T : T = {T_STACK}
    OBVIOUS
  <2>2. \A a \in Accesses(T, r, ins.offset, w) : Means(a)
    BY <1>1, <1>2, <1>5, <2>1 DEF AskedMem
  <2>3. real[r].t \in T /\ T \subseteq PtrTypes
    BY <1>5, <2>1, RegisterParts, TypeCases
  <2>4. PICK W \in Int : W = ins.width
    BY <1>4
  <2>5. W = IF w.reg THEN real[w.n].n ELSE w.n
    BY <1>4, <2>4
  <2>6. SafeAccess(r, ins.offset, W)
    BY <1>3, <1>4, <2>2, <2>3, <2>5, AccessIsSafe, RegisterParts
  <2>7. QED
    BY <1>1, <1>5, <2>1, <2>3, <2>4, <2>6 DEF Legal
<1>6. CASE r # 10
  <2>1. PICK a : a = Typed(r, PtrTypes)
    OBVIOUS
  <2>2. \A b \in Accesses(PtrTypes, r, ins.offset, w) : Means(b)
    BY <1>1, <1>2, <1>6 DEF AskedMem
  <2>3. Means(a)
    BY <1>1, <1>2, <1>6, <2>1 DEF AskedMem
  <2>4. real[r].t \in PtrTypes
    BY <1>3, <2>1, <2>3, TypedMeans
  <2>5. PICK W \in Int : W = ins.width
    BY <1>4
  <2>6. W = IF w.reg THEN real[w.n].n ELSE w.n
    BY <1>4, <2>5
  <2>7. SafeAccess(r, ins.offset, W)
    BY <1>3, <1>4, <2>2, <2>4, <2>6, AccessIsSafe, RegisterParts
  <2>8. ASSUME ~ins.load, ins.value.reg, real[r].t # T_STACK PROVE IsNum(ins.value.n)
    <3>1. \A V \in {Maps, {T_CTX}, {T_DATA}} : Means(TypedWhen(ins.value.n, {T_NUM}, r, V))
      BY <1>1, <1>2, <1>6, <2>8 DEF AskedMem
    <3>2. \A V \in {Maps, {T_CTX}, {T_DATA}} : real[r].t \in V => real[ins.value.n].t \in {T_NUM}
      BY <3>1, TypedMeans
    <3>3. real[r].t \in Maps \/ real[r].t \in {T_CTX} \/ real[r].t \in {T_DATA}
      BY <2>4, <2>8, TypeCases
    <3>4. real[ins.value.n].t \in {T_NUM}
      BY <3>2, <3>3
    <3>5. QED
      BY <3>4 DEF IsNum
  <2>9. QED
    BY <1>1, <2>5, <2>7, <2>8 DEF Legal
<1>7. QED
  BY <1>5, <1>6

LEMMA LockAddSuffices ==
  ASSUME Tracked, NEW ins, Runs(ins), ins.kind = "LockAdd", ~Unguarded(ins)
  PROVE  Legal(ins)
<1>1. PICK r, w : r = ins.base /\ w = Imm(ins.width)
  OBVIOUS
<1>2. /\ \A a \in AskedLockAdd(ins) : Means(a) /\ ReadsOf(a) \subseteq DOMAIN regs
      /\ IsAccess(r, ins.offset, ins.width)
  BY <1>1, DemandedAsked DEF Asked, Runs, IsInstruction
<1>3. PICK a : a = Typed(r, Maps)
  OBVIOUS
<1>4. Means(a) /\ ReadsOf(a) \subseteq DOMAIN regs
  BY <1>1, <1>2, <1>3 DEF AskedLockAdd
<1>5. IsReal(real[r])
  BY <1>3, <1>4, RegisterParts DEF ReadsOf, Typed
<1>6. real[r].t \in Maps
  BY <1>3, <1>4, <1>5, TypedMeans
<1>7. /\ ins.offset \in Int /\ ins.width \in Int /\ w.reg = FALSE /\ w.n = ins.width
      /\ ~BelowMeta(r, ins.offset) /\ IsNum(ins.value.n)
  <2>1. Cap \in Nat
    BY IntSizes
  <2>2. QED
    BY <1>1, <1>2, <2>1 DEF IsAccess, Imm, Unguarded
<1>8. PICK W \in Int : W = ins.width
  BY <1>7
<1>9. W = IF w.reg THEN real[w.n].n ELSE w.n
  BY <1>7, <1>8
<1>10. \A b \in Accesses(Maps, r, ins.offset, w) : Means(b)
  BY <1>1, <1>2 DEF AskedLockAdd
<1>11. Maps \subseteq PtrTypes
  BY TypeCases
<1>12. SafeAccess(r, ins.offset, W)
  BY <1>5, <1>6, <1>7, <1>9, <1>10, <1>11, AccessIsSafe, RegisterParts
<1>13. QED
  BY <1>1, <1>6, <1>7, <1>8, <1>12 DEF Legal

LEMMA SameTypesMean ==
  ASSUME NEW T, NEW r1, NEW r2, \A a \in SameTypes(T, r1, r2) : Means(a), real[r2].t \in T
  PROVE  real[r1].t = real[r2].t
<1>1. PICK t : t = real[r2].t
  OBVIOUS
<1>2. PICK a : a = TypedWhen(r1, {t}, r2, {t})
  OBVIOUS
<1>3. Means(a)
  BY <1>1, <1>2 DEF SameTypes
<1>4. real[r2].t \in {t} => real[r1].t \in {t}
  BY <1>2, <1>3, TypedMeans
<1>5. QED
  BY <1>1, <1>4

\* The operands of Bin, and what its assertions say of them.
LEMMA BinOperands ==
  ASSUME Tracked, NEW ins, Runs(ins), ins.kind = "Bin"
  PROVE  /\ IsOperand(ins.v) /\ IsReal(RealOf(ins.v))
         /\ ins.v.reg => ins.v.n \in DOMAIN regs
         /\ ~ins.v.reg => RealOf(ins.v).t = T_NUM
         /\ ins.op # "MOV" => ins.dst \in DOMAIN regs /\ IsReal(real[ins.dst])
         /\ ins.op \in BinOps \cup {"MOV"} /\ ins.is64 \in BOOLEAN /\ ins.dst \in Writeable
         /\ ins.op = "ADD" => \/ real[ins.dst].t \notin PtrTypes
                              \/ RealOf(ins.v).t = T_NUM
         /\ ins.op = "ADD" /\ ins.v.reg => \/ RealOf(ins.v).t \notin PtrTypes
                                           \/ real[ins.dst].t = T_NUM
         /\ ins.op = "SUB" => \/ RealOf(ins.v).t = T_NUM
                              \/ /\ RealOf(ins.v).t = real[ins.dst].t
                                 /\ real[ins.dst].t \notin Maps
         /\ ins.op = "SUB" /\ ins.v.reg => real[ins.dst].t # T_FD
         /\ ins.op \notin {"MOV", "ADD", "SUB"} => real[ins.dst].t = T_NUM
<1>1. /\ \A a \in AskedBin(ins) : Means(a)
      /\ IsOperand(ins.v) /\ ins.op \in BinOps \cup {"MOV"} /\ ins.is64 \in BOOLEAN
      /\ ins.dst \in Writeable
      /\ Reads(ins) \subseteq DOMAIN regs
  BY DemandedAsked DEF Asked, Runs, IsInstruction, Initialised
<1>2. Reads(ins) = (IF ins.v.reg THEN {ins.v.n} ELSE {})
                   \cup (IF ins.op = "MOV" THEN {} ELSE {ins.dst})
  BY DEF Reads
<1>3. /\ ins.v.reg => ins.v.n \in DOMAIN regs
      /\ ins.op # "MOV" => ins.dst \in DOMAIN regs
  BY <1>1, <1>2
<1>4. /\ IsReal(RealOf(ins.v)) /\ (~ins.v.reg => RealOf(ins.v).t = T_NUM)
  BY <1>1, <1>3, OperandIsReal
<1>5. ins.op # "MOV" => IsReal(real[ins.dst])
  BY <1>3, RegisterParts
<1>6. ins.v.reg => RealOf(ins.v) = real[ins.v.n]
  BY DEF RealOf
<1>7. ASSUME ins.op = "ADD", ins.v.reg
      PROVE  /\ real[ins.dst].t \notin PtrTypes \/ RealOf(ins.v).t = T_NUM
             /\ RealOf(ins.v).t \notin PtrTypes \/ real[ins.dst].t = T_NUM
  <2>1. /\ Means(TypedWhen(ins.v.n, {T_NUM}, ins.dst, PtrTypes))
        /\ Means(TypedWhen(ins.dst, {T_NUM}, ins.v.n, PtrTypes))
    BY <1>1, <1>7 DEF AskedBin
  <2>2. /\ real[ins.dst].t \in PtrTypes => real[ins.v.n].t \in {T_NUM}
        /\ real[ins.v.n].t \in PtrTypes => real[ins.dst].t \in {T_NUM}
    BY <2>1, TypedMeans
  <2>3. QED
    BY <1>6, <1>7, <2>2
<1>8. ASSUME ins.op = "SUB", ins.v.reg
      PROVE  /\ RealOf(ins.v).t = real[ins.dst].t /\ real[ins.dst].t \notin Maps
             /\ real[ins.dst].t # T_FD
  <2>1. PICK a : a = Typed(ins.dst, NonFd \ Maps)
    OBVIOUS
  <2>2. Means(a) /\ \A b \in SameTypes(NonFd \ Maps, ins.v.n, ins.dst) : Means(b)
    BY <1>1, <1>8, <2>1 DEF AskedBin
  <2>3. real[ins.dst].t \in NonFd \ Maps
    BY <1>5, <1>8, <2>1, <2>2, TypedMeans
  <2>4. real[ins.v.n].t = real[ins.dst].t
    BY <2>2, <2>3, SameTypesMean
  <2>5. QED
    BY <1>6, <1>8, <2>3, <2>4, TypeCases
<1>9. ASSUME ins.op \notin {"MOV", "ADD", "SUB"} PROVE real[ins.dst].t = T_NUM
  <2>1. PICK a : a = Typed(ins.dst, {T_NUM})
    OBVIOUS
  <2>2. Means(a)
    BY <1>1, <1>9, <2>1 DEF AskedBin
  <2>3. real[ins.dst].t \in {T_NUM}
    BY <1>5, <1>9, <2>1, <2>2, TypedMeans
  <2>4. QED
    BY <2>3
<1>10. QED
  BY <1>1, <1>3, <1>4, <1>5, <1>7, <1>8, <1>9

LEMMA BinSuffices ==
  ASSUME Tracked, NEW ins, Runs(ins), ins.kind = "Bin", ~Unguarded(ins)
  PROVE  Legal(ins)
<1>1. PICK x, y : x = real[ins.dst] /\ y = RealOf(ins.v)
  OBVIOUS
<1>2. RealOf([reg |-> TRUE, n |-> ins.dst]) = x
  BY <1>1 DEF RealOf
<1>3. /\ ins.op \notin {"MOV", "ADD", "SUB"} => y.t = T_NUM
      /\ ins.op \in {"ADD", "SUB"} => T_FD \notin {x.t, y.t}
  BY <1>1 DEF Unguarded
<1>4. IsReal(y) /\ (ins.op # "MOV" => IsReal(x))
  BY <1>1, BinOperands
<1>5. BinLegal(ins.op, x, y)
  <2>1. CASE ins.op = "MOV"
    BY <2>1 DEF BinLegal
  <2>2. CASE ins.op = "ADD"
    <3>1. x.t \notin PtrTypes \/ y.t = T_NUM
      BY <1>1, <2>2, BinOperands
    <3>2. x.t \in AllTypes /\ T_FD \notin {x.t, y.t}
      BY <1>3, <1>4, <2>2, RealParts
    <3>3. QED
      BY <2>2, <3>1, <3>2, TypeCases DEF BinLegal
  <2>3. CASE ins.op = "SUB"
    BY <1>1, <1>3, <2>3, BinOperands DEF BinLegal
  <2>4. CASE ins.op \notin {"MOV", "ADD", "SUB"}
    <3>1. x.t = T_NUM /\ y.t = T_NUM
      BY <1>1, <1>3, <2>4, BinOperands
    <3>2. QED
      BY <2>4, <3>1, Zenon DEF BinLegal
  <2>5. QED
    BY <2>1, <2>2, <2>3, <2>4
<1>6. QED
  BY <1>1, <1>2, <1>5 DEF Legal

LEMMA AssumeSuffices ==
  ASSUME Tracked, NEW ins, Runs(ins), ins.kind = "Assume"
  PROVE  /\ Legal(ins)
         /\ IsOperand(ins.right) /\ IsReal(RealOf(ins.right)) /\ IsReal(real[ins.left])
         /\ ins.op \in CmpOps /\ ins.left \in DOMAIN regs
         /\ ins.right.reg => ins.right.n \in DOMAIN regs
<1>1. /\ \A a \in AskedAssume(ins) : Means(a)
      /\ IsOperand(ins.right) /\ ins.op \in CmpOps
      /\ Reads(ins) \subseteq DOMAIN regs
  BY DemandedAsked DEF Asked, Runs, IsInstruction, Initialised
<1>2. Reads(ins) = (IF ins.right.reg THEN {ins.right.n} ELSE {}) \cup {ins.left}
  BY DEF Reads
<1>3. ins.left \in DOMAIN regs /\ (ins.right.reg => ins.right.n \in DOMAIN regs)
  BY <1>1, <1>2
<1>4. /\ IsReal(RealOf(ins.right)) /\ (~ins.right.reg => RealOf(ins.right).t = T_NUM)
      /\ IsReal(real[ins.left])
  BY <1>1, <1>3, OperandIsReal, RegisterParts
<1>5. Legal(ins)
  <2>1. CASE ~ins.right.reg
    <3>1. CASE ins.right.n = 0
      BY <2>1, <3>1 DEF Legal, RealOf
    <3>2. CASE ins.right.n # 0
      <4>1. PICK a : a = Typed(ins.left, {T_NUM})
        OBVIOUS
      <4>2. Means(a)
        BY <1>1, <2>1, <3>2, <4>1 DEF AskedAssume
      <4>3. real[ins.left].t \in {T_NUM}
        BY <1>4, <4>1, <4>2, TypedMeans
      <4>4. T_NUM # T_FD
        BY TypeCases
      <4>5. QED
        BY <1>4, <2>1, <4>3, <4>4 DEF Legal
    <3>3. QED
      BY <3>1, <3>2
  <2>2. CASE ins.right.reg
    <3>1. \A a \in SameTypes(AllTypes, ins.left, ins.right.n) : Means(a)
      BY <1>1, <2>2 DEF AskedAssume
    <3>2. RealOf(ins.right) = real[ins.right.n]
      BY <2>2 DEF RealOf
    <3>3. real[ins.right.n].t \in AllTypes
      BY <1>4, <3>2, RealParts
    <3>4. real[ins.left].t = real[ins.right.n].t
      BY <3>1, <3>3, SameTypesMean
    <3>5. ASSUME ins.op \notin {"EQ", "NE"} PROVE real[ins.left].t # T_FD
      <4>1. PICK a : a = Typed(ins.left, NonFd)
        OBVIOUS
      <4>2. Means(a)
        BY <1>1, <2>2, <3>5, <4>1 DEF AskedAssume
      <4>3. real[ins.left].t \in NonFd
        BY <1>4, <4>1, <4>2, TypedMeans
      <4>4. QED
        BY <4>3, TypeCases
    <3>6. QED
      BY <3>2, <3>4, <3>5 DEF Legal
  <2>3. QED
    BY <2>1, <2>2
<1>6. QED
  BY <1>1, <1>3, <1>4, <1>5

LEMMA HeadOfList ==
  ASSUME NEW S, NEW s \in Seq(S), s # << >>
  PROVE  s[1] \in S
OBVIOUS

LEMMA MemberOfList ==
  ASSUME NEW S, NEW s \in Seq(S), NEW i \in DOMAIN s
  PROVE  s[i] \in S
<1>1. Len(s) \in Nat /\ DOMAIN s = 1 .. Len(s) /\ s \in [1 .. Len(s) -> S]
  OBVIOUS
<1>2. QED
  BY <1>1

\* The first pair of a call: a number of bytes, of memory that has them.
LEMMA PairMeans ==
  ASSUME Tracked, NEW ins, Runs(ins), ins.kind = "Call", ins.pairs # << >>,
         NEW arg, arg = ins.pairs[1]
  PROVE  /\ arg \in [kind : {"PTR_TO_MEM", "PTR_TO_MEM_OR_NULL", "PTR_TO_UNINIT_MEM"},
                     mem : Readable, size : Readable, can_be_zero : BOOLEAN]
         /\ {arg.mem, arg.size} \subseteq DOMAIN regs
         /\ IsReal(real[arg.mem]) /\ IsReal(real[arg.size])
         /\ real[arg.size].t = T_NUM /\ (real[arg.size].n = 0 => arg.can_be_zero)
         /\ \/ real[arg.mem].t \in MemTypes
            \/ arg.kind = "PTR_TO_MEM_OR_NULL" /\ real[arg.mem] = Num(0)
         /\ \A a \in Accesses(MemTypes, arg.mem, 0, Reg(arg.size)) : Means(a)
         /\ \A a \in AskedPair(arg) : a \in Asked(ins)
<1>1. ins.pairs \in Seq([kind : {"PTR_TO_MEM", "PTR_TO_MEM_OR_NULL", "PTR_TO_UNINIT_MEM"},
                         mem : Readable, size : Readable, can_be_zero : BOOLEAN])
  BY DEF Runs, IsInstruction, IsCall
<1>2. arg \in [kind : {"PTR_TO_MEM", "PTR_TO_MEM_OR_NULL", "PTR_TO_UNINIT_MEM"},
               mem : Readable, size : Readable, can_be_zero : BOOLEAN]
  BY <1>1, HeadOfList
<1>3. \A a \in AskedPair(arg) : a \in Asked(ins)
  BY DEF Asked, AskedCall
<1>4. \A a \in AskedPair(arg) : Means(a) /\ ReadsOf(a) \subseteq DOMAIN regs
  BY <1>3, DemandedAsked DEF Runs
<1>5. PICK a, b, c, d, e :
        /\ a = Typed(arg.size, {T_NUM})
        /\ b = Linear(IF arg.can_be_zero THEN "GE" ELSE "GT", arg.size, 0,
                      Imm(0), Imm(0), {T_NUM})
        /\ c = Typed(arg.mem, MemTypes \cup {T_NUM})
        /\ d = Linear("EQ", arg.mem, 0, Imm(0), Imm(0), {T_NUM})
        /\ e = Typed(arg.mem, MemTypes)
  OBVIOUS
<1>6. /\ Means(a) /\ Means(b) /\ ReadsOf(a) \subseteq DOMAIN regs
      /\ arg.kind = "PTR_TO_MEM_OR_NULL" => Means(c) /\ Means(d) /\ ReadsOf(c) \subseteq DOMAIN regs
      /\ arg.kind # "PTR_TO_MEM_OR_NULL" => Means(e) /\ ReadsOf(e) \subseteq DOMAIN regs
      /\ \A f \in Accesses(MemTypes, arg.mem, 0, Reg(arg.size)) : Means(f)
  BY <1>4, <1>5 DEF AskedPair
<1>7. arg.size \in DOMAIN regs /\ arg.mem \in DOMAIN regs
  <2>1. ReadsOf(a) = {arg.size} /\ ReadsOf(c) = {arg.mem} /\ ReadsOf(e) = {arg.mem}
    BY <1>5 DEF ReadsOf, Typed
  <2>2. QED
    BY <1>6, <2>1
<1>8. IsReal(real[arg.mem]) /\ IsReal(real[arg.size])
  BY <1>7, RegisterParts
<1>9. PICK x, y : x = real[arg.mem] /\ y = real[arg.size]
  OBVIOUS
<1>10. y.t \in {T_NUM}
  BY <1>5, <1>6, <1>8, <1>9, TypedMeans
<1>11. Imm(0).reg = FALSE /\ Imm(0).n = 0
  BY DEF Imm
<1>12. ASSUME y.n = 0 PROVE arg.can_be_zero
  <2>1. y.n + 0 + 0 = 0
    BY <1>12
  <2>2. Compare(IF arg.can_be_zero THEN "GE" ELSE "GT", y.n + 0 + 0, 0)
    BY <1>5, <1>6, <1>9, <1>10, <1>11, LinearMeans
  <2>3. ~Compare("GT", 0, 0)
    BY CompareOrders
  <2>4. arg.can_be_zero \in BOOLEAN
    BY <1>2
  <2>5. QED
    BY <2>1, <2>2, <2>3, <2>4
<1>13. CASE arg.kind = "PTR_TO_MEM_OR_NULL"
  <2>1. x.t \in MemTypes \cup {T_NUM}
    BY <1>5, <1>6, <1>8, <1>9, <1>13, TypedMeans
  <2>2. ASSUME x.t = T_NUM PROVE x = Num(0)
    <3>1. Compare("EQ", x.n + 0 + 0, 0)
      BY <1>5, <1>6, <1>9, <1>11, <1>13, <2>2, LinearMeans
    <3>2. x.n + 0 + 0 = 0
      BY <3>1, Zenon DEF Compare
    <3>3. x.n = 0 /\ x = [t |-> T_NUM, n |-> 0]
      BY <1>8, <1>9, <2>2, <3>2, RealParts
    <3>4. ToWord(0) = 0
      BY WordSizes, WordFacts
    <3>5. QED
      BY <3>3, <3>4 DEF Num
  <2>3. QED
    BY <1>2, <1>3, <1>6, <1>7, <1>8, <1>9, <1>10, <1>12, <1>13, <2>1, <2>2
<1>14. CASE arg.kind # "PTR_TO_MEM_OR_NULL"
  <2>1. x.t \in MemTypes
    BY <1>5, <1>6, <1>8, <1>9, <1>14, TypedMeans
  <2>2. QED
    BY <1>2, <1>3, <1>6, <1>7, <1>8, <1>9, <1>10, <1>12, <2>1
<1>15. QED
  BY <1>13, <1>14

LEMMA CallSuffices ==
  ASSUME Tracked, NEW ins, Runs(ins), ins.kind = "Call", ~Unguarded(ins)
  PROVE  Legal(ins)
<1>1. /\ ins.singles \in Seq([kind : {"ANYTHING", "MAP_FD", "PTR_TO_MAP_KEY",
                                      "PTR_TO_MAP_VALUE", "PTR_TO_CTX"}, reg : Readable])
      /\ ins.pairs \in Seq([kind : {"PTR_TO_MEM", "PTR_TO_MEM_OR_NULL", "PTR_TO_UNINIT_MEM"},
                            mem : Readable, size : Readable, can_be_zero : BOOLEAN])
  BY DEF Runs, IsInstruction, IsCall
<1>2. ASSUME NEW i \in DOMAIN ins.singles
      PROVE  real[ins.singles[i].reg].t \in ArgTypes(ins.singles[i].kind)
  <2>1. PICK arg, a : arg = ins.singles[i] /\ a = Typed(arg.reg, ArgTypes(arg.kind))
    OBVIOUS
  <2>2. arg \in Range(ins.singles)
    BY <2>1 DEF Range
  <2>3. a \in Asked(ins)
    BY <2>1, <2>2 DEF Asked, AskedCall
  <2>4. Means(a) /\ ReadsOf(a) \subseteq DOMAIN regs
    BY <2>3, DemandedAsked DEF Runs
  <2>5. IsReal(real[arg.reg])
    BY <2>1, <2>4, RegisterParts DEF ReadsOf, Typed
  <2>6. real[arg.reg].t \in ArgTypes(arg.kind)
    BY <2>1, <2>4, <2>5, TypedMeans
  <2>7. QED
    BY <2>1, <2>6
<1>3. ASSUME NEW i \in DOMAIN ins.pairs PROVE PairLegal(ins.pairs[i])
  <2>1. /\ i = 1 /\ ins.pairs # << >> /\ ~BelowMeta(ins.pairs[1].mem, 0)
    <3>1. PICK n \in Nat : n = Len(ins.pairs) /\ DOMAIN ins.pairs = 1 .. n
      BY <1>1
    <3>2. i \in 1 .. n /\ ~(n > 1)
      BY <3>1 DEF Unguarded
    <3>3. n = 1
      BY <3>2
    <3>4. i = 1
      BY <3>2, <3>3
    <3>5. i = 1 /\ Len(ins.pairs) = 1
      BY <3>1, <3>3, <3>4
    <3>6. ins.pairs # << >>
      BY <3>5
    <3>7. QED
      BY <3>5, <3>6 DEF Unguarded
  <2>2. PICK arg : arg = ins.pairs[1]
    OBVIOUS
  <2>3. /\ IsReal(real[arg.mem]) /\ IsReal(real[arg.size])
        /\ real[arg.size].t = T_NUM /\ (real[arg.size].n = 0 => arg.can_be_zero)
        /\ \/ real[arg.mem].t \in MemTypes
           \/ arg.kind = "PTR_TO_MEM_OR_NULL" /\ real[arg.mem] = Num(0)
        /\ \A a \in Accesses(MemTypes, arg.mem, 0, Reg(arg.size)) : Means(a)
    BY <2>1, <2>2, PairMeans
  <2>4. CASE real[arg.mem].t \in MemTypes
    <3>1. PICK W \in Int : W = real[arg.size].n
      BY <2>3, RealParts
    <3>2. PICK w : w = Reg(arg.size)
      OBVIOUS
    <3>3. w.reg = TRUE /\ w.n = arg.size
      BY <3>2 DEF Reg
    <3>4. W = IF w.reg THEN real[w.n].n ELSE w.n
      BY <3>1, <3>3
    <3>5. MemTypes \subseteq PtrTypes /\ T_CTX \notin MemTypes
      <4>1. T_CTX \notin Maps /\ T_CTX # T_STACK /\ T_CTX # T_DATA
        BY TypeCases DEF T_CTX, T_STACK, T_DATA
      <4>2. QED
        BY <4>1 DEF MemTypes, PtrTypes
    <3>6. 0 \in Int
      OBVIOUS
    <3>7. SafeAccess(arg.mem, 0, W)
      BY <2>1, <2>2, <2>3, <2>4, <3>2, <3>4, <3>5, <3>6, AccessIsSafe, RegisterParts
    <3>8. QED
      BY <2>1, <2>2, <2>3, <2>4, <3>1, <3>5, <3>7 DEF PairLegal, IsNum
  <2>5. CASE arg.kind = "PTR_TO_MEM_OR_NULL" /\ real[arg.mem] = Num(0)
    BY <2>1, <2>2, <2>3, <2>5 DEF PairLegal, IsNum
  <2>6. QED
    BY <2>3, <2>4, <2>5
<1>4. QED
  BY <1>2, <1>3 DEF Legal

LEMMA TrackedSuffices ==
  Tracked => AssertionsSuffice
<1>1. SUFFICES ASSUME Tracked, NEW ins \in Instructions, Initialised(ins), Demanded(ins),
                      ~Unguarded(ins)
               PROVE  Legal(ins)
  BY DEF AssertionsSuffice
<1>2. Runs(ins)
  BY <1>1, MachineAssumption DEF Runs
<1>3. CASE ins.kind \in {"LoadMapFd", "Packet"}
  BY <1>3 DEF Legal
<1>4. CASE ins.kind = "Un"
  BY <1>1, <1>4 DEF Unguarded
<1>5. ins.kind \in {"LoadMapFd", "Bin", "Un", "Assume", "Mem", "LockAdd", "Call", "Packet", "Exit"}
  BY <1>2 DEF Runs, IsInstruction
<1>6. QED
  BY <1>1, <1>2, <1>3, <1>4, <1>5, ExitSuffices, MemSuffices, LockAddSuffices, BinSuffices,
     AssumeSuffices, CallSuffices

-----------------------------------------------------------------------------
(* The registers after the assertions.                                       *)

\* The registers f are as good as regs; if sure, they hold the real ones.
Good(f, sure) ==
    /\ f = [r \in DOMAIN regs |-> f[r]]
    /\ \A r \in DOMAIN regs : /\ IsValue(f[r]) /\ IsTidy(f[r])
                              /\ InOrder(regs[r][T_NUM]) => InOrder(f[r][T_NUM])
    /\ f[13] = NumTop
    /\ sure => \A r \in DOMAIN regs : Holds(f[r], real[r])

\* What is left of the end for a register that is bounded.
Gap(a) == (IF a.v.reg THEN packet.end ELSE a.v.n)
          - (IF a.width.reg THEN real[a.width.n].n ELSE a.width.n) - a.offset

GapFor(a) == IF real[a.reg].t = T_NUM THEN ToWord(Gap(a)) ELSE AsInt(ToWord(Gap(a)))

Shaped(a) ==
    \/ a.kind = "type" /\ a.reg # 13
    \/ /\ a.kind = "linear" /\ a.op \in Bounds /\ a.reg # 13
       /\ a.types \subseteq AllTypes /\ T_FD \notin a.types
       /\ a.offset \in Int /\ a.v.n \in Int /\ a.width.n \in Int
       /\ a.v.reg => a.v.n = 13

\* An assertion that holds, of numbers an int can hold.
Follows(a) ==
    IF a.kind = "type" THEN Means(a)
    ELSE /\ a.op = "EQ" => InOrder(regs[a.reg][T_NUM])
         /\ real[a.reg].t \in a.types =>
              /\ a.width.reg => real[a.width.n].t = T_NUM
              /\ Compare(a.op, real[a.reg].n, GapFor(a))

LEMMA GoodEval ==
  ASSUME Tracked, NEW sure, NEW f, Good(f, sure), NEW v, v.n \in Int,
         v.reg => v.n \in DOMAIN regs, NEW e, e = Eval(f, v)
  PROVE  /\ IsValue(e) /\ IsTidy(e) /\ (~v.reg => InOrder(e[T_NUM]))
         /\ sure => Holds(e, RealOf(v))
<1>1. CASE v.reg
  <2>1. e = f[v.n] /\ RealOf(v) = real[v.n]
    BY <1>1 DEF Eval, RealOf
  <2>2. QED
    BY <1>1, <2>1 DEF Good
<1>2. CASE ~v.reg
  <2>1. e = OnlyNum(ToWord(v.n)) /\ RealOf(v) = Num(v.n) /\ ToWord(v.n) \in Words
    BY <1>2, WordFacts DEF Eval, RealOf
  <2>2. QED
    BY <2>1, NumberValues
<1>3. QED
  BY <1>1, <1>2

LEMMA HoldsNumber ==
  ASSUME NEW x, IsReal(x), x.t = T_NUM, NEW d, Holds(d, x)
  PROVE  Contains(d[T_NUM], x.n) /\ ToWord(x.n) = x.n
BY RealParts, WordFacts, TypeCases

\* What a bound compares with.
LEMMA GoodRight ==
  ASSUME Tracked, NEW sure \in BOOLEAN, NEW f, Good(f, sure), NEW a, Shaped(a),
         a.kind = "linear", ReadsOf(a) \subseteq DOMAIN regs, NEW b, b = RightOf(f, a)
  PROVE  /\ IsValue(b) /\ IsTidy(b) /\ InOrder(b[T_NUM])
         /\ sure /\ real[a.reg].t # T_FD /\ (a.width.reg => real[a.width.n].t = T_NUM) =>
              Contains(b[real[a.reg].t], GapFor(a)) /\ GapFor(a) \in Int
<1>1. /\ a.reg \in DOMAIN regs /\ (a.width.reg => a.width.n \in DOMAIN regs)
      /\ a.v.reg => a.v.n = 13 /\ 13 \in DOMAIN regs
      /\ a.offset \in Int /\ a.v.n \in Int /\ a.width.n \in Int
  <2>1. a.kind # "type"
    OBVIOUS
  <2>2. /\ a.reg \in ReadsOf(a)
        /\ a.width.reg => a.width.n \in ReadsOf(a)
    BY <2>1 DEF ReadsOf
  <2>3. 13 \in DOMAIN regs
    BY RegisterParts
  <2>4. QED
    BY <2>1, <2>2, <2>3 DEF Shaped
<1>2. PICK d, v, w, o : /\ d = f[a.reg] /\ v = Eval(f, a.v) /\ w = Eval(f, a.width)
                        /\ o = Eval(f, Imm(a.offset))
  OBVIOUS
<1>3. IsValue(d) /\ IsTidy(d) /\ (sure => Holds(d, real[a.reg]))
  BY <1>1, <1>2 DEF Good
<1>4. /\ IsValue(v) /\ IsValue(w) /\ IsValue(o)
      /\ sure => Holds(v, RealOf(a.v)) /\ Holds(w, RealOf(a.width)) /\ Holds(o, RealOf(Imm(a.offset)))
  <2>1. Imm(a.offset).n = a.offset /\ Imm(a.offset).reg = FALSE
    BY DEF Imm
  <2>2. /\ IsValue(v) /\ (sure => Holds(v, RealOf(a.v)))
    BY <1>1, <1>2, GoodEval
  <2>3. IsValue(w) /\ (sure => Holds(w, RealOf(a.width)))
    BY <1>1, <1>2, GoodEval
  <2>4. IsValue(o) /\ (sure => Holds(o, RealOf(Imm(a.offset))))
    BY <1>1, <1>2, <2>1, GoodEval
  <2>5. QED
    BY <2>2, <2>3, <2>4
<1>5. b = AddVal(Zero(d), SubVal(SubVal(v, w), o))
  BY <1>2 DEF RightOf
<1>6. IsValue(b) /\ IsTidy(b) /\ InOrder(b[T_NUM])
  BY <1>3, <1>4, <1>5, RightValue
<1>7. ASSUME sure, real[a.reg].t # T_FD, a.width.reg => real[a.width.n].t = T_NUM
      PROVE  Contains(b[real[a.reg].t], GapFor(a)) /\ GapFor(a) \in Int
  <2>1. PICK i, j, k : /\ i = (IF a.v.reg THEN packet.end ELSE a.v.n)
                       /\ j = (IF a.width.reg THEN real[a.width.n].n ELSE a.width.n)
                       /\ k = a.offset
    OBVIOUS
  <2>2. PICK x : x = real[a.reg]
    OBVIOUS
  <2>3. IsReal(x) /\ x.t # T_FD /\ Holds(d, x)
    BY <1>1, <1>3, <1>7, <2>2, RegisterParts
  <2>4. i \in Int /\ Contains(v[T_NUM], ToWord(i))
    <3>1. CASE a.v.reg
      <4>1. v = NumTop
        BY <1>1, <1>2, <3>1 DEF Eval, Good
      <4>2. packet.end \in Int
        <5>1. packet.end \in 3 .. Cap
          BY MachineAssumption, RegisterParts
        <5>2. QED
          BY <5>1, IntSizes
      <4>3. IsReal(Num(i)) /\ Num(i).t = T_NUM /\ Num(i).n = ToWord(i) /\ Holds(NumTop, Num(i))
        BY <2>1, <3>1, <4>2, NumType, NumberValues
      <4>4. QED
        BY <2>1, <3>1, <4>1, <4>2, <4>3, HoldsNumber
    <3>2. CASE ~a.v.reg
      <4>1. i \in Int /\ v = OnlyNum(ToWord(i)) /\ ToWord(i) \in Words
        BY <1>1, <1>2, <2>1, <3>2, WordFacts DEF Eval
      <4>2. QED
        BY <4>1, NumberValues
    <3>3. QED
      BY <3>1, <3>2
  <2>5. j \in Int /\ Contains(w[T_NUM], ToWord(j))
    <3>1. CASE a.width.reg
      <4>1. PICK y : y = real[a.width.n]
        OBVIOUS
      <4>2. IsReal(y) /\ y.t = T_NUM /\ j = y.n /\ Holds(w, y)
        BY <1>1, <1>4, <1>7, <2>1, <3>1, <4>1, RegisterParts DEF RealOf
      <4>3. y.n \in Int
        BY <4>2, RealParts
      <4>4. QED
        BY <4>2, <4>3, HoldsNumber
    <3>2. CASE ~a.width.reg
      <4>1. j \in Int /\ w = OnlyNum(ToWord(j)) /\ ToWord(j) \in Words
        BY <1>1, <1>2, <2>1, <3>2, WordFacts DEF Eval
      <4>2. QED
        BY <4>1, NumberValues
    <3>3. QED
      BY <3>1, <3>2
  <2>6. k \in Int /\ Contains(o[T_NUM], ToWord(k))
    <3>1. k \in Int /\ o = OnlyNum(ToWord(k)) /\ ToWord(k) \in Words
      BY <1>1, <1>2, <2>1, WordFacts DEF Eval, Imm
    <3>2. QED
      BY <3>1, NumberValues
  <2>7. Contains(b[x.t], IF x.t = T_NUM THEN ToWord(i - j - k) ELSE AsInt(ToWord(i - j - k)))
    BY <1>3, <1>4, <1>5, <2>3, <2>4, <2>5, <2>6, RightValue
  <2>8. i - j - k = Gap(a)
    BY <2>1 DEF Gap
  <2>9. PICK g \in Int : g = i - j - k
    BY <2>4, <2>5, <2>6
  <2>10. ToWord(g) \in Words /\ ToWord(g) \in Int /\ AsInt(ToWord(g)) \in Int
    BY <2>9, WordFacts, AsIntType
  <2>11. QED
    BY <2>2, <2>7, <2>8, <2>9, <2>10 DEF GapFor
<1>8. QED
  BY <1>6, <1>7

LEMMA HeldIsOfType ==
  ASSUME NEW w, IsValue(w), NEW y, IsReal(y), Holds(w, y), NEW T, IsOfType(w, T)
  PROVE  y.t \in T
<1>1. y.t \in AllTypes /\ ~BotAt(w, y.t)
  BY HeldType DEF TypesOf
<1>2. QED
  BY <1>1 DEF IsOfType

\* The value of one register is replaced by another that is as good.
LEMMA GoodChange ==
  ASSUME Tracked, NEW sure, NEW f, Good(f, sure), NEW r \in DOMAIN regs, r # 13,
         NEW e, IsValue(e), IsTidy(e), InOrder(f[r][T_NUM]) => InOrder(e[T_NUM]),
         sure => Holds(e, real[r]),
         NEW g, g = [f EXCEPT ![r] = e]
  PROVE  Good(g, sure)
<1>1. /\ g = [q \in DOMAIN regs |-> IF q = r THEN e ELSE f[q]]
  BY DEF Good
<1>2. /\ g = [q \in DOMAIN regs |-> g[q]] /\ g[r] = e
      /\ \A q \in DOMAIN regs \ {r} : g[q] = f[q]
  BY <1>1
<1>3. 13 \in DOMAIN regs
  BY RegisterParts
<1>4. ASSUME NEW q \in DOMAIN regs
      PROVE  /\ IsValue(g[q]) /\ IsTidy(g[q])
             /\ InOrder(regs[q][T_NUM]) => InOrder(g[q][T_NUM])
             /\ sure => Holds(g[q], real[q])
  <2>1. CASE q = r
    BY <1>2, <2>1 DEF Good
  <2>2. CASE q # r
    BY <1>2, <2>2 DEF Good
  <2>3. QED
    BY <2>1, <2>2
<1>5. g[13] = NumTop
  BY <1>2, <1>3 DEF Good
<1>6. QED
  BY <1>2, <1>4, <1>5 DEF Good

LEMMA AssertedGood ==
  ASSUME Tracked, NEW sure \in BOOLEAN, NEW f, Good(f, sure), NEW a, Shaped(a),
         ReadsOf(a) \subseteq DOMAIN regs, sure => Follows(a)
  PROVE  Good(Asserted(f, a), sure)
<1>1. PICK r : r = a.reg
  OBVIOUS
<1>2. r \in DOMAIN regs /\ r # 13
  BY <1>1 DEF ReadsOf, Shaped
<1>3. PICK d, x : d = f[r] /\ x = real[r]
  OBVIOUS
<1>4. IsValue(d) /\ IsTidy(d) /\ IsReal(x) /\ (sure => Holds(d, x))
  BY <1>2, <1>3, RegisterParts DEF Good
<1>5. r \in DOMAIN f
  BY <1>2 DEF Good
<1>6. CASE a.kind = "type"
  <2>1. PICK g : g = a.given
    OBVIOUS
  <2>2. g \in DOMAIN regs
    BY <1>6, <2>1 DEF ReadsOf
  <2>3. PICK w, y : w = f[g] /\ y = real[g]
    OBVIOUS
  <2>4. IsValue(w) /\ IsReal(y) /\ (sure => Holds(w, y))
    BY <2>2, <2>3, RegisterParts DEF Good
  <2>5. PICK e : e = AssumeTypeWhen(d, a.types, w, a.when)
    OBVIOUS
  <2>6. CASE IsOfType(w, a.when)
    <3>1. e = AssumeType(d, a.types)
      BY <2>5, <2>6 DEF AssumeTypeWhen
    <3>2. IsValue(e) /\ \A z : IsReal(z) /\ Holds(d, z) /\ z.t \in a.types => Holds(e, z)
      BY <1>4, <3>1, AssumeTypeValue
    <3>3. IsTidy(e)
      BY <1>4, <3>1, TidyValues
    <3>4. ASSUME sure PROVE Holds(e, x)
      <4>1. y.t \in a.when
        BY <2>4, <2>6, <3>4, HeldIsOfType
      <4>2. x.t \in a.types
        BY <1>1, <1>3, <1>6, <2>1, <2>3, <3>4, <4>1 DEF Follows, Means
      <4>3. QED
        BY <1>4, <3>2, <3>4, <4>2
    <3>5. InOrder(d[T_NUM]) => InOrder(e[T_NUM])
      <4>1. T_NUM \in AllTypes /\ T_NUM # T_FD
        BY TypeCases
      <4>2. e[T_NUM] = IF T_NUM \in a.types THEN d[T_NUM] ELSE Bot
        BY <3>1, <4>1 DEF AssumeType
      <4>3. InOrder(Bot)
        BY Constants DEF IsOffset
      <4>4. QED
        BY <4>2, <4>3
    <3>6. Asserted(f, a) = [f EXCEPT ![r] = e]
      BY <1>1, <1>3, <1>5, <1>6, <2>1, <2>3, <2>5 DEF Asserted
    <3>7. QED
      BY <1>2, <1>3, <3>2, <3>3, <3>4, <3>5, <3>6, GoodChange
  <2>7. CASE ~IsOfType(w, a.when)
    <3>1. e = d
      BY <2>5, <2>7 DEF AssumeTypeWhen
    <3>2. Asserted(f, a) = [f EXCEPT ![r] = d]
      BY <1>1, <1>3, <1>5, <1>6, <2>1, <2>3, <2>5, <3>1 DEF Asserted
    <3>3. QED
      BY <1>2, <1>3, <1>4, <3>2, GoodChange
  <2>8. QED
    BY <2>6, <2>7
<1>7. CASE a.kind = "linear"
  <2>1. a.op \in Bounds /\ T_FD \notin a.types /\ a.op \in CmpOps
    BY <1>7 DEF Shaped, Bounds, CmpOps
  <2>2. PICK b : b = RightOf(f, a)
    OBVIOUS
  <2>3. /\ IsValue(b) /\ IsTidy(b) /\ InOrder(b[T_NUM])
        /\ sure /\ x.t # T_FD /\ (a.width.reg => real[a.width.n].t = T_NUM) =>
             Contains(b[x.t], GapFor(a)) /\ GapFor(a) \in Int
    BY <1>1, <1>3, <1>7, <2>2, GoodRight
  <2>4. PICK e : e = AssumeValIn(a.op, a.types, d, b)
    OBVIOUS
  <2>5. /\ IsValue(e) /\ IsTidy(e)
        /\ InOrder(d[T_NUM]) => InOrder(e[T_NUM])
    <3>1. PICK op, T : op \in CmpOps /\ op = a.op /\ T = a.types
      BY <2>1
    <3>2. T_FD \notin T /\ e = AssumeValIn(op, T, d, b)
      BY <2>1, <2>4, <3>1
    <3>3. IsValue(e)
      BY <1>4, <2>3, <3>1, <3>2, BoundParts
    <3>4. IsTidy(e)
      BY <1>4, <2>3, <3>1, <3>2, BoundParts
    <3>5. InOrder(d[T_NUM]) => InOrder(e[T_NUM])
      <4>1. op \in CmpOps /\ IsValue(d) /\ IsValue(b) /\ InOrder(b[T_NUM])
        BY <1>4, <2>3, <3>1
      <4>2. InOrder(d[T_NUM]) /\ InOrder(b[T_NUM]) => InOrder(e[T_NUM])
        BY <3>2, <4>1, BoundParts
      <4>3. QED
        BY <4>1, <4>2
    <3>6. QED
      BY <3>3, <3>4, <3>5
  <2>6. ASSUME sure PROVE Holds(e, x)
    <3>1. a.op = "EQ" => InOrder(d[T_NUM]) /\ InOrder(b[T_NUM])
      BY <1>1, <1>2, <1>3, <1>7, <2>3, <2>6 DEF Follows, Good
    <3>2. ASSUME x.t \in a.types PROVE \E y \in Int : Contains(b[x.t], y) /\ Compare(a.op, x.n, y)
      <4>1. /\ a.width.reg => real[a.width.n].t = T_NUM
            /\ Compare(a.op, x.n, GapFor(a))
        BY <1>1, <1>3, <1>7, <2>6, <3>2 DEF Follows
      <4>2. x.t # T_FD
        BY <2>1, <3>2
      <4>3. Contains(b[x.t], GapFor(a)) /\ GapFor(a) \in Int
        BY <2>3, <2>6, <4>1, <4>2
      <4>4. QED
        BY <4>1, <4>3
    <3>3. QED
      BY <1>4, <2>1, <2>3, <2>4, <2>6, <3>1, <3>2, BoundKeeps
  <2>7. Asserted(f, a) = [f EXCEPT ![r] = e]
    BY <1>1, <1>3, <1>5, <1>7, <2>2, <2>4 DEF Asserted
  <2>8. QED
    BY <1>2, <1>3, <2>5, <2>6, <2>7, GoodChange
<1>8. QED
  BY <1>6, <1>7 DEF Shaped

Vectors == [top : BOOLEAN, elems : Seq(Int)]

LEMMA AssertedAllGood ==
  ASSUME Tracked, NEW sure \in BOOLEAN, NEW f, Good(f, sure), NEW s, NEW R, Lists(s, R),
         \A a \in R : /\ Shaped(a) /\ ReadsOf(a) \subseteq DOMAIN regs
                      /\ sure => Follows(a)
  PROVE  Good(AssertedAll(f, s), sure)
<1> DEFINE n == Len(s)
           V == [AllTypes -> (SUBSET Maps) \cup Vectors]
           D == {g \in [DOMAIN regs -> V] : Good(g, sure)}
           next == [k \in 1 .. n |-> [g \in D |-> Asserted(g, s[k])]]
           body(h) == [k \in 0 .. n |-> IF k = 0 THEN f ELSE Asserted(h[k - 1], s[k])]
           after == CHOOSE h : h = body(h)
<1>1. n \in Nat /\ DOMAIN s = 1 .. n /\ \A k \in 1 .. n : s[k] \in R
  BY ListParts
<1>2. ASSUME NEW g, Good(g, sure) PROVE g \in D
  <2>1. ASSUME NEW r \in DOMAIN regs PROVE g[r] \in V
    <3>1. PICK d : d = g[r]
      OBVIOUS
    <3>2. /\ d = [t \in AllTypes |-> d[t]] /\ d[T_FD] \in SUBSET Maps
          /\ IsNumber(d[T_NUM]) /\ \A t \in PtrTypes : IsOffset(d[t])
      BY <1>2, <3>1, ValueParts DEF Good
    <3>3. \A t \in AllTypes : d[t] \in (SUBSET Maps) \cup Vectors
      <4>1. d[T_NUM] \in Vectors
        BY <3>2, NumberIsVector DEF IsVector, Vectors
      <4>2. \A t \in PtrTypes : d[t] \in Vectors
        BY <3>2 DEF IsOffset, IsVector, Vectors
      <4>3. QED
        BY <3>2, <4>1, <4>2, TypeCases
    <3>4. QED
      BY <3>1, <3>2, <3>3
  <2>2. g = [r \in DOMAIN regs |-> g[r]]
    BY <1>2 DEF Good
  <2>3. g \in [DOMAIN regs -> V]
    <3> HIDE DEF V
    <3>1. QED
      BY <2>1, <2>2, Zenon
  <2>4. QED
    BY <1>2, <2>3
<1>3. ASSUME NEW k \in 1 .. n, NEW g, Good(g, sure) PROVE Good(Asserted(g, s[k]), sure)
  <2>1. PICK a \in R : a = s[k]
    BY <1>1
  <2>2. QED
    BY <1>3, <2>1, AssertedGood
<1>4. \E h : h = body(h)
  <2>1. ASSUME NEW k \in 1 .. n, NEW g \in D
        PROVE  next[k][g] = Asserted(g, s[k]) /\ next[k][g] \in D
    <3>1. Good(g, sure)
      OBVIOUS
    <3>2. Good(Asserted(g, s[k]), sure)
      BY <1>3, <3>1
    <3> HIDE DEF D, n
    <3>3. next[k][g] = Asserted(g, s[k])
      OBVIOUS
    <3>4. QED
      BY <1>2, <3>2, <3>3
  <2>2. f \in D
    BY <1>2
  <2>3. PICK h : Recurs(h, n, D, f, next)
    <3> HIDE DEF next, n, D
    <3>1. QED
      BY <1>1, <2>1, <2>2, RecursionExists
  <2>4. \A k \in 1 .. n : h[k] = Asserted(h[k - 1], s[k])
    <3> HIDE DEF n, next, D
    <3>1. SUFFICES ASSUME NEW k \in 1 .. n PROVE h[k] = Asserted(h[k - 1], s[k])
      OBVIOUS
    <3>2. h[k - 1] \in D
      BY <1>1, <2>3, <3>1 DEF Recurs
    <3>3. QED
      BY <2>1, <2>3, <3>1, <3>2 DEF Recurs
  <2>5. h = body(h)
    <3> HIDE DEF n, D, next
    <3>1. QED
      BY <1>1, <2>3, <2>4 DEF Recurs
  <2>6. QED
    BY <2>5
<1>5. after = body(after)
  <2> HIDE DEF body
  <2>1. QED
    BY <1>4
<1>6. after[0] = f /\ \A k \in 0 .. n - 1 : after[k + 1] = Asserted(after[k], s[k + 1])
  <2> HIDE DEF after, n
  <2>1. body(after)[0] = f /\ \A k \in 0 .. n - 1 : body(after)[k + 1] = Asserted(after[k], s[k + 1])
    BY <1>1
  <2> HIDE DEF body
  <2>2. QED
    BY <1>5, <2>1
<1>7. AssertedAll(f, s) = after[n]
  BY DEF AssertedAll
<1> DEFINE H == {k \in 0 .. n : Good(after[k], sure)}
<1>8. 0 .. n \subseteq H
  <2> HIDE DEF after, n
  <2>1. 0 \in H
    BY <1>1, <1>6
  <2>2. ASSUME NEW k \in 0 .. n - 1, k \in H PROVE k + 1 \in H
    <3>1. k + 1 \in 1 .. n /\ k + 1 \in 0 .. n
      BY <1>1
    <3>2. Good(after[k], sure)
      BY <2>2
    <3>3. Good(Asserted(after[k], s[k + 1]), sure)
      BY <1>3, <3>1, <3>2
    <3>4. QED
      BY <1>6, <3>1, <3>3
  <2> HIDE DEF H
  <2>3. QED
    BY <1>1, <2>1, <2>2, IntervalInduction
<1>9. Good(after[n], sure)
  <2> HIDE DEF after, n
  <2>1. n \in 0 .. n
    BY <1>1
  <2>2. QED
    BY <1>8, <2>1
<1>10. QED
  BY <1>7, <1>9

-----------------------------------------------------------------------------
(* The assertions of an instruction that runs hold of numbers that fit.      *)

LEMMA LinearShaped ==
  ASSUME NEW op \in Bounds, NEW r, r # 13, NEW offset \in Int, NEW width, width.n \in Int,
         NEW v, v.n \in Int, v.reg => v.n = 13,
         NEW T, T \subseteq AllTypes, T_FD \notin T
  PROVE  Shaped(Linear(op, r, offset, width, v, T))
<1>1. PICK a : a = Linear(op, r, offset, width, v, T)
  OBVIOUS
<1>2. /\ a.kind = "linear" /\ a.op = op /\ a.reg = r /\ a.offset = offset
      /\ a.width = width /\ a.v = v /\ a.types = T
  BY <1>1 DEF Linear
<1>3. Shaped(a)
  BY <1>2 DEF Shaped
<1>4. QED
  BY <1>1, <1>3

LEMMA TypedShaped ==
  ASSUME NEW r, r # 13, NEW T, NEW g, NEW W
  PROVE  Shaped(TypedWhen(r, T, g, W)) /\ Shaped(Typed(r, T))
BY DEF Shaped, TypedWhen, Typed

LEMMA AccessShaped ==
  ASSUME packet \in Packets, NEW T, T \subseteq PtrTypes, NEW r, r # 13,
         NEW offset \in Int, NEW width, width.n \in Int,
         NEW a \in Accesses(T, r, offset, width)
  PROVE  Shaped(a)
<1>1. T \subseteq AllTypes /\ T_FD \notin T
  BY TypeCases
<1>2. Imm(0).reg = FALSE /\ Imm(0).n \in Int
  BY DEF Imm
<1>3. CASE a = Linear("GE", r, offset, Imm(0), Imm(0), T)
  <2>1. "GE" \in Bounds
    BY DEF Bounds
  <2>2. QED
    BY <1>1, <1>2, <1>3, <2>1, LinearShaped
<1>4. ASSUME NEW t \in T, a = Linear("LE", r, offset, width, EndOf(t), {t}) PROVE Shaped(a)
  <2>1. "LE" \in Bounds
    BY DEF Bounds
  <2>2. PICK e, U : e = EndOf(t) /\ U = {t}
    OBVIOUS
  <2>3. e.n \in Int /\ (e.reg => e.n = 13)
    BY <2>2, EndOfMemory
  <2>4. U \subseteq AllTypes /\ T_FD \notin U
    BY <1>1, <2>2
  <2>5. QED
    BY <1>4, <2>1, <2>2, <2>3, <2>4, LinearShaped
<1>5. QED
  BY <1>3, <1>4 DEF Accesses

LEMMA LinearFollows ==
  ASSUME NEW op, NEW r, NEW offset, NEW width, NEW v, NEW T, NEW W, NEW E, NEW g \in Int,
         W = IF width.reg THEN real[width.n].n ELSE width.n,
         E = IF v.reg THEN packet.end ELSE v.n,
         op = "EQ" => InOrder(regs[r][T_NUM]),
         real[r].t \in T => /\ width.reg => real[width.n].t = T_NUM
                            /\ g = E - W - offset
                            /\ real[r].t = T_NUM => ToWord(g) = g
                            /\ real[r].t # T_NUM => -(2 * Cap) <= g /\ g < 2 * Cap
                            /\ Compare(op, real[r].n, g)
  PROVE  Follows(Linear(op, r, offset, width, v, T))
<1>1. PICK a : a = Linear(op, r, offset, width, v, T)
  OBVIOUS
<1>2. /\ a.kind = "linear" /\ a.op = op /\ a.reg = r /\ a.offset = offset
      /\ a.width = width /\ a.v = v /\ a.types = T
  BY <1>1 DEF Linear
<1>3. Gap(a) = E - W - offset
  BY <1>2 DEF Gap
<1>4. ASSUME real[r].t \in T PROVE Compare(op, real[r].n, GapFor(a))
  <2>1. GapFor(a) = IF real[r].t = T_NUM THEN ToWord(g) ELSE AsInt(ToWord(g))
    BY <1>2, <1>3, <1>4 DEF GapFor
  <2>2. GapFor(a) = g
    BY <1>4, <2>1, FitsInt
  <2>3. QED
    BY <1>4, <2>2
<1>5. Follows(a)
  BY <1>2, <1>4 DEF Follows
<1>6. QED
  BY <1>1, <1>5

LEMMA AccessFollows ==
  ASSUME packet \in Packets, NEW T, T \subseteq PtrTypes, NEW r, IsReal(real[r]),
         NEW offset \in -Cap .. Cap, NEW width, NEW W \in Nat,
         W = IF width.reg THEN real[width.n].n ELSE width.n,
         width.reg => real[width.n].t = T_NUM,
         offset = 0 \/ W \in 1 .. Cap,
         \A a \in Accesses(T, r, offset, width) : Means(a)
  PROVE  \A a \in Accesses(T, r, offset, width) : Follows(a)
<1>1. PICK x : x = real[r]
  OBVIOUS
<1>2. /\ Cap \in Nat \ {0} /\ offset \in Int /\ x.n \in Int
      /\ T_NUM \notin T
  BY <1>1, IntSizes, RealParts, TypeCases
<1>3. ASSUME x.t \in T PROVE 0 <= x.n + offset /\ x.n + offset + W <= Last(x.t)
  <2>1. PICK V \in Int : V = W
    OBVIOUS
  <2>2. real[r].t \in T /\ V = IF width.reg THEN real[width.n].n ELSE width.n
    BY <1>1, <1>3, <2>1
  <2>3. 0 <= real[r].n + offset /\ real[r].n + offset + V <= Last(real[r].t)
    BY <1>2, <2>2, AccessMeans
  <2>4. QED
    BY <1>1, <2>1, <2>3
<1>4. Imm(0).reg = FALSE /\ Imm(0).n = 0
  BY DEF Imm
<1>5. Follows(Linear("GE", r, offset, Imm(0), Imm(0), T))
  <2>1. PICK g \in Int, z \in Int : g = 0 - 0 - offset /\ z = 0
    BY <1>2
  <2>2. -(2 * Cap) <= g /\ g < 2 * Cap
    BY <1>2, <2>1
  <2>3. x.t \in T => Compare("GE", x.n, g)
    <3>1. x.t \in T => x.n >= g
      BY <1>2, <1>3, <2>1
    <3>2. QED
      BY <1>2, <3>1, CompareOrders
  <2>4. g = z - z - offset
    BY <2>1
  <2>5. z = (IF Imm(0).reg THEN real[Imm(0).n].n ELSE Imm(0).n)
    BY <1>4, <2>1
  <2>6. z = (IF Imm(0).reg THEN packet.end ELSE Imm(0).n)
    BY <1>4, <2>1
  <2>7. PICK o : o = Imm(0)
    OBVIOUS
  <2>8. real[r].t \in T => /\ o.reg => real[o.n].t = T_NUM
                           /\ g = z - z - offset
                           /\ real[r].t = T_NUM => ToWord(g) = g
                           /\ real[r].t # T_NUM => -(2 * Cap) <= g /\ g < 2 * Cap
                           /\ Compare("GE", real[r].n, g)
    BY <1>1, <1>2, <1>4, <2>2, <2>3, <2>4, <2>7
  <2>9. QED
    BY <2>5, <2>6, <2>7, <2>8, LinearFollows
<1>6. ASSUME NEW t \in T PROVE Follows(Linear("LE", r, offset, width, EndOf(t), {t}))
  <2>1. PICK e, E : e = EndOf(t) /\ E = Last(t)
    OBVIOUS
  <2>2. E = (IF e.reg THEN packet.end ELSE e.n) /\ E \in 0 .. Cap
    BY <2>1, EndOfMemory
  <2>3. PICK g \in Int : g = E - W - offset
    BY <1>2, <2>2
  <2>4. PICK U : U = {t}
    OBVIOUS
  <2>5. ASSUME x.t \in U
        PROVE  /\ -(2 * Cap) <= g /\ g < 2 * Cap
               /\ Compare("LE", x.n, g)
    <3>1. x.t = t /\ 0 <= x.n + offset /\ x.n + offset + W <= E
      BY <1>3, <2>1, <2>4, <2>5
    <3>2. W <= Cap
      BY <1>2, <2>2, <3>1
    <3>3. -(2 * Cap) <= g /\ g < 2 * Cap
      BY <1>2, <2>2, <2>3, <3>2
    <3>4. x.n <= g
      BY <1>2, <2>2, <2>3, <3>1
    <3>5. QED
      BY <1>2, <3>3, <3>4, CompareOrders
  <2>6. real[r].t \in U => /\ width.reg => real[width.n].t = T_NUM
                           /\ g = E - W - offset
                           /\ real[r].t = T_NUM => ToWord(g) = g
                           /\ real[r].t # T_NUM => -(2 * Cap) <= g /\ g < 2 * Cap
                           /\ Compare("LE", real[r].n, g)
    BY <1>1, <1>2, <2>3, <2>4, <2>5
  <2>7. QED
    BY <2>1, <2>2, <2>4, <2>6, LinearFollows
<1>7. QED
  BY <1>5, <1>6 DEF Accesses

Sound(a) == Shaped(a) /\ Follows(a)

LEMMA TypedSound ==
  ASSUME NEW r \in Readable, NEW T
  PROVE  /\ \A g, W : Means(TypedWhen(r, T, g, W)) => Sound(TypedWhen(r, T, g, W))
         /\ Means(Typed(r, T)) => Sound(Typed(r, T))
<1>1. r # 13
  BY DEF Readable
<1>2. Typed(r, T).kind = "type" /\ \A g, W : TypedWhen(r, T, g, W).kind = "type"
  BY DEF Typed, TypedWhen
<1>3. QED
  BY <1>1, <1>2, TypedShaped DEF Sound, Follows

LEMMA SameTypesSound ==
  ASSUME NEW T, NEW r1 \in Readable, NEW r2, NEW a \in SameTypes(T, r1, r2), Means(a)
  PROVE  Sound(a)
<1>1. PICK t \in T : a = TypedWhen(r1, {t}, r2, {t})
  BY DEF SameTypes
<1>2. QED
  BY <1>1, TypedSound

LEMMA AccessSound ==
  ASSUME packet \in Packets, NEW T, T \subseteq PtrTypes, NEW r \in Readable, IsReal(real[r]),
         NEW offset \in -Cap .. Cap, NEW width, width.n \in Int, NEW W \in Nat,
         W = IF width.reg THEN real[width.n].n ELSE width.n,
         width.reg => real[width.n].t = T_NUM,
         offset = 0 \/ W \in 1 .. Cap,
         \A a \in Accesses(T, r, offset, width) : Means(a)
  PROVE  \A a \in Accesses(T, r, offset, width) : Sound(a)
<1>1. r # 13 /\ offset \in Int
  BY IntSizes DEF Readable
<1>2. \A a \in Accesses(T, r, offset, width) : Shaped(a)
  BY <1>1, AccessShaped
<1>3. \A a \in Accesses(T, r, offset, width) : Follows(a)
  BY AccessFollows
<1>4. QED
  BY <1>2, <1>3 DEF Sound

\* A bound of a number against zero.
LEMMA ZeroSound ==
  ASSUME NEW op \in Bounds, NEW r \in Readable, IsReal(real[r]),
         NEW a, a = Linear(op, r, 0, Imm(0), Imm(0), {T_NUM}), Means(a)
  PROVE  /\ Shaped(a)
         /\ (op = "EQ" => InOrder(regs[r][T_NUM])) => Follows(a)
<1>1. PICK o, T : o = Imm(0) /\ T = {T_NUM}
  OBVIOUS
<1>2. o.reg = FALSE /\ o.n = 0 /\ o.n \in Int
  BY <1>1 DEF Imm
<1>3. T \subseteq AllTypes /\ T_FD \notin T
  BY <1>1, TypeCases
<1>4. r # 13
  BY DEF Readable
<1>5. PICK z \in Int : z = 0
  OBVIOUS
<1>6. a = Linear(op, r, z, o, o, T)
  BY <1>1, <1>5
<1>7. Shaped(a)
  BY <1>2, <1>3, <1>4, <1>5, <1>6, LinearShaped
<1>8. ASSUME real[r].t \in T PROVE Compare(op, real[r].n, z)
  <2>1. Compare(op, real[r].n + z + z, z)
    BY <1>2, <1>5, <1>6, <1>8, LinearMeans
  <2>2. real[r].n \in Int
    BY RealParts
  <2>3. real[r].n + z + z = real[r].n
    BY <1>5, <2>2
  <2>4. QED
    BY <2>1, <2>3
<1>9. real[r].t \in T => /\ o.reg => real[o.n].t = T_NUM
                         /\ z = z - z - z
                         /\ real[r].t = T_NUM => ToWord(z) = z
                         /\ real[r].t # T_NUM => -(2 * Cap) <= z /\ z < 2 * Cap
                         /\ Compare(op, real[r].n, z)
  <2>1. ToWord(0) = 0
    BY WordSizes, WordFacts
  <2>2. QED
    BY <1>1, <1>2, <1>5, <1>8, <2>1
<1>10. z = (IF o.reg THEN real[o.n].n ELSE o.n) /\ z = (IF o.reg THEN packet.end ELSE o.n)
  BY <1>2, <1>5
<1>11. ASSUME op = "EQ" => InOrder(regs[r][T_NUM]) PROVE Follows(a)
  BY <1>6, <1>9, <1>10, <1>11, LinearFollows
<1>12. QED
  BY <1>7, <1>11

LEMMA MemSound ==
  ASSUME Tracked, NEW ins, Runs(ins), ins.kind = "Mem", NEW a \in AskedMem(ins)
  PROVE  Sound(a)
<1>1. PICK r, w : r = ins.base /\ w = Imm(ins.width)
  OBVIOUS
<1>2. /\ \A b \in AskedMem(ins) : Means(b)
      /\ IsAccess(r, ins.offset, ins.width) /\ IsOperand(ins.value)
      /\ r \in Reads(ins) /\ Reads(ins) \subseteq DOMAIN regs
  BY <1>1, DemandedAsked DEF Asked, Runs, IsInstruction, Initialised, Reads
<1>3. r \in Readable /\ IsReal(real[r])
  BY <1>2, RegisterParts DEF IsAccess
<1>4. PICK W \in Nat : W = ins.width /\ W \in 1 .. Cap
  BY <1>2, IntSizes DEF IsAccess
<1>5. w.reg = FALSE /\ w.n = W /\ w.n \in Int
  BY <1>1, <1>4 DEF Imm
<1>6. ins.offset \in -Cap .. Cap
  BY <1>2 DEF IsAccess
<1>7. ASSUME NEW T, T \subseteq PtrTypes, \A b \in Accesses(T, r, ins.offset, w) : Means(b)
      PROVE  \A b \in Accesses(T, r, ins.offset, w) : Sound(b)
  <2>1. W = IF w.reg THEN real[w.n].n ELSE w.n
    BY <1>5
  <2>2. QED
    BY <1>3, <1>4, <1>5, <1>6, <1>7, <2>1, AccessSound, RegisterParts
<1>8. CASE r = 10
  <2>1. PICK T : T = {T_STACK}
    OBVIOUS
  <2>2. T \subseteq PtrTypes
    BY <2>1, TypeCases
  <2>3. AskedMem(ins) = Accesses(T, r, ins.offset, w)
    BY <1>1, <1>8, <2>1 DEF AskedMem
  <2>4. QED
    BY <1>2, <1>7, <2>2, <2>3
<1>9. CASE r # 10
  <2>1. CASE a = Typed(r, PtrTypes)
    BY <1>2, <1>3, <2>1, TypedSound
  <2>2. CASE a \in Accesses(PtrTypes, r, ins.offset, w)
    <3>1. \A b \in Accesses(PtrTypes, r, ins.offset, w) : Means(b)
      BY <1>1, <1>2, <1>9 DEF AskedMem
    <3>2. QED
      BY <1>7, <2>2, <3>1
  <2>3. ASSUME ins.value.reg, NEW V, a = TypedWhen(ins.value.n, {T_NUM}, r, V) PROVE Sound(a)
    <3>1. ins.value.n \in Readable
      BY <1>2, <2>3 DEF IsOperand
    <3>2. QED
      BY <1>2, <2>3, <3>1, TypedSound
  <2>4. QED
    BY <1>1, <1>9, <2>1, <2>2, <2>3 DEF AskedMem
<1>10. QED
  BY <1>8, <1>9

LEMMA LockAddSound ==
  ASSUME Tracked, NEW ins, Runs(ins), ins.kind = "LockAdd", NEW a \in AskedLockAdd(ins)
  PROVE  Sound(a)
<1>1. PICK r, w : r = ins.base /\ w = Imm(ins.width)
  OBVIOUS
<1>2. /\ \A b \in AskedLockAdd(ins) : Means(b) /\ ReadsOf(b) \subseteq DOMAIN regs
      /\ IsAccess(r, ins.offset, ins.width)
  BY <1>1, DemandedAsked DEF Asked, Runs, IsInstruction
<1>3. Typed(r, Maps) \in AskedLockAdd(ins) /\ ReadsOf(Typed(r, Maps)) = {r}
  BY <1>1 DEF AskedLockAdd, ReadsOf, Typed
<1>4. r \in DOMAIN regs
  <2>1. ReadsOf(Typed(r, Maps)) \subseteq DOMAIN regs
    BY <1>2, <1>3
  <2>2. QED
    BY <1>3, <2>1
<1>5. r \in Readable /\ IsReal(real[r])
  BY <1>2, <1>4, RegisterParts DEF IsAccess
<1>6. PICK W \in Nat : W = ins.width /\ W \in 1 .. Cap
  BY <1>2, IntSizes DEF IsAccess
<1>7. w.reg = FALSE /\ w.n = W /\ w.n \in Int /\ W = IF w.reg THEN real[w.n].n ELSE w.n
  BY <1>1, <1>6 DEF Imm
<1>8. ins.offset \in -Cap .. Cap
  BY <1>2 DEF IsAccess
<1>9. Maps \subseteq PtrTypes
  BY TypeCases
<1>10. \A b \in Accesses(Maps, r, ins.offset, w) : Means(b)
  BY <1>1, <1>2 DEF AskedLockAdd
<1>11. \A b \in Accesses(Maps, r, ins.offset, w) : Sound(b)
  BY <1>5, <1>6, <1>7, <1>8, <1>9, <1>10, AccessSound, RegisterParts
<1>12. CASE a = Typed(r, Maps)
  BY <1>2, <1>5, <1>12, TypedSound
<1>13. QED
  BY <1>1, <1>11, <1>12 DEF AskedLockAdd

LEMMA CallSound ==
  ASSUME Tracked, NEW ins, Runs(ins), ins.kind = "Call", NEW a \in AskedCall(ins)
  PROVE  Shaped(a) /\ (~NullInexact(ins) => Follows(a))
<1>1. /\ ins.singles \in Seq([kind : {"ANYTHING", "MAP_FD", "PTR_TO_MAP_KEY",
                                      "PTR_TO_MAP_VALUE", "PTR_TO_CTX"}, reg : Readable])
      /\ \A b \in AskedCall(ins) : Means(b)
  BY DemandedAsked DEF Asked, Runs, IsInstruction, IsCall
<1>2. ASSUME NEW one \in Range(ins.singles), a = Typed(one.reg, ArgTypes(one.kind))
      PROVE  Shaped(a) /\ (~NullInexact(ins) => Follows(a))
  <2>1. PICK i \in DOMAIN ins.singles : one = ins.singles[i]
    BY <1>2 DEF Range
  <2>2. one \in [kind : {"ANYTHING", "MAP_FD", "PTR_TO_MAP_KEY",
                         "PTR_TO_MAP_VALUE", "PTR_TO_CTX"}, reg : Readable]
    BY <1>1, <2>1, MemberOfList
  <2>3. one.reg \in Readable
    BY <2>2
  <2>4. QED
    BY <1>1, <1>2, <2>3, TypedSound DEF Sound
<1>3. ASSUME ins.pairs # << >>, NEW arg, arg = ins.pairs[1], a \in AskedPair(arg)
      PROVE  Shaped(a) /\ (~NullInexact(ins) => Follows(a))
  <2>1. /\ arg \in [kind : {"PTR_TO_MEM", "PTR_TO_MEM_OR_NULL", "PTR_TO_UNINIT_MEM"},
                    mem : Readable, size : Readable, can_be_zero : BOOLEAN]
        /\ IsReal(real[arg.mem]) /\ IsReal(real[arg.size])
        /\ real[arg.size].t = T_NUM
        /\ \A b \in Accesses(MemTypes, arg.mem, 0, Reg(arg.size)) : Means(b)
    BY <1>3, PairMeans
  <2>2. arg.mem \in Readable /\ arg.size \in Readable /\ Means(a)
    BY <1>1, <2>1
  <2>3. CASE \E q \in {arg.mem, arg.size} : \E T : a = Typed(q, T)
    BY <2>2, <2>3, TypedSound DEF Sound
  <2>4. CASE a \in Accesses(MemTypes, arg.mem, 0, Reg(arg.size))
    <3>1. PICK w, W : w = Reg(arg.size) /\ W = real[arg.size].n
      OBVIOUS
    <3>2. W \in Nat
      <4>1. PICK y : y = real[arg.size]
        OBVIOUS
      <4>2. y.n \in Words
        BY <2>1, <4>1, RealParts, TypeCases
      <4>3. QED
        BY <3>1, <4>1, <4>2, WordFacts
    <3>3. /\ w.reg = TRUE /\ w.n = arg.size /\ w.n \in Int
          /\ W = IF w.reg THEN real[w.n].n ELSE w.n
      BY <2>2, <3>1 DEF Reg, Readable
    <3>4. MemTypes \subseteq PtrTypes /\ 0 \in -Cap .. Cap
      BY IntSizes DEF PtrTypes
    <3>5. QED
      BY <2>1, <2>2, <2>4, <3>1, <3>2, <3>3, <3>4, AccessSound, RegisterParts DEF Sound
  <2>5. CASE a = Linear(IF arg.can_be_zero THEN "GE" ELSE "GT", arg.size, 0, Imm(0), Imm(0),
                        {T_NUM})
    <3>1. PICK op : op = IF arg.can_be_zero THEN "GE" ELSE "GT"
      OBVIOUS
    <3>2. op \in Bounds /\ op # "EQ"
      BY <3>1 DEF Bounds
    <3>3. QED
      BY <2>1, <2>2, <2>5, <3>1, <3>2, ZeroSound
  <2>6. CASE arg.kind = "PTR_TO_MEM_OR_NULL"
             /\ a = Linear("EQ", arg.mem, 0, Imm(0), Imm(0), {T_NUM})
    <3>1. ~NullInexact(ins) => InOrder(regs[arg.mem][T_NUM])
      BY <1>3, <2>6 DEF NullInexact
    <3>2. "EQ" \in Bounds
      BY DEF Bounds
    <3>3. QED
      BY <2>1, <2>2, <2>6, <3>1, <3>2, ZeroSound
  <2>7. QED
    BY <1>3, <2>3, <2>4, <2>5, <2>6 DEF AskedPair
<1>4. QED
  BY <1>2, <1>3 DEF AskedCall

LEMMA AskedSound ==
  ASSUME Tracked, NEW ins, Runs(ins), NEW a \in Asked(ins)
  PROVE  Shaped(a) /\ ((ins.kind = "Call" /\ NullInexact(ins)) \/ Follows(a))
<1>1. Means(a) /\ IsInstruction(ins)
  BY DemandedAsked DEF Runs
<1>2. CASE ins.kind = "Exit"
  <2>1. 0 \in Readable /\ a = Typed(0, {T_NUM})
    BY <1>2 DEF Readable, Asked
  <2>2. QED
    BY <1>1, <2>1, TypedSound DEF Sound
<1>3. CASE ins.kind = "Call"
  BY <1>3, CallSound DEF Asked
<1>4. CASE ins.kind = "Assume"
  <2>1. ins.left \in Readable /\ a \in AskedAssume(ins)
    BY <1>1, <1>4 DEF Asked, IsInstruction
  <2>2. \/ \E T : a = Typed(ins.left, T)
        \/ a \in SameTypes(AllTypes, ins.left, ins.right.n)
    BY <2>1 DEF AskedAssume
  <2>3. QED
    BY <1>1, <2>1, <2>2, TypedSound, SameTypesSound DEF Sound
<1>5. CASE ins.kind = "Mem"
  BY <1>5, MemSound DEF Asked, Sound
<1>6. CASE ins.kind = "LockAdd"
  BY <1>6, LockAddSound DEF Asked, Sound
<1>7. CASE ins.kind = "Bin"
  <2>1. /\ ins.dst \in Readable /\ (ins.v.reg => ins.v.n \in Readable)
        /\ ins.v.reg \in BOOLEAN /\ a \in AskedBin(ins)
    BY <1>1, <1>7 DEF Asked, IsInstruction, IsOperand, Readable, Writeable
  <2>2. CASE ins.v.reg
    <3>1. \/ \E T : a = Typed(ins.dst, T)
          \/ a \in SameTypes(NonFd \ Maps, ins.v.n, ins.dst)
          \/ a = TypedWhen(ins.v.n, {T_NUM}, ins.dst, PtrTypes)
          \/ a = TypedWhen(ins.dst, {T_NUM}, ins.v.n, PtrTypes)
      BY <2>1 DEF AskedBin
    <3>2. QED
      BY <1>1, <2>1, <2>2, <3>1, TypedSound, SameTypesSound DEF Sound
  <2>3. CASE ~ins.v.reg
    <3>1. a = Typed(ins.dst, {T_NUM})
      BY <2>1, <2>3 DEF AskedBin
    <3>2. QED
      BY <1>1, <2>1, <3>1, TypedSound DEF Sound
  <2>4. QED
    BY <2>2, <2>3
<1>8. ins.kind \in {"Bin", "Assume", "Mem", "LockAdd", "Call", "Exit"}
  <2>1. Asked(ins) # {}
    OBVIOUS
  <2>2. ins.kind \in {"LoadMapFd", "Bin", "Un", "Assume", "Mem", "LockAdd", "Call", "Packet", "Exit"}
    BY <1>1 DEF IsInstruction
  <2>3. QED
    BY <2>1, <2>2 DEF Asked
<1>9. QED
  BY <1>2, <1>3, <1>4, <1>5, <1>6, <1>7, <1>8

-----------------------------------------------------------------------------
(* The steps.                                                                *)

LEMMA AfterAssertions ==
  ASSUME Tracked, NEW ins, Runs(ins), NEW sure \in BOOLEAN, sure => exact,
         sure /\ ins.kind = "Call" => ~NullInexact(ins),
         NEW f, f = AssertedAll(regs, Extract(ins))
  PROVE  Good(f, sure)
<1>1. Good(regs, sure)
  BY DEF Good, Tracked, TypeOK, RegistersCovered, DATA_END_REG
<1>2. PICK s : s = Extract(ins)
  OBVIOUS
<1>3. Lists(s, Asked(ins))
  BY <1>2, ExtractListed DEF Runs
<1>4. ASSUME NEW a \in Asked(ins)
      PROVE  /\ Shaped(a) /\ ReadsOf(a) \subseteq DOMAIN regs
             /\ sure => Follows(a)
  BY <1>4, AskedSound, DemandedAsked DEF Runs
<1>5. Good(AssertedAll(regs, s), sure)
  BY <1>1, <1>3, <1>4, AssertedAllGood
<1>6. QED
  BY <1>2, <1>5

\* The rest of a step: the step is counted, the packet stays where it is.
Rests(sure) ==
    exact' = sure /\ sure \in BOOLEAN /\ packet' = packet /\ steps' \in 0 .. MaxSteps

LEMMA SameKeeps ==
  ASSUME Tracked, NEW sure, Rests(sure), NEW f, Good(f, sure), regs' = f, real' = real
  PROVE  Tracked'
<1>1. DOMAIN f = DOMAIN regs /\ DOMAIN real = DOMAIN regs /\ {10, 13, 14} \subseteq DOMAIN regs
  BY RegisterParts DEF Good
<1>2. TypeOK'
  BY <1>1, RegisterParts DEF TypeOK, Good, Rests
<1>3. RegistersCovered'
  BY <1>1 DEF RegistersCovered, Good, Rests
<1>4. QED
  BY <1>1, <1>2, <1>3 DEF Tracked, Good, Rests, DATA_END_REG

\* Registers before and after a step that writes r and keeps those of K.
LEMMA WriteKeeps ==
  ASSUME Tracked, NEW sure, Rests(sure), NEW f, Good(f, sure), NEW r \in Writeable,
         NEW K, K \subseteq DOMAIN regs, {10, 13, 14} \subseteq K,
         NEW e, IsValue(e), IsTidy(e), NEW v, IsReal(v), sure => Holds(e, v),
         regs' = [q \in K \cup {r} |-> IF q = r THEN e ELSE f[q]],
         real' = [q \in K \cup {r} |-> IF q = r THEN v ELSE real[q]]
  PROVE  Tracked'
<1>1. /\ DOMAIN f = DOMAIN regs /\ DOMAIN real = DOMAIN regs /\ {10, 13, 14} \subseteq DOMAIN regs
      /\ DOMAIN regs \subseteq Readable \cup {13, 14}
  BY RegisterParts DEF Good, Tracked
<1>2. r \in Readable /\ r \notin {10, 13, 14}
  BY DEF Readable, Writeable
<1>3. /\ DOMAIN regs' = K \cup {r} /\ DOMAIN real' = K \cup {r}
      /\ regs' = [q \in DOMAIN regs' |-> regs'[q]]
  OBVIOUS
<1>4. ASSUME NEW q \in K \cup {r}
      PROVE  /\ IsValue(regs'[q]) /\ IsTidy(regs'[q]) /\ IsReal(real'[q])
             /\ sure => Holds(regs'[q], real'[q])
  <2>1. CASE q = r
    BY <2>1
  <2>2. CASE q # r
    <3>1. q \in DOMAIN regs /\ regs'[q] = f[q] /\ real'[q] = real[q]
      BY <1>4, <2>2
    <3>2. QED
      BY <3>1, RegisterParts DEF Good
  <2>3. QED
    BY <2>1, <2>2
<1>5. TypeOK'
  BY <1>3, <1>4 DEF TypeOK, Rests
<1>6. RegistersCovered'
  BY <1>3, <1>4 DEF RegistersCovered, Rests
<1>7. regs'[13] = NumTop /\ real'[10] = real[10]
  BY <1>1, <1>2 DEF Good
<1>8. QED
  BY <1>1, <1>2, <1>3, <1>5, <1>6, <1>7 DEF Tracked, Rests, DATA_END_REG

LEMMA AssignKeeps ==
  ASSUME Tracked, NEW sure, Rests(sure), NEW f, Good(f, sure), NEW r \in Writeable,
         NEW e, IsValue(e), IsTidy(e), NEW v, IsReal(v), sure => Holds(e, v),
         regs' = Assign(f, r, e), real' = Assign(real, r, v)
  PROVE  Tracked'
<1>1. DOMAIN f = DOMAIN regs /\ DOMAIN real = DOMAIN regs /\ {10, 13, 14} \subseteq DOMAIN regs
  BY RegisterParts DEF Good
<1>2. PICK K : K = DOMAIN regs
  OBVIOUS
<1>3. /\ regs' = [q \in K \cup {r} |-> IF q = r THEN e ELSE f[q]]
      /\ real' = [q \in K \cup {r} |-> IF q = r THEN v ELSE real[q]]
  BY <1>1, <1>2 DEF Assign
<1>4. QED
  BY <1>1, <1>2, <1>3, WriteKeeps

LEMMA ReturnKeeps ==
  ASSUME Tracked, NEW sure, Rests(sure), NEW f, Good(f, sure),
         NEW e, IsValue(e), IsTidy(e), NEW v, IsReal(v), sure => Holds(e, v),
         regs' = Returning(f, e), real' = Returned(v)
  PROVE  Tracked'
<1>1. DOMAIN f = DOMAIN regs /\ DOMAIN real = DOMAIN regs /\ {10, 13, 14} \subseteq DOMAIN regs
  BY RegisterParts DEF Good
<1>2. PICK K : K = DOMAIN regs \ 1 .. 5
  OBVIOUS
<1>3. PICK r : r = 0
  OBVIOUS
<1>4. /\ regs' = [q \in K \cup {r} |-> IF q = r THEN e ELSE f[q]]
      /\ real' = [q \in K \cup {r} |-> IF q = r THEN v ELSE real[q]]
  BY <1>1, <1>2, <1>3 DEF Returning, Returned
<1>5. r \in Writeable /\ K \subseteq DOMAIN regs /\ {10, 13, 14} \subseteq K
  BY <1>1, <1>2, <1>3 DEF Writeable
<1>6. QED
  BY <1>4, <1>5, WriteKeeps

LEMMA SignedType ==
  ASSUME NEW n \in Int
  PROVE  Signed(n) \in Int
<1>1. PICK h \in Nat : 2 ^ (Bits - 1) = h /\ 2 ^ Bits = h + h
  BY WordSizes
<1>2. QED
  BY <1>1 DEF Signed

LEMMA AddedType ==
  ASSUME NEW x, IsReal(x), NEW y, IsReal(y)
  PROVE  IsReal(Added(x, y)) /\ IsReal(Num(x.n - y.n))
         /\ (y.t = T_NUM => IsReal(Subtracted(x, y)))
<1>1. /\ x = [t |-> x.t, n |-> x.n] /\ x.n \in Int /\ x.t \in AllTypes
      /\ y = [t |-> y.t, n |-> y.n] /\ y.n \in Int /\ y.t \in AllTypes
  BY RealParts
<1>2. /\ Signed(x.n) \in Int /\ Signed(y.n) \in Int
      /\ x.n + y.n \in Int /\ x.n - y.n \in Int
  BY <1>1, SignedType
<1>3. IsReal(Num(x.n + y.n)) /\ IsReal(Num(x.n - y.n))
  BY <1>2, NumType
<1>4. PICK p, q, r : p = x.n + Signed(y.n) /\ q = y.n + Signed(x.n) /\ r = x.n - Signed(y.n)
  OBVIOUS
<1>5. p \in Int /\ q \in Int /\ r \in Int
  BY <1>1, <1>2, <1>4
<1>6. /\ [x EXCEPT !.n = @ + Signed(y.n)] = [t |-> x.t, n |-> p]
      /\ [y EXCEPT !.n = @ + Signed(x.n)] = [t |-> y.t, n |-> q]
      /\ [x EXCEPT !.n = @ - Signed(y.n)] = [t |-> x.t, n |-> r]
  BY <1>1, <1>4
<1>7. /\ x.t # T_NUM => IsReal([t |-> x.t, n |-> p]) /\ IsReal([t |-> x.t, n |-> r])
      /\ y.t # T_NUM => IsReal([t |-> y.t, n |-> q])
  BY <1>1, <1>5, MakesReal
<1>8. IsReal(Added(x, y))
  BY <1>3, <1>6, <1>7 DEF Added
<1>9. y.t = T_NUM => IsReal(Subtracted(x, y))
  BY <1>3, <1>6, <1>7 DEF Subtracted
<1>10. QED
  BY <1>3, <1>8, <1>9

LEMMA NoNumber == IsReal(Num(0)) /\ Num(0).t = T_NUM
BY NumType

LEMMA ComputedType ==
  ASSUME NEW op \in BinOps \cup {"MOV"}, NEW x, IsReal(x), NEW y, IsReal(y),
         op \notin {"MOV", "ADD", "SUB"} => x.t = T_NUM /\ ~Undefined(op, y.n)
  PROVE  IsReal(Computed(op, x, y))
<1>1. CASE op = "MOV"
  BY <1>1 DEF Computed
<1>2. CASE op = "ADD"
  BY <1>2, AddedType DEF Computed
<1>3. CASE op = "SUB"
  BY <1>3, AddedType DEF Computed
<1>4. CASE op \notin {"MOV", "ADD", "SUB"}
  <2>1. Computed(op, x, y) = IF y.t = T_NUM THEN Num(Compute(op, x.n, y.n)) ELSE Num(0)
    BY <1>4, Zenon DEF Computed
  <2>2. CASE y.t = T_NUM
    <3>1. x.n \in Words /\ y.n \in Words /\ op \in BinOps
      BY <1>4, <2>2, RealParts, TypeCases
    <3>2. Compute(op, x.n, y.n) \in Int
      BY <1>4, <3>1, ComputeType
    <3>3. QED
      BY <2>1, <2>2, <3>2, NumType
  <2>3. QED
    BY <2>1, <2>2, NoNumber
<1>5. QED
  BY <1>1, <1>2, <1>3, <1>4

LEMMA LowType ==
  ASSUME NEW x, IsReal(x), NEW y, y = Low(x)
  PROVE  IsReal(y) /\ y.t = T_NUM
<1>1. CASE x.t = T_NUM
  <2>1. PICK n \in Int : n = x.n
    BY RealParts
  <2>2. PICK m \in Nat \ {0} : m = 2 ^ IntBits
    BY IntSizes
  <2>3. n % m \in Int
    BY <2>1, <2>2
  <2>4. y = Num(n % m)
    BY <1>1, <2>1, <2>2 DEF Low
  <2>5. QED
    BY <2>3, <2>4, NumType
<1>2. CASE x.t # T_NUM
  BY <1>2, NoNumber DEF Low
<1>3. QED
  BY <1>1, <1>2

\* A top on the right gives a top.
LEMMA ExecTop ==
  ASSUME NEW op, NEW a, NEW b, b.top, NEW e, Contains(a, e)
  PROVE  Exec(op, a, b) = Top
<1>1. Range(<< >>) = {}
  BY DEF Range
<1>2. ~IsBot(a) /\ ~IsBot(b)
  BY <1>1 DEF IsBot, Contains, Elems
<1>3. QED
  BY <1>2 DEF Exec

\* What the analyser has after an operation holds what the machine has.
LEMMA BinHolds ==
  ASSUME NEW op \in BinOps \cup {"MOV"}, NEW a, op # "MOV" => IsValue(a), NEW b, IsValue(b),
         op # "MOV" => \A n \in Elems(b[T_NUM]) : ~Undefined(op, n),
         NEW x, op # "MOV" => IsReal(x) /\ Holds(a, x), NEW y, IsReal(y), Holds(b, y),
         op = "ADD" => T_FD \notin {x.t, y.t} /\ T_NUM \in {x.t, y.t},
         op = "SUB" => /\ T_FD \notin {x.t, y.t}
                       /\ y.t = T_NUM \/ (y.t = x.t /\ x.t \notin Maps),
         op \in {"ADD", "SUB"} => ~CutsOffset(x, y) /\ ~CutsOffset(y, x),
         op \notin {"MOV", "ADD", "SUB"} => x.t = T_NUM /\ y.t = T_NUM,
         ~ShiftsSignBit(op, x, y),
         NEW v, v = Computed(op, x, y), IsReal(v),
         NEW e, e = CASE op = "MOV" -> b
                      [] op = "ADD" -> AddVal(a, b)
                      [] op = "SUB" -> SubVal(a, b)
                      [] OTHER -> ExecVal(op, a, b)
  PROVE  Holds(e, v)
<1>1. CASE op = "MOV"
  BY <1>1 DEF Computed
<1>2. CASE op = "ADD"
  <2>1. e = AddVal(a, b) /\ v = Added(x, y)
    BY <1>2 DEF Computed
  <2>2. QED
    BY <1>2, <2>1, AddedValue
<1>3. CASE op = "SUB"
  <2>1. e = SubVal(a, b) /\ v = Subtracted(x, y)
    BY <1>3 DEF Computed, Subtracted
  <2>2. QED
    BY <1>3, <2>1, SubtractedValue
<1>4. CASE op \notin {"MOV", "ADD", "SUB"}
  <2>1. e = ExecVal(op, a, b) /\ v = Num(Compute(op, x.n, y.n)) /\ op \in BinOps
    BY <1>4, Zenon DEF Computed
  <2>2. CASE Undefined(op, y.n)
    <3>1. Contains(a[T_NUM], x.n) /\ Contains(b[T_NUM], y.n)
      BY <1>4, HoldsNumber
    <3>2. b[T_NUM].top
      BY <1>4, <2>2, <3>1 DEF Contains
    <3>3. Exec(op, a[T_NUM], b[T_NUM]) = Top
      BY <3>1, <3>2, ExecTop
    <3>4. T_NUM \in AllTypes /\ T_NUM # T_FD
      BY TypeCases
    <3>5. e[T_NUM] = Exec(op, a[T_NUM], b[T_NUM])
      BY <1>4, <2>1, <3>4, ValueParts DEF ExecVal
    <3>6. v.t = T_NUM
      BY <2>1 DEF Num
    <3>7. Contains(e[T_NUM], v.n)
      BY <3>3, <3>5, Constants
    <3>8. QED
      BY <3>4, <3>6, <3>7, RealParts
  <2>3. CASE ~Undefined(op, y.n)
    <3>1. \A n \in Elems(b[T_NUM]) \cup {y.n} : ~Undefined(op, n)
      BY <1>4, <2>3
    <3>2. QED
      BY <1>4, <2>1, <3>1, ComputedValue
  <2>4. QED
    BY <2>2, <2>3
<1>5. QED
  BY <1>1, <1>2, <1>3, <1>4

\* What the step of ins is: the registers after the assertions, and whether
\* the step is sure to keep what they hold.
StepOf(ins, f, sure) ==
    /\ Tracked /\ Runs(ins) /\ Rests(sure) /\ Good(f, sure)
    /\ sure = (exact /\ ~Inexact(f, ins))
    /\ ins.kind = "Bin" /\ ins.op # "MOV" => ~BinUndefined(f, ins)
    /\ ins.kind = "Assume" =>
            \A t \in NonFd \ {T_NUM} :
                ~AbortsOffset(ins.op, f[ins.left][t], Eval(f, ins.right)[t])
    /\ regs' = Run(f, ins)
    /\ real' \in RealAfter(ins)

LEMMA BinIsReal ==
  ASSUME NEW ins, NEW f, NEW sure, StepOf(ins, f, sure), ins.kind = "Bin",
         NEW v, v = BinReal(ins)
  PROVE  IsReal(v)
<1>1. PICK op, x, y : op = ins.op /\ x = LeftOf(ins) /\ y = RealOf(ins.v)
  OBVIOUS
<1>2. Tracked /\ Runs(ins) /\ (op # "MOV" => ~BinUndefined(f, ins))
  BY <1>1 DEF StepOf
<1>3. /\ op \in BinOps \cup {"MOV"} /\ IsReal(y)
      /\ ins.op \notin {"MOV", "ADD", "SUB"} => real[ins.dst].t = T_NUM
      /\ op # "MOV" => IsReal(real[ins.dst])
  BY <1>1, <1>2, BinOperands
<1>4. IsReal(x) /\ (op \notin {"MOV", "ADD", "SUB"} => x.t = T_NUM)
  BY <1>1, <1>3, NoNumber DEF LeftOf
<1>5. CASE ins.is64
  <2>1. v = Computed(op, x, y)
    BY <1>1, <1>5 DEF BinReal
  <2>2. op # "MOV" => ~Undefined(op, y.n)
    BY <1>1, <1>2, <1>5 DEF BinUndefined
  <2>3. QED
    BY <1>3, <1>4, <2>1, <2>2, ComputedType
<1>6. CASE ~ins.is64
  <2>1. PICK p, q : p = Low(x) /\ q = Low(y)
    OBVIOUS
  <2>2. IsReal(p) /\ p.t = T_NUM /\ IsReal(q)
    BY <1>3, <1>4, <2>1, LowType
  <2>3. op # "MOV" => ~Undefined(op, q.n)
    BY <1>1, <1>2, <1>6, <2>1 DEF BinUndefined
  <2>4. IsReal(Computed(op, p, q))
    BY <1>3, <2>2, <2>3, ComputedType
  <2>5. v = Low(Computed(op, p, q))
    BY <1>1, <1>6, <2>1 DEF BinReal
  <2>6. QED
    BY <2>4, <2>5, LowType
<1>7. QED
  BY <1>5, <1>6

LEMMA BinIsValue ==
  ASSUME NEW op \in BinOps \cup {"MOV"}, NEW a, op # "MOV" => IsValue(a) /\ IsTidy(a),
         NEW b, IsValue(b), IsTidy(b),
         op # "MOV" => \A n \in Elems(b[T_NUM]) : ~Undefined(op, n),
         NEW e, e = CASE op = "MOV" -> b
                      [] op = "ADD" -> AddVal(a, b)
                      [] op = "SUB" -> SubVal(a, b)
                      [] OTHER -> ExecVal(op, a, b)
  PROVE  IsValue(e) /\ IsTidy(e)
<1>1. CASE op = "MOV"
  BY <1>1
<1>2. CASE op = "ADD"
  <2>1. e = AddVal(a, b)
    BY <1>2
  <2>2. QED
    BY <1>2, <2>1, AddValue, TidyValues
<1>3. CASE op = "SUB"
  <2>1. e = SubVal(a, b)
    BY <1>3
  <2>2. QED
    BY <1>3, <2>1, SubValue, TidyValues
<1>4. CASE op \notin {"MOV", "ADD", "SUB"}
  <2>1. e = ExecVal(op, a, b) /\ op \in BinOps
    BY <1>4, Zenon
  <2>2. IsValue(e)
    BY <1>4, <2>1, ExecValue
  <2>3. IsTidy(e)
    BY <1>4, <2>1, TidyValues
  <2>4. QED
    BY <2>2, <2>3
<1>5. QED
  BY <1>1, <1>2, <1>3, <1>4

LEMMA BinKeeps ==
  ASSUME NEW ins, NEW f, NEW sure, StepOf(ins, f, sure), ins.kind = "Bin"
  PROVE  Tracked'
<1>1. PICK op, a, b, x, y, e, v :
        /\ op = ins.op /\ a = f[ins.dst] /\ b = Eval(f, ins.v)
        /\ x = LeftOf(ins) /\ y = RealOf(ins.v)
        /\ e = BinVal(f, ins) /\ v = BinReal(ins)
  OBVIOUS
<1>2. /\ Tracked /\ Runs(ins) /\ Rests(sure) /\ Good(f, sure) /\ sure \in BOOLEAN
      /\ op # "MOV" => ~BinUndefined(f, ins)
      /\ sure => exact /\ ~BinInexact(ins) /\ ~Unguarded(ins)
  BY <1>1 DEF StepOf, Rests, Inexact
<1>3. /\ op \in BinOps \cup {"MOV"} /\ IsReal(y) /\ ins.dst \in Writeable
      /\ IsOperand(ins.v) /\ (ins.v.reg => ins.v.n \in DOMAIN regs)
      /\ op # "MOV" => ins.dst \in DOMAIN regs /\ IsReal(real[ins.dst]) /\ x = real[ins.dst]
  BY <1>1, <1>2, BinOperands DEF LeftOf
<1>4. IsValue(b) /\ IsTidy(b) /\ (sure => Holds(b, y))
  <2>1. ins.v.n \in Int
    BY <1>3 DEF IsOperand
  <2>2. QED
    BY <1>1, <1>2, <1>3, <2>1, GoodEval
<1>5. op # "MOV" => /\ IsValue(a) /\ IsTidy(a) /\ IsReal(x)
                    /\ sure => Holds(a, x)
                    /\ \A n \in Elems(b[T_NUM]) : ~Undefined(op, n)
  BY <1>1, <1>2, <1>3 DEF Good, BinUndefined
<1>6. e = CASE op = "MOV" -> b
            [] op = "ADD" -> AddVal(a, b)
            [] op = "SUB" -> SubVal(a, b)
            [] OTHER -> ExecVal(op, a, b)
  BY <1>1 DEF BinVal
<1>7. IsValue(e) /\ IsTidy(e)
  BY <1>3, <1>4, <1>5, <1>6, BinIsValue
<1>8. IsReal(v)
  BY <1>1, BinIsReal
<1>9. ASSUME sure PROVE Holds(e, v)
  <2>1. v = Computed(op, x, y)
    BY <1>1, <1>2, <1>9 DEF BinInexact, BinReal
  <2>2. /\ op \in {"ADD", "SUB"} => ~CutsOffset(x, y) /\ ~CutsOffset(y, x)
        /\ ~ShiftsSignBit(op, x, y)
    BY <1>1, <1>2, <1>9 DEF BinInexact
  <2>3. /\ op \in {"ADD", "SUB"} => T_FD \notin {x.t, y.t}
        /\ op \notin {"MOV", "ADD", "SUB"} => y.t = T_NUM
    BY <1>1, <1>2, <1>3, <1>9 DEF Unguarded
  <2>4. op = "ADD" => T_FD \notin {x.t, y.t} /\ T_NUM \in {x.t, y.t}
    <3>1. op = "ADD" => x.t \notin PtrTypes \/ y.t = T_NUM
      BY <1>1, <1>2, <1>3, BinOperands
    <3>2. op = "ADD" => x.t \in AllTypes
      BY <1>5, RealParts
    <3>3. QED
      BY <2>3, <3>1, <3>2, TypeCases
  <2>5. op = "SUB" => /\ T_FD \notin {x.t, y.t}
                      /\ y.t = T_NUM \/ (y.t = x.t /\ x.t \notin Maps)
    BY <1>1, <1>2, <1>3, <2>3, BinOperands
  <2>6. op \notin {"MOV", "ADD", "SUB"} => x.t = T_NUM /\ y.t = T_NUM
    BY <1>1, <1>2, <1>3, <2>3, BinOperands
  <2>7. QED
    BY <1>3, <1>4, <1>5, <1>6, <1>8, <1>9, <2>1, <2>2, <2>4, <2>5, <2>6, BinHolds
<1>10. regs' = Assign(f, ins.dst, e) /\ real' = Assign(real, ins.dst, v)
  <2>1. Run(f, ins) = Assign(f, ins.dst, e)
    BY <1>1 DEF Run
  <2>2. RealAfter(ins) = {Assign(real, ins.dst, w) : w \in {v}}
    BY <1>1 DEF RealAfter
  <2>3. QED
    BY <2>1, <2>2 DEF StepOf
<1>11. QED
  BY <1>2, <1>3, <1>7, <1>8, <1>9, <1>10, AssignKeeps

LEMMA LoadMapFdKeeps ==
  ASSUME NEW ins, NEW f, NEW sure, StepOf(ins, f, sure), ins.kind = "LoadMapFd"
  PROVE  Tracked'
<1>1. PICK r, m, c, e, v : /\ r = ins.dst /\ m = ins.mapfd /\ c = {m}
                           /\ e = With(BotVal, T_FD, c) /\ v = Ptr(T_FD, m)
  OBVIOUS
<1>2. Tracked /\ Runs(ins) /\ Rests(sure) /\ Good(f, sure)
  BY DEF StepOf
<1>3. r \in Writeable /\ m \in Maps
  BY <1>1, <1>2 DEF Runs, IsInstruction
<1>4. c \in SUBSET Maps /\ T_FD \in AllTypes /\ T_FD # T_NUM /\ m \in Int
  BY <1>1, <1>3, TypeCases
<1>5. IsValue(e) /\ IsTidy(e) /\ e[T_FD] = c
  BY <1>1, <1>4, WithValue, WithParts
<1>6. IsReal(v) /\ v.t = T_FD /\ v.n = m
  BY <1>1, <1>4, MakesReal DEF Ptr
<1>7. Holds(e, v)
  BY <1>1, <1>5, <1>6 DEF Holds
<1>8. regs' = Assign(f, r, e) /\ real' = Assign(real, r, v)
  <2>1. Run(f, ins) = Assign(f, r, e)
    BY <1>1 DEF Run
  <2>2. RealAfter(ins) = {Assign(real, r, w) : w \in {v}}
    BY <1>1 DEF RealAfter
  <2>3. QED
    BY <2>1, <2>2 DEF StepOf
<1>9. QED
  BY <1>2, <1>3, <1>5, <1>6, <1>7, <1>8, AssignKeeps

LEMMA UnKeeps ==
  ASSUME NEW ins, NEW f, NEW sure, StepOf(ins, f, sure), ins.kind = "Un"
  PROVE  Tracked'
<1>1. Tracked /\ Runs(ins) /\ Rests(sure) /\ Good(f, sure) /\ ~sure
  BY DEF StepOf, Inexact
<1>2. PICK r, K : r = ins.dst /\ K = DOMAIN regs
  OBVIOUS
<1>3. /\ r \in Writeable /\ r \in K /\ DOMAIN f = K /\ DOMAIN real = K
      /\ {10, 13, 14} \subseteq K
  <2>1. r \in Writeable /\ r \in DOMAIN real
    BY <1>1, <1>2 DEF Runs, IsInstruction, Initialised
  <2>2. QED
    BY <1>1, <1>2, <2>1, RegisterParts DEF Good
<1>4. PICK w \in Samples : real' = Assign(real, r, Num(w))
  <2>1. RealAfter(ins) = {Assign(real, r, v) : v \in {Num(w) : w \in Samples}}
    BY <1>2 DEF RealAfter
  <2>2. QED
    BY <2>1 DEF StepOf
<1>5. PICK v, e : v = Num(w) /\ e = f[r]
  OBVIOUS
<1>6. IsReal(v) /\ IsValue(e) /\ IsTidy(e)
  <2>1. w \in Int
    BY MachineAssumption
  <2>2. QED
    BY <1>1, <1>2, <1>3, <1>5, <2>1, NumType DEF Good
<1>7. /\ regs' = [q \in K \cup {r} |-> IF q = r THEN e ELSE f[q]]
      /\ real' = [q \in K \cup {r} |-> IF q = r THEN v ELSE real[q]]
  <2>1. regs' = f /\ f = [q \in K |-> f[q]]
    BY <1>1, <1>2 DEF StepOf, Run, Good
  <2>2. QED
    BY <1>3, <1>4, <1>5, <2>1 DEF Assign
<1>8. QED
  BY <1>1, <1>2, <1>3, <1>6, <1>7, WriteKeeps

\* Instructions that write no register.
LEMMA RestKeeps ==
  ASSUME NEW ins, NEW f, NEW sure, StepOf(ins, f, sure),
         \/ ins.kind \in {"Exit", "LockAdd"}
         \/ ins.kind = "Mem" /\ ~ins.load
  PROVE  Tracked'
<1>1. Tracked /\ Rests(sure) /\ Good(f, sure)
  BY DEF StepOf
<1>2. Run(f, ins) = f
  BY DEF Run
<1>3. RealAfter(ins) = {real}
  BY DEF RealAfter
<1>4. regs' = f /\ real' = real
  BY <1>2, <1>3 DEF StepOf
<1>5. QED
  BY <1>1, <1>4, SameKeeps

\* A step after which one register has another value, and no real one moved.
LEMMA ChangeKeeps ==
  ASSUME Tracked, NEW sure, Rests(sure), NEW f, Good(f, sure),
         NEW r \in DOMAIN regs, r # 13,
         NEW e, IsValue(e), IsTidy(e), sure => Holds(e, real[r]),
         regs' = [f EXCEPT ![r] = e], real' = real
  PROVE  Tracked'
<1>1. DOMAIN f = DOMAIN regs /\ DOMAIN real = DOMAIN regs /\ {10, 13, 14} \subseteq DOMAIN regs
  BY RegisterParts DEF Good
<1>2. regs' = [q \in DOMAIN regs |-> IF q = r THEN e ELSE f[q]]
  BY <1>1
<1>3. /\ DOMAIN regs' = DOMAIN regs /\ regs' = [q \in DOMAIN regs' |-> regs'[q]]
      /\ regs'[r] = e /\ \A q \in DOMAIN regs \ {r} : regs'[q] = f[q]
  BY <1>2
<1>4. ASSUME NEW q \in DOMAIN regs
      PROVE  /\ IsValue(regs'[q]) /\ IsTidy(regs'[q]) /\ IsReal(real[q])
             /\ sure => Holds(regs'[q], real[q])
  <2>1. CASE q = r
    BY <1>3, <2>1, RegisterParts
  <2>2. CASE q # r
    BY <1>3, <2>2, RegisterParts DEF Good
  <2>3. QED
    BY <2>1, <2>2
<1>5. TypeOK'
  BY <1>1, <1>3, <1>4 DEF TypeOK, Rests
<1>6. RegistersCovered'
  BY <1>1, <1>3, <1>4 DEF RegistersCovered, Rests
<1>7. regs'[13] = NumTop
  BY <1>1, <1>3 DEF Good
<1>8. QED
  BY <1>1, <1>3, <1>5, <1>6, <1>7 DEF Tracked, Rests, DATA_END_REG

LEMMA AssumedTidy ==
  ASSUME NEW op \in CmpOps, NEW a, IsValue(a), IsTidy(a), NEW b, IsValue(b), IsTidy(b),
         NEW e, e = AssumeVal(op, a, b)
  PROVE  IsValue(e) /\ IsTidy(e)
<1>1. IsValue(e) /\ \A t \in NonFd : e[t] = AssumeNum(op, a[t], b[t])
  <2>1. IsValue(e) /\ Assumed(op, a, b, e)
    BY AssumeValTypes
  <2>2. QED
    BY <2>1 DEF Assumed
<1>2. ASSUME NEW t \in NonFd PROVE Tidy(e[t])
  <2>1. IsVector(a[t]) /\ IsVector(b[t])
    BY ValueParts, TypeCases, NumberIsVector DEF IsOffset
  <2>2. Tidy(a[t]) /\ Tidy(b[t])
    BY TidyParts
  <2>3. QED
    BY <1>1, <2>1, <2>2, TidyAssumed
<1>3. QED
  BY <1>1, <1>2, TidyParts

LEMMA ConditionKeeps ==
  ASSUME NEW ins, NEW f, NEW sure, StepOf(ins, f, sure), ins.kind = "Assume"
  PROVE  Tracked'
<1>1. PICK op, r, a, b, x, y, e :
        /\ op = ins.op /\ r = ins.left /\ a = f[r] /\ b = Eval(f, ins.right)
        /\ x = real[r] /\ y = RealOf(ins.right) /\ e = AssumeVal(op, a, b)
  OBVIOUS
<1>2. /\ Tracked /\ Runs(ins) /\ Rests(sure) /\ Good(f, sure) /\ sure \in BOOLEAN
      /\ sure => ~LosesCompared(op, a, b, x, y)
      /\ \A t \in NonFd \ {T_NUM} : ~AbortsOffset(op, a[t], b[t])
  BY <1>1 DEF StepOf, Rests, Inexact
<1>3. /\ IsOperand(ins.right) /\ IsReal(y) /\ IsReal(x) /\ op \in CmpOps
      /\ r \in DOMAIN regs
      /\ ins.right.reg => ins.right.n \in DOMAIN regs
  BY <1>1, <1>2, AssumeSuffices
<1>4. r # 13
  BY <1>1, <1>2 DEF Runs, IsInstruction, Readable
<1>5. IsValue(a) /\ IsTidy(a) /\ (sure => Holds(a, x))
  BY <1>1, <1>2, <1>3 DEF Good
<1>6. IsValue(b) /\ IsTidy(b) /\ (sure => Holds(b, y))
  <2>1. ins.right.n \in Int
    BY <1>3 DEF IsOperand
  <2>2. QED
    BY <1>1, <1>2, <1>3, <2>1, GoodEval
<1>7. IsValue(e) /\ IsTidy(e)
  BY <1>1, <1>3, <1>5, <1>6, AssumedTidy
<1>8. MayCompare(op, x, y) /\ real' = real
  <2>1. RealAfter(ins) = IF MayCompare(op, x, y) THEN {real} ELSE {}
    BY <1>1 DEF RealAfter
  <2>2. QED
    BY <2>1 DEF StepOf
<1>9. sure => Holds(e, x)
  <2>1. sure => ~SeveralOnRight(op, b) /\ ~OutOfOrder(a, b) /\ ~AcrossTypes(op, x, y, b)
    BY <1>2 DEF LosesCompared
  <2>2. sure => x.t \notin Maps
    BY <1>2 DEF LosesCompared
  <2>3. QED
    BY <1>1, <1>2, <1>3, <1>5, <1>6, <1>8, <2>1, <2>2, AssumeValCovers
<1>10. regs' = [f EXCEPT ![r] = e]
  BY <1>1 DEF StepOf, Run
<1>11. QED
  BY <1>1, <1>2, <1>3, <1>4, <1>7, <1>8, <1>9, <1>10, ChangeKeeps

LEMMA FoundKeeps ==
  ASSUME NEW ins, NEW f, NEW sure, StepOf(ins, f, sure),
         ins.kind = "Call", ins.returns_map
  PROVE  Tracked'
<1>1. PICK a, m, e : a = f[1] /\ m = real[1].n /\ e = MapLookup(a)
  OBVIOUS
<1>2. PICK v \in Found(m) : real' = Returned(v)
  <2>1. RealAfter(ins) = {Returned(v) : v \in Found(m)}
    BY <1>1 DEF RealAfter
  <2>2. QED
    BY <2>1 DEF StepOf
<1>3. /\ Tracked /\ Runs(ins) /\ Rests(sure) /\ Good(f, sure)
      /\ sure => ~SeveralNested(a)
  BY <1>1 DEF StepOf, Inexact
<1>4. 1 \in DOMAIN regs
  <2>1. 1 \in Reads(ins)
    BY DEF Reads
  <2>2. QED
    BY <1>3, <2>1 DEF Runs, Initialised
<1>5. IsValue(a) /\ (sure => Holds(a, real[1])) /\ IsReal(real[1])
  BY <1>1, <1>3, <1>4, RegisterParts DEF Good
<1>6. IsValue(e) /\ IsTidy(e)
  BY <1>1, <1>5, LookupValue, TidyValues
<1>7. IsReal(v)
  <2>1. CASE m \in DOMAIN Inner
    <3>1. m \in Maps
      BY <2>1, MapAssumption
    <3>2. QED
      BY <1>1, <1>2, <1>5, <3>1, FoundValue
  <2>2. CASE m \notin DOMAIN Inner
    BY <1>2, <2>2, NoNumber DEF Found
  <2>3. QED
    BY <2>1, <2>2
<1>8. ASSUME sure PROVE Holds(e, v)
  <2>1. real[1].t = T_FD
    <3>1. PICK i \in DOMAIN ins.singles : ins.singles[i] = [kind |-> "MAP_FD", reg |-> 1]
      BY <1>3 DEF Runs, IsInstruction, IsCall
    <3>2. PICK b : b = Typed(ins.singles[i].reg, ArgTypes(ins.singles[i].kind))
      OBVIOUS
    <3>3. ins.singles[i].reg = 1 /\ ins.singles[i].kind = "MAP_FD"
      BY <3>1
    <3>4. ArgTypes("MAP_FD") = {T_FD}
      BY Zenon DEF ArgTypes
    <3>5. b = Typed(1, {T_FD})
      BY <3>2, <3>3, <3>4
    <3>6. b \in Asked(ins)
      <4>1. ins.singles[i] \in Range(ins.singles)
        BY DEF Range
      <4>2. b \in AskedCall(ins)
        BY <3>2, <4>1 DEF AskedCall
      <4>3. QED
        BY <4>2 DEF Asked
    <3>7. Means(b)
      BY <1>3, <3>6, DemandedAsked DEF Runs
    <3>8. real[1].t \in {T_FD}
      BY <1>5, <3>5, <3>7, TypedMeans
    <3>9. QED
      BY <3>8
  <2>2. m \in a[T_FD]
    BY <1>1, <1>5, <1>8, <2>1 DEF Holds
  <2>3. m \in Maps
    BY <1>5, <2>2, ValueParts
  <2>4. QED
    BY <1>1, <1>2, <1>3, <1>5, <1>8, <2>2, <2>3, FoundValue
<1>9. regs' = Returning(f, e)
  BY <1>1 DEF StepOf, Run
<1>10. QED
  BY <1>2, <1>3, <1>6, <1>7, <1>8, <1>9, ReturnKeeps

LEMMA ReturnedKeeps ==
  ASSUME NEW ins, NEW f, NEW sure, StepOf(ins, f, sure),
         ins.kind = "Packet" \/ (ins.kind = "Call" /\ ~ins.returns_map)
  PROVE  Tracked'
<1>1. PICK w \in Samples : real' = Returned(Num(w))
  <2>1. RealAfter(ins) = {Returned(v) : v \in {Num(w) : w \in Samples}}
    BY DEF RealAfter
  <2>2. QED
    BY <2>1 DEF StepOf
<1>2. w \in Int
  BY MachineAssumption
<1>3. /\ IsReal(Num(w)) /\ Holds(NumTop, Num(w)) /\ IsValue(NumTop) /\ IsTidy(NumTop)
  BY <1>2, NumType, NumberValues
<1>4. Tracked /\ Rests(sure) /\ Good(f, sure)
  BY DEF StepOf
<1>5. regs' = Returning(f, NumTop)
  BY DEF StepOf, Run
<1>6. QED
  BY <1>1, <1>3, <1>4, <1>5, ReturnKeeps

\* Where a load that runs reads.
LEMMA LoadBase ==
  ASSUME Tracked, NEW ins, Runs(ins), ins.kind = "Mem", ins.load
  PROVE  /\ ins.base \in DOMAIN regs /\ IsReal(real[ins.base])
         /\ real[ins.base].t \in PtrTypes
         /\ ins.offset \in -Cap .. Cap /\ ins.offset \in Int
         /\ ins.width \in Int /\ 1 <= ins.width
         /\ 0 <= real[ins.base].n + ins.offset
         /\ ins.value.n \in Writeable
<1>1. PICK r, w, o : r = ins.base /\ w = Imm(ins.width) /\ o = ins.offset
  OBVIOUS
<1>2. /\ \A a \in AskedMem(ins) : Means(a)
      /\ IsAccess(r, o, ins.width) /\ ins.value.n \in Writeable
      /\ Reads(ins) \subseteq DOMAIN regs
  BY <1>1, DemandedAsked DEF Asked, Runs, IsInstruction, Initialised
<1>3. r \in DOMAIN regs /\ IsReal(real[r])
  <2>1. r \in Reads(ins)
    BY <1>1 DEF Reads
  <2>2. QED
    BY <1>2, <2>1, RegisterParts
<1>4. /\ o \in -Cap .. Cap /\ o \in Int /\ ins.width \in Int /\ 1 <= ins.width
      /\ w.reg = FALSE /\ w.n = ins.width
  <2>1. Cap \in Nat
    BY IntSizes
  <2>2. QED
    BY <1>1, <1>2, <2>1 DEF IsAccess, Imm
<1>5. PICK T : /\ T \subseteq PtrTypes /\ real[r].t \in T
               /\ \A a \in Accesses(T, r, o, w) : Means(a)
  <2>1. CASE r = 10
    <3>1. PICK T : T = {T_STACK}
      OBVIOUS
    <3>2. \A a \in Accesses(T, r, o, w) : Means(a)
      BY <1>1, <1>2, <2>1, <3>1 DEF AskedMem
    <3>3. real[r].t \in T /\ T \subseteq PtrTypes
      BY <2>1, <3>1, RegisterParts, TypeCases
    <3>4. QED
      BY <3>2, <3>3
  <2>2. CASE r # 10
    <3>1. PICK a : a = Typed(r, PtrTypes)
      OBVIOUS
    <3>2. \A b \in Accesses(PtrTypes, r, o, w) : Means(b)
      BY <1>1, <1>2, <2>2 DEF AskedMem
    <3>3. Means(a)
      BY <1>1, <1>2, <2>2, <3>1 DEF AskedMem
    <3>4. real[r].t \in PtrTypes
      BY <1>3, <3>1, <3>3, TypedMeans
    <3>5. QED
      BY <3>2, <3>4
  <2>3. QED
    BY <2>1, <2>2
<1>6. 0 <= real[r].n + o
  <2>1. PICK W \in Int : W = ins.width
    BY <1>4
  <2>2. W = IF w.reg THEN real[w.n].n ELSE w.n
    BY <1>4, <2>1
  <2>3. QED
    BY <1>3, <1>4, <1>5, <2>2, AccessMeans, RegisterParts
<1>7. QED
  BY <1>1, <1>2, <1>3, <1>4, <1>5, <1>6

\* The pointers to the packet, and the end of it at an unknown distance.
LEMMA PacketPointers ==
  ASSUME packet \in Packets,
         NEW a, a = With(BotVal, T_DATA, Of(<< 3 >>)), NEW b, b = AddVal(a, NumTop)
  PROVE  /\ IsValue(a) /\ IsValue(b)
         /\ Holds(a, Ptr(T_DATA, 3)) /\ Holds(b, Ptr(T_DATA, packet.end))
         /\ IsReal(Ptr(T_DATA, 3)) /\ IsReal(Ptr(T_DATA, packet.end))
         /\ IsReal(Ptr(T_DATA, packet.meta))
<1>1. PICK c, n : c = Of(<<3>>) /\ n = packet.end
  OBVIOUS
<1>2. IsOffset(c) /\ Tidy(c) /\ Contains(c, 3)
  BY <1>1, OneElement
<1>3. T_DATA \in AllTypes /\ T_DATA \in PtrTypes /\ T_DATA # T_FD /\ T_DATA # T_NUM
  BY TypeCases
<1>4. IsValue(a) /\ a[T_DATA] = c
  BY <1>1, <1>2, <1>3, WithValue, WithParts
<1>5. n \in 3 .. Cap /\ n \in Int /\ packet.meta \in Int /\ Cap \in Nat
  <2>1. n \in 3 .. Cap /\ packet.meta \in 0 .. 3
    BY <1>1, MachineAssumption
  <2>2. QED
    BY <2>1, IntSizes
<1>6. IsValue(b) /\ Contains(b[T_DATA], n)
  <2>1. PICK g \in Int : g = n - 3
    BY <1>5
  <2>2. AsInt(ToWord(g)) = g
    BY <1>5, <2>1, FitsInt
  <2>3. ToWord(g) \in Words /\ Contains(NumTop[T_NUM], ToWord(g))
    <3>1. Holds(NumTop, Num(g)) /\ IsReal(Num(g)) /\ Num(g).t = T_NUM /\ Num(g).n = ToWord(g)
      BY NumType, NumberValues
    <3>2. QED
      BY <3>1, HoldsNumber, WordFacts
  <2>4. IsValue(b) /\ Contains(b[T_DATA], 3 + AsInt(ToWord(g)))
    BY <1>2, <1>3, <1>4, <2>3, AddValue, NumberValues
  <2>5. 3 + AsInt(ToWord(g)) = n
    BY <1>5, <2>1, <2>2
  <2>6. QED
    BY <2>4, <2>5
<1>7. \A k \in Int : /\ IsReal(Ptr(T_DATA, k)) /\ Ptr(T_DATA, k).t = T_DATA
                     /\ Ptr(T_DATA, k).n = k
  BY <1>3, MakesReal DEF Ptr
<1>8. Holds(a, Ptr(T_DATA, 3)) /\ Holds(b, Ptr(T_DATA, packet.end))
  BY <1>1, <1>2, <1>3, <1>4, <1>5, <1>6, <1>7 DEF Holds
<1>9. QED
  BY <1>1, <1>4, <1>5, <1>6, <1>7, <1>8

\* What is read from the context at the offset n is what the code says.
LEMMA ContextLoads ==
  ASSUME packet \in Packets, NEW f, f[13] = NumTop, NEW O, NEW e, e = LoadCtx(f, O)
  PROVE  /\ IsValue(e)
         /\ \A n \in Nat : \A v :
              /\ Contains(O, n) /\ n # Descriptor.meta /\ IsReal(v)
              /\ v = IF n = Descriptor.data THEN Ptr(T_DATA, 3)
                     ELSE IF n = Descriptor.end THEN Ptr(T_DATA, packet.end)
                     ELSE Num(v.n)
              => Holds(e, v)
<1>1. PICK a, b, c, d : /\ a = With(BotVal, T_DATA, Of(<<3>>)) /\ b = AddVal(a, NumTop)
                        /\ c = With(BotVal, T_DATA, Of(<<0>>)) /\ d = AddVal(a, c)
  OBVIOUS
<1>2. /\ IsValue(a) /\ IsValue(b)
      /\ Holds(a, Ptr(T_DATA, 3)) /\ Holds(b, Ptr(T_DATA, packet.end))
  BY <1>1, PacketPointers
<1>3. IsValue(d)
  <2>1. IsValue(c)
    BY <1>1, OneElement, WithValue, TypeCases
  <2>2. QED
    BY <1>1, <1>2, <2>1, AddValue
<1>4. PICK Is : Is = [k \in {"data", "end", "meta"} |->
                        Descriptor[k] > -1 /\ Contains(O, Descriptor[k])]
  OBVIOUS
<1>5. /\ Is["data"] = (Descriptor.data > -1 /\ Contains(O, Descriptor.data))
      /\ Is["end"] = (Descriptor.end > -1 /\ Contains(O, Descriptor.end))
      /\ Is["meta"] = (Descriptor.meta > -1 /\ Contains(O, Descriptor.meta))
  BY <1>4
<1>6. e = IF IsBot(O) THEN BotVal ELSE IF ~IsSingle(O) THEN TopVal
          ELSE IF Is["data"] THEN a ELSE IF Is["end"] THEN b
          ELSE IF Is["meta"] THEN d ELSE NumTop
  BY <1>1, <1>5 DEF LoadCtx, DATA_END_REG
<1>7. IsValue(e)
  BY <1>2, <1>3, <1>6, BottomValue, TopValue, NumberValues
<1>8. ASSUME NEW n \in Nat, Contains(O, n), n # Descriptor.meta, NEW v, IsReal(v),
             v = IF n = Descriptor.data THEN Ptr(T_DATA, 3)
                 ELSE IF n = Descriptor.end THEN Ptr(T_DATA, packet.end)
                 ELSE Num(v.n)
      PROVE  Holds(e, v)
  <2>1. /\ Descriptor.data \in Nat \cup {-1} /\ Descriptor.end \in Nat \cup {-1}
        /\ Descriptor.meta \in Nat \cup {-1}
    BY DescriptorAssumption
  <2>2. ~IsBot(O)
    BY <1>8 DEF IsBot, Contains, Elems, Range
  <2>3. CASE ~IsSingle(O)
    <3>1. e = TopVal
      BY <1>6, <2>2, <2>3
    <3>2. v.t # T_FD
      <4>1. Ptr(T_DATA, 3).t = T_DATA /\ Ptr(T_DATA, packet.end).t = T_DATA /\ Num(v.n).t = T_NUM
        BY DEF Ptr, Num
      <4>2. QED
        BY <1>8, <4>1, TypeCases
    <3>3. QED
      BY <1>8, <3>1, <3>2, TopValue
  <2>4. CASE IsSingle(O)
    <3>1. \A k : Contains(O, k) <=> k = n
      BY <1>8, <2>4 DEF IsSingle, Contains, Elems, Range
    <3>2. CASE n = Descriptor.data
      <4>1. Is["data"]
        <5>1. Descriptor.data > -1 /\ Contains(O, Descriptor.data)
          BY <1>8, <3>2
        <5>2. QED
          BY <1>5, <5>1
      <4>2. e = a /\ v = Ptr(T_DATA, 3)
        BY <1>6, <1>8, <2>2, <2>4, <3>2, <4>1
      <4>3. QED
        BY <1>2, <4>2
    <3>3. CASE n # Descriptor.data /\ n = Descriptor.end
      <4>1. ~Is["data"] /\ Is["end"]
        <5>1. Descriptor.end > -1 /\ Contains(O, Descriptor.end)
          BY <1>8, <3>3
        <5>2. ~Contains(O, Descriptor.data)
          BY <3>1, <3>3
        <5>3. QED
          BY <1>5, <5>1, <5>2
      <4>2. e = b /\ v = Ptr(T_DATA, packet.end)
        BY <1>6, <1>8, <2>2, <2>4, <3>3, <4>1
      <4>3. QED
        BY <1>2, <4>2
    <3>4. CASE n # Descriptor.data /\ n # Descriptor.end
      <4>1. ~Is["data"] /\ ~Is["end"] /\ ~Is["meta"]
        BY <1>5, <1>8, <3>1, <3>4
      <4>2. e = NumTop /\ v = Num(v.n)
        BY <1>6, <1>8, <2>2, <2>4, <3>4, <4>1
      <4>3. v.n \in Int
        BY <1>8, RealParts
      <4>4. QED
        BY <4>2, <4>3, NumberValues
    <3>5. QED
      BY <3>2, <3>3, <3>4
  <2>5. QED
    BY <2>3, <2>4
<1>9. QED
  BY <1>7, <1>8

\* What a load may find, by the memory it reads.
LEMMA LoadedReal ==
  ASSUME Tracked, NEW ins, Runs(ins), ins.kind = "Mem", ins.load,
         NEW p, p = real[ins.base], NEW n, n = p.n + ins.offset, NEW v \in LoadReal(ins)
  PROVE  /\ IsReal(v)
         /\ p.t = T_STACK /\ exact => (v.t = T_FD => v.n \in Maps)
         /\ p.t = T_CTX /\ ~LoadInexact(ins) =>
              /\ n # Descriptor.meta
              /\ v = IF n = Descriptor.data THEN Ptr(T_DATA, 3)
                     ELSE IF n = Descriptor.end THEN Ptr(T_DATA, packet.end)
                     ELSE Num(v.n)
         /\ p.t \notin {T_STACK, T_CTX} => v.t = T_NUM
<1>1. p.t \in PtrTypes /\ ins.width \in Int /\ 1 <= ins.width /\ n \in Int /\ 0 <= n
  <2>1. /\ p.t \in PtrTypes /\ ins.width \in Int /\ 1 <= ins.width /\ IsReal(p)
        /\ ins.offset \in Int /\ 0 <= p.n + ins.offset
    BY LoadBase
  <2>2. QED
    BY <2>1, RealParts
<1>2. /\ IsReal(Ptr(T_DATA, 3)) /\ IsReal(Ptr(T_DATA, packet.end))
      /\ IsReal(Ptr(T_DATA, packet.meta))
  BY PacketPointers, RegisterParts
<1>3. T_STACK # T_CTX /\ T_CTX # T_DATA /\ T_STACK # T_DATA
  BY DEF T_STACK, T_CTX, T_DATA
<1>4. ASSUME v \in {Num(w) : w \in Samples}
      PROVE  IsReal(v) /\ v.t = T_NUM /\ v = Num(v.n)
  <2>1. PICK w \in Int : v = Num(w)
    BY <1>4, MachineAssumption
  <2>2. Num(ToWord(w)) = Num(w)
    BY <2>1, WordFacts DEF Num
  <2>3. QED
    BY <2>1, <2>2, NumType
<1>5. CASE p.t = T_STACK
  <2>1. v \in {Num(w) : w \in Samples} \cup {real[r] : r \in DOMAIN real}
    <3>1. LoadReal(ins) = {Num(w) : w \in Samples} \cup {real[r] : r \in DOMAIN real}
      BY <1>3, <1>5 DEF LoadReal
    <3>2. QED
      BY <3>1
  <2>2. CASE v \in {Num(w) : w \in Samples}
    BY <1>3, <1>4, <1>5, <2>2, TypeCases
  <2>3. CASE v \in {real[r] : r \in DOMAIN real}
    <3>1. PICK r \in DOMAIN real : v = real[r]
      BY <2>3
    <3>2. /\ IsReal(v) /\ IsValue(regs[r])
          /\ exact => Holds(regs[r], v)
      BY <3>1, RegisterParts
    <3>3. exact => (v.t = T_FD => v.n \in Maps)
      BY <3>2, RealParts, ValueParts
    <3>4. QED
      BY <1>3, <1>5, <3>2, <3>3
  <2>4. QED
    BY <2>1, <2>2, <2>3
<1>6. CASE p.t = T_CTX
  <2>1. CASE ins.width = 1
    <3>1. CASE n = Descriptor.data
      <4>1. Descriptor.data # Descriptor.end /\ Descriptor.data # Descriptor.meta
        <5>1. Descriptor.data # -1
          BY <1>1, <3>1
        <5>2. /\ Descriptor["data"] # -1 => Descriptor["data"] # Descriptor["end"]
              /\ Descriptor["data"] # -1 => Descriptor["data"] # Descriptor["meta"]
          BY DescriptorAssumption
        <5>3. QED
          BY <5>1, <5>2
      <4>2. LoadReal(ins) = {Ptr(T_DATA, 3)}
        BY <1>3, <1>6, <2>1, <3>1, <4>1 DEF LoadReal
      <4>3. QED
        BY <1>2, <1>3, <1>6, <3>1, <4>1, <4>2
    <3>2. CASE n # Descriptor.data /\ n = Descriptor.end
      <4>1. Descriptor.end # Descriptor.meta
        <5>1. Descriptor.end # -1
          BY <1>1, <3>2
        <5>2. Descriptor["end"] # -1 => Descriptor["end"] # Descriptor["meta"]
          BY DescriptorAssumption
        <5>3. QED
          BY <5>1, <5>2
      <4>2. LoadReal(ins) = {Ptr(T_DATA, packet.end)}
        BY <1>3, <1>6, <2>1, <3>2, <4>1 DEF LoadReal
      <4>3. QED
        BY <1>2, <1>3, <1>6, <3>2, <4>1, <4>2
    <3>3. CASE n # Descriptor.data /\ n # Descriptor.end /\ n = Descriptor.meta
      <4>1. LoadReal(ins) = {Ptr(T_DATA, packet.meta)}
        BY <1>3, <1>6, <2>1, <3>3 DEF LoadReal
      <4>2. LoadInexact(ins)
        BY <1>6, <3>3 DEF LoadInexact
      <4>3. QED
        BY <1>2, <1>3, <1>6, <4>1, <4>2
    <3>4. CASE n # Descriptor.data /\ n # Descriptor.end /\ n # Descriptor.meta
      <4>1. LoadReal(ins) = {Num(w) : w \in Samples}
        BY <1>3, <1>6, <2>1, <3>4 DEF LoadReal
      <4>2. QED
        BY <1>3, <1>4, <1>6, <3>4, <4>1
    <3>5. QED
      BY <3>1, <3>2, <3>3, <3>4
  <2>2. CASE ins.width # 1
    <3>1. LoadReal(ins) = {Num(w) : w \in Samples}
      BY <1>3, <1>6, <2>2 DEF LoadReal
    <3>2. LoadInexact(ins)
      BY <1>1, <1>6, <2>2 DEF LoadInexact
    <3>3. QED
      BY <1>3, <1>4, <1>6, <3>1, <3>2
  <2>3. QED
    BY <2>1, <2>2
<1>7. CASE p.t \notin {T_STACK, T_CTX}
  <2>1. LoadReal(ins) = {Num(w) : w \in Samples}
    BY <1>7 DEF LoadReal
  <2>2. QED
    BY <1>4, <1>7, <2>1
<1>8. QED
  BY <1>5, <1>6, <1>7

LEMMA LoadIsValue ==
  ASSUME packet \in Packets, NEW f, f[13] = NumTop, NEW addr, NEW e, e = Load(f, addr),
         NEW s, s = LoadStack(addr[T_STACK]), NEW c, c = LoadCtx(f, addr[T_CTX]),
         NEW o, o = LoadOther(addr)
  PROVE  /\ IsValue(e) /\ IsTidy(e)
         /\ \A v : IsReal(v) /\ (Holds(s, v) \/ Holds(c, v) \/ Holds(o, v)) => Holds(e, v)
<1>1. IsValue(s) /\ IsValue(o)
  BY BottomValue, TopValue, NumberValues DEF LoadStack, LoadOther
<1>2. IsValue(c)
  BY ContextLoads
<1>3. PICK j : j = JoinVal(s, c)
  OBVIOUS
<1>4. e = JoinVal(j, o)
  BY <1>3 DEF Load
<1>5. IsValue(j) /\ \A v : IsReal(v) /\ (Holds(s, v) \/ Holds(c, v)) => Holds(j, v)
  BY <1>1, <1>2, <1>3, JoinValue
<1>6. IsValue(e) /\ \A v : IsReal(v) /\ (Holds(j, v) \/ Holds(o, v)) => Holds(e, v)
  BY <1>1, <1>4, <1>5, JoinValue
<1>7. IsTidy(e)
  BY <1>4, TidyValues
<1>8. QED
  BY <1>5, <1>6, <1>7

LEMMA LoadHolds ==
  ASSUME Tracked, NEW f, Good(f, TRUE), NEW ins, Runs(ins), ins.kind = "Mem", ins.load,
         exact, ~LoadInexact(ins), NEW v \in LoadReal(ins),
         NEW e, e = Load(f, AddVal(f[ins.base], Eval(f, Imm(ins.offset))))
  PROVE  Holds(e, v)
<1>1. PICK p, k, a, b, addr : /\ p = real[ins.base] /\ k = ins.offset
                              /\ a = f[ins.base] /\ b = Eval(f, Imm(k)) /\ addr = AddVal(a, b)
  OBVIOUS
<1>2. PICK n : n = p.n + k
  OBVIOUS
<1>3. PICK t : t = p.t
  OBVIOUS
<1>4. /\ t \in PtrTypes /\ t # T_FD /\ t # T_NUM /\ k \in Int /\ k \in -Cap .. Cap
      /\ IsReal(p) /\ IsValue(a) /\ Holds(a, p) /\ 0 <= n
  BY <1>1, <1>2, <1>3, LoadBase, TypeCases DEF Good
<1>5. p.n \in Int /\ n \in Nat /\ Contains(a[t], p.n)
  <2>1. p.n \in Int /\ Contains(a[t], p.n)
    BY <1>3, <1>4, RealParts
  <2>2. QED
    BY <1>2, <1>4, <2>1
<1>6. b = OnlyNum(ToWord(k)) /\ ToWord(k) \in Words
  BY <1>1, <1>4, WordFacts DEF Eval, Imm
<1>7. IsValue(b) /\ Contains(b[T_NUM], ToWord(k))
  BY <1>6, NumberValues
<1>8. IsValue(addr) /\ Contains(addr[t], n)
  <2>1. IsValue(addr) /\ Contains(addr[t], p.n + AsInt(ToWord(k)))
    BY <1>1, <1>4, <1>5, <1>6, <1>7, AddValue
  <2>2. AsInt(ToWord(k)) = k
    <3>1. Cap \in Nat
      BY IntSizes
    <3>2. -(2 * Cap) <= k /\ k < 2 * Cap
      BY <1>4, <3>1, IntSizes
    <3>3. QED
      BY <1>4, <3>2, FitsInt
  <2>3. QED
    BY <1>2, <2>1, <2>2
<1>9. ~BotAt(addr, t) /\ ~IsBot(addr[t])
  BY <1>4, <1>8 DEF BotAt, IsBot, Contains, Elems, Range
<1>10. PICK s, c, o : /\ s = LoadStack(addr[T_STACK]) /\ c = LoadCtx(f, addr[T_CTX])
                      /\ o = LoadOther(addr)
  OBVIOUS
<1>11. /\ IsReal(v)
       /\ t = T_STACK => (v.t = T_FD => v.n \in Maps)
       /\ t = T_CTX =>
            /\ n # Descriptor.meta
            /\ v = IF n = Descriptor.data THEN Ptr(T_DATA, 3)
                   ELSE IF n = Descriptor.end THEN Ptr(T_DATA, packet.end)
                   ELSE Num(v.n)
       /\ t \notin {T_STACK, T_CTX} => v.t = T_NUM
  BY <1>1, <1>2, <1>3, LoadedReal
<1>12. Holds(s, v) \/ Holds(c, v) \/ Holds(o, v)
  <2>1. CASE t = T_STACK
    <3>1. s = TopVal
      BY <1>9, <1>10, <2>1 DEF LoadStack
    <3>2. QED
      BY <1>11, <2>1, <3>1, TopValue
  <2>2. CASE t = T_CTX
    <3>1. PICK O : O = addr[T_CTX]
      OBVIOUS
    <3>2. Holds(c, v)
      <4>1. Contains(O, n) /\ c = LoadCtx(f, O) /\ f[13] = NumTop /\ packet \in Packets
        BY <1>8, <1>10, <2>2, <3>1, RegisterParts DEF Good
      <4>2. QED
        BY <1>5, <1>11, <2>2, <4>1, ContextLoads
    <3>3. QED
      BY <3>2
  <2>3. CASE t \notin {T_STACK, T_CTX}
    <3>1. t \in Maps \cup {T_DATA}
      BY <1>4, <2>3, TypeCases
    <3>2. o = NumTop
      BY <1>9, <1>10, <3>1 DEF LoadOther
    <3>3. v.t = T_NUM /\ v.n \in Int /\ v = Num(v.n)
      <4>1. v.t = T_NUM
        BY <1>11, <2>3
      <4>2. /\ v = [t |-> v.t, n |-> v.n]
            /\ v.n \in Int
        BY <1>11, RealParts
      <4>3. v.n \in Words
        BY <1>11, <4>1 DEF IsReal
      <4>4. QED
        BY <4>1, <4>2, <4>3, WordFacts DEF Num
    <3>4. QED
      BY <3>2, <3>3, NumberValues
  <2>4. QED
    BY <2>1, <2>2, <2>3
<1>13. e = Load(f, addr) /\ packet \in Packets /\ f[13] = NumTop
  BY <1>1, RegisterParts DEF Good
<1>14. QED
  BY <1>10, <1>11, <1>12, <1>13, LoadIsValue

LEMMA LoadKeeps ==
  ASSUME NEW ins, NEW f, NEW sure, StepOf(ins, f, sure), ins.kind = "Mem", ins.load
  PROVE  Tracked'
<1>1. PICK r, e : /\ r = ins.value.n
                  /\ e = Load(f, AddVal(f[ins.base], Eval(f, Imm(ins.offset))))
  OBVIOUS
<1>2. /\ Tracked /\ Runs(ins) /\ Rests(sure) /\ Good(f, sure) /\ sure \in BOOLEAN
      /\ sure => exact /\ ~LoadInexact(ins)
  BY DEF StepOf, Inexact, Rests
<1>3. PICK v \in LoadReal(ins) : real' = Assign(real, r, v)
  <2>1. RealAfter(ins) = {Assign(real, r, v) : v \in LoadReal(ins)}
    BY <1>1 DEF RealAfter
  <2>2. QED
    BY <2>1 DEF StepOf
<1>4. IsReal(v) /\ r \in Writeable
  BY <1>1, <1>2, LoadedReal, LoadBase
<1>5. IsValue(e) /\ IsTidy(e)
  <2>1. packet \in Packets /\ f[13] = NumTop
    BY <1>2, RegisterParts DEF Good
  <2>2. QED
    BY <1>1, <2>1, LoadIsValue
<1>6. ASSUME sure PROVE Holds(e, v)
  <2>1. Good(f, TRUE)
    BY <1>2, <1>6 DEF Good
  <2>2. QED
    BY <1>1, <1>2, <1>6, <2>1, LoadHolds
<1>7. regs' = Assign(f, r, e)
  BY <1>1 DEF StepOf, Run
<1>8. QED
  BY <1>2, <1>3, <1>4, <1>5, <1>6, <1>7, AssignKeeps

LEMMA ExecuteKeeps ==
  ASSUME Tracked, NEW ins \in Instructions, Execute(ins), steps < MaxSteps
  PROVE  Tracked'
<1>1. PICK f : f = AssertedAll(regs, Extract(ins))
  OBVIOUS
<1>2. PICK sure \in BOOLEAN : sure = (exact /\ ~Inexact(f, ins))
  OBVIOUS
<1>3. Runs(ins)
  BY MachineAssumption DEF Runs, Execute
<1>4. Rests(sure)
  <2>1. exact' = sure /\ packet' = packet /\ steps' = steps + 1
    BY <1>1, <1>2 DEF Execute, Count
  <2>2. steps \in 0 .. MaxSteps /\ MaxSteps \in Nat
    BY StepsAssumption DEF Tracked, TypeOK
  <2>3. steps' \in 0 .. MaxSteps
    BY <2>1, <2>2
  <2>4. QED
    BY <2>1, <2>3 DEF Rests
<1>5. Good(f, sure)
  <2>1. sure /\ ins.kind = "Call" => ~NullInexact(ins)
    BY <1>2 DEF Inexact
  <2>2. QED
    BY <1>1, <1>2, <1>3, <2>1, AfterAssertions
<1>6. StepOf(ins, f, sure)
  BY <1>1, <1>2, <1>3, <1>4, <1>5 DEF StepOf, Execute
<1>7. ins.kind \in {"LoadMapFd", "Bin", "Un", "Assume", "Mem", "LockAdd", "Call", "Packet", "Exit"}
  BY <1>3 DEF Runs, IsInstruction
<1>8. QED
  BY <1>6, <1>7, LoadMapFdKeeps, BinKeeps, UnKeeps, ConditionKeeps, LoadKeeps, RestKeeps,
     FoundKeeps, ReturnedKeeps

LEMMA NextTracked ==
  Tracked /\ [MachineNext]_machineVars => Tracked'
<1>1. ASSUME Tracked, MachineNext PROVE Tracked'
  BY <1>1, ExecuteKeeps DEF MachineNext
<1>2. ASSUME Tracked, UNCHANGED machineVars PROVE Tracked'
  BY <1>2 DEF machineVars, Tracked, TypeOK, RegistersCovered
<1>3. QED
  BY <1>1, <1>2

\* Where a program begins.
LEMMA EntryHolds ==
  ASSUME packet \in Packets, NEW r \in {1, 10, 13, 14}
  PROVE  IsValue(Entry[r]) /\ IsTidy(Entry[r]) /\ IsReal(RealEntry[r])
         /\ Holds(Entry[r], RealEntry[r])
<1>1. packet.meta \in Int /\ packet.end \in Int
  <2>1. packet.meta \in 0 .. 3 /\ packet.end \in 3 .. Cap
    BY MachineAssumption
  <2>2. QED
    BY <2>1, IntSizes
<1>2. \A t \in PtrTypes : \A n \in Int : \A e, v :
        e = With(BotVal, t, Of(<<n>>)) /\ v = Ptr(t, n)
          => IsValue(e) /\ IsTidy(e) /\ IsReal(v) /\ Holds(e, v)
  <2>1. SUFFICES ASSUME NEW t \in PtrTypes, NEW n \in Int, NEW e, NEW v,
                        e = With(BotVal, t, Of(<<n>>)), v = Ptr(t, n)
                 PROVE  IsValue(e) /\ IsTidy(e) /\ IsReal(v) /\ Holds(e, v)
    OBVIOUS
  <2>2. PICK c : c = Of(<<n>>)
    OBVIOUS
  <2>3. IsOffset(c) /\ Tidy(c) /\ Contains(c, n) /\ t \in AllTypes /\ t # T_NUM /\ t # T_FD
    BY <2>2, OneElement, TypeCases
  <2>4. IsValue(e) /\ IsTidy(e) /\ e[t] = c
    BY <2>1, <2>2, <2>3, WithValue, WithParts
  <2>5. IsReal(v) /\ v.t = t /\ v.n = n
    BY <2>1, <2>3, MakesReal DEF Ptr
  <2>6. Holds(e, v)
    BY <2>3, <2>4, <2>5 DEF Holds
  <2>7. QED
    BY <2>4, <2>5, <2>6
<1>3. CASE r = 1
  <2>1. /\ Entry[r] = With(BotVal, T_CTX, Of(<<0>>)) /\ RealEntry[r] = Ptr(T_CTX, 0)
        /\ T_CTX \in PtrTypes
    BY <1>3, TypeCases DEF Entry, RealEntry
  <2>2. QED
    BY <1>2, <2>1
<1>4. CASE r = 10
  <2>1. /\ Entry[r] = With(BotVal, T_STACK, Of(<<StackSize>>))
        /\ RealEntry[r] = Ptr(T_STACK, StackSize)
        /\ T_STACK \in PtrTypes /\ StackSize \in Int
    BY <1>4, TypeCases, DescriptorAssumption DEF Entry, RealEntry
  <2>2. QED
    BY <1>2, <2>1
<1>5. CASE r \in {13, 14}
  <2>1. Entry[r] = NumTop
    BY <1>5 DEF Entry
  <2>2. PICK n \in Int : RealEntry[r] = Num(n)
    <3>1. /\ packet.end - 3 \in Int /\ 3 - packet.meta \in Int
          /\ RealEntry[r] = Num(packet.end - 3) \/ RealEntry[r] = Num(3 - packet.meta)
      BY <1>1, <1>5 DEF RealEntry
    <3>2. QED
      BY <3>1
  <2>3. QED
    BY <2>1, <2>2, NumType, NumberValues
<1>6. QED
  BY <1>3, <1>4, <1>5

LEMMA InitTracked ==
  MachineInit => Tracked
<1>1. SUFFICES ASSUME MachineInit PROVE Tracked
  OBVIOUS
<1>2. PICK p \in Points : regs = Over(p.regs, Entry) /\ real = Over(p.real, RealEntry)
  BY <1>1 DEF MachineInit
<1>3. packet \in Packets /\ exact = TRUE /\ steps = 0
  BY <1>1 DEF MachineInit
<1>4. PICK K, E : K = DOMAIN p.regs /\ E = {1, 10, 13, 14}
  OBVIOUS
<1>5. /\ K \subseteq Writeable /\ DOMAIN p.real = K
      /\ \A r \in K : /\ IsValue(p.regs[r]) /\ IsTidy(p.regs[r])
                      /\ IsReal(p.real[r]) /\ Holds(p.regs[r], p.real[r])
  BY <1>4, MachineAssumption
<1>6. DOMAIN Entry = E /\ DOMAIN RealEntry = E
  BY <1>4 DEF Entry, RealEntry
<1>7. /\ regs = [r \in K \cup E |-> IF r \in K THEN p.regs[r] ELSE Entry[r]]
      /\ real = [r \in K \cup E |-> IF r \in K THEN p.real[r] ELSE RealEntry[r]]
  BY <1>2, <1>4, <1>5, <1>6 DEF Over
<1>8. /\ DOMAIN regs = K \cup E /\ DOMAIN real = K \cup E
      /\ regs = [r \in DOMAIN regs |-> regs[r]]
  BY <1>7
<1>9. ASSUME NEW r \in K \cup E
      PROVE  IsValue(regs[r]) /\ IsTidy(regs[r]) /\ IsReal(real[r]) /\ Holds(regs[r], real[r])
  <2>1. CASE r \in K
    <3>1. regs[r] = p.regs[r] /\ real[r] = p.real[r]
      BY <1>7, <2>1
    <3>2. QED
      BY <1>5, <2>1, <3>1
  <2>2. CASE r \notin K
    <3>1. regs[r] = Entry[r] /\ real[r] = RealEntry[r] /\ r \in E
      BY <1>7, <1>9, <2>2
    <3>2. QED
      BY <1>3, <1>4, <3>1, EntryHolds
  <2>3. QED
    BY <2>1, <2>2
<1>10. real[10] = Ptr(T_STACK, StackSize) /\ regs[13] = NumTop
  <2>1. 10 \in E \ K /\ 13 \in E \ K
    BY <1>4, <1>5 DEF Writeable
  <2>2. real[10] = RealEntry[10] /\ regs[13] = Entry[13]
    BY <1>7, <2>1
  <2>3. QED
    BY <2>2 DEF Entry, RealEntry
<1>11. TypeOK
  <2>1. steps \in 0 .. MaxSteps
    BY <1>3, StepsAssumption
  <2>2. QED
    BY <1>3, <1>4, <1>8, <1>9, <2>1 DEF TypeOK
<1>12. RegistersCovered
  BY <1>8, <1>9 DEF RegistersCovered
<1>13. DOMAIN regs \subseteq Readable \cup {13, 14}
  BY <1>4, <1>5, <1>8 DEF Readable, Writeable
<1>14. QED
  BY <1>3, <1>8, <1>10, <1>11, <1>12, <1>13 DEF Tracked, DATA_END_REG

LEMMA AlwaysTracked == MachineSpec => []Tracked
<1>1. MachineInit => Tracked
  BY InitTracked
<1>2. Tracked /\ [MachineNext]_machineVars => Tracked'
  BY NextTracked
<1>3. QED
  BY <1>1, <1>2, PTL DEF MachineSpec

-----------------------------------------------------------------------------
(* An assertion that is found satisfied holds.                               *)

\* What is left of the end is computed exactly, where widths are numbers.
Fitting(a) ==
    a.kind = "linear" =>
        /\ a.width.reg => T_NUM \notin a.types
        /\ (~a.width.reg /\ real[a.reg].t \in a.types) => GapFor(a) = Gap(a)

Clear(a) == Shaped(a) /\ Fitting(a)

LEMMA TypedClear ==
  ASSUME NEW r \in Readable, NEW T, NEW g, NEW W
  PROVE  Clear(TypedWhen(r, T, g, W)) /\ Clear(Typed(r, T))
<1>1. r # 13
  BY DEF Readable
<1>2. Typed(r, T).kind = "type" /\ TypedWhen(r, T, g, W).kind = "type"
  BY DEF Typed, TypedWhen
<1>3. QED
  BY <1>1, <1>2, TypedShaped DEF Clear, Fitting

LEMMA LinearFits ==
  ASSUME NEW op, NEW r, NEW offset, NEW width, ~width.reg, NEW v, NEW T, NEW E, NEW g \in Int,
         E = IF v.reg THEN packet.end ELSE v.n,
         g = E - width.n - offset,
         real[r].t \in T => /\ real[r].t = T_NUM => ToWord(g) = g
                            /\ real[r].t # T_NUM => -(2 * Cap) <= g /\ g < 2 * Cap
  PROVE  Fitting(Linear(op, r, offset, width, v, T))
<1>1. PICK a : a = Linear(op, r, offset, width, v, T)
  OBVIOUS
<1>2. /\ a.kind = "linear" /\ a.op = op /\ a.reg = r /\ a.offset = offset
      /\ a.width = width /\ a.v = v /\ a.types = T
  BY <1>1 DEF Linear
<1>3. Gap(a) = g
  BY <1>2 DEF Gap
<1>4. ASSUME real[r].t \in T PROVE GapFor(a) = g
  <2>1. GapFor(a) = IF real[r].t = T_NUM THEN ToWord(g) ELSE AsInt(ToWord(g))
    BY <1>2, <1>3 DEF GapFor
  <2>2. QED
    BY <1>4, <2>1, FitsInt
<1>5. Fitting(a)
  BY <1>2, <1>3, <1>4 DEF Fitting
<1>6. QED
  BY <1>1, <1>5

LEMMA AccessClear ==
  ASSUME packet \in Packets, NEW T, T \subseteq PtrTypes, NEW r \in Readable,
         NEW offset \in -Cap .. Cap, NEW width, width.n \in Int,
         ~width.reg => width.n \in 1 .. Cap,
         NEW a \in Accesses(T, r, offset, width)
  PROVE  Clear(a)
<1>1. r # 13 /\ offset \in Int /\ Cap \in Nat \ {0} /\ T_NUM \notin T
  <2>1. r # 13
    BY DEF Readable
  <2>2. Cap \in Nat \ {0} /\ T_NUM \notin T
    BY IntSizes, TypeCases
  <2>3. QED
    BY <2>1, <2>2
<1>2. Shaped(a)
  BY <1>1, AccessShaped
<1>3. CASE a = Linear("GE", r, offset, Imm(0), Imm(0), T)
  <2>1. PICK o, z : o = Imm(0) /\ z = 0
    OBVIOUS
  <2>2. o.reg = FALSE /\ o.n = 0
    BY <2>1 DEF Imm
  <2>3. PICK g \in Int : g = z - o.n - offset
    BY <1>1, <2>1, <2>2
  <2>4. -(2 * Cap) <= g /\ g < 2 * Cap
    BY <1>1, <2>1, <2>2, <2>3
  <2>5. z = IF o.reg THEN packet.end ELSE o.n
    BY <2>1, <2>2
  <2>6. Fitting(Linear("GE", r, offset, o, o, T))
    BY <1>1, <2>2, <2>3, <2>4, <2>5, LinearFits
  <2>7. QED
    BY <1>2, <1>3, <2>1, <2>6 DEF Clear
<1>4. ASSUME NEW t \in T, a = Linear("LE", r, offset, width, EndOf(t), {t}) PROVE Clear(a)
  <2>1. PICK e, U, E : e = EndOf(t) /\ U = {t} /\ E = Last(t)
    OBVIOUS
  <2>2. /\ a.kind = "linear" /\ a.width = width /\ a.types = U
    BY <1>4, <2>1 DEF Linear
  <2>3. E = (IF e.reg THEN packet.end ELSE e.n) /\ E \in 0 .. Cap
    BY <2>1, EndOfMemory
  <2>4. T_NUM \notin U
    BY <1>1, <2>1
  <2>5. CASE width.reg
    BY <1>2, <2>2, <2>4, <2>5 DEF Clear, Fitting
  <2>6. CASE ~width.reg
    <3>1. PICK g \in Int : g = E - width.n - offset
      BY <1>1, <2>3
    <3>2. -(2 * Cap) <= g /\ g < 2 * Cap
      <4>1. PICK w \in 1 .. Cap : w = width.n
        BY <2>6
      <4>2. QED
        BY <1>1, <2>3, <3>1, <4>1
    <3>3. Fitting(Linear("LE", r, offset, width, e, U))
      BY <2>3, <2>4, <2>6, <3>1, <3>2, LinearFits
    <3>4. QED
      BY <1>2, <1>4, <2>1, <3>3 DEF Clear
  <2>7. QED
    BY <2>5, <2>6
<1>5. QED
  BY <1>3, <1>4 DEF Accesses

LEMMA ZeroClear ==
  ASSUME NEW op \in Bounds, NEW r \in Readable,
         NEW a, a = Linear(op, r, 0, Imm(0), Imm(0), {T_NUM})
  PROVE  Clear(a)
<1>1. PICK o, T : o = Imm(0) /\ T = {T_NUM}
  OBVIOUS
<1>2. o.reg = FALSE /\ o.n = 0 /\ o.n \in Int
  BY <1>1 DEF Imm
<1>3. T \subseteq AllTypes /\ T_FD \notin T /\ r # 13
  BY <1>1, TypeCases DEF Readable
<1>4. PICK z \in Int : z = 0
  OBVIOUS
<1>5. a = Linear(op, r, z, o, o, T)
  BY <1>1, <1>4
<1>6. Shaped(a)
  BY <1>2, <1>3, <1>4, <1>5, LinearShaped
<1>7. ToWord(z) = z
  BY <1>4, WordSizes, WordFacts
<1>8. z = (IF o.reg THEN packet.end ELSE o.n) /\ z = z - o.n - z
  BY <1>2, <1>4
<1>9. real[r].t \in T => real[r].t = T_NUM
  BY <1>1
<1>10. Fitting(a)
  BY <1>2, <1>5, <1>7, <1>8, <1>9, LinearFits
<1>11. QED
  BY <1>6, <1>10 DEF Clear

LEMMA CallClear ==
  ASSUME packet \in Packets, NEW ins, IsInstruction(ins), ins.kind = "Call",
         NEW a \in AskedCall(ins)
  PROVE  Clear(a)
<1>1. /\ ins.singles \in Seq([kind : {"ANYTHING", "MAP_FD", "PTR_TO_MAP_KEY",
                                      "PTR_TO_MAP_VALUE", "PTR_TO_CTX"}, reg : Readable])
      /\ ins.pairs \in Seq([kind : {"PTR_TO_MEM", "PTR_TO_MEM_OR_NULL", "PTR_TO_UNINIT_MEM"},
                            mem : Readable, size : Readable, can_be_zero : BOOLEAN])
  BY DEF IsInstruction, IsCall
<1>2. ASSUME NEW one \in Range(ins.singles), a = Typed(one.reg, ArgTypes(one.kind))
      PROVE  Clear(a)
  <2>1. PICK i \in DOMAIN ins.singles : one = ins.singles[i]
    BY <1>2 DEF Range
  <2>2. one \in [kind : {"ANYTHING", "MAP_FD", "PTR_TO_MAP_KEY",
                         "PTR_TO_MAP_VALUE", "PTR_TO_CTX"}, reg : Readable]
    BY <1>1, <2>1, MemberOfList
  <2>3. one.reg \in Readable
    BY <2>2
  <2>4. QED
    BY <1>2, <2>3, TypedClear
<1>3. ASSUME ins.pairs # << >>, NEW arg, arg = ins.pairs[1], a \in AskedPair(arg)
      PROVE  Clear(a)
  <2>1. arg \in [kind : {"PTR_TO_MEM", "PTR_TO_MEM_OR_NULL", "PTR_TO_UNINIT_MEM"},
                 mem : Readable, size : Readable, can_be_zero : BOOLEAN]
    BY <1>1, <1>3, HeadOfList
  <2>2. arg.mem \in Readable /\ arg.size \in Readable
    BY <2>1
  <2>3. CASE \E q \in {arg.mem, arg.size} : \E T : a = Typed(q, T)
    BY <2>2, <2>3, TypedClear
  <2>4. CASE a \in Accesses(MemTypes, arg.mem, 0, Reg(arg.size))
    <3>1. PICK w : w = Reg(arg.size)
      OBVIOUS
    <3>2. w.reg = TRUE /\ w.n \in Int
      BY <2>2, <3>1 DEF Reg, Readable
    <3>3. MemTypes \subseteq PtrTypes /\ 0 \in -Cap .. Cap
      BY IntSizes DEF PtrTypes
    <3>4. QED
      BY <2>2, <2>4, <3>1, <3>2, <3>3, AccessClear
  <2>5. CASE \E op \in Bounds : \E q \in {arg.mem, arg.size} :
                a = Linear(op, q, 0, Imm(0), Imm(0), {T_NUM})
    BY <2>2, <2>5, ZeroClear
  <2>6. {"GE", "GT", "EQ"} \subseteq Bounds
    BY DEF Bounds
  <2>7. QED
    BY <1>3, <2>3, <2>4, <2>5, <2>6 DEF AskedPair
<1>4. QED
  BY <1>2, <1>3 DEF AskedCall

\* Every assertion of an instruction, on the types or on the bounds.
LEMMA AskedClear ==
  ASSUME packet \in Packets, NEW ins, IsInstruction(ins), NEW a \in Asked(ins)
  PROVE  Clear(a)
<1>1. ASSUME NEW r, NEW T, T \subseteq PtrTypes, IsAccess(r, ins.offset, ins.width),
             a \in Accesses(T, r, ins.offset, Imm(ins.width))
      PROVE  Clear(a)
  <2>1. PICK w : w = Imm(ins.width)
    OBVIOUS
  <2>2. w.reg = FALSE /\ w.n \in 1 .. Cap /\ w.n \in Int
    BY <1>1, <2>1, IntSizes DEF IsAccess, Imm
  <2>3. r \in Readable /\ ins.offset \in -Cap .. Cap
    BY <1>1 DEF IsAccess
  <2>4. QED
    BY <1>1, <2>1, <2>2, <2>3, AccessClear
<1>2. Writeable \subseteq Readable
  BY DEF Readable, Writeable
<1>3. ASSUME NEW T, NEW r1 \in Readable, NEW r2, a \in SameTypes(T, r1, r2) PROVE Clear(a)
  BY <1>3, TypedClear DEF SameTypes
<1>4. CASE ins.kind = "Exit"
  <2>1. 0 \in Readable /\ a = Typed(0, {T_NUM})
    BY <1>4 DEF Readable, Asked
  <2>2. QED
    BY <2>1, TypedClear
<1>5. CASE ins.kind = "Call"
  BY <1>5, CallClear DEF Asked
<1>6. CASE ins.kind = "Assume"
  <2>1. ins.left \in Readable /\ a \in AskedAssume(ins)
    BY <1>6 DEF Asked, IsInstruction
  <2>2. \/ \E T : a = Typed(ins.left, T)
        \/ a \in SameTypes(AllTypes, ins.left, ins.right.n)
    BY <2>1 DEF AskedAssume
  <2>3. QED
    BY <1>3, <2>1, <2>2, TypedClear
<1>7. CASE ins.kind = "Mem"
  <2>1. /\ IsAccess(ins.base, ins.offset, ins.width) /\ IsOperand(ins.value)
        /\ a \in AskedMem(ins)
    BY <1>7 DEF Asked, IsInstruction
  <2>2. ins.base \in Readable /\ (ins.value.reg => ins.value.n \in Readable)
    BY <2>1 DEF IsAccess, IsOperand
  <2>3. \/ a \in Accesses({T_STACK}, ins.base, ins.offset, Imm(ins.width))
        \/ a \in Accesses(PtrTypes, ins.base, ins.offset, Imm(ins.width))
        \/ a = Typed(ins.base, PtrTypes)
        \/ ins.value.reg /\ \E W : a = TypedWhen(ins.value.n, {T_NUM}, ins.base, W)
    BY <2>1 DEF AskedMem
  <2>4. {T_STACK} \subseteq PtrTypes
    BY TypeCases
  <2>5. QED
    BY <1>1, <2>1, <2>2, <2>3, <2>4, TypedClear
<1>8. CASE ins.kind = "LockAdd"
  <2>1. IsAccess(ins.base, ins.offset, ins.width) /\ a \in AskedLockAdd(ins)
    BY <1>8 DEF Asked, IsInstruction
  <2>2. ins.base \in Readable /\ Maps \subseteq PtrTypes
    BY <2>1, TypeCases DEF IsAccess
  <2>3. a = Typed(ins.base, Maps) \/ a \in Accesses(Maps, ins.base, ins.offset, Imm(ins.width))
    BY <2>1 DEF AskedLockAdd
  <2>4. QED
    BY <1>1, <2>1, <2>2, <2>3, TypedClear
<1>9. CASE ins.kind = "Bin"
  <2>1. /\ ins.dst \in Readable /\ (ins.v.reg => ins.v.n \in Readable)
        /\ a \in AskedBin(ins)
    BY <1>2, <1>9 DEF Asked, IsInstruction, IsOperand
  <2>2. \/ \E T : a = Typed(ins.dst, T)
        \/ /\ ins.v.reg
           /\ \/ a \in SameTypes(NonFd \ Maps, ins.v.n, ins.dst)
              \/ a = TypedWhen(ins.v.n, {T_NUM}, ins.dst, PtrTypes)
              \/ a = TypedWhen(ins.dst, {T_NUM}, ins.v.n, PtrTypes)
    <3>1. CASE ins.v.reg
      BY <2>1, <3>1 DEF AskedBin
    <3>2. CASE ~ins.v.reg
      <4>1. a = Typed(ins.dst, {T_NUM})
        BY <2>1, <3>2 DEF AskedBin
      <4>2. QED
        BY <4>1
    <3>3. QED
      BY <3>1, <3>2
  <2>3. QED
    BY <1>3, <2>1, <2>2, TypedClear
<1>10. ins.kind \in {"Bin", "Assume", "Mem", "LockAdd", "Call", "Exit"}
  <2>1. ins.kind \in {"LoadMapFd", "Bin", "Un", "Assume", "Mem", "LockAdd", "Call", "Packet", "Exit"}
    BY DEF IsInstruction
  <2>2. QED
    BY <2>1 DEF Asked
<1>11. QED
  BY <1>4, <1>5, <1>6, <1>7, <1>8, <1>9, <1>10

LEMMA OneTypeIs ==
  ASSUME NEW d, IsValue(d), NEW x, IsReal(x), Holds(d, x), Cardinality(TypesOf(d)) = 1,
         NEW T, x.t \in T
  PROVE  IsOfType(d, T)
<1>1. PICK S : S = TypesOf(d)
  OBVIOUS
<1>2. IsFiniteSet(S) /\ x.t \in S
  BY <1>1, HeldType, TypesFinite
<1>3. ~(Cardinality(S) > 1)
  BY <1>1
<1>4. \A t \in S : t = x.t
  BY <1>2, <1>3, AtMostOne
<1>5. QED
  BY <1>1, <1>4 DEF TypesOf, IsOfType

LEMMA SatisfiedTypeHolds ==
  ASSUME Tracked, exact, NEW a, a.kind = "type", ReadsOf(a) \subseteq DOMAIN regs,
         \A r \in ReadsOf(a) : Cardinality(TypesOf(regs[r])) = 1,
         Satisfied(regs, a)
  PROVE  Means(a)
<1>1. PICK r, g : r = a.reg /\ g = a.given
  OBVIOUS
<1>2. r \in ReadsOf(a) /\ g \in ReadsOf(a)
  BY <1>1 DEF ReadsOf
<1>3. /\ IsReal(real[r]) /\ IsValue(regs[r]) /\ Holds(regs[r], real[r])
      /\ IsReal(real[g]) /\ IsValue(regs[g]) /\ Holds(regs[g], real[g])
      /\ Cardinality(TypesOf(regs[g])) = 1
  BY <1>2, RegisterParts
<1>4. IsOfType(regs[g], a.when) => IsOfType(regs[r], a.types)
  BY <1>1 DEF Satisfied, SatisfiedTypeWhen
<1>5. real[g].t \in a.when => real[r].t \in a.types
  BY <1>3, <1>4, OneTypeIs, HeldIsOfType
<1>6. QED
  BY <1>1, <1>5 DEF Means

LEMMA SatisfiedBoundHolds ==
  ASSUME Tracked, exact, NEW a, a.kind = "linear", Clear(a), ReadsOf(a) \subseteq DOMAIN regs,
         \A r \in ReadsOf(a) : Cardinality(TypesOf(regs[r])) = 1,
         \A t \in NonFd : Len(RightOf(regs, a)[t].elems) <= 1,
         ~BoundInexact(a), Satisfied(regs, a)
  PROVE  Means(a)
<1>1. PICK x, d, b, op, T, t, g : /\ x = real[a.reg] /\ d = regs[a.reg] /\ b = RightOf(regs, a)
                                  /\ op = a.op /\ T = a.types /\ t = x.t /\ g = GapFor(a)
  OBVIOUS
<1>2. Shaped(a) /\ Fitting(a)
  BY DEF Clear
<1>3. /\ op \in Bounds /\ T \subseteq AllTypes /\ T_FD \notin T
      /\ a.offset \in Int /\ a.v.n \in Int /\ a.width.n \in Int
  BY <1>1, <1>2 DEF Shaped
<1>4. a.reg \in ReadsOf(a) /\ (a.width.reg => a.width.n \in ReadsOf(a))
  BY DEF ReadsOf
<1>5. /\ IsReal(x) /\ IsValue(d) /\ Holds(d, x) /\ Cardinality(TypesOf(d)) = 1
      /\ a.width.reg => IsReal(real[a.width.n])
  BY <1>1, <1>4, RegisterParts
<1>6. a.width.reg => real[a.width.n].t = T_NUM
  BY DEF BoundInexact, IsNum
<1>7. ASSUME t \in T PROVE Compare(op, x.n, Gap(a))
  <2>1. t \in NonFd /\ t # T_FD
    BY <1>3, <1>7, TypeCases
  <2>2. IsOfType(d, T)
    BY <1>1, <1>5, <1>7, OneTypeIs
  <2>3. IsValue(b) /\ InOrder(b[T_NUM]) /\ Contains(b[t], g) /\ g \in Int
    <3>1. Good(regs, TRUE)
      BY DEF Good, Tracked, TypeOK, RegistersCovered, DATA_END_REG
    <3>2. IsValue(b) /\ InOrder(b[T_NUM])
      BY <1>1, <1>2, <3>1, GoodRight
    <3>3. Contains(b[t], g) /\ g \in Int
      BY <1>1, <1>2, <1>6, <2>1, <3>1, GoodRight
    <3>4. QED
      BY <3>2, <3>3
  <2>4. x.n \in Int /\ Contains(d[t], x.n)
    BY <1>1, <1>5, <2>1, RealParts
  <2>5. ~IsBot(d[t]) /\ ~IsBot(b[t])
    BY <2>3, <2>4 DEF IsBot, Contains, Elems, Range
  <2>6. ~d[t].top /\ ~b[t].top /\ AssumeNum(op, d[t], b[t]) = d[t]
    <3>1. SatisfiedVal(op, T, d, b)
      BY <1>1 DEF Satisfied
    <3>2. SatisfiedNum(op, d[t], b[t]) \/ SatisfiedOffset(op, d[t], b[t])
      BY <1>7, <2>1, <2>2, <3>1 DEF SatisfiedVal
    <3>3. QED
      BY <2>5, <3>2 DEF SatisfiedNum, SatisfiedOffset, AssumeOffset
  <2>7. IsVector(d[t]) /\ IsVector(b[t])
    BY <1>5, <2>1, <2>3, ValueParts, TypeCases, NumberIsVector DEF IsOffset
  <2>8. x.n \in Range(d[t].elems) /\ g \in Range(b[t].elems)
    BY <2>3, <2>4, <2>6 DEF Contains, Elems
  <2>9. op \in CmpOps \ {"SET", "NSET"} /\ op # "NE" /\ op \notin SignedOps
    BY <1>3 DEF Bounds, CmpOps, SignedOps
  <2>10. Compares(op, x.n, g)
    <3>1. Len(b[t].elems) <= 1
      BY <1>1, <2>1
    <3>2. QED
      BY <2>6, <2>7, <2>8, <2>9, <3>1, SatisfiedCompares
  <2>11. Compare(op, x.n, g)
    BY <2>9, <2>10, ComparesMeaning
  <2>12. g = Gap(a)
    <3>1. CASE ~a.width.reg
      BY <1>1, <1>2, <1>7, <3>1 DEF Fitting
    <3>2. CASE a.width.reg
      <4>1. AsInt(ToWord(Gap(a))) = Gap(a)
        BY <3>2 DEF BoundInexact, Gap
      <4>2. t # T_NUM
        BY <1>1, <1>2, <1>7, <3>2 DEF Fitting
      <4>3. QED
        BY <1>1, <4>1, <4>2 DEF GapFor
    <3>3. QED
      BY <3>1, <3>2
  <2>13. QED
    BY <2>11, <2>12
<1>8. ASSUME t \in T
      PROVE  Compare(op, x.n + a.offset + (IF a.width.reg THEN real[a.width.n].n ELSE a.width.n),
                     IF a.v.reg THEN packet.end ELSE a.v.n)
  <2>1. PICK w \in Int : w = IF a.width.reg THEN real[a.width.n].n ELSE a.width.n
    BY <1>3, <1>5, RealParts
  <2>2. PICK e \in Int : e = IF a.v.reg THEN packet.end ELSE a.v.n
    <3>1. packet.end \in Int
      <4>1. packet.end \in 3 .. Cap
        BY MachineAssumption, RegisterParts
      <4>2. QED
        BY <4>1, IntSizes
    <3>2. QED
      BY <1>3, <3>1
  <2>3. PICK n \in Int, o \in Int : n = x.n /\ o = a.offset
    BY <1>3, <1>5, RealParts
  <2>4. Gap(a) = e - w - o
    BY <2>1, <2>2, <2>3 DEF Gap
  <2>5. Compare(op, n, e - w - o)
    BY <1>7, <1>8, <2>3, <2>4
  <2>6. Compare(op, n + o + w, e)
    <3>1. PICK k \in Int, m \in Int : k = e - w - o /\ m = n + o + w
      OBVIOUS
    <3>2. Compare(op, n, k)
      BY <2>5, <3>1
    <3>3. op = "GE" \/ op = "GT" \/ op = "LE" \/ op = "EQ"
      BY <1>3 DEF Bounds
    <3>4. CASE op = "EQ"
      <4>1. n = k
        BY <3>2, <3>4, Zenon DEF Compare
      <4>2. m = e
        BY <3>1, <4>1
      <4>3. Compare(op, m, e)
        BY <3>4, <4>2, Zenon DEF Compare
      <4>4. QED
        BY <3>1, <4>3
    <3>5. CASE op = "GE"
      <4>1. n >= k
        BY <3>2, <3>5, CompareOrders
      <4>2. m >= e
        BY <3>1, <4>1
      <4>3. QED
        BY <3>1, <3>5, <4>2, CompareOrders
    <3>6. CASE op = "GT"
      <4>1. n > k
        BY <3>2, <3>6, CompareOrders
      <4>2. m > e
        BY <3>1, <4>1
      <4>3. QED
        BY <3>1, <3>6, <4>2, CompareOrders
    <3>7. CASE op = "LE"
      <4>1. n <= k
        BY <3>2, <3>7, CompareOrders
      <4>2. m <= e
        BY <3>1, <4>1
      <4>3. QED
        BY <3>1, <3>7, <4>2, CompareOrders
    <3>8. QED
      BY <3>3, <3>4, <3>5, <3>6, <3>7
  <2>7. QED
    BY <2>1, <2>2, <2>3, <2>6
<1>9. QED
  BY <1>1, <1>8 DEF Means

LEMMA TrackedSatisfied ==
  Tracked => SatisfiedHolds
<1>1. SUFFICES ASSUME Tracked, NEW ins \in Instructions, Initialised(ins),
                      NEW i \in DOMAIN Extract(ins), NEW a, a = Extract(ins)[i],
                      \A r \in ReadsOf(a) : Cardinality(TypesOf(regs[r])) = 1,
                      a.kind = "linear" =>
                          \A t \in NonFd : Len(RightOf(regs, a)[t].elems) <= 1,
                      exact, ~BoundInexact(a), Satisfied(regs, a)
               PROVE  Means(a)
  BY DEF SatisfiedHolds
<1>2. IsInstruction(ins) /\ packet \in Packets
  BY <1>1, MachineAssumption DEF Tracked
<1>3. a \in Asked(ins)
  <2>1. PICK s : s = Extract(ins)
    OBVIOUS
  <2>2. Lists(s, Asked(ins))
    BY <1>2, <2>1, ExtractListed
  <2>3. QED
    BY <1>1, <2>1, <2>2, ListParts
<1>4. Clear(a) /\ ReadsOf(a) \subseteq DOMAIN regs
  BY <1>1, <1>2, <1>3, AskedClear, DemandedAsked
<1>5. a.kind = "type" \/ a.kind = "linear"
  BY <1>4 DEF Clear, Shaped
<1>6. QED
  BY <1>1, <1>4, <1>5, SatisfiedTypeHolds, SatisfiedBoundHolds

-----------------------------------------------------------------------------
(* The theorems.                                                             *)

\* The analyser has a value for exactly the registers of the program, after
\* any number of instructions: RegsDom::at does not throw for a register that
\* the program may read, and every value is one the domains may have.
THEOREM RegistersAlwaysTyped == MachineSpec => []TypeOK
<1>1. Tracked => TypeOK
  BY DEF Tracked
<1>2. QED
  BY <1>1, AlwaysTracked, PTL

\* What each register holds is among what the analyser has for it, whatever
\* instructions the program runs (Machine::operator() of every instruction,
\* and the assertions that are assumed before it).
THEOREM RegistersAlwaysCovered == MachineSpec => []RegistersCovered
<1>1. Tracked => RegistersCovered
  BY DEF Tracked
<1>2. QED
  BY <1>1, AlwaysTracked, PTL

\* The assertions of an instruction are enough: when they hold, it accesses
\* memory within its bounds, writes no pointer where it can be read, compares
\* and computes only what it may (AssertionExtractor).
THEOREM AssertionsAlwaysSuffice == MachineSpec => []AssertionsSuffice
BY AlwaysTracked, TrackedSuffices, PTL

\* An assertion that the analyser finds satisfied holds of the registers of
\* the program (Machine::satisfied), so the verdict of analyze_rcp is right.
THEOREM SatisfiedAlwaysHolds == MachineSpec => []SatisfiedHolds
BY AlwaysTracked, TrackedSatisfied, PTL

=============================================================================
