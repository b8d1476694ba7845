----------------------- MODULE ExportControllerProofs -----------------------
(***************************************************************************)
(* Every exported file reads back as its rows, for any texts, any number   *)
(* of rows, requests, writes and failures.                                 *)
(*                                                                         *)
(* The operators of ExportController walk along a text or a table, so the  *)
(* facts about them need induction.  Its form here is first-order: a set   *)
(* of numbers with 0 and all successors has every number, which follows    *)
(* from the order of Nat being well-founded.                               *)
(*                                                                         *)
(* Reads says that a text takes the reader from one state to another.  It  *)
(* composes along the concatenation of texts, the way the file is put      *)
(* together: characters, fields, lines, file.                              *)
(***************************************************************************)
EXTENDS ExportController, SequenceTheorems, WellFoundedInduction, TLAPS

-----------------------------------------------------------------------------
(* Induction and recursion. *)

(* Induction over a set of numbers. *)
LEMMA SetInduction ==
  ASSUME NEW T, 0 \in T, \A n \in Nat : n \in T => n + 1 \in T
  PROVE  \A n \in Nat : n \in T
<1> DEFINE R == OpToRel(<, Nat)
           Missing == {n \in Nat : n \notin T}
<1>1. \A x, y \in Nat : <<x, y>> \in R <=> x < y
  BY DEF OpToRel
<1>2. IsWellFoundedOn(R, Nat)
  BY NatLessThanWellFounded
<1> HIDE DEF R
<1>3. ASSUME Missing # {} PROVE FALSE
  <2>1. PICK m \in Missing : \A k \in Missing : ~(<<k, m>> \in R)
    BY <1>2, <1>3, WFMin
  <2>2. m \in Nat /\ m # 0
    OBVIOUS
  <2>3. m - 1 \in Nat /\ (m - 1) + 1 = m /\ <<m - 1, m>> \in R
    BY <1>1, <2>2
  <2>4. m - 1 \in T
    BY <2>1, <2>3
  <2> QED
    BY <2>3, <2>4
<1> QED
  BY <1>3

(* f starts at b and takes each step from its value before. *)
Recursion(f, n, b, step) ==
  /\ f[0] = b
  /\ \A i \in 1..n : f[i] = step[i][f[i - 1]]

(* A function can be defined by recursion. *)
LEMMA RecursionExists ==
  ASSUME NEW S, NEW n \in Nat, NEW b \in S, NEW step \in [1..n -> [S -> S]]
  PROVE  \E f \in [0..n -> S] : Recursion(f, n, b, step)
<1> DEFINE T == {m \in Nat : m <= n =>
                   \E f \in [0..m -> S] : Recursion(f, m, b, step)}
<1>1. 0 \in T
  <2>1. [i \in 0..0 |-> b] \in [0..0 -> S]
    OBVIOUS
  <2>2. Recursion([i \in 0..0 |-> b], 0, b, step)
    BY DEF Recursion
  <2> QED
    BY <2>1, <2>2
<1>2. ASSUME NEW m \in Nat, m \in T PROVE m + 1 \in T
  <2> SUFFICES ASSUME m + 1 <= n
               PROVE  \E f \in [0..m + 1 -> S] :
                        Recursion(f, m + 1, b, step)
    OBVIOUS
  <2>1. PICK f \in [0..m -> S] : Recursion(f, m, b, step)
    BY <1>2
  <2> DEFINE g == [i \in 0..m + 1 |->
                     IF i = m + 1 THEN step[m + 1][f[m]] ELSE f[i]]
  <2>2. g \in [0..m + 1 -> S]
    <3>1. step[m + 1] \in [S -> S] /\ f[m] \in S
      OBVIOUS
    <3> QED
      BY <3>1
  <2>3. Recursion(g, m + 1, b, step)
    <3>1. g[0] = b
      BY <2>1 DEF Recursion
    <3>2. ASSUME NEW i \in 1..m + 1 PROVE g[i] = step[i][g[i - 1]]
      <4>1. CASE i = m + 1
        BY <4>1
      <4>2. CASE i # m + 1
        <5>1. i \in 1..m /\ g[i] = f[i] /\ g[i - 1] = f[i - 1]
          BY <4>2
        <5> QED
          BY <2>1, <5>1 DEF Recursion
      <4> QED
        BY <4>1, <4>2
    <3> QED
      BY <3>1, <3>2 DEF Recursion
  <2> QED
    BY <2>2, <2>3
<1>3. \A m \in Nat : m \in T
  <2> HIDE DEF T
  <2> QED
    BY <1>1, <1>2, SetInduction
<1> QED
  BY <1>3

(* Two functions that start at the same value and follow each other in     *)
(* every step are the same.                                                *)
LEMMA RecursionUnique ==
  ASSUME NEW n \in Nat, NEW f, NEW g, f[0] = g[0],
         \A i \in 1..n : f[i - 1] = g[i - 1] => f[i] = g[i]
  PROVE  f[n] = g[n]
<1> DEFINE T == {m \in Nat : m <= n => f[m] = g[m]}
<1>1. 0 \in T
  OBVIOUS
<1>2. ASSUME NEW m \in Nat, m \in T PROVE m + 1 \in T
  <2>1. ASSUME m + 1 <= n PROVE f[m + 1] = g[m + 1]
    <3>1. m + 1 \in 1..n /\ (m + 1) - 1 = m /\ f[m] = g[m]
      BY <1>2, <2>1
    <3> QED
      BY <3>1
  <2> QED
    BY <2>1
<1>3. \A m \in Nat : m \in T
  <2> HIDE DEF T
  <2> QED
    BY <1>1, <1>2, SetInduction
<1> QED
  BY <1>3

-----------------------------------------------------------------------------
(* Texts. *)

(* The strings.  That the literals are among them is a fact the provers    *)
(* lack.                                                                   *)
Char ==
  STRING \cup {"Name", "Company", "Company Position", "Phrase",
                "Telegram Nickname", Quote, "'", ",", "\n"}

(* A text of the model is a sequence of them. *)
LEMMA TextsHaveChars ==
  ASSUME NEW text \in Seq(STRING)
  PROVE  text \in Seq(Char)
BY SeqMonotonic DEF Char

(* A function on the first numbers is a sequence. *)
LEMMA FunctionIsText ==
  ASSUME NEW S, NEW n \in Nat, NEW f \in [1..n -> S]
  PROVE  f \in Seq(S) /\ Len(f) = n
<1>1. DOMAIN f = 1..n /\ \A i \in 1..n : f[i] \in S
  OBVIOUS
<1>2. f = [i \in 1..n |-> f[i]]
  OBVIOUS
<1>3. [i \in 1..n |-> f[i]] \in Seq(S)
  BY <1>1
<1> QED
  BY <1>2, <1>3

(* So is one with five of them. *)
LEMMA FiveAreText ==
  ASSUME NEW S, NEW f \in [1..5 -> S]
  PROVE  f \in Seq(S) /\ Len(f) = 5
<1>1. PICK n \in Nat : n = 5
  OBVIOUS
<1>2. f \in [1..n -> S]
  BY <1>1
<1>3. f \in Seq(S) /\ Len(f) = n
  BY <1>2, FunctionIsText
<1> QED
  BY <1>1, <1>3

(* The beginnings of a sequence. *)
LEMMA SubSeqGrows ==
  ASSUME NEW S, NEW t \in Seq(S), NEW i \in 1..Len(t)
  PROVE  SubSeq(t, 1, i) = Append(SubSeq(t, 1, i - 1), t[i])
<1>1. PICK p : p = SubSeq(t, 1, i - 1)
  OBVIOUS
<1>2. p \in Seq(S) /\ t[i] \in S
  <2>1. (\A k \in 1..i - 1 : t[k] \in S) /\ i - 1 \in Int /\ 1 \in Int
    OBVIOUS
  <2> QED
    BY <1>1, <2>1, SubSeqProperties
<1>3. SubSeq(t, 1, i) = p \o <<t[i]>>
  BY <1>1, SubSeqRecursiveSecond
<1>4. p \o <<t[i]>> = Append(p, t[i])
  BY <1>2, AppendIsConcat
<1> QED
  BY <1>1, <1>3, <1>4

(* The function behind Kept. *)
KeptFrom(f, text) ==
  f = [n \in 0..Len(text) |->
         IF n = 0 THEN <<>>
         ELSE IF text[n] \in Erased THEN f[n - 1]
         ELSE Append(f[n - 1], text[n])]

(* std::erase_if builds a text, character by character. *)
LEMMA KeptIsBuilt ==
  ASSUME NEW text \in Seq(Char)
  PROVE  \E f \in [0..Len(text) -> Seq(Char)] :
           KeptFrom(f, text) /\ Kept(text) = f[Len(text)]
<1> DEFINE n == Len(text)
           b == <<>>
           step == [i \in 1..n |-> [x \in Seq(Char) |->
                      IF text[i] \in Erased THEN x ELSE Append(x, text[i])]]
<1>1. n \in Nat /\ b \in Seq(Char)
  OBVIOUS
<1>2. step \in [1..n -> [Seq(Char) -> Seq(Char)]]
  <2>1. ASSUME NEW i \in 1..n, NEW x \in Seq(Char)
        PROVE  (IF text[i] \in Erased THEN x ELSE Append(x, text[i]))
                 \in Seq(Char)
    <3>1. text[i] \in Char
      OBVIOUS
    <3>2. Append(x, text[i]) \in Seq(Char)
      BY <3>1, AppendProperties
    <3> QED
      BY <3>2
  <2>2. ASSUME NEW i \in 1..n PROVE step[i] \in [Seq(Char) -> Seq(Char)]
    BY <2>1
  <2> QED
    BY <2>2
<1>3. PICK f \in [0..n -> Seq(Char)] : Recursion(f, n, b, step)
  <2> HIDE DEF n, b, step
  <2> QED
    BY <1>1, <1>2, RecursionExists
<1>4. KeptFrom(f, text)
  <2>1. ASSUME NEW i \in 0..n
        PROVE  f[i] = IF i = 0 THEN <<>>
                      ELSE IF text[i] \in Erased THEN f[i - 1]
                      ELSE Append(f[i - 1], text[i])
    <3>1. CASE i = 0
      BY <1>3, <3>1 DEF Recursion
    <3>2. CASE i # 0
      <4>1. i \in 1..n /\ f[i - 1] \in Seq(Char)
        BY <3>2
      <4>2. f[i] = step[i][f[i - 1]]
        BY <1>3, <4>1 DEF Recursion
      <4> QED
        BY <3>2, <4>1, <4>2
    <3> QED
      BY <3>1, <3>2
  <2> QED
    BY <2>1 DEF KeptFrom
<1>5. PICK k : k = CHOOSE g : KeptFrom(g, text)
  OBVIOUS
<1>6. KeptFrom(k, text)
  BY <1>4, <1>5
<1>7. Kept(text) = k[n]
  BY <1>5 DEF Kept, KeptFrom
<1>8. n \in Nat /\ f[0] = k[0]
  <2>1. 0 \in 0..Len(text)
    OBVIOUS
  <2> QED
    BY <1>4, <1>6, <2>1 DEF KeptFrom
<1>9. ASSUME NEW i \in 1..n, f[i - 1] = k[i - 1] PROVE f[i] = k[i]
  <2>1. i \in 0..Len(text) /\ i # 0
    OBVIOUS
  <2>2. f[i] = IF text[i] \in Erased THEN f[i - 1]
               ELSE Append(f[i - 1], text[i])
    BY <1>4, <2>1 DEF KeptFrom
  <2>3. k[i] = IF text[i] \in Erased THEN k[i - 1]
               ELSE Append(k[i - 1], text[i])
    BY <1>6, <2>1 DEF KeptFrom
  <2> QED
    BY <1>9, <2>2, <2>3
<1>10. f[n] = k[n]
  <2> HIDE DEF n
  <2> QED
    BY <1>8, <1>9, RecursionUnique
<1> QED
  BY <1>3, <1>4, <1>7, <1>10

(* So it ends in a text. *)
LEMMA KeptType ==
  ASSUME NEW text \in Seq(Char)
  PROVE  Kept(text) \in Seq(Char)
<1>1. PICK f \in [0..Len(text) -> Seq(Char)] : Kept(text) = f[Len(text)]
  BY KeptIsBuilt
<1>2. Len(text) \in 0..Len(text)
  OBVIOUS
<1> QED
  BY <1>1, <1>2

(* A text without double quotes. *)
Unquoted(text) ==
  text \in Seq(Char) /\ \A i \in 1..Len(text) : text[i] # Quote

(* std::replace leaves no double quote. *)
LEMMA SanitizedIsUnquoted ==
  ASSUME NEW text \in Seq(Char)
  PROVE  Unquoted(Sanitized(text))
<1>1. PICK k : k = Kept(text) /\ k \in Seq(Char)
  BY KeptType
<1>2. Sanitized(text)
        = [i \in 1..Len(k) |-> IF k[i] = Quote THEN "'" ELSE k[i]]
  BY <1>1 DEF Sanitized
<1>3. \A i \in 1..Len(k) : k[i] \in Char
  BY <1>1
<1>4. "'" # Quote
  BY DEF Quote
<1> DEFINE q == [i \in 1..Len(k) |-> IF k[i] = Quote THEN "'" ELSE k[i]]
<1>5. q \in Seq(Char) /\ Len(q) = Len(k)
  <2>1. PICK n : n = Len(k) /\ n \in Nat
    BY <1>1
  <2>2. q \in [1..n -> Char]
    <3>1. ASSUME NEW i \in 1..n
          PROVE  (IF k[i] = Quote THEN "'" ELSE k[i]) \in Char
      <4>1. k[i] \in Char
        BY <1>3, <2>1
      <4>2. "'" \in Char
        BY DEF Char
      <4> QED
        BY <4>1, <4>2
    <3> QED
      BY <2>1, <3>1
  <2> HIDE DEF q
  <2> QED
    BY <2>1, <2>2, FunctionIsText
<1>6. \A i \in 1..Len(k) : q[i] # Quote
  BY <1>4
<1> HIDE DEF q
<1> QED
  BY <1>2, <1>5, <1>6 DEF Unquoted, q

-----------------------------------------------------------------------------
(* The reader. *)

(* In a field that is not in quotes, within one that is, behind one. *)
Plain(records, record, field) ==
  [records |-> records, record |-> record, field |-> field,
   in |-> "plain", wellformed |-> TRUE]

Inside(records, record, field) ==
  [records |-> records, record |-> record, field |-> field,
   in |-> "quotes", wellformed |-> TRUE]

Behind(records, record, field) ==
  [records |-> records, record |-> record, field |-> field,
   in |-> "closing", wellformed |-> TRUE]

(* Where a field begins. *)
At(records, record) == Plain(records, record, <<>>)

(* A text of one character. *)
LEMMA AppendOne ==
  ASSUME NEW c
  PROVE  Append(<<>>, c) = <<c>>
<1>1. PICK S : c \in S
  <2>1. c \in {c}
    OBVIOUS
  <2> QED
    BY <2>1
<1>2. <<>> \in Seq(S)
  BY EmptySeq
<1>3. <<c>> \in Seq(S)
  BY <1>1
<1>4. Append(<<>>, c) = <<>> \o <<c>>
  BY <1>1, <1>2, AppendIsConcat
<1> QED
  BY <1>3, <1>4, ConcatEmptySeq

(* In quotes, a character that is no quote is taken. *)
LEMMA ReadInside ==
  ASSUME NEW R, NEW r, NEW f, NEW c, c # Quote
  PROVE  ReadChar(Inside(R, r, f), c) = Inside(R, r, Append(f, c))
BY DEF ReadChar, Inside, Take

(* A quote at the start of a field opens it. *)
LEMMA ReadOpening ==
  ASSUME NEW R, NEW r
  PROVE  ReadChar(At(R, r), Quote) = Inside(R, r, <<>>)
BY DEF ReadChar, At, Plain, Inside, Quote

(* A quote in quotes may close the field. *)
LEMMA ReadClosing ==
  ASSUME NEW R, NEW r, NEW f
  PROVE  ReadChar(Inside(R, r, f), Quote) = Behind(R, r, f)
BY DEF ReadChar, Inside, Behind

(* A comma behind a field ends it. *)
LEMMA ReadComma ==
  ASSUME NEW R, NEW r, NEW f
  PROVE  /\ ReadChar(Behind(R, r, f), ",") = At(R, Append(r, f))
         /\ ReadChar(Plain(R, r, f), ",") = At(R, Append(r, f))
BY DEF ReadChar, Behind, At, Plain, EndField, Quote

(* A line break behind a field ends the record. *)
LEMMA ReadLineBreak ==
  ASSUME NEW R, NEW r, NEW f
  PROVE  /\ ReadChar(Behind(R, r, f), "\n")
              = At(Append(R, Append(r, f)), <<>>)
         /\ ReadChar(Plain(R, r, f), "\n")
              = At(Append(R, Append(r, f)), <<>>)
BY DEF ReadChar, Behind, At, Plain, EndField, EndRecord, Quote

(* Any other character starts a field without quotes. *)
LEMMA ReadPlain ==
  ASSUME NEW R, NEW r, NEW c, c \notin {Quote, ",", "\n"}
  PROVE  ReadChar(At(R, r), c) = Plain(R, r, <<c>>)
<1>1. ReadChar(At(R, r), c) = Plain(R, r, Append(<<>>, c))
  BY DEF ReadChar, At, Plain, Take, Quote
<1> QED
  BY <1>1, AppendOne

(* The states that the reader goes through from s on. *)
Run(run, s, csv) ==
  /\ run = [i \in 0..Len(csv) |-> run[i]]
  /\ run[0] = s
  /\ \A i \in 1..Len(csv) : run[i] = ReadChar(run[i - 1], csv[i])

(* Reading csv takes the reader from s to t. *)
Reads(s, csv, t) ==
  /\ csv \in Seq(Char)
  /\ \E run : Run(run, s, csv) /\ run[Len(csv)] = t

(* One character. *)
LEMMA ReadsOne ==
  ASSUME NEW s, NEW c \in Char
  PROVE  Reads(s, <<c>>, ReadChar(s, c))
<1> DEFINE run == [i \in 0..1 |-> IF i = 0 THEN s ELSE ReadChar(s, c)]
<1>1. <<c>> \in Seq(Char) /\ Len(<<c>>) = 1 /\ <<c>>[1] = c
  OBVIOUS
<1>2. run[0] = s /\ run[1] = ReadChar(s, c) /\ run = [i \in 0..1 |-> run[i]]
  OBVIOUS
<1> HIDE DEF run
<1>3. \A i \in 1..1 : run[i] = ReadChar(run[i - 1], <<c>>[i])
  BY <1>1, <1>2
<1> QED
  BY <1>1, <1>2, <1>3 DEF Reads, Run

(* One text after another. *)
LEMMA ReadsThenReads ==
  ASSUME NEW s, NEW x, NEW t, NEW y, NEW u, Reads(s, x, t), Reads(t, y, u)
  PROVE  Reads(s, x \o y, u)
<1>1. PICK a : Run(a, s, x) /\ a[Len(x)] = t
  BY DEF Reads
<1>2. PICK b : Run(b, t, y) /\ b[Len(y)] = u
  BY DEF Reads
<1>3. PICK m \in Nat, n \in Nat : m = Len(x) /\ n = Len(y)
  BY DEF Reads
<1>4. PICK z : z = x \o y
  OBVIOUS
<1>5. /\ z \in Seq(Char) /\ Len(z) = m + n
       /\ \A i \in 1..m + n : z[i] = IF i <= m THEN x[i] ELSE y[i - m]
  BY <1>3, <1>4, ConcatProperties DEF Reads
<1> DEFINE run == [i \in 0..m + n |-> IF i <= m THEN a[i] ELSE b[i - m]]
<1>6. run = [i \in 0..m + n |-> run[i]]
  OBVIOUS
<1>7. /\ \A i \in 0..m : run[i] = a[i]
      /\ \A i \in (m + 1)..(m + n) : run[i] = b[i - m]
  OBVIOUS
<1> HIDE DEF run
<1>8. a[m] = b[0]
  BY <1>1, <1>2, <1>3 DEF Run
<1>9. run[0] = s /\ run[m + n] = u
  <2>1. CASE n = 0
    BY <1>1, <1>2, <1>3, <1>7, <1>8, <2>1 DEF Run
  <2>2. CASE n # 0
    <3>1. m + n \in (m + 1)..(m + n) /\ (m + n) - m = n /\ 0 \in 0..m
      BY <2>2
    <3>2. run[m + n] = b[n] /\ run[0] = a[0]
      BY <1>7, <3>1
    <3> QED
      BY <1>1, <1>2, <1>3, <3>2 DEF Run
  <2> QED
    BY <2>1, <2>2
<1>10. ASSUME NEW i \in 1..m + n
      PROVE  run[i] = ReadChar(run[i - 1], z[i])
  <2>1. CASE i <= m
    <3>1. /\ i \in 1..m /\ run[i] = a[i] /\ run[i - 1] = a[i - 1]
          /\ z[i] = x[i]
      BY <1>5, <1>7, <2>1
    <3> QED
      BY <1>1, <1>3, <3>1 DEF Run
  <2>2. CASE i > m
    <3>1. /\ i - m \in 1..n /\ run[i] = b[i - m]
          /\ z[i] = y[i - m]
      BY <1>5, <1>7, <2>2
    <3>2. run[i - 1] = b[(i - m) - 1]
      <4>1. CASE i = m + 1
        BY <1>7, <1>8, <4>1
      <4>2. CASE i # m + 1
        BY <1>7, <2>2, <4>2
      <4> QED
        BY <4>1, <4>2
    <3> QED
      BY <1>2, <1>3, <3>1, <3>2 DEF Run
  <2> QED
    BY <2>1, <2>2
<1>11. Run(run, s, z) /\ run[Len(z)] = u
  BY <1>5, <1>6, <1>9, <1>10 DEF Run
<1> QED
  BY <1>4, <1>5, <1>11 DEF Reads

(* A text without double quotes, within quotes. *)
LEMMA ReadsUnquoted ==
  ASSUME NEW R, NEW r, NEW q, Unquoted(q)
  PROVE  Reads(Inside(R, r, <<>>), q, Inside(R, r, q))
<1> DEFINE run == [i \in 0..Len(q) |-> Inside(R, r, SubSeq(q, 1, i))]
<1>1. q \in Seq(Char) /\ Len(q) \in Nat
  BY DEF Unquoted
<1>2. run[0] = Inside(R, r, <<>>) /\ run[Len(q)] = Inside(R, r, q)
  <2>1. SubSeq(q, 1, 0) = <<>>
    BY SubSeqEmpty
  <2>2. SubSeq(q, 1, Len(q)) = q
    BY <1>1, SubSeqFull
  <2>3. /\ run[0] = Inside(R, r, SubSeq(q, 1, 0))
        /\ run[Len(q)] = Inside(R, r, SubSeq(q, 1, Len(q)))
    BY <1>1
  <2> HIDE DEF run
  <2> QED
    BY <2>1, <2>2, <2>3
<1>3. ASSUME NEW i \in 1..Len(q)
      PROVE  run[i] = ReadChar(run[i - 1], q[i])
  <2>1. PICK p : p = SubSeq(q, 1, i - 1)
    OBVIOUS
  <2>2. q[i] # Quote
    BY DEF Unquoted
  <2>3. SubSeq(q, 1, i) = Append(p, q[i])
    BY <1>1, <2>1, SubSeqGrows
  <2>4. run[i] = Inside(R, r, Append(p, q[i]))
    <3>1. i \in 0..Len(q)
      BY <1>1
    <3>2. run[i] = Inside(R, r, SubSeq(q, 1, i))
      BY <3>1
    <3> QED
      BY <2>3, <3>2
  <2>5. run[i - 1] = Inside(R, r, p)
    <3>1. i - 1 \in 0..Len(q)
      BY <1>1
    <3>2. run[i - 1] = Inside(R, r, SubSeq(q, 1, i - 1))
      BY <3>1
    <3> QED
      BY <2>1, <3>2
  <2> HIDE DEF run
  <2> QED
    BY <2>2, <2>4, <2>5, ReadInside
<1>4. run = [i \in 0..Len(q) |-> run[i]]
  OBVIOUS
<1> HIDE DEF run
<1> QED
  BY <1>1, <1>2, <1>3, <1>4 DEF Reads, Run

(* An escaped text: the reader is behind a field with the text in it. *)
LEMMA ReadsEscaped ==
  ASSUME NEW R, NEW r, NEW text \in Seq(Char)
  PROVE  Reads(At(R, r), EscapeCsv(text), Behind(R, r, Sanitized(text)))
<1>1. PICK q : q = Sanitized(text) /\ Unquoted(q)
  BY SanitizedIsUnquoted
<1>2. Quote \in Char
  BY DEF Char
<1>3. Reads(At(R, r), <<Quote>>, Inside(R, r, <<>>))
  BY <1>2, ReadsOne, ReadOpening
<1>4. Reads(Inside(R, r, <<>>), q, Inside(R, r, q))
  BY <1>1, ReadsUnquoted
<1>5. Reads(Inside(R, r, q), <<Quote>>, Behind(R, r, q))
  BY <1>2, ReadsOne, ReadClosing
<1>6. Reads(At(R, r), <<Quote>> \o q, Inside(R, r, q))
  BY <1>3, <1>4, ReadsThenReads
<1>7. Reads(At(R, r), <<Quote>> \o q \o <<Quote>>, Behind(R, r, q))
  BY <1>5, <1>6, ReadsThenReads
<1> QED
  BY <1>1, <1>7 DEF EscapeCsv

-----------------------------------------------------------------------------
(* Fields and lines. *)

(* What a reader should find of a row, and of the first n rows. *)
RecordOf(row) == [i \in 1..5 |-> Sanitized(FieldsOf(row)[i])]

HeaderRecord == [i \in 1..5 |-> <<Header[2 * i - 1]>>]

RecordsUpTo(rows, n) ==
  <<HeaderRecord>> \o [k \in 1..n |-> RecordOf(rows[k])]

(* The fields of a row are texts. *)
LEMMA FieldsAreTexts ==
  ASSUME NEW row \in Row, NEW i \in 1..5
  PROVE  FieldsOf(row)[i] \in Seq(Char)
<1>1. \A x \in Texts \cup {NoText} : x \in Seq(Char)
  <2>1. <<>> \in Seq(Char)
    BY EmptySeq
  <2> QED
    BY <2>1, ExportAssumption, TextsHaveChars
<1>2. \A f \in Fields : row.answers[f] \in Seq(Char)
  BY <1>1 DEF Row, Answers
<1>3. Nicknames[row.chat_id] \in Seq(Char)
  <2>1. row.chat_id \in Chats
    BY DEF Row
  <2> QED
    BY <2>1, ExportAssumption, TextsHaveChars
<1>4. {"name", "company", "company_position", "phrase"} \subseteq Fields
  BY DEF Fields
<1>5. /\ FieldsOf(row)[1] = row.answers["name"]
      /\ FieldsOf(row)[2] = row.answers["company"]
      /\ FieldsOf(row)[3] = row.answers["company_position"]
      /\ FieldsOf(row)[4] = row.answers["phrase"]
      /\ FieldsOf(row)[5] = Nicknames[row.chat_id]
  BY DEF FieldsOf
<1>6. i = 1 \/ i = 2 \/ i = 3 \/ i = 4 \/ i = 5
  OBVIOUS
<1> QED
  BY <1>2, <1>3, <1>4, <1>5, <1>6

(* Escaping gives a text. *)
LEMMA EscapeType ==
  ASSUME NEW text \in Seq(Char)
  PROVE  EscapeCsv(text) \in Seq(Char)
<1>1. Sanitized(text) \in Seq(Char)
  BY SanitizedIsUnquoted DEF Unquoted
<1>2. <<Quote>> \in Seq(Char)
  <2>1. Quote \in Char
    BY DEF Char
  <2> QED
    BY <2>1
<1>3. <<Quote>> \o Sanitized(text) \in Seq(Char)
  BY <1>1, <1>2, ConcatProperties
<1> QED
  BY <1>2, <1>3, ConcatProperties DEF EscapeCsv

(* csv with one more field and the character behind it. *)
WithField(csv, text, c) == csv \o EscapeCsv(text) \o <<c>>

(* That is a text too. *)
LEMMA WithFieldType ==
  ASSUME NEW csv \in Seq(Char), NEW text \in Seq(Char), NEW c \in Char
  PROVE  WithField(csv, text, c) \in Seq(Char)
<1>1. csv \o EscapeCsv(text) \in Seq(Char)
  BY EscapeType, ConcatProperties
<1>2. <<c>> \in Seq(Char)
  OBVIOUS
<1> QED
  BY <1>1, <1>2, ConcatProperties DEF WithField

(* A field that is not the last of its line. *)
LEMMA ReadsField ==
  ASSUME NEW s, NEW csv, NEW R, NEW r, NEW text \in Seq(Char),
         Reads(s, csv, At(R, r))
  PROVE  Reads(s, WithField(csv, text, ","), At(R, Append(r, Sanitized(text))))
<1>1. PICK a, b, q : /\ a = At(R, r) /\ q = Sanitized(text)
                     /\ b = Behind(R, r, q)
  OBVIOUS
<1>2. Reads(a, EscapeCsv(text), b)
  BY <1>1, ReadsEscaped
<1>3. Reads(s, csv \o EscapeCsv(text), b)
  BY <1>1, <1>2, ReadsThenReads
<1>4. Reads(b, <<",">>, ReadChar(b, ","))
  <2>1. "," \in Char
    BY DEF Char
  <2> QED
    BY <2>1, ReadsOne
<1>5. ReadChar(b, ",") = At(R, Append(r, q))
  BY <1>1, ReadComma
<1>6. Reads(s, csv \o EscapeCsv(text) \o <<",">>, At(R, Append(r, q)))
  BY <1>3, <1>4, <1>5, ReadsThenReads
<1> QED
  BY <1>1, <1>6 DEF WithField

(* The last one of its line. *)
LEMMA ReadsLastField ==
  ASSUME NEW s, NEW csv, NEW R, NEW r, NEW text \in Seq(Char),
         Reads(s, csv, At(R, r))
  PROVE  Reads(s, WithField(csv, text, "\n"),
               At(Append(R, Append(r, Sanitized(text))), <<>>))
<1>1. PICK a, b, q : /\ a = At(R, r) /\ q = Sanitized(text)
                     /\ b = Behind(R, r, q)
  OBVIOUS
<1>2. Reads(a, EscapeCsv(text), b)
  BY <1>1, ReadsEscaped
<1>3. Reads(s, csv \o EscapeCsv(text), b)
  BY <1>1, <1>2, ReadsThenReads
<1>4. Reads(b, <<"\n">>, ReadChar(b, "\n"))
  <2>1. "\n" \in Char
    BY DEF Char
  <2> QED
    BY <2>1, ReadsOne
<1>5. PICK t : t = At(Append(R, Append(r, q)), <<>>)
  OBVIOUS
<1>6. ReadChar(b, "\n") = t
  BY <1>1, <1>5, ReadLineBreak
<1>7. Reads(s, csv \o EscapeCsv(text) \o <<"\n">>, t)
  BY <1>3, <1>4, <1>6, ReadsThenReads
<1> QED
  BY <1>1, <1>5, <1>7 DEF WithField

(* Five texts are the fields of the row. *)
Five(row, t1, t2, t3, t4, t5) ==
  /\ FieldsOf(row) = <<t1, t2, t3, t4, t5>>
  /\ t1 \in Seq(Char)
  /\ t2 \in Seq(Char)
  /\ t3 \in Seq(Char)
  /\ t4 \in Seq(Char)
  /\ t5 \in Seq(Char)

(* Every row has five. *)
LEMMA FiveFields ==
  ASSUME NEW row \in Row
  PROVE  \E t1, t2, t3, t4, t5 : Five(row, t1, t2, t3, t4, t5)
<1>1. PICK f : f = FieldsOf(row)
  OBVIOUS
<1>2. f = <<f[1], f[2], f[3], f[4], f[5]>>
  BY <1>1 DEF FieldsOf
<1>3. \A i \in 1..5 : f[i] \in Seq(Char)
  BY <1>1, FieldsAreTexts
<1>4. Five(row, f[1], f[2], f[3], f[4], f[5])
  BY <1>1, <1>2, <1>3 DEF Five
<1> QED
  BY <1>4

(* csv grows to a line of the five texts, field by field. *)
Fields5(csv, row, t1, t2, t3, t4, t5, c1, c2, c3, c4) ==
  /\ Five(row, t1, t2, t3, t4, t5)
  /\ c1 = WithField(csv, t1, ",")
  /\ c2 = WithField(c1, t2, ",")
  /\ c3 = WithField(c2, t3, ",")
  /\ c4 = WithField(c3, t4, ",")
  /\ WithLine(csv, row) = WithField(c4, t5, "\n")

(* Every line is built in this way. *)
LEMMA LineHasFields ==
  ASSUME NEW csv, NEW row \in Row
  PROVE  \E t1, t2, t3, t4, t5, c1, c2, c3, c4 :
           Fields5(csv, row, t1, t2, t3, t4, t5, c1, c2, c3, c4)
<1>1. PICK t1, t2, t3, t4, t5 : Five(row, t1, t2, t3, t4, t5)
  BY FiveFields
<1>2. PICK c1 : c1 = WithField(csv, t1, ",")
  OBVIOUS
<1>3. PICK c2 : c2 = WithField(c1, t2, ",")
  OBVIOUS
<1>4. PICK c3 : c3 = WithField(c2, t3, ",")
  OBVIOUS
<1>5. PICK c4 : c4 = WithField(c3, t4, ",")
  OBVIOUS
<1>6. PICK f : f = FieldsOf(row)
  OBVIOUS
<1>7. f[1] = t1 /\ f[2] = t2 /\ f[3] = t3 /\ f[4] = t4 /\ f[5] = t5
  BY <1>1, <1>6 DEF Five
<1>8. WithLine(csv, row)
        = csv \o EscapeCsv(f[1]) \o <<",">> \o EscapeCsv(f[2]) \o <<",">>
              \o EscapeCsv(f[3]) \o <<",">> \o EscapeCsv(f[4]) \o <<",">>
              \o EscapeCsv(f[5]) \o <<"\n">>
  BY <1>6 DEF WithLine
<1>9. WithLine(csv, row)
        = csv \o EscapeCsv(t1) \o <<",">> \o EscapeCsv(t2) \o <<",">>
              \o EscapeCsv(t3) \o <<",">> \o EscapeCsv(t4) \o <<",">>
              \o EscapeCsv(t5) \o <<"\n">>
  BY <1>7, <1>8, Zenon
<1>10. WithLine(csv, row)
         = c1 \o EscapeCsv(t2) \o <<",">>
              \o EscapeCsv(t3) \o <<",">> \o EscapeCsv(t4) \o <<",">>
              \o EscapeCsv(t5) \o <<"\n">>
  BY <1>2, <1>9, Zenon DEF WithField
<1>11. WithLine(csv, row)
         = c2 \o EscapeCsv(t3) \o <<",">> \o EscapeCsv(t4) \o <<",">>
              \o EscapeCsv(t5) \o <<"\n">>
  BY <1>3, <1>10, Zenon DEF WithField
<1>12. WithLine(csv, row)
         = c3 \o EscapeCsv(t4) \o <<",">> \o EscapeCsv(t5) \o <<"\n">>
  BY <1>4, <1>11, Zenon DEF WithField
<1>13. WithLine(csv, row) = c4 \o EscapeCsv(t5) \o <<"\n">>
  BY <1>5, <1>12, Zenon DEF WithField
<1>14. WithLine(csv, row) = WithField(c4, t5, "\n")
  BY <1>13, Zenon DEF WithField
<1>15. Fields5(csv, row, t1, t2, t3, t4, t5, c1, c2, c3, c4)
  BY <1>1, <1>2, <1>3, <1>4, <1>5, <1>14, Zenon DEF Fields5
<1> QED
  BY <1>15, Zenon

(* A text with one more line is a text. *)
LEMMA WithLineType ==
  ASSUME NEW csv \in Seq(Char), NEW row \in Row
  PROVE  WithLine(csv, row) \in Seq(Char)
<1>1. PICK t1, t2, t3, t4, t5, c1, c2, c3, c4 :
        Fields5(csv, row, t1, t2, t3, t4, t5, c1, c2, c3, c4)
  BY LineHasFields
<1>2. /\ c1 = WithField(csv, t1, ",") /\ c2 = WithField(c1, t2, ",")
      /\ c3 = WithField(c2, t3, ",") /\ c4 = WithField(c3, t4, ",")
      /\ WithLine(csv, row) = WithField(c4, t5, "\n")
  BY <1>1 DEF Fields5
<1>3. /\ t1 \in Seq(Char) /\ t2 \in Seq(Char) /\ t3 \in Seq(Char)
      /\ t4 \in Seq(Char) /\ t5 \in Seq(Char)
  BY <1>1 DEF Fields5, Five
<1>4. "," \in Char /\ "\n" \in Char
  BY DEF Char
<1>5. c1 \in Seq(Char)
  BY <1>2, <1>3, <1>4, WithFieldType
<1>6. c2 \in Seq(Char)
  BY <1>2, <1>3, <1>4, <1>5, WithFieldType
<1>7. c3 \in Seq(Char)
  BY <1>2, <1>3, <1>4, <1>6, WithFieldType
<1>8. c4 \in Seq(Char)
  BY <1>2, <1>3, <1>4, <1>7, WithFieldType
<1>9. WithField(c4, t5, "\n") \in Seq(Char)
  BY <1>3, <1>4, <1>8, WithFieldType
<1> QED
  BY <1>2, <1>9

(* Five elements, appended one after the other. *)
LEMMA FiveAppended ==
  ASSUME NEW S, NEW t \in Seq(S), Len(t) = 5
  PROVE  Append(Append(Append(Append(Append(<<>>,
           t[1]), t[2]), t[3]), t[4]), t[5]) = t
<1>1. SubSeq(t, 1, 0) = <<>>
  BY SubSeqEmpty
<1>2. SubSeq(t, 1, 1) = Append(SubSeq(t, 1, 0), t[1])
  BY SubSeqGrows
<1>3. SubSeq(t, 1, 2) = Append(SubSeq(t, 1, 1), t[2])
  BY SubSeqGrows
<1>4. SubSeq(t, 1, 3) = Append(SubSeq(t, 1, 2), t[3])
  BY SubSeqGrows
<1>5. SubSeq(t, 1, 4) = Append(SubSeq(t, 1, 3), t[4])
  BY SubSeqGrows
<1>6. SubSeq(t, 1, 5) = Append(SubSeq(t, 1, 4), t[5])
  BY SubSeqGrows
<1>7. SubSeq(t, 1, 5) = t
  BY SubSeqFull
<1> QED
  BY <1>1, <1>2, <1>3, <1>4, <1>5, <1>6, <1>7

(* The record of a row, from its five texts. *)
LEMMA RecordIsBuilt ==
  ASSUME NEW row, NEW t1, NEW t2, NEW t3, NEW t4, NEW t5,
         Five(row, t1, t2, t3, t4, t5)
  PROVE  RecordOf(row) =
           Append(Append(Append(Append(Append(<<>>, Sanitized(t1)),
             Sanitized(t2)), Sanitized(t3)), Sanitized(t4)), Sanitized(t5))
<1>1. PICK t : t = RecordOf(row)
  OBVIOUS
<1>2. /\ t[1] = Sanitized(t1) /\ t[2] = Sanitized(t2)
      /\ t[3] = Sanitized(t3) /\ t[4] = Sanitized(t4)
      /\ t[5] = Sanitized(t5)
  BY <1>1 DEF RecordOf, Five
<1>3. \A x \in Seq(Char) : Sanitized(x) \in Seq(Char)
  BY SanitizedIsUnquoted DEF Unquoted
<1>4. t \in [1..5 -> Seq(Char)]
  <2>1. \A i \in 1..5 : FieldsOf(row)[i] \in Seq(Char)
    BY DEF Five
  <2> QED
    BY <1>1, <1>3, <2>1 DEF RecordOf
<1>5. t \in Seq(Seq(Char)) /\ Len(t) = 5
  BY <1>4, FiveAreText
<1>6. Append(Append(Append(Append(Append(<<>>,
        t[1]), t[2]), t[3]), t[4]), t[5]) = t
  BY <1>5, FiveAppended
<1> QED
  BY <1>1, <1>2, <1>6

(* A line is read as a record. *)
LEMMA ReadsLine ==
  ASSUME NEW s, NEW csv, NEW R, NEW row \in Row, Reads(s, csv, At(R, <<>>))
  PROVE  Reads(s, WithLine(csv, row), At(Append(R, RecordOf(row)), <<>>))
<1>1. PICK t1, t2, t3, t4, t5, c1, c2, c3, c4 :
        Fields5(csv, row, t1, t2, t3, t4, t5, c1, c2, c3, c4)
  BY LineHasFields
<1>2. Five(row, t1, t2, t3, t4, t5)
  BY <1>1 DEF Fields5
<1>3. /\ t1 \in Seq(Char) /\ t2 \in Seq(Char) /\ t3 \in Seq(Char)
      /\ t4 \in Seq(Char) /\ t5 \in Seq(Char)
  BY <1>2 DEF Five
<1>4. /\ c1 = WithField(csv, t1, ",") /\ c2 = WithField(c1, t2, ",")
      /\ c3 = WithField(c2, t3, ",") /\ c4 = WithField(c3, t4, ",")
      /\ WithLine(csv, row) = WithField(c4, t5, "\n")
  BY <1>1 DEF Fields5
<1>5. PICK r1 : r1 = Append(<<>>, Sanitized(t1))
  OBVIOUS
<1>6. PICK r2 : r2 = Append(r1, Sanitized(t2))
  OBVIOUS
<1>7. PICK r3 : r3 = Append(r2, Sanitized(t3))
  OBVIOUS
<1>8. PICK r4 : r4 = Append(r3, Sanitized(t4))
  OBVIOUS
<1>9. PICK r5 : r5 = Append(r4, Sanitized(t5))
  OBVIOUS
<1>10. r5 = RecordOf(row)
  BY <1>2, <1>5, <1>6, <1>7, <1>8, <1>9, RecordIsBuilt
<1>11. Reads(s, c1, At(R, r1))
  BY <1>3, <1>4, <1>5, ReadsField
<1>12. Reads(s, c2, At(R, r2))
  BY <1>3, <1>4, <1>6, <1>11, ReadsField
<1>13. Reads(s, c3, At(R, r3))
  BY <1>3, <1>4, <1>7, <1>12, ReadsField
<1>14. Reads(s, c4, At(R, r4))
  BY <1>3, <1>4, <1>8, <1>13, ReadsField
<1>15. Reads(s, WithField(c4, t5, "\n"), At(Append(R, r5), <<>>))
  BY <1>3, <1>9, <1>14, ReadsLastField
<1> QED
  BY <1>4, <1>10, <1>15

-----------------------------------------------------------------------------
(* Files. *)

(* The header is read as a record. *)
LEMMA ReadsHeader == Reads(Reader, Header, At(<<HeaderRecord>>, <<>>))
<1>1. PICK h1, h2, h3, h4, h5 :
        /\ h1 = <<"Name">> /\ h2 = <<"Company">>
        /\ h3 = <<"Company Position">> /\ h4 = <<"Phrase">>
        /\ h5 = <<"Telegram Nickname">>
  OBVIOUS
<1>2. PICK r1 : r1 = Append(<<>>, h1)
  OBVIOUS
<1>3. PICK r2 : r2 = Append(r1, h2)
  OBVIOUS
<1>4. PICK r3 : r3 = Append(r2, h3)
  OBVIOUS
<1>5. PICK r4 : r4 = Append(r3, h4)
  OBVIOUS
<1>6. PICK r5 : r5 = Append(r4, h5)
  OBVIOUS
<1>7. /\ Header \in Seq(Char) /\ Len(Header) = 10
      /\ Header[1] = "Name" /\ Header[3] = "Company"
      /\ Header[5] = "Company Position" /\ Header[7] = "Phrase"
      /\ Header[9] = "Telegram Nickname" /\ Header[10] = "\n"
      /\ Header[2] = "," /\ Header[4] = "," /\ Header[6] = ","
      /\ Header[8] = ","
  BY DEF Header, Char
<1>8. Append(<<>>, r5) = <<HeaderRecord>>
  <2>1. PICK t : t = HeaderRecord
    OBVIOUS
  <2>2. \A i \in 1..5 : t[i] = <<Header[2 * i - 1]>>
    BY <2>1 DEF HeaderRecord
  <2>3. t[1] = h1 /\ t[2] = h2 /\ t[3] = h3 /\ t[4] = h4 /\ t[5] = h5
    <3>1. /\ 2 * 1 - 1 = 1 /\ 2 * 2 - 1 = 3 /\ 2 * 3 - 1 = 5
          /\ 2 * 4 - 1 = 7 /\ 2 * 5 - 1 = 9
      OBVIOUS
    <3>2. /\ t[1] = <<Header[1]>> /\ t[2] = <<Header[3]>>
          /\ t[3] = <<Header[5]>> /\ t[4] = <<Header[7]>>
          /\ t[5] = <<Header[9]>>
      BY <2>2, <3>1
    <3> QED
      BY <1>1, <1>7, <3>2
  <2>4. PICK S : \A i \in 1..5 : t[i] \in S
    <3>1. \A i \in 1..5 : t[i] \in {t[k] : k \in 1..5}
      OBVIOUS
    <3> QED
      BY <3>1
  <2>5. t \in [1..5 -> S]
    BY <2>1, <2>4 DEF HeaderRecord
  <2>6. t \in Seq(S) /\ Len(t) = 5
    BY <2>5, FiveAreText
  <2>7. Append(Append(Append(Append(Append(<<>>,
          t[1]), t[2]), t[3]), t[4]), t[5]) = t
    BY <2>6, FiveAppended
  <2>8. r5 = t
    BY <1>2, <1>3, <1>4, <1>5, <1>6, <2>3, <2>7
  <2> QED
    BY <2>1, <2>8, AppendOne
<1>9. PICK s0, s1, s2, s3, s4, s5, s6, s7, s8, s9, s10 :
        /\ s0 = At(<<>>, <<>>) /\ s1 = Plain(<<>>, <<>>, h1)
        /\ s2 = At(<<>>, r1) /\ s3 = Plain(<<>>, r1, h2)
        /\ s4 = At(<<>>, r2) /\ s5 = Plain(<<>>, r2, h3)
        /\ s6 = At(<<>>, r3) /\ s7 = Plain(<<>>, r3, h4)
        /\ s8 = At(<<>>, r4) /\ s9 = Plain(<<>>, r4, h5)
        /\ s10 = At(<<HeaderRecord>>, <<>>)
  OBVIOUS
<1>10. s0 = Reader
  <2>1. At(<<>>, <<>>) = Reader
    BY DEF Reader, At, Plain
  <2> QED
    BY <1>9, <2>1
<1>11. /\ s1 = ReadChar(s0, Header[1]) /\ s3 = ReadChar(s2, Header[3])
       /\ s5 = ReadChar(s4, Header[5]) /\ s7 = ReadChar(s6, Header[7])
       /\ s9 = ReadChar(s8, Header[9])
  <2>1. /\ "Name" \notin {Quote, ",", "\n"}
        /\ "Company" \notin {Quote, ",", "\n"}
        /\ "Company Position" \notin {Quote, ",", "\n"}
        /\ "Phrase" \notin {Quote, ",", "\n"}
        /\ "Telegram Nickname" \notin {Quote, ",", "\n"}
    BY DEF Quote
  <2>2. ASSUME NEW R, NEW r
        PROVE  /\ ReadChar(At(R, r), "Name") = Plain(R, r, h1)
               /\ ReadChar(At(R, r), "Company") = Plain(R, r, h2)
               /\ ReadChar(At(R, r), "Company Position") = Plain(R, r, h3)
               /\ ReadChar(At(R, r), "Phrase") = Plain(R, r, h4)
               /\ ReadChar(At(R, r), "Telegram Nickname")
                    = Plain(R, r, h5)
    BY <1>1, <2>1, ReadPlain
  <2> QED
    BY <1>7, <1>9, <2>2, Zenon
<1>12. /\ s2 = ReadChar(s1, Header[2]) /\ s4 = ReadChar(s3, Header[4])
       /\ s6 = ReadChar(s5, Header[6]) /\ s8 = ReadChar(s7, Header[8])
  <2>1. ReadChar(Plain(<<>>, <<>>, h1), ",") = At(<<>>, r1)
    BY <1>2, ReadComma, Zenon
  <2>2. ReadChar(Plain(<<>>, r1, h2), ",") = At(<<>>, r2)
    BY <1>3, ReadComma, Zenon
  <2>3. ReadChar(Plain(<<>>, r2, h3), ",") = At(<<>>, r3)
    BY <1>4, ReadComma, Zenon
  <2>4. ReadChar(Plain(<<>>, r3, h4), ",") = At(<<>>, r4)
    BY <1>5, ReadComma, Zenon
  <2> QED
    BY <1>7, <1>9, <2>1, <2>2, <2>3, <2>4, Zenon
<1>13. s10 = ReadChar(s9, Header[10])
  <2>1. ReadChar(Plain(<<>>, r4, h5), "\n") = At(Append(<<>>, r5), <<>>)
    BY <1>6, ReadLineBreak
  <2> QED
    BY <1>7, <1>8, <1>9, <2>1, Zenon
<1> DEFINE run == [i \in 0..10 |->
                     <<s0, s1, s2, s3, s4, s5, s6, s7, s8, s9, s10>>[i + 1]]
<1>14. run = [i \in 0..10 |-> run[i]]
  OBVIOUS
<1>15. /\ run[0] = s0 /\ run[1] = s1 /\ run[2] = s2 /\ run[3] = s3
       /\ run[4] = s4 /\ run[5] = s5 /\ run[6] = s6 /\ run[7] = s7
       /\ run[8] = s8 /\ run[9] = s9 /\ run[10] = s10
  OBVIOUS
<1> HIDE DEF run
<1>16. \A i \in 1..10 : run[i] = ReadChar(run[i - 1], Header[i])
  <2> SUFFICES ASSUME NEW i \in 1..10
               PROVE  run[i] = ReadChar(run[i - 1], Header[i])
    OBVIOUS
  <2>1. \/ i = 1 \/ i = 2 \/ i = 3 \/ i = 4 \/ i = 5
        \/ i = 6 \/ i = 7 \/ i = 8 \/ i = 9 \/ i = 10
    OBVIOUS
  <2> QED
    BY <1>11, <1>12, <1>13, <1>15, <2>1
<1>17. run[0] = Reader /\ run[10] = At(<<HeaderRecord>>, <<>>)
  BY <1>9, <1>10, <1>15
<1>18. Run(run, Reader, Header)
  BY <1>7, <1>14, <1>16, <1>17 DEF Run
<1> QED
  BY <1>7, <1>17, <1>18 DEF Reads

(* The records of one row more. *)
LEMMA RecordsGrow ==
  ASSUME NEW rows \in Seq(Row), NEW n \in Nat, n + 1 <= Len(rows)
  PROVE  Append(RecordsUpTo(rows, n), RecordOf(rows[n + 1]))
           = RecordsUpTo(rows, n + 1)
<1>1. PICK e : e = RecordOf(rows[n + 1])
  OBVIOUS
<1>2. PICK u : u = [k \in 1..n |-> RecordOf(rows[k])]
  OBVIOUS
<1>3. PICK v : v = [k \in 1..n + 1 |-> RecordOf(rows[k])]
  OBVIOUS
<1>4. PICK S : /\ HeaderRecord \in S /\ e \in S
               /\ \A k \in 1..n + 1 : v[k] \in S
  <2>1. PICK S : S = {HeaderRecord, e} \cup {v[k] : k \in 1..n + 1}
    OBVIOUS
  <2> QED
    BY <2>1
<1>5. v \in Seq(S) /\ Len(v) = n + 1
  <2>1. v \in [1..n + 1 -> S] /\ n + 1 \in Nat
    BY <1>3, <1>4
  <2> QED
    BY <2>1, FunctionIsText
<1>6. u \in Seq(S) /\ Len(u) = n
  <2>1. \A k \in 1..n : k \in 1..n + 1 /\ u[k] = v[k]
    BY <1>2, <1>3
  <2>2. u \in [1..n -> S]
    BY <1>2, <1>4, <2>1
  <2> QED
    BY <2>2, FunctionIsText
<1>7. v = Append(u, e)
  <2>1. Append(u, e) \in Seq(S) /\ Len(Append(u, e)) = n + 1
    BY <1>4, <1>6, AppendProperties
  <2>2. ASSUME NEW k \in 1..n + 1 PROVE v[k] = Append(u, e)[k]
    <3>1. CASE k = n + 1
      <4>1. Append(u, e)[n + 1] = e
        BY <1>4, <1>6, AppendProperties
      <4> QED
        BY <1>1, <1>3, <3>1, <4>1
    <3>2. CASE k # n + 1
      <4>1. k \in 1..n
        BY <3>2
      <4>2. Append(u, e)[k] = u[k]
        BY <1>4, <1>6, <4>1, AppendProperties
      <4> QED
        BY <1>2, <1>3, <4>1, <4>2
    <3> QED
      BY <3>1, <3>2
  <2> QED
    BY <1>5, <2>1, <2>2, SeqEqual
<1>8. PICK h : h = <<HeaderRecord>> /\ h \in Seq(S)
  <2>1. <<HeaderRecord>> \in Seq(S)
    BY <1>4
  <2> QED
    BY <2>1
<1>9. <<e>> \in Seq(S) /\ h \o u \in Seq(S)
  <2>1. <<e>> \in Seq(S)
    BY <1>4
  <2>2. h \o u \in Seq(S)
    BY <1>6, <1>8, ConcatProperties
  <2> QED
    BY <2>1, <2>2
<1>10. Append(h \o u, e) = h \o u \o <<e>>
  BY <1>4, <1>9, AppendIsConcat
<1>11. Append(u, e) = u \o <<e>>
  BY <1>4, <1>6, AppendIsConcat
<1>12. h \o u \o <<e>> = h \o (u \o <<e>>)
  BY <1>6, <1>8, <1>9, ConcatAssociative
<1>13. Append(h \o u, e) = h \o v
  BY <1>7, <1>10, <1>11, <1>12
<1>14. RecordsUpTo(rows, n) = h \o u
  BY <1>2, <1>8 DEF RecordsUpTo
<1>15. RecordsUpTo(rows, n + 1) = h \o v
  BY <1>3, <1>8 DEF RecordsUpTo
<1> QED
  BY <1>1, <1>13, <1>14, <1>15

(* The function behind GenerateCsv. *)
CsvFrom(f, rows) ==
  f = [n \in 0..Len(rows) |->
         IF n = 0 THEN Header ELSE WithLine(f[n - 1], rows[n])]

(* The file grows line by line. *)
LEMMA CsvIsBuilt ==
  ASSUME NEW rows \in Seq(Row)
  PROVE  \E f : CsvFrom(f, rows) /\ GenerateCsv(rows) = f[Len(rows)]
<1> DEFINE n == Len(rows)
           step == [i \in 1..n |-> [x \in Seq(Char) |->
                      WithLine(x, rows[i])]]
<1>1. n \in Nat /\ Header \in Seq(Char)
  BY ReadsHeader DEF Reads
<1>2. step \in [1..n -> [Seq(Char) -> Seq(Char)]]
  <2>1. ASSUME NEW i \in 1..n PROVE step[i] \in [Seq(Char) -> Seq(Char)]
    <3>1. rows[i] \in Row
      OBVIOUS
    <3>2. \A x \in Seq(Char) : WithLine(x, rows[i]) \in Seq(Char)
      BY <3>1, WithLineType
    <3> QED
      BY <3>2
  <2> QED
    BY <2>1
<1>3. PICK g \in [0..n -> Seq(Char)] : Recursion(g, n, Header, step)
  <2> HIDE DEF n, step
  <2> QED
    BY <1>1, <1>2, RecursionExists
<1>4. CsvFrom(g, rows)
  <2>1. ASSUME NEW i \in 0..n
        PROVE  g[i] = IF i = 0 THEN Header ELSE WithLine(g[i - 1], rows[i])
    <3>1. CASE i = 0
      BY <1>3, <3>1 DEF Recursion
    <3>2. CASE i # 0
      <4>1. i \in 1..n /\ g[i - 1] \in Seq(Char)
        BY <3>2
      <4>2. g[i] = step[i][g[i - 1]]
        BY <1>3, <4>1 DEF Recursion
      <4> QED
        BY <3>2, <4>1, <4>2
    <3> QED
      BY <3>1, <3>2
  <2> QED
    BY <2>1 DEF CsvFrom
<1>5. PICK f : f = CHOOSE k : CsvFrom(k, rows)
  OBVIOUS
<1>6. CsvFrom(f, rows)
  BY <1>4, <1>5
<1>7. GenerateCsv(rows) = f[n]
  BY <1>5 DEF GenerateCsv, CsvFrom
<1> QED
  BY <1>6, <1>7

(* The file is read as the header and one record for each row. *)
LEMMA ReadsFile ==
  ASSUME NEW rows \in Seq(Row)
  PROVE  Reads(Reader, GenerateCsv(rows), At(Records(rows), <<>>))
<1>1. PICK f : CsvFrom(f, rows) /\ GenerateCsv(rows) = f[Len(rows)]
  BY CsvIsBuilt
<1>2. PICK m \in Nat : m = Len(rows)
  OBVIOUS
<1> DEFINE T == {n \in Nat : n <= m =>
                   Reads(Reader, f[n], At(RecordsUpTo(rows, n), <<>>))}
<1>3. 0 \in T
  <2>1. f[0] = Header
    BY <1>1, <1>2 DEF CsvFrom
  <2>2. RecordsUpTo(rows, 0) = <<HeaderRecord>>
    <3>1. [k \in 1..0 |-> RecordOf(rows[k])] = <<>>
      OBVIOUS
    <3>2. PICK S : HeaderRecord \in S
      <4>1. HeaderRecord \in {HeaderRecord}
        OBVIOUS
      <4> QED
        BY <4>1
    <3>3. <<HeaderRecord>> \in Seq(S)
      BY <3>2
    <3>4. <<HeaderRecord>> \o <<>> = <<HeaderRecord>>
      BY <3>3, ConcatEmptySeq
    <3> QED
      BY <3>1, <3>4 DEF RecordsUpTo
  <2>3. Reads(Reader, f[0], At(RecordsUpTo(rows, 0), <<>>))
    BY <2>1, <2>2, ReadsHeader
  <2> QED
    BY <2>3
<1>4. ASSUME NEW n \in Nat, n \in T PROVE n + 1 \in T
  <2>1. ASSUME n + 1 <= m
        PROVE  Reads(Reader, f[n + 1],
                     At(RecordsUpTo(rows, n + 1), <<>>))
    <3>1. PICK R, row, csv : /\ R = RecordsUpTo(rows, n)
                             /\ row = rows[n + 1] /\ csv = f[n]
      OBVIOUS
    <3>2. row \in Row
      BY <1>2, <2>1, <3>1
    <3>3. Reads(Reader, csv, At(R, <<>>))
      BY <1>4, <2>1, <3>1
    <3>4. Reads(Reader, WithLine(csv, row), At(Append(R, RecordOf(row)), <<>>))
      BY <3>2, <3>3, ReadsLine
    <3>5. f[n + 1] = WithLine(csv, row)
      <4>1. n + 1 \in 0..Len(rows) /\ n + 1 # 0 /\ (n + 1) - 1 = n
        BY <1>2, <2>1
      <4> QED
        BY <1>1, <3>1, <4>1 DEF CsvFrom
    <3>6. Append(R, RecordOf(row)) = RecordsUpTo(rows, n + 1)
      BY <1>2, <2>1, <3>1, RecordsGrow
    <3> QED
      BY <3>4, <3>5, <3>6
  <2> QED
    BY <2>1
<1>5. \A n \in Nat : n \in T
  <2> HIDE DEF T
  <2> QED
    BY <1>3, <1>4, SetInduction
<1>6. Reads(Reader, f[m], At(RecordsUpTo(rows, m), <<>>))
  BY <1>5
<1>7. RecordsUpTo(rows, m) = Records(rows)
  <2>1. DOMAIN rows = 1..m
    BY <1>2
  <2> QED
    BY <2>1 DEF RecordsUpTo, Records, HeaderRecord, RecordOf
<1> QED
  BY <1>1, <1>2, <1>6, <1>7

(* The function behind Read. *)
ReadFrom(f, csv) ==
  f = [n \in 0..Len(csv) |->
         IF n = 0 THEN Reader ELSE ReadChar(f[n - 1], csv[n])]

(* Read is where Reads ends. *)
LEMMA ReadIsReads ==
  ASSUME NEW csv, NEW t, Reads(Reader, csv, t)
  PROVE  Read(csv) = t
<1>1. PICK run : Run(run, Reader, csv) /\ run[Len(csv)] = t
  BY DEF Reads
<1>2. PICK n \in Nat : n = Len(csv)
  BY DEF Reads
<1>3. ReadFrom(run, csv)
  <2>1. ASSUME NEW i \in 0..n
        PROVE  run[i] = IF i = 0 THEN Reader ELSE ReadChar(run[i - 1], csv[i])
    BY <1>1, <1>2 DEF Run
  <2>2. run = [i \in 0..n |-> run[i]]
    BY <1>1, <1>2 DEF Run
  <2> QED
    BY <1>2, <2>1, <2>2 DEF ReadFrom
<1>4. PICK f : f = CHOOSE k : ReadFrom(k, csv)
  OBVIOUS
<1>5. ReadFrom(f, csv)
  BY <1>3, <1>4
<1>6. Read(csv) = f[n]
  BY <1>2, <1>4 DEF Read, ReadFrom
<1>7. f[0] = run[0]
  <2>1. 0 \in 0..Len(csv)
    BY <1>2
  <2> QED
    BY <1>3, <1>5, <2>1 DEF ReadFrom
<1>8. ASSUME NEW i \in 1..n, f[i - 1] = run[i - 1] PROVE f[i] = run[i]
  <2>1. i \in 0..Len(csv) /\ i # 0
    BY <1>2
  <2>2. f[i] = ReadChar(f[i - 1], csv[i])
    BY <1>5, <2>1 DEF ReadFrom
  <2>3. run[i] = ReadChar(run[i - 1], csv[i])
    BY <1>3, <2>1 DEF ReadFrom
  <2> QED
    BY <1>8, <2>2, <2>3
<1>9. f[n] = run[n]
  BY <1>7, <1>8, RecursionUnique
<1> QED
  BY <1>1, <1>2, <1>6, <1>9

(* generateCsv and a reader of CSV agree about any table: whatever         *)
(* characters the texts of any number of rows contain, the file is         *)
(* well-formed, ends with a line, and has one record for each row, with    *)
(* its five texts.                                                         *)
THEOREM EveryTableReadsBack ==
  \A rows \in Seq(Row) : ReadsBackAs(GenerateCsv(rows), rows)
<1> SUFFICES ASSUME NEW rows \in Seq(Row)
             PROVE  ReadsBackAs(GenerateCsv(rows), rows)
  OBVIOUS
<1>1. Read(GenerateCsv(rows)) = At(Records(rows), <<>>)
  BY ReadsFile, ReadIsReads
<1> QED
  BY <1>1 DEF ReadsBackAs, At, Plain

-----------------------------------------------------------------------------
(* What is lost. *)

Ordinary(text) == \A i \in 1..Len(text) : text[i] \notin Erased \cup {Quote}

(* Nothing of what is to be erased is kept. *)
LEMMA KeptIsClean ==
  ASSUME NEW text \in Seq(Char)
  PROVE  \A i \in 1..Len(Kept(text)) : Kept(text)[i] \notin Erased
<1>1. PICK f \in [0..Len(text) -> Seq(Char)] :
        KeptFrom(f, text) /\ Kept(text) = f[Len(text)]
  BY KeptIsBuilt
<1>2. PICK m \in Nat : m = Len(text)
  OBVIOUS
<1> DEFINE T == {n \in Nat : n <= m =>
                   \A i \in 1..Len(f[n]) : f[n][i] \notin Erased}
<1>3. 0 \in T
  <2>1. f[0] = <<>>
    BY <1>1, <1>2 DEF KeptFrom
  <2>2. Len(f[0]) = 0
    BY <2>1, EmptySeq
  <2> QED
    BY <2>2
<1>4. ASSUME NEW n \in Nat, n \in T PROVE n + 1 \in T
  <2>1. ASSUME n + 1 <= m, NEW i \in 1..Len(f[n + 1])
        PROVE  f[n + 1][i] \notin Erased
    <3>1. n + 1 \in 0..Len(text) /\ n + 1 # 0 /\ (n + 1) - 1 = n
      BY <1>2, <2>1
    <3>2. PICK k : k = f[n] /\ k \in Seq(Char)
      <4>1. n \in 0..Len(text)
        BY <1>2, <2>1
      <4>2. f[n] \in Seq(Char)
        BY <4>1
      <4> QED
        BY <4>2
    <3>3. \A j \in 1..Len(k) : k[j] \notin Erased
      BY <1>4, <2>1, <3>2
    <3>4. f[n + 1] = IF text[n + 1] \in Erased THEN k
                     ELSE Append(k, text[n + 1])
      BY <1>1, <3>1, <3>2 DEF KeptFrom
    <3>5. CASE text[n + 1] \in Erased
      BY <2>1, <3>3, <3>4, <3>5
    <3>6. CASE text[n + 1] \notin Erased
      <4>1. PICK c \in Char : c = text[n + 1]
        BY <3>1
      <4>2. f[n + 1] = Append(k, c)
        BY <3>4, <3>6, <4>1
      <4>3. PICK l \in Nat : l = Len(k)
        BY <3>2
      <4>4. /\ Len(Append(k, c)) = l + 1
            /\ \A j \in 1..l : Append(k, c)[j] = k[j]
            /\ Append(k, c)[l + 1] = c
        BY <3>2, <4>3, AppendProperties
      <4>5. i \in 1..l \/ i = l + 1
        BY <2>1, <4>2, <4>4
      <4> QED
        BY <3>3, <3>6, <4>1, <4>2, <4>3, <4>4, <4>5
    <3> QED
      BY <3>5, <3>6
  <2> QED
    BY <2>1
<1>5. \A n \in Nat : n \in T
  <2> HIDE DEF T
  <2> QED
    BY <1>3, <1>4, SetInduction
<1>6. \A i \in 1..Len(f[m]) : f[m][i] \notin Erased
  BY <1>5
<1> QED
  BY <1>1, <1>2, <1>6

(* All of an ordinary text is kept. *)
LEMMA OrdinaryIsKept ==
  ASSUME NEW text \in Seq(Char), Ordinary(text)
  PROVE  Kept(text) = text
<1>1. PICK f \in [0..Len(text) -> Seq(Char)] :
        KeptFrom(f, text) /\ Kept(text) = f[Len(text)]
  BY KeptIsBuilt
<1>2. PICK m \in Nat : m = Len(text)
  OBVIOUS
<1> DEFINE T == {n \in Nat : n <= m => f[n] = SubSeq(text, 1, n)}
<1>3. 0 \in T
  <2>1. f[0] = <<>>
    BY <1>1, <1>2 DEF KeptFrom
  <2>2. SubSeq(text, 1, 0) = <<>>
    BY SubSeqEmpty
  <2> QED
    BY <2>1, <2>2
<1>4. ASSUME NEW n \in Nat, n \in T PROVE n + 1 \in T
  <2>1. ASSUME n + 1 <= m PROVE f[n + 1] = SubSeq(text, 1, n + 1)
    <3>1. n + 1 \in 0..Len(text) /\ n + 1 # 0 /\ (n + 1) - 1 = n
      BY <1>2, <2>1
    <3>2. text[n + 1] \notin Erased
      BY <1>2, <3>1 DEF Ordinary
    <3>3. f[n + 1] = Append(f[n], text[n + 1])
      BY <1>1, <3>1, <3>2 DEF KeptFrom
    <3>4. n + 1 \in 1..Len(text)
      BY <3>1
    <3>5. SubSeq(text, 1, n + 1) = Append(SubSeq(text, 1, n), text[n + 1])
      <4>1. SubSeq(text, 1, n + 1)
              = Append(SubSeq(text, 1, (n + 1) - 1), text[n + 1])
        BY <3>4, SubSeqGrows
      <4> QED
        BY <3>1, <4>1
    <3>6. f[n] = SubSeq(text, 1, n)
      BY <1>4, <2>1
    <3> QED
      BY <3>3, <3>5, <3>6
  <2> QED
    BY <2>1
<1>5. \A n \in Nat : n \in T
  <2> HIDE DEF T
  <2> QED
    BY <1>3, <1>4, SetInduction
<1>6. f[m] = SubSeq(text, 1, m)
  BY <1>5
<1>7. SubSeq(text, 1, m) = text
  BY <1>2, SubSeqFull
<1> QED
  BY <1>1, <1>2, <1>6, <1>7

(* escapeCsv loses line breaks, tabs and double quotes and nothing else:   *)
(* no text comes out with one of them, so that no record takes two lines,  *)
(* and a text without them comes out as it went in.                        *)
THEOREM EscapingLosesLittle ==
  \A text \in Seq(STRING) :
    /\ Ordinary(Sanitized(text))
    /\ Ordinary(text) => Sanitized(text) = text
<1> SUFFICES ASSUME NEW text \in Seq(STRING)
             PROVE  /\ Ordinary(Sanitized(text))
                    /\ Ordinary(text) => Sanitized(text) = text
  OBVIOUS
<1>1. text \in Seq(Char)
  BY TextsHaveChars
<1>2. PICK k : k = Kept(text) /\ k \in Seq(Char)
  BY <1>1, KeptType
<1>3. PICK q : q = Sanitized(text) /\ q \in Seq(Char)
  BY <1>1, SanitizedIsUnquoted DEF Unquoted
<1>4. q = [i \in 1..Len(k) |-> IF k[i] = Quote THEN "'" ELSE k[i]]
  BY <1>2, <1>3 DEF Sanitized
<1>5. PICK n \in Nat : n = Len(k)
  BY <1>2
<1>6. Len(q) = n /\ \A i \in 1..n : q[i] = IF k[i] = Quote THEN "'" ELSE k[i]
  <2>1. DOMAIN q = 1..n
    BY <1>4, <1>5
  <2> QED
    BY <1>3, <1>4, <1>5, <2>1
<1>7. "'" \notin Erased \cup {Quote}
  BY DEF Erased, Quote
<1>8. \A i \in 1..n : k[i] \notin Erased
  BY <1>1, <1>2, <1>5, KeptIsClean
<1>9. Ordinary(q)
  BY <1>6, <1>7, <1>8 DEF Ordinary
<1>10. ASSUME Ordinary(text) PROVE q = text
  <2>1. k = text
    BY <1>1, <1>2, <1>10, OrdinaryIsKept
  <2>2. \A i \in 1..n : k[i] # Quote
    BY <1>5, <1>10, <2>1 DEF Ordinary
  <2>3. \A i \in 1..n : q[i] = k[i]
    BY <1>6, <2>2
  <2>4. q = k
    BY <1>2, <1>3, <1>5, <1>6, <2>3, SeqEqual
  <2> QED
    BY <2>1, <2>4
<1> QED
  BY <1>3, <1>9, <1>10

-----------------------------------------------------------------------------
(* The specification. *)

(* Every response of status 200 is the file of the rows it was made of,    *)
(* and these are rows of the table's type.                                 *)
XInv ==
  /\ ExportTypeOK
  /\ fetched \in [Clients -> Seq(Row)]
  /\ response \in [Clients -> [status : Nat, body : Seq(Char)]]
  /\ \A r \in Clients : response[r].status = 200 =>
       response[r].body = GenerateCsv(fetched[r])

(* A new row has the type of rows. *)
LEMMA InsertedType ==
  ASSUME NEW table \in Seq(Row), NEW c \in Chats
  PROVE  Inserted(table, c) \in Seq(Row)
<1>1. PICK row : row = [chat_id |-> c, state |-> WaitingName,
                        message_id |-> 0, answers |-> Blank]
  OBVIOUS
<1>2. Blank \in Answers
  BY DEF Blank, Answers
<1>3. WaitingName \in States
  BY DEF States, Waiting
<1>4. row \in Row
  BY <1>1, <1>2, <1>3 DEF Row
<1>5. Append(table, row) \in Seq(Row)
  BY <1>4, AppendProperties
<1> QED
  BY <1>1, <1>5 DEF Inserted

(* So has a row with one more answer. *)
LEMMA AnsweredType ==
  ASSUME NEW table \in Seq(Row), NEW i \in DOMAIN table, NEW f \in Fields,
         NEW x \in Texts
  PROVE  Updated(table, SetAnswer(Snapshot(table, i), f, x)) \in Seq(Row)
<1>1. PICK old : old = table[i] /\ old \in Row
  OBVIOUS
<1>2. PICK o : o = SetAnswer(Snapshot(table, i), f, x)
  OBVIOUS
<1>3. /\ o.id = i /\ o.row.answers = [old.answers EXCEPT ![f] = x]
      /\ o.dirty = {f}
      /\ o.row.state = old.state /\ o.row.message_id = old.message_id
  BY <1>1, <1>2 DEF SetAnswer, Snapshot, Row
<1>4. PICK new :
        new = [chat_id    |-> old.chat_id,
               state      |-> IF "state" \in UpdateColumns(o)
                                THEN o.row.state ELSE old.state,
               message_id |-> IF "message_id" \in UpdateColumns(o)
                                THEN o.row.message_id ELSE old.message_id,
               answers    |-> [g \in Fields |-> IF g \in UpdateColumns(o)
                                                  THEN o.row.answers[g]
                                                  ELSE old.answers[g]]]
  OBVIOUS
<1>5. new \in Row
  <2>1. old.answers \in Answers /\ o.row.answers \in Answers
    BY <1>1, <1>3 DEF Row, Answers
  <2>2. new.answers \in Answers
    BY <1>4, <2>1 DEF Answers
  <2>3. new.state = old.state /\ new.message_id = old.message_id
    BY <1>3, <1>4
  <2> QED
    BY <1>1, <1>4, <2>2, <2>3 DEF Row
<1>6. Updated(table, o) = [table EXCEPT ![i] = new]
  BY <1>1, <1>3, <1>4 DEF Updated
<1>7. [table EXCEPT ![i] = new] \in Seq(Row)
  <2>1. i \in 1..Len(table)
    OBVIOUS
  <2> QED
    BY <1>5, <2>1, ExceptSeq
<1> QED
  BY <1>2, <1>6, <1>7

(* The file of a table is a text. *)
LEMMA CsvType ==
  ASSUME NEW rows \in Seq(Row)
  PROVE  GenerateCsv(rows) \in Seq(Char)
BY ReadsFile DEF Reads

(* At the start nobody has got a response. *)
LEMMA XInvInit == Init => XInv
<1> SUFFICES ASSUME Init PROVE XInv
  OBVIOUS
<1>1. <<>> \in Seq(Row) /\ <<>> \in Seq(Char)
  BY EmptySeq
<1>2. MaxWrites \in Nat /\ MaxFaults \in Nat
  BY ExportAssumption
<1>3. \A r \in Clients : response[r].status = 0 /\ stage[r] = "none"
  BY DEF Init, NoResponse
<1>4. ExportTypeOK
  BY <1>1, <1>2, <1>3 DEF Init, ExportTypeOK
<1>5. response \in [Clients -> [status : Nat, body : Seq(Char)]]
  BY <1>1 DEF Init, NoResponse
<1> QED
  BY <1>1, <1>3, <1>4, <1>5 DEF Init, XInv

(* A response with another status is a response. *)
LEMMA RefusalType ==
  ASSUME NEW S, NEW x \in [status : Nat, body : S]
  PROVE  [x EXCEPT !.status = 403] \in [status : Nat, body : S]
OBVIOUS

(* exportCsv up to the table. *)
LEMMA RequestXInv ==
  ASSUME XInv, NEW r \in Clients, Request(r)
  PROVE  XInv'
<1> USE DEF XInv, ExportTypeOK
<1>1. CASE /\ stage' = [stage EXCEPT ![r] = "answered"]
           /\ response' = [response EXCEPT ![r].status = 403]
  <2>1. \A q \in Clients :
          /\ stage'[q] = IF q = r THEN "answered" ELSE stage[q]
          /\ response'[q].status = IF q = r THEN 403 ELSE response[q].status
          /\ response'[q].body = response[q].body
    <3> SUFFICES ASSUME NEW q \in Clients
                 PROVE  /\ stage'[q] = IF q = r THEN "answered" ELSE stage[q]
                        /\ response'[q].status
                             = IF q = r THEN 403 ELSE response[q].status
                        /\ response'[q].body = response[q].body
      OBVIOUS
    <3>1. stage'[q] = IF q = r THEN "answered" ELSE stage[q]
      BY <1>1
    <3>2. response'[q] = IF q = r THEN [response[r] EXCEPT !.status = 403]
                         ELSE response[q]
      BY <1>1
    <3>3. response[r] \in [status : Nat, body : Seq(Char)]
      OBVIOUS
    <3> QED
      BY <3>1, <3>2, <3>3
  <2>2. response' \in [Clients -> [status : Nat, body : Seq(Char)]]
    <3>1. PICK new : new = [response[r] EXCEPT !.status = 403]
      OBVIOUS
    <3>2. new \in [status : Nat, body : Seq(Char)]
      <4>1. response[r] \in [status : Nat, body : Seq(Char)]
        OBVIOUS
      <4> QED
        BY <3>1, <4>1, RefusalType
    <3>3. response' = [response EXCEPT ![r] = new]
      BY <1>1, <3>1
    <3> QED
      BY <3>2, <3>3
  <2>3. stage' \in [Clients -> {"none", "findAll", "answered"}]
    BY <1>1
  <2>4. ExportTypeOK'
    BY <2>1, <2>3 DEF Request
  <2> QED
    BY <2>1, <2>2, <2>4 DEF Request
<1>2. CASE /\ stage' = [stage EXCEPT ![r] = "findAll"]
           /\ UNCHANGED response
  <2>1. \A q \in Clients :
          stage'[q] = IF q = r THEN "findAll" ELSE stage[q]
    BY <1>2
  <2>2. stage' \in [Clients -> {"none", "findAll", "answered"}]
    BY <1>2
  <2>3. ExportTypeOK'
    BY <1>2, <2>1, <2>2 DEF Request
  <2> QED
    BY <1>2, <2>3 DEF Request
<1> QED
  BY <1>1, <1>2 DEF Request

(* A response with the file of some rows. *)
LEMMA RespondXInv ==
  ASSUME XInv, NEW r \in Clients, NEW rows \in Seq(Row), Respond(r, rows),
         up' \in BOOLEAN, faults' \in 0..MaxFaults
  PROVE  XInv'
<1> USE DEF XInv, ExportTypeOK
<1>1. PICK csv : csv = GenerateCsv(rows) /\ csv \in Seq(Char)
  BY CsvType
<1>2. response' = [response EXCEPT ![r] = [status |-> 200, body |-> csv]]
  BY <1>1 DEF Respond
<1>3. \A q \in Clients :
        /\ stage'[q] = IF q = r THEN "answered" ELSE stage[q]
        /\ response'[q] = IF q = r THEN [status |-> 200, body |-> csv]
                          ELSE response[q]
        /\ fetched'[q] = IF q = r THEN rows ELSE fetched[q]
  BY <1>2 DEF Respond
<1>4. \A q \in Clients :
         /\ response'[q].status = IF q = r THEN 200 ELSE response[q].status
         /\ response'[q].body = IF q = r THEN csv ELSE response[q].body
  BY <1>3
<1>5. response' \in [Clients -> [status : Nat, body : Seq(Char)]]
  BY <1>1, <1>2
<1>6. /\ stage' \in [Clients -> {"none", "findAll", "answered"}]
      /\ fetched' \in [Clients -> Seq(Row)]
  BY DEF Respond
<1>7. \A q \in Clients :
        response'[q].status
          \in IF stage'[q] = "answered" THEN {200, 403} ELSE {0}
  BY <1>3, <1>4
<1>8. ExportTypeOK'
  BY <1>6, <1>7 DEF Respond
<1>9. \A q \in Clients : response'[q].status = 200 =>
        response'[q].body = GenerateCsv(fetched'[q])
  <2> SUFFICES ASSUME NEW q \in Clients, response'[q].status = 200
               PROVE  response'[q].body = GenerateCsv(fetched'[q])
    OBVIOUS
  <2>1. CASE q = r
    BY <1>1, <1>3, <1>4, <2>1
  <2>2. CASE q # r
    BY <1>3, <1>4, <2>2
  <2> QED
    BY <2>1, <2>2
<1> QED
  BY <1>5, <1>6, <1>8, <1>9

(* generateCsv, with its failures. *)
LEMMA FindAllXInv ==
  ASSUME XInv, NEW r \in Clients, FindAll(r)
  PROVE  XInv'
<1>1. registrations \in Seq(Row) /\ <<>> \in Seq(Row)
  BY EmptySeq DEF XInv, ExportTypeOK
<1>2. MaxFaults \in Nat /\ faults \in 0..MaxFaults /\ up \in BOOLEAN
  BY ExportAssumption DEF XInv, ExportTypeOK
<1>3. CASE Respond(r, registrations) /\ UNCHANGED faults
  <2>1. up' = up
    BY <1>3 DEF Respond
  <2> QED
    BY <1>1, <1>2, <1>3, <2>1, RespondXInv
<1>4. CASE faults < MaxFaults /\ faults' = faults + 1 /\ Respond(r, <<>>)
  <2>1. faults' \in 0..MaxFaults /\ up' = up
    BY <1>2, <1>4 DEF Respond
  <2> QED
    BY <1>1, <1>2, <1>4, <2>1, RespondXInv
<1>5. CASE /\ faults < MaxFaults /\ faults' = faults + 1
           /\ up' = FALSE
           /\ UNCHANGED <<registrations, stage, response, fetched, writes>>
  <2>1. faults' \in 0..MaxFaults
    BY <1>2, <1>5
  <2>2. /\ registrations' = registrations /\ stage' = stage
        /\ response' = response /\ fetched' = fetched /\ writes' = writes
        /\ up' \in BOOLEAN
    BY <1>5
  <2>3. ExportTypeOK'
    <3>1. \A q \in Clients :
            response'[q].status
              \in IF stage'[q] = "answered" THEN {200, 403} ELSE {0}
      BY <2>2 DEF XInv, ExportTypeOK
    <3>2. /\ registrations' \in Seq(Row)
          /\ stage' \in [Clients -> {"none", "findAll", "answered"}]
          /\ writes' \in 0..MaxWrites
      BY <2>2, Zenon DEF XInv, ExportTypeOK
    <3> QED
      BY <2>1, <2>2, <3>1, <3>2, Zenon DEF ExportTypeOK
  <2> QED
    BY <2>2, <2>3 DEF XInv
<1> QED
  BY <1>3, <1>4, <1>5 DEF FindAll

(* Every step keeps the invariant. *)
LEMMA XInvStep == XInv /\ [Next]_vars => XInv'
<1> SUFFICES ASSUME XInv, [Next]_vars PROVE XInv'
  OBVIOUS
<1>1. CASE \E r \in Clients : Request(r) \/ FindAll(r)
  BY <1>1, RequestXInv, FindAllXInv
<1>2. ASSUME NEW c \in Chats, Save(c) PROVE XInv'
  <2>1. registrations' \in Seq(Row)
    BY <1>2, InsertedType DEF Save, XInv, ExportTypeOK
  <2> QED
    BY <1>2, <2>1 DEF Save, XInv, ExportTypeOK
<1>3. ASSUME NEW i \in DOMAIN registrations, NEW f \in Fields,
             NEW x \in Texts, Update(i, f, x)
      PROVE  XInv'
  <2>1. registrations' \in Seq(Row)
    BY <1>3, AnsweredType DEF Update, XInv, ExportTypeOK
  <2>2. writes' \in 0..MaxWrites
    BY <1>3, ExportAssumption DEF Update, XInv, ExportTypeOK
  <2> QED
    BY <1>3, <2>1, <2>2 DEF Update, XInv, ExportTypeOK
<1>4. CASE UNCHANGED vars
  BY <1>4 DEF vars, XInv, ExportTypeOK
<1> QED
  BY <1>1, <1>2, <1>3, <1>4 DEF Next

(* At all times the responses are files of rows. *)
THEOREM ResponsesAreFiles == Spec => []XInv
BY XInvInit, XInvStep, PTL DEF Spec

(* exportCsv: types, for any number of requests, rows, writes and faults;  *)
(* a request that is over has got its response, and no other has.          *)
THEOREM ExportTyping == Spec => []ExportTypeOK
<1>1. XInv => ExportTypeOK
  BY DEF XInv
<1> QED
  BY <1>1, ResponsesAreFiles, PTL

(* exportCsv and generateCsv: every file that anybody has got, whatever    *)
(* was written to the table in the meantime and whatever has failed, reads *)
(* back as the rows it was made of.                                        *)
THEOREM FilesReadBack == Spec => []ExportReadsBack
<1>1. XInv => ExportReadsBack
  BY EveryTableReadsBack DEF XInv, ExportReadsBack
<1> QED
  BY <1>1, ResponsesAreFiles, PTL

=============================================================================
