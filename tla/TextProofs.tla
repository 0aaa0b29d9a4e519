----------------------------- MODULE TextProofs -----------------------------
(***************************************************************************)
(* Proofs about the functions of Text, for texts of any length and buffers *)
(* of any size.                                                            *)
(***************************************************************************)
EXTENDS Text, Recursion

\* What is typed is a text of some kind.
TextTyped == kind \in Kind /\ text \in Seq(Byte)

\* It always is: one byte at a time of the alphabet of its kind.
LEMMA AlwaysTextTyped == Spec => []TextTyped
  <1>1. Init => TextTyped
    BY DEF Init, TextTyped
  <1>2. TextTyped /\ [Next]_vars => TextTyped'
    <2> SUFFICES ASSUME TextTyped, [Next]_vars PROVE TextTyped'
      OBVIOUS
    <2>1. ASSUME NEW b \in Alphabet[kind], Type(b) PROVE TextTyped'
      <3>1. b \in Byte
        BY TextAssumption DEF TextTyped
      <3> QED BY <2>1, <3>1 DEF Type, TextTyped
    <2> QED BY <2>1 DEF Next, vars, TextTyped
  <1> QED BY <1>1, <1>2, PTL DEF Spec

-----------------------------------------------------------------------------
(***************************************************************************)
(* Names of users.                                                         *)
(***************************************************************************)
\* users_username_is_safe and owner_is_safe accept the same names: the first
\* byte that one of them forbids is none of those they share.
THEOREM AnyUserCanOwn == Spec => []UsersCanOwn
  <1>1. TextTyped => UsersCanOwn
    <2> SUFFICES ASSUME text \in Seq(Byte) PROVE SafeUsername(text) <=> SafeOwner(text)
      BY DEF TextTyped, UsersCanOwn
    <2>1. Dot \notin NameByte
      BY DEF Dot, NameByte, Alnum
    <2>2. Len(text) \in 1..(UserSize - 1) => Head(text) = text[1] /\ 1 \in DOMAIN text
      BY TextAssumption
    <2> QED BY <2>1, <2>2 DEF SafeUsername, SafeOwner
  <1> QED BY <1>1, AlwaysTextTyped, PTL

-----------------------------------------------------------------------------
(***************************************************************************)
(* Parts of a text.                                                        *)
(***************************************************************************)
\* Texts of the same bytes are the same text.
LEMMA SameText ==
  ASSUME NEW s \in Seq(Byte), NEW t \in Seq(Byte), Len(s) = Len(t),
         \A i \in 1..Len(s) : s[i] = t[i]
  PROVE  s = t
  OBVIOUS

LEMMA TakeIs ==
  ASSUME NEW s \in Seq(Byte), NEW n \in Nat
  PROVE  /\ Take(s, n) \in Seq(Byte)
         /\ Len(Take(s, n)) = IF n < Len(s) THEN n ELSE Len(s)
         /\ \A i \in 1..Len(Take(s, n)) : Take(s, n)[i] = s[i]
  BY DEF Take

LEMMA DropIs ==
  ASSUME NEW s \in Seq(Byte), NEW n \in Nat
  PROVE  /\ Drop(s, n) \in Seq(Byte)
         /\ Len(Drop(s, n)) = IF n < Len(s) THEN Len(s) - n ELSE 0
         /\ \A i \in 1..Len(Drop(s, n)) : Drop(s, n)[i] = s[n + i]
  BY DEF Drop

\* Before stops at the first b.
LEMMA BeforeIs ==
  ASSUME NEW s \in Seq(Byte), NEW b \in Byte
  PROVE  \E n \in 0..Len(s) :
            /\ Before(s, b) = Take(s, n) /\ Len(Before(s, b)) = n
            /\ \A i \in 1..n : s[i] # b
            /\ n < Len(s) => s[n + 1] = b
  <1> DEFINE stops == {i \in DOMAIN s : s[i] = b}
  <1>1. DOMAIN s = 1..Len(s) /\ Len(s) \in Nat
    OBVIOUS
  <1>2. CASE stops = {}
    <2>1. Before(s, b) = s
      BY <1>2 DEF Before
    <2>2. Take(s, Len(s)) = s
      BY TakeIs, SameText
    <2>3. \A i \in 1..Len(s) : s[i] # b
      BY <1>1, <1>2
    <2>4. Before(s, b) = Take(s, Len(s)) /\ Len(Before(s, b)) = Len(s) /\ Len(s) \in 0..Len(s)
          /\ ~(Len(s) < Len(s))
      BY <1>1, <2>1, <2>2
    <2> QED BY <2>3, <2>4
  <1>3. CASE stops # {}
    <2> DEFINE first == CHOOSE i \in stops : \A j \in stops : i <= j
    <2>1. first \in stops /\ \A j \in stops : first <= j
      <3>1. stops \subseteq Nat
        BY <1>1
      <3> HIDE DEF stops
      <3>2. \E i \in stops : \A j \in stops : i <= j
        BY <1>3, <3>1, Least
      <3> QED BY <3>2
    <2>2. Before(s, b) = Take(s, first - 1)
      BY <1>3 DEF Before
    <2> HIDE DEF first
    <2>3. first - 1 \in 0..Len(s) /\ first - 1 < Len(s) /\ first - 1 + 1 = first
      BY <1>1, <2>1
    <2>4. \A i \in 1..(first - 1) : s[i] # b
      BY <1>1, <2>1
    <2>5. Len(Take(s, first - 1)) = first - 1
      BY <2>3, TakeIs
    <2> QED BY <2>1, <2>2, <2>3, <2>4, <2>5
  <1> QED BY <1>2, <1>3

\* And nothing else does.
LEMMA BeforeOnly ==
  ASSUME NEW s \in Seq(Byte), NEW b \in Byte, NEW n \in 0..Len(s),
         \A i \in 1..n : s[i] # b, n < Len(s) => s[n + 1] = b
  PROVE  Before(s, b) = Take(s, n) /\ Len(Before(s, b)) = n
  <1>1. PICK m \in 0..Len(s) :
            /\ Before(s, b) = Take(s, m) /\ Len(Before(s, b)) = m
            /\ \A i \in 1..m : s[i] # b
            /\ m < Len(s) => s[m + 1] = b
    BY BeforeIs
  <1>2. m = n
    BY <1>1
  <1> QED BY <1>1, <1>2
LEMMA TakeTake ==
  ASSUME NEW s \in Seq(Byte), NEW m \in Nat, NEW n \in Nat
  PROVE  Take(Take(s, m), n) = Take(s, IF n < m THEN n ELSE m)
  <1> DEFINE k == IF n < m THEN n ELSE m
             t == Take(s, m)
  <1>1. /\ t \in Seq(Byte) /\ Len(t) = (IF m < Len(s) THEN m ELSE Len(s))
        /\ \A i \in 1..Len(t) : t[i] = s[i]
    BY TakeIs
  <1> HIDE DEF t
  <1>2. /\ Take(t, n) \in Seq(Byte) /\ Len(Take(t, n)) = (IF n < Len(t) THEN n ELSE Len(t))
        /\ \A i \in 1..Len(Take(t, n)) : Take(t, n)[i] = t[i]
    BY <1>1, TakeIs
  <1>3. /\ Take(s, k) \in Seq(Byte) /\ Len(Take(s, k)) = (IF k < Len(s) THEN k ELSE Len(s))
        /\ \A i \in 1..Len(Take(s, k)) : Take(s, k)[i] = s[i]
    <2>1. k \in Nat
      OBVIOUS
    <2> QED BY <2>1, TakeIs
  <1>4. Len(Take(t, n)) = Len(Take(s, k)) /\ Len(Take(t, n)) <= Len(t)
    BY <1>1, <1>2, <1>3
  <1>5. \A i \in 1..Len(Take(t, n)) : Take(t, n)[i] = Take(s, k)[i]
    BY <1>1, <1>2, <1>3, <1>4
  <1>6. Take(t, n) = Take(s, k)
    BY <1>2, <1>3, <1>4, <1>5, SameText
  <1> QED BY <1>6 DEF t

LEMMA DropDrop ==
  ASSUME NEW s \in Seq(Byte), NEW m \in Nat, NEW n \in Nat
  PROVE  Drop(Drop(s, m), n) = Drop(s, m + n)
  <1> DEFINE t == Drop(s, m)
  <1>1. /\ t \in Seq(Byte) /\ Len(t) = (IF m < Len(s) THEN Len(s) - m ELSE 0)
        /\ \A i \in 1..Len(t) : t[i] = s[m + i]
    BY DropIs
  <1> HIDE DEF t
  <1>2. /\ Drop(t, n) \in Seq(Byte) /\ Len(Drop(t, n)) = (IF n < Len(t) THEN Len(t) - n ELSE 0)
        /\ \A i \in 1..Len(Drop(t, n)) : Drop(t, n)[i] = t[n + i]
    BY <1>1, DropIs
  <1>3. /\ Drop(s, m + n) \in Seq(Byte)
        /\ Len(Drop(s, m + n)) = (IF m + n < Len(s) THEN Len(s) - (m + n) ELSE 0)
        /\ \A i \in 1..Len(Drop(s, m + n)) : Drop(s, m + n)[i] = s[m + n + i]
    BY DropIs
  <1>4. Len(Drop(t, n)) = Len(Drop(s, m + n)) /\ Len(Drop(t, n)) > 0 => Len(Drop(t, n)) + n = Len(t)
    BY <1>1, <1>2, <1>3
  <1>5. \A i \in 1..Len(Drop(t, n)) : Drop(t, n)[i] = Drop(s, m + n)[i]
    <2> SUFFICES ASSUME NEW i \in 1..Len(Drop(t, n)) PROVE Drop(t, n)[i] = Drop(s, m + n)[i]
      OBVIOUS
    <2>1. n + i \in 1..Len(t) /\ i \in 1..Len(Drop(s, m + n)) /\ m + (n + i) = m + n + i
      BY <1>1, <1>2, <1>3
    <2> QED BY <1>1, <1>2, <1>3, <2>1
  <1>6. Len(Drop(t, n)) = Len(Drop(s, m + n))
    BY <1>1, <1>2, <1>3
  <1>7. Drop(t, n) = Drop(s, m + n)
    BY <1>2, <1>3, <1>5, <1>6, SameText
  <1> QED BY <1>7 DEF t

-----------------------------------------------------------------------------
(***************************************************************************)
(* Lines.  Line(s, p): the first line of s has p bytes.                    *)
(***************************************************************************)
Line(s, p) == /\ p \in 0..Len(s) /\ \A i \in 1..p : s[i] # NL
              /\ p < Len(s) => s[p + 1] = NL

LEMMA LineIs ==
  ASSUME NEW s \in Seq(Byte)
  PROVE  \E p \in 0..Len(s) : Line(s, p)
  <1>1. NL \in Byte
    BY DEF NL, Byte
  <1> QED BY <1>1, BeforeIs DEF Line

LEMMA LineTaken ==
  ASSUME NEW s \in Seq(Byte), NEW p \in 0..Len(s), Line(s, p)
  PROVE  /\ p \in Nat /\ Before(s, NL) = Take(s, p) /\ Len(Before(s, NL)) = p
         /\ AfterLine(s) = Drop(s, p + 1)
         /\ Has(s, NL) <=> p < Len(s)
  <1>1. Before(s, NL) = Take(s, p) /\ Len(Before(s, NL)) = p
    BY BeforeOnly DEF Line, NL, Byte
  <1>2. Has(s, NL) <=> p < Len(s)
    <2>1. DOMAIN s = 1..Len(s) /\ Len(s) \in Nat
      OBVIOUS
    <2>2. CASE p < Len(s)
      <3>1. p + 1 \in DOMAIN s /\ s[p + 1] = NL
        BY <2>1, <2>2 DEF Line
      <3> QED BY <2>2, <3>1 DEF Has
    <2>3. CASE p = Len(s)
      BY <2>1, <2>3 DEF Line, Has
    <2>4. p < Len(s) \/ p = Len(s)
      <3>1. p \in Nat /\ Len(s) \in Nat /\ p <= Len(s)
        BY <2>1
      <3> QED BY ONLY <3>1
    <2> QED BY <2>2, <2>3, <2>4
  <1> QED BY <1>1, <1>2 DEF AfterLine, Line

\* fgets takes a line with its newline, or what fits of it.
LEMMA FgetsIs ==
  ASSUME NEW s \in Seq(Byte), NEW p \in 0..Len(s), Line(s, p), NEW size \in Nat \ {0, 1}
  PROVE  Fgets(s, size) = Take(s, IF p + 1 < size - 1 THEN p + 1 ELSE size - 1)
  <1>1. p \in Nat /\ p <= Len(s) /\ Before(s, NL) = Take(s, p) /\ (Has(s, NL) <=> p < Len(s))
        /\ size - 1 \in Nat /\ Len(s) \in Nat
    BY LineTaken DEF Line
  <1>2. CASE p < Len(s)
    <2>1. /\ Take(s, p) \in Seq(Byte) /\ Len(Take(s, p)) = p
          /\ \A i \in 1..p : Take(s, p)[i] = s[i]
      BY <1>1, <1>2, TakeIs
    <2>2. /\ Take(s, p + 1) \in Seq(Byte) /\ Len(Take(s, p + 1)) = p + 1
          /\ \A i \in 1..(p + 1) : Take(s, p + 1)[i] = s[i]
      BY <1>1, <1>2, TakeIs
    <2>3. /\ Append(Take(s, p), NL) \in Seq(Byte) /\ Len(Append(Take(s, p), NL)) = p + 1
          /\ \A i \in 1..p : Append(Take(s, p), NL)[i] = s[i]
          /\ Append(Take(s, p), NL)[p + 1] = NL
      BY <1>1, <2>1 DEF NL, Byte
    <2>4. \A i \in 1..(p + 1) : i \in 1..p \/ i = p + 1
      BY <1>1
    <2>5. \A i \in 1..(p + 1) : Append(Take(s, p), NL)[i] = Take(s, p + 1)[i]
      BY <1>1, <1>2, <2>2, <2>3, <2>4 DEF Line
    <2>6. Append(Take(s, p), NL) = Take(s, p + 1)
      BY <2>2, <2>3, <2>5, SameText
    <2>7. Fgets(s, size) = Take(Take(s, p + 1), size - 1)
      BY <1>1, <1>2, <2>6 DEF Fgets
    <2>8. \/ size - 1 < p + 1 /\ ~(p + 1 < size - 1)
          \/ size - 1 = p + 1
          \/ p + 1 < size - 1 /\ ~(size - 1 < p + 1)
      BY <1>1
    <2> QED BY <1>1, <2>7, <2>8, TakeTake
  <1>3. CASE p = Len(s)
    <2>1. Fgets(s, size) = Take(Take(s, p), size - 1)
      BY <1>1, <1>3 DEF Fgets
    <2>2. Take(s, p) = s
      BY <1>1, <1>3, TakeIs, SameText
    <2>3. CASE p + 1 < size - 1
      BY <1>1, <1>3, <2>1, <2>2, <2>3 DEF Take
    <2>4. CASE ~(p + 1 < size - 1)
      BY <2>1, <2>2, <2>4
    <2> QED BY <2>3, <2>4
  <1> QED BY <1>1, <1>2, <1>3

\* What is left of a line that was cut ends where the line did.
LEMMA RestOfLine ==
  ASSUME NEW s \in Seq(Byte), NEW p \in 0..Len(s), Line(s, p), NEW m \in 0..p
  PROVE  AfterLine(Drop(s, m)) = AfterLine(s)
  <1>1. p \in Nat /\ m \in Nat /\ Len(s) \in Nat /\ p <= Len(s) /\ AfterLine(s) = Drop(s, p + 1)
    BY LineTaken DEF Line
  <1> DEFINE t == Drop(s, m)
  <1>2. /\ t \in Seq(Byte) /\ Len(t) = Len(s) - m
        /\ \A i \in 1..Len(t) : t[i] = s[m + i]
    BY <1>1, DropIs
  <1> HIDE DEF t
  <1>3. p - m \in 0..Len(t)
    BY <1>1, <1>2
  <1>4. ASSUME NEW i \in 1..(p - m) PROVE t[i] # NL
    <2>1. m + i \in 1..p /\ i \in 1..Len(t)
      BY <1>1, <1>2
    <2> QED BY <1>2, <2>1 DEF Line
  <1>5. ASSUME p - m < Len(t) PROVE t[p - m + 1] = NL
    <2>1. p < Len(s) /\ p - m + 1 \in 1..Len(t) /\ m + (p - m + 1) = p + 1
      BY <1>1, <1>2, <1>5
    <2> QED BY <1>2, <2>1 DEF Line
  <1>6. Line(t, p - m)
    BY <1>3, <1>4, <1>5 DEF Line
  <1>7. AfterLine(t) = Drop(t, p - m + 1)
    BY <1>2, <1>6, LineTaken
  <1>8. Drop(t, p - m + 1) = Drop(s, m + (p - m + 1)) /\ m + (p - m + 1) = p + 1
    BY <1>1, DropDrop DEF t
  <1> QED BY <1>1, <1>7, <1>8 DEF t
\* A text without a newline, and the beginning of one that a NUL cuts short,
\* do not end in one.
LEMMA NotWhole ==
  ASSUME NEW t \in Seq(Byte), NEW n \in 0..Len(t), \A i \in 1..n : t[i] # NL
  PROVE  ~(Take(t, n) # <<>> /\ Last(Take(t, n)) = NL)
  <1> DEFINE str == Take(t, n)
  <1>1. str \in Seq(Byte) /\ Len(str) = n /\ \A i \in 1..n : str[i] = t[i]
    BY TakeIs
  <1> HIDE DEF str
  <1>2. ASSUME str # <<>> PROVE Last(str) # NL
    <2>1. n \in 1..n /\ Last(str) = str[n]
      BY <1>1, <1>2 DEF Last
    <2> QED BY <1>1, <2>1
  <1> QED BY <1>2 DEF str

LEMMA NulIs ==
  ASSUME NEW t \in Seq(Byte)
  PROVE  \E q \in 0..Len(t) :
            /\ Before(t, NUL) = Take(t, q)
            /\ \A i \in 1..q : t[i] # NUL
            /\ q < Len(t) => t[q + 1] = NUL
  <1>1. NUL \in Byte
    BY DEF NUL, Byte
  <1> QED BY <1>1, BeforeIs

\* What read_line makes of a text.
LEMMA OneRead ==
  ASSUME NEW s \in Seq(Byte), NEW size \in Nat \ {0, 1}
  PROVE  LET got == ReadLine(s, size)
             typed == Before(s, NL)
         IN  /\ got.line = Before(Take(typed, size - 1), NUL)
             /\ got.rest \in {AfterLine(s)} \cup
                    (IF Has(typed, NUL) THEN {AfterLine(AfterLine(s))} ELSE {})
  <1>1. PICK p \in 0..Len(s) : Line(s, p)
    BY LineIs
  <1> DEFINE got == Fgets(s, size)
             typed == Before(s, NL)
             str == Before(got, NUL)
             whole == str # <<>> /\ Last(str) = NL
             left == Drop(s, Len(got))
  <1>2. /\ ReadLine(s, size).line = (IF whole THEN Front(str) ELSE str)
        /\ ReadLine(s, size).rest = (IF whole THEN left ELSE AfterLine(left))
    BY DEF ReadLine
  <1>3. /\ p \in Nat /\ Len(s) \in Nat /\ size - 1 \in Nat /\ p <= Len(s)
        /\ typed = Take(s, p) /\ AfterLine(s) = Drop(s, p + 1)
        /\ typed \in Seq(Byte) /\ Len(typed) = p /\ \A i \in 1..p : typed[i] = s[i]
        /\ got = Take(s, IF p + 1 < size - 1 THEN p + 1 ELSE size - 1)
    BY <1>1, LineTaken, FgetsIs, TakeIs
  <1>4. Take(typed, size - 1) = Take(s, IF size - 1 < p THEN size - 1 ELSE p)
    BY <1>3, TakeTake
  <1>5. SUFFICES /\ (IF whole THEN Front(str) ELSE str) = Before(Take(typed, size - 1), NUL)
                 /\ \/ (IF whole THEN left ELSE AfterLine(left)) = AfterLine(s)
                    \/ /\ Has(typed, NUL)
                       /\ (IF whole THEN left ELSE AfterLine(left)) = AfterLine(AfterLine(s))
    BY <1>2
  <1>6. CASE size - 1 <= p \/ p = Len(s)
    <2>1. got = Take(typed, size - 1)
      <3>1. CASE size - 1 < p
        BY <1>3, <1>4, <3>1
      <3>2. CASE size - 1 = p
        BY <1>3, <1>4, <3>2
      <3>3. CASE p = Len(s) /\ p < size - 1
        BY <1>3, <1>4, <3>3 DEF Take
      <3> QED BY <1>3, <1>6, <3>1, <3>2, <3>3
    <2>2. got \in Seq(Byte) /\ Len(got) \in 0..p /\ \A i \in 1..Len(got) : got[i] = s[i]
      <3>1. \A i \in 1..Len(got) : got[i] = typed[i]
        BY <1>3, <2>1, TakeIs
      <3>2. got \in Seq(Byte) /\ Len(got) \in 0..p
        BY <1>3, <2>1, TakeIs
      <3> QED BY <1>3, <3>1, <3>2
    <2>3. \A i \in 1..Len(got) : got[i] # NL
      BY <1>1, <1>3, <2>2 DEF Line
    <2> HIDE DEF got
    <2>4. ~whole
      <3>1. PICK q \in 0..Len(got) : str = Take(got, q)
        BY <2>2, NulIs
      <3>2. \A i \in 1..q : got[i] # NL
        BY <2>2, <2>3
      <3> QED BY <2>2, <3>1, <3>2, NotWhole
    <2>5. AfterLine(left) = AfterLine(s)
      BY <1>1, <2>2, RestOfLine
    <2> QED BY <2>1, <2>4, <2>5
  <1>7. CASE p < size - 1 /\ p < Len(s)
    <2>1. got = Take(s, p + 1) /\ Take(typed, size - 1) = typed
      BY <1>3, <1>4, <1>7
    <2>2. /\ got \in Seq(Byte) /\ Len(got) = p + 1
          /\ \A i \in 1..(p + 1) : got[i] = s[i]
      BY <1>3, <1>7, <2>1, TakeIs, SMTT(40)
    <2>3. left = AfterLine(s)
      BY <1>3, <2>2
    <2>4. PICK q \in 0..Len(got) :
            /\ str = Take(got, q)
            /\ \A i \in 1..q : got[i] # NUL
            /\ q < Len(got) => got[q + 1] = NUL
      BY <2>2, NulIs
    <2>5. Take(got, p) = typed
      BY <1>3, <1>7, <2>1, TakeTake
    <2> HIDE DEF got, typed
    <2>6. CASE q = p + 1
      <3>1. str = got
        BY <2>2, <2>4, <2>6, TakeIs, SameText
      <3>2. whole /\ Front(str) = typed
        <4>1. got # <<>> /\ Last(got) = got[p + 1] /\ got[p + 1] = NL
          BY <1>1, <1>3, <1>7, <2>2 DEF Last, Line
        <4>2. Front(got) = Take(got, p)
          BY <1>3, <2>2 DEF Front, Take
        <4> QED BY <2>5, <3>1, <4>1, <4>2
      <3>3. Before(typed, NUL) = typed
        <4>1. \A i \in 1..p : typed[i] # NUL
          BY <1>3, <2>2, <2>4, <2>6
        <4>2. NUL \in Byte /\ p \in 0..Len(typed) /\ ~(p < Len(typed))
          BY <1>3 DEF NUL, Byte
        <4>3. Before(typed, NUL) = Take(typed, p)
          BY <1>3, <4>1, <4>2, BeforeOnly
        <4>4. Take(typed, p) = typed
          BY <1>3, TakeIs, SameText
        <4> QED BY <4>3, <4>4
      <3> QED BY <2>1, <2>3, <3>2, <3>3
    <2>7. CASE q <= p
      <3>1. got[q + 1] = NUL /\ got[q + 1] = s[q + 1]
        BY <1>3, <2>2, <2>4, <2>7
      <3>2. s[q + 1] # NL
        BY <3>1 DEF NUL, NL
      <3>3. q < p
        BY <1>1, <1>3, <1>7, <2>7, <3>2 DEF Line
      <3>4. typed[q + 1] = NUL /\ q + 1 \in DOMAIN typed
        BY <1>3, <3>1, <3>3
      <3>5. Has(typed, NUL)
        BY <3>4 DEF Has
      <3>6. ~whole
        <4>1. \A i \in 1..q : got[i] # NL
          BY <1>1, <1>3, <2>2, <3>3 DEF Line
        <4> QED BY <2>2, <2>4, <4>1, NotWhole
      <3>7. Before(typed, NUL) = str
        <4>1. \A i \in 1..q : typed[i] # NUL
          BY <1>3, <2>2, <2>4, <3>3, SMTT(40)
        <4>2. NUL \in Byte /\ q \in 0..Len(typed)
          BY <1>3, <3>3 DEF NUL, Byte
        <4>3. Before(typed, NUL) = Take(typed, q)
          <5>1. typed \in Seq(Byte) /\ (q < Len(typed) => typed[q + 1] = NUL)
            BY <1>3, <3>4
          <5> QED BY <4>1, <4>2, <5>1, BeforeOnly
        <4>4. Take(typed, q) = Take(s, q) /\ Take(got, q) = Take(s, q)
          BY <1>3, <2>1, <3>3, TakeTake
        <4> QED BY <2>4, <4>3, <4>4
      <3> QED BY <2>1, <2>3, <3>5, <3>6, <3>7
    <2> QED BY <1>3, <2>2, <2>4, <2>6, <2>7
  <1>8. (size - 1 <= p \/ p = Len(s)) \/ (p < size - 1 /\ p < Len(s))
    BY <1>3
  <1> QED BY <1>6, <1>7, <1>8

\* However long a line is, read_line gives it to the prompt it was typed for
\* and the next line to the next prompt; a NUL in it costs that next line.
THEOREM ALineAPrompt == Spec => []OneLinePerRead
  <1>1. TextTyped => OneLinePerRead
    <2> SUFFICES ASSUME text \in Seq(Byte) PROVE OneLinePerRead
      BY DEF TextTyped
    <2>1. LineSize \in Nat \ {0, 1}
      BY TextAssumption
    <2> QED BY <2>1, OneRead, Zenon DEF OneLinePerRead
  <1> QED BY <1>1, AlwaysTextTyped, PTL
-----------------------------------------------------------------------------
(***************************************************************************)
(* Names of documents.                                                     *)
(***************************************************************************)
\* A character is no longer than what is left of the name.
LEMMA CharacterFits ==
  ASSUME NEW name \in Seq(Byte), NEW i \in 1..Len(name)
  PROVE  Character(name, i) \in 0..(Len(name) + 1 - i)
  <1> DEFINE s == Drop(name, i - 1)
  <1>1. s \in Seq(Byte) /\ Len(s) = Len(name) + 1 - i /\ Len(s) \in Nat \ {0}
    <2>1. i - 1 \in Nat /\ i - 1 < Len(name) /\ Len(name) \in Nat
      OBVIOUS
    <2>2. s \in Seq(Byte) /\ Len(s) = Len(name) - (i - 1)
      BY <2>1, DropIs
    <2> QED BY <2>1, <2>2
  <1> HIDE DEF s
  <1>2. Utf8Len(s) \in 0..Len(s)
    BY <1>1 DEF Utf8Len
  <1> QED BY <1>1, <1>2 DEF Character, s

\* Walks(name, f): f tells from which bytes a name is accepted to its end.
Walks(name, f) ==
    /\ f \in [1..(Len(name) + 1) -> BOOLEAN]
    /\ f[Len(name) + 1]
    /\ \A i \in 1..Len(name) :
          f[i] <=> Character(name, i) > 0 /\ f[i + Character(name, i)]

LEMMA WalkExists ==
  ASSUME NEW name \in Seq(Byte)
  PROVE  \E f : Walks(name, f)
  <1> DEFINE n == Len(name)
             F == [1..(n + 1) -> BOOLEAN]
             on(i, f) == Character(name, i) > 0 /\ f[i + Character(name, i)]
             op == [p \in (1..n) \X F |-> on(p[1], p[2])]
  <1>1. n \in Nat /\ \A i \in 1..n : Character(name, i) \in 0..(n + 1 - i)
    BY CharacterFits
  <1>2. \A i \in 1..n : Character(name, i) > 0 => i + Character(name, i) \in (i + 1)..(n + 1)
    BY <1>1
  <1>3. op \in [(1..n) \X F -> BOOLEAN] /\ \A i \in 1..n, f \in F : op[<<i, f>>] = on(i, f)
    OBVIOUS
  <1> HIDE DEF op, n
  <1>4. \A i \in 1..n : \A f, g \in F :
            (\A j \in (i + 1)..(n + 1) : f[j] = g[j]) => op[<<i, f>>] = op[<<i, g>>]
    <2> SUFFICES ASSUME NEW i \in 1..n, NEW f \in F, NEW g \in F,
                        \A j \in (i + 1)..(n + 1) : f[j] = g[j]
                 PROVE  on(i, f) = on(i, g)
      BY <1>3, ZenonT(40)
    <2> QED BY <1>2
  <1>5. PICK f : GivenBy(n, BOOLEAN, TRUE, op, f)
    <2>1. LooksAhead(n, BOOLEAN, op)
      BY <1>3, <1>4 DEF LooksAhead
    <2> QED BY <1>1, <2>1, Backwards
  <1>6. \A i \in 1..n : f[i] <=> on(i, f)
    BY <1>3, <1>5 DEF GivenBy
  <1>7. Walks(name, f)
    BY <1>5, <1>6 DEF Walks, n, GivenBy
  <1> QED BY <1>7

\* There is only one such walk.
LEMMA WalkIsOne ==
  ASSUME NEW name \in Seq(Byte), NEW f, NEW g, Walks(name, f), Walks(name, g)
  PROVE  \A i \in 1..(Len(name) + 1) : f[i] <=> g[i]
  <1> DEFINE n == Len(name)
             T == {i \in 1..(n + 1) : f[i] <=> g[i]}
  <1>1. n \in Nat /\ n + 1 \in T
    BY DEF Walks
  <1>2. ASSUME NEW i \in 1..n, \A j \in (i + 1)..(n + 1) : j \in T PROVE i \in T
    <2> DEFINE c == Character(name, i)
    <2>1. c \in 0..(n + 1 - i) /\ i \in 1..(n + 1)
      BY CharacterFits
    <2>2. c > 0 => (f[i + c] <=> g[i + c])
      <3> SUFFICES ASSUME c > 0 PROVE f[i + c] <=> g[i + c]
        OBVIOUS
      <3>1. i + c \in (i + 1)..(n + 1)
        BY <2>1
      <3> QED BY <1>2, <3>1
    <2>3. f[i] <=> g[i]
      BY <2>2 DEF Walks
    <2> QED BY <2>1, <2>3
  <1> HIDE DEF T
  <1>3. \A i \in 1..(n + 1) : i \in T
    BY <1>1, <1>2, Downwards
  <1> QED BY <1>3 DEF T

LEMMA AcceptsWalks ==
  ASSUME NEW name \in Seq(Byte)
  PROVE  \E f : Walks(name, f) /\ Accepts(name) = f[1]
  <1> DEFINE n == Len(name)
             fix(f) == f = [i \in 1..(n + 1) |->
                 i > n \/ (Character(name, i) > 0 /\ f[i + Character(name, i)])]
             from == CHOOSE f : fix(f)
  <1>1. Accepts(name) = from[1]
    BY Zenon DEF Accepts
  <1>2. \E f : fix(f)
    <2>1. PICK f : Walks(name, f)
      BY WalkExists
    <2>2. f \in [1..(n + 1) -> BOOLEAN] /\ n \in Nat
      BY <2>1 DEF Walks
    <2>3. \A i \in 1..(n + 1) :
              f[i] = (i > n \/ (Character(name, i) > 0 /\ f[i + Character(name, i)]))
      <3> SUFFICES ASSUME NEW i \in 1..(n + 1)
                   PROVE  f[i] = (i > n \/ (Character(name, i) > 0 /\ f[i + Character(name, i)]))
        OBVIOUS
      <3>1. CASE i = n + 1
        BY <2>1, <2>2, <3>1 DEF Walks
      <3>2. CASE i \in 1..n
        BY <2>1, <2>2, <3>2 DEF Walks
      <3> QED BY <3>1, <3>2
    <2>4. fix(f)
      BY <2>2, <2>3
    <2> QED BY <2>4
  <1>3. fix(from)
    <2> HIDE DEF fix
    <2> QED BY <1>2
  <1> HIDE DEF from
  <1>4. Walks(name, from)
    <2>1. n \in Nat
      OBVIOUS
    <2>2. from \in [1..(n + 1) -> BOOLEAN]
      BY <1>3
    <2>3. from[n + 1]
      <3>1. n + 1 \in 1..(n + 1) /\ n + 1 > n
        BY <2>1
      <3> QED BY <1>3, <3>1, Zenon
    <2>4. \A i \in 1..n : from[i] = (Character(name, i) > 0 /\ from[i + Character(name, i)])
      BY <1>3, <2>1
    <2> QED BY <2>2, <2>3, <2>4 DEF Walks
  <1> QED BY <1>1, <1>4
LEMMA Bytes ==
  /\ \A b \in Byte : b \in Nat
  /\ \A b \in NameByte \cup {Dot} : b \in Nat /\ b < 128 /\ b # NUL /\ b # Slash
  BY DEF Byte, NameByte, Alnum, Dot, NUL, Slash

\* A sequence of n bytes is in its shortest form when utf8_sequence_len says n.
LEMMA Utf8Is ==
  ASSUME NEW d \in Seq(Byte), NEW n \in 2..4, n <= Len(d),
         NEW s \in Seq(Byte), Len(s) = n, \A k \in 1..n : s[k] = d[k]
  PROVE  Shortest(s) <=> Utf8Len(d) = n
  <1>0. \A k \in 1..n : s[k] = d[k] /\ d[k] \in Nat
    <2>1. \A k \in 1..n : k \in 1..Len(d)
      OBVIOUS
    <2> QED BY <2>1, Bytes
  <1>1. PICK a \in Nat, b \in Nat : a = d[1] /\ a = s[1] /\ b = d[2] /\ b = s[2] /\ Head(d) = a
    BY <1>0
  <1>2. CASE n = 2
    <2>1. Shortest(s) <=> /\ Between(128, b, 191) /\ Between(192, a, 223)
                          /\ 64 * (a - 192) + (b - 128) >= 128
                          /\ 64 * (a - 192) + (b - 128) < 1310720
      <3>1. \A i \in 2..Len(s) : i = 2
        BY <1>2
      <3>2. CodePoint(s) = 64 * (a - 192) + (b - 128)
        BY <1>1, <1>2 DEF CodePoint
      <3> QED BY <1>1, <1>2, <3>1, <3>2 DEF Shortest
    <2>2. Utf8Len(d) = 2 <=> Between(194, a, 223) /\ Between(128, b, 191)
      BY <1>1, <1>2 DEF Utf8Len, Between
    <2> QED BY <1>2, <2>1, <2>2 DEF Between
  <1>3. CASE n = 3
    <2>1. PICK c \in Nat : c = d[3] /\ c = s[3]
      BY <1>0, <1>3
    <2>2. Shortest(s) <=> /\ Between(128, b, 191) /\ Between(128, c, 191) /\ Between(224, a, 239)
                          /\ 4096 * (a - 224) + 64 * (b - 128) + (c - 128) >= 2048
                          /\ 4096 * (a - 224) + 64 * (b - 128) + (c - 128) < 1310720
      <3>1. \A i \in 2..Len(s) : i = 2 \/ i = 3
        BY <1>3
      <3>2. CodePoint(s) = 4096 * (a - 224) + 64 * (b - 128) + (c - 128)
        BY <1>1, <1>3, <2>1 DEF CodePoint
      <3> QED BY <1>1, <1>3, <2>1, <3>1, <3>2 DEF Shortest
    <2>3. Utf8Len(d) = 3 <=> /\ Between(224, a, 239) /\ Between(128, c, 191)
                             /\ Between(IF a = 224 THEN 160 ELSE 128, b, 191)
      BY <1>1, <1>3, <2>1, SMTT(40) DEF Utf8Len, Between
    <2> QED BY <1>3, <2>2, <2>3 DEF Between
  <1>4. CASE n = 4
    <2>1. PICK c \in Nat, e \in Nat : c = d[3] /\ c = s[3] /\ e = d[4] /\ e = s[4]
      BY <1>0, <1>4
    <2> DEFINE point == 262144 * (a - 240) + 4096 * (b - 128) + 64 * (c - 128) + (e - 128)
    <2>2. Shortest(s) <=> /\ Between(128, b, 191) /\ Between(128, c, 191) /\ Between(128, e, 191)
                          /\ Between(240, a, 247)
                          /\ point >= 65536 /\ point < 1310720
      <3>1. \A i \in 2..Len(s) : i = 2 \/ i = 3 \/ i = 4
        BY <1>4
      <3>2. CodePoint(s) = point
        BY <1>1, <1>4, <2>1 DEF CodePoint
      <3> QED BY <1>1, <1>4, <2>1, <3>1, <3>2 DEF Shortest
    <2>3. Utf8Len(d) = 4 <=> /\ Between(240, a, 244) /\ Between(128, c, 191) /\ Between(128, e, 191)
                             /\ Between(IF a = 240 THEN 144 ELSE 128, b, 191)
      <3>1. 3 \in 3..4 /\ 4 \in 3..4 /\ \A i \in 3..4 : i = 3 \/ i = 4
        OBVIOUS
      <3>2. (\A i \in 3..4 : Between(128, d[i], 191)) <=> Between(128, c, 191) /\ Between(128, e, 191)
        BY <2>1, <3>1, ZenonT(40)
      <3> QED BY <1>1, <1>4, <3>2, SMTT(40) DEF Utf8Len, Between
    <2> QED BY <1>4, <2>2, <2>3 DEF Between
  <1> QED BY <1>2, <1>3, <1>4

\* What Accepted asks of the n bytes at i, stored_name_is_safe asks as well.
OneCharacter(s, n) == (n = 1 /\ s[1] \in NameByte \cup {Dot}) \/ Shortest(s)

LEMMA CharacterIs ==
  ASSUME NEW name \in Seq(Byte), NEW i \in 1..Len(name), NEW n \in 1..4, i + n <= Len(name) + 1
  PROVE  OneCharacter(SubSeq(name, i, i + n - 1), n) <=> Character(name, i) = n
  <1> DEFINE s == SubSeq(name, i, i + n - 1)
             d == Drop(name, i - 1)
  <1>1. /\ s \in Seq(Byte) /\ Len(s) = n /\ \A k \in 1..n : s[k] = name[i + k - 1]
    BY SMTT(40)
  <1>2. /\ d \in Seq(Byte) /\ Len(d) = Len(name) + 1 - i /\ n <= Len(d)
        /\ \A k \in 1..n : d[k] = name[i + k - 1]
    <2>1. i - 1 \in Nat /\ i - 1 < Len(name) /\ Len(name) \in Nat
      OBVIOUS
    <2>2. /\ d \in Seq(Byte) /\ Len(d) = Len(name) - (i - 1)
          /\ \A k \in 1..Len(d) : d[k] = name[i - 1 + k]
      BY <2>1, DropIs
    <2>3. Len(d) = Len(name) + 1 - i /\ n <= Len(d)
      BY <2>1, <2>2
    <2>4. \A k \in 1..n : k \in 1..Len(d) /\ i - 1 + k = i + k - 1
      BY <2>3
    <2> QED BY <2>2, <2>3, <2>4
  <1>3. name[i] \in Nat /\ s[1] = name[i] /\ d[1] = name[i] /\ Head(s) = s[1] /\ Head(d) = d[1]
    <2>1. 1 \in 1..n /\ i + 1 - 1 = i
      OBVIOUS
    <2>2. s[1] = name[i] /\ d[1] = name[i]
      BY <1>1, <1>2, <2>1
    <2>3. name[i] \in Byte
      OBVIOUS
    <2>4. Head(s) = s[1] /\ Head(d) = d[1]
      BY <1>1, <1>2
    <2> QED BY <2>2, <2>3, <2>4, Bytes
  <1>4. Character(name, i) = IF name[i] < 128 THEN IF name[i] \in NameByte \cup {Dot} THEN 1 ELSE 0
                             ELSE Utf8Len(d)
    BY DEF Character
  <1>5. name[i] \in NameByte \cup {Dot} => name[i] < 128
    BY Bytes
  <1> HIDE DEF s, d
  <1>6. CASE n = 1
    <2>1. ~Shortest(s)
      BY <1>1, <1>6 DEF Shortest
    <2>2. Utf8Len(d) # 1
      BY DEF Utf8Len
    <2>3. Character(name, i) = 1 <=> name[i] \in NameByte \cup {Dot}
      BY <1>4, <1>5, <2>2
    <2> QED BY <1>3, <1>6, <2>1, <2>3 DEF OneCharacter, s
  <1>7. CASE n \in 2..4
    <2>1. Shortest(s) <=> Utf8Len(d) = n
      <3>1. \A k \in 1..n : s[k] = d[k]
        BY <1>1, <1>2
      <3> QED BY <1>1, <1>2, <1>7, <3>1, Utf8Is
    <2>2. name[i] < 128 => Utf8Len(d) = 0
      BY <1>3 DEF Utf8Len, Between
    <2>3. Character(name, i) = n <=> Utf8Len(d) = n
      BY <1>4, <1>7, <2>2
    <2> QED BY <1>7, <2>1, <2>3 DEF OneCharacter, s
  <1> QED BY <1>6, <1>7

\* A character has one to four bytes.
LEMMA CharacterLength ==
  ASSUME NEW name \in Seq(Byte), NEW i \in 1..Len(name)
  PROVE  Character(name, i) \in 0..4 /\ i + Character(name, i) <= Len(name) + 1
  <1>1. Character(name, i) \in 0..4
    BY DEF Character, Utf8Len
  <1> QED BY <1>1, CharacterFits

LEMMA AcceptedWalks ==
  ASSUME NEW name \in Seq(Byte)
  PROVE  \E f : Walks(name, f) /\ Accepted(name) = f[1]
  <1> DEFINE l == Len(name)
             on(i, f) == \E n \in 1..4 :
                  /\ i + n <= l + 1
                  /\ f[i + n]
                  /\ OneCharacter(SubSeq(name, i, i + n - 1), n)
             fix(f) == f = [i \in 1..(l + 1) |-> i > l \/ on(i, f)]
             from == CHOOSE f : fix(f)
  <1>1. Accepted(name) = from[1]
    BY Zenon DEF Accepted, OneCharacter
  <1>2. ASSUME NEW i \in 1..l, NEW f
        PROVE  on(i, f) <=> (Character(name, i) > 0 /\ f[i + Character(name, i)])
    <2> DEFINE c == Character(name, i)
    <2>1. c \in 0..4 /\ i + c <= l + 1
      BY CharacterLength
    <2>2. \A n \in 1..4 : i + n <= l + 1 =>
             (OneCharacter(SubSeq(name, i, i + n - 1), n) <=> c = n)
      BY CharacterIs
    <2> HIDE DEF c
    <2>3. ASSUME on(i, f) PROVE c > 0 /\ f[i + c]
      BY <2>1, <2>2, <2>3
    <2>4. ASSUME c > 0, f[i + c] PROVE on(i, f)
      <3>1. c \in 1..4
        BY <2>1, <2>4
      <3> QED BY <2>1, <2>2, <2>4, <3>1
    <2> QED BY <2>3, <2>4 DEF c
  <1> HIDE DEF on
  <1>3. \E f : fix(f)
    <2>1. PICK f : Walks(name, f)
      BY WalkExists
    <2>2. f \in [1..(l + 1) -> BOOLEAN] /\ l \in Nat
      BY <2>1 DEF Walks
    <2>3. \A i \in 1..(l + 1) : f[i] = (i > l \/ on(i, f))
      <3> SUFFICES ASSUME NEW i \in 1..(l + 1) PROVE f[i] <=> (i > l \/ on(i, f))
        BY <2>2 DEF on
      <3>1. CASE i = l + 1
        BY <2>1, <2>2, <3>1 DEF Walks
      <3>2. CASE i \in 1..l
        BY <1>2, <2>1, <2>2, <3>2 DEF Walks
      <3> QED BY <3>1, <3>2
    <2>4. fix(f)
      BY <2>2, <2>3
    <2> QED BY <2>4
  <1>4. fix(from)
    <2> HIDE DEF fix
    <2> QED BY <1>3
  <1> HIDE DEF from
  <1>5. Walks(name, from)
    <2>1. l \in Nat
      OBVIOUS
    <2>2. from \in [1..(l + 1) -> BOOLEAN]
      BY <1>4 DEF on
    <2>3. from[l + 1]
      <3>1. l + 1 \in 1..(l + 1) /\ l + 1 > l
        BY <2>1
      <3> QED BY <1>4, <3>1, Zenon
    <2>4. \A i \in 1..l : from[i] <=> on(i, from)
      <3>1. \A i \in 1..l : i \in 1..(l + 1) /\ ~(i > l)
        BY <2>1
      <3> QED BY <1>4, <3>1, Zenon
    <2>5. \A i \in 1..l : from[i] <=> (Character(name, i) > 0 /\ from[i + Character(name, i)])
      BY <1>2, <2>4
    <2> QED BY <2>2, <2>3, <2>5 DEF Walks
  <1> QED BY <1>1, <1>5
\* What follows in a sequence is outside ASCII.
LEMMA Utf8Bytes ==
  ASSUME NEW s \in Seq(Nat), NEW m \in 2..Utf8Len(s)
  PROVE  s[m] >= 128 /\ s[m] <= 191
  <1> DEFINE c == Head(s)
             len == IF Between(194, c, 223) THEN 2 ELSE IF Between(224, c, 239) THEN 3
                    ELSE IF Between(240, c, 244) THEN 4 ELSE 0
             least == IF c = 224 THEN 160 ELSE IF c = 240 THEN 144 ELSE 128
             sound == /\ len > 0 /\ len <= Len(s)
                      /\ Between(least, s[2], 191)
                      /\ \A i \in 3..len : Between(128, s[i], 191)
  <1>1. Utf8Len(s) = IF sound THEN len ELSE 0
    BY DEF Utf8Len
  <1>2. len \in 0..4 /\ least \in {128, 144, 160}
    OBVIOUS
  <1> HIDE DEF len, least, c
  <1>3. sound /\ m \in 2..len
    BY <1>1, <1>2
  <1>4. m = 2 \/ m \in 3..len
    BY <1>2, <1>3
  <1>5. s[m] \in Nat
    BY <1>2, <1>3
  <1> QED BY <1>2, <1>3, <1>4, <1>5 DEF Between

\* No byte of a character is a slash or a NUL.
LEMMA CharacterBytes ==
  ASSUME NEW name \in Seq(Byte), NEW i \in 1..Len(name), NEW c, c = Character(name, i),
         NEW k \in i..(i + c - 1)
  PROVE  k \in 1..Len(name) /\ name[k] # Slash /\ name[k] # NUL
  <1> DEFINE d == Drop(name, i - 1)
  <1>1. c \in 0..(Len(name) + 1 - i) /\ c \in 0..4 /\ Len(name) \in Nat
    BY CharacterFits, CharacterLength
  <1>2. k \in 1..Len(name) /\ c \in 1..4
    BY <1>1
  <1>3. /\ d \in Seq(Byte) /\ Len(d) = Len(name) + 1 - i
        /\ \A j \in 1..Len(d) : d[j] = name[i - 1 + j]
    <2>1. i - 1 \in Nat /\ i - 1 < Len(name)
      BY <1>1
    <2>2. /\ d \in Seq(Byte) /\ Len(d) = Len(name) - (i - 1)
          /\ \A j \in 1..Len(d) : d[j] = name[i - 1 + j]
      BY <2>1, DropIs
    <2> QED BY <1>1, <2>2
  <1>4. PICK j \in 1..c : k = i - 1 + j
    <2>1. k - i + 1 \in 1..c /\ k = i - 1 + (k - i + 1)
      BY <1>1
    <2> QED BY <2>1
  <1>5. name[k] = d[j] /\ name[i] = d[1] /\ name[i] \in Nat /\ name[k] \in Nat /\ Head(d) = d[1]
    <2>1. j \in 1..Len(d) /\ 1 \in 1..Len(d) /\ i - 1 + 1 = i
      BY <1>1, <1>3
    <2>2. name[k] = d[j] /\ name[i] = d[1]
      BY <1>3, <1>4, <2>1
    <2>3. name[k] \in Byte /\ name[i] \in Byte
      BY <1>2
    <2>4. Head(d) = d[1]
      BY <1>3, <2>1
    <2> QED BY <2>2, <2>3, <2>4, Bytes
  <1>6. c = IF name[i] < 128 THEN IF name[i] \in NameByte \cup {Dot} THEN 1 ELSE 0
            ELSE Utf8Len(d)
    BY DEF Character
  <1> HIDE DEF d
  <1>7. CASE name[i] < 128
    <2>1. c = 1 /\ name[i] \in NameByte \cup {Dot}
      BY <1>2, <1>6, <1>7
    <2>2. k = i
      BY <1>1, <2>1
    <2> QED BY <1>2, <2>1, <2>2, Bytes
  <1>8. CASE ~(name[i] < 128)
    <2>1. Utf8Len(d) = c /\ c > 0
      BY <1>2, <1>6, <1>8
    <2>2. d \in Seq(Nat)
      BY <1>3, Bytes
    <2>3. CASE j = 1
      BY <1>2, <1>5, <1>8, <2>3 DEF Slash, NUL
    <2>4. CASE j \in 2..c
      <3>1. j \in 2..Utf8Len(d)
        BY <2>1, <2>4
      <3>2. d[j] >= 128
        BY <2>2, <3>1, Utf8Bytes
      <3> QED BY <1>2, <1>5, <3>2, SMTT(40) DEF Slash, NUL
    <2> QED BY <1>2, <2>3, <2>4
  <1> QED BY <1>7, <1>8

\* So a name that is walked to its end has neither.
LEMMA WalkedBytes ==
  ASSUME NEW name \in Seq(Byte), NEW f, Walks(name, f), f[1]
  PROVE  \A k \in 1..Len(name) : name[k] # Slash /\ name[k] # NUL
  <1> DEFINE n == Len(name)
             Clean(i) == \A k \in i..n : name[k] # Slash /\ name[k] # NUL
             T == {i \in 1..(n + 1) : f[i] => Clean(i)}
  <1>1. n \in Nat /\ n + 1 \in T
    OBVIOUS
  <1>2. ASSUME NEW i \in 1..n, \A j \in (i + 1)..(n + 1) : j \in T PROVE i \in T
    <2> SUFFICES ASSUME f[i] PROVE Clean(i)
      OBVIOUS
    <2>1. PICK c : c = Character(name, i)
      OBVIOUS
    <2>2. c \in 0..(n + 1 - i) /\ c > 0 /\ f[i + c]
      BY <2>1, CharacterFits DEF Walks
    <2>3. i + c \in (i + 1)..(n + 1)
      BY <1>1, <2>2
    <2>4. Clean(i + c)
      BY <1>2, <2>2, <2>3
    <2>5. \A k \in i..(i + c - 1) : name[k] # Slash /\ name[k] # NUL
      BY <2>1, CharacterBytes
    <2>6. \A k \in i..n : k \in i..(i + c - 1) \/ k \in (i + c)..n
      BY <2>2
    <2> QED BY <2>4, <2>5, <2>6
  <1> HIDE DEF T
  <1>3. \A i \in 1..(n + 1) : i \in T
    BY <1>1, <1>2, Downwards
  <1> QED BY <1>1, <1>3 DEF T

\* A name of any length is accepted by stored_name_is_safe byte by byte when it
\* is made of the characters it may have, each in its one encoding, and such a
\* name stays in its directory.
THEOREM DocumentNamesStay == Spec => []StoredNamesStay
  <1>1. TextTyped => StoredNamesStay
    <2> SUFFICES ASSUME text \in Seq(Byte) PROVE StoredNamesStay
      BY DEF TextTyped
    <2>1. PICK f : Walks(text, f) /\ Accepts(text) = f[1]
      BY AcceptsWalks
    <2>2. PICK g : Walks(text, g) /\ Accepted(text) = g[1]
      BY AcceptedWalks
    <2>3. Accepts(text) <=> Accepted(text)
      <3>1. 1 \in 1..(Len(text) + 1)
        OBVIOUS
      <3> QED BY <2>1, <2>2, <3>1, WalkIsOne
    <2>4. ASSUME SafeStoredName(text)
          PROVE  text[1] # Dot /\ ~Has(text, Slash) /\ ~Has(text, NUL)
      <3>1. \A k \in 1..Len(text) : text[k] # Slash /\ text[k] # NUL
        BY <2>1, <2>4, WalkedBytes DEF SafeStoredName
      <3>2. Head(text) = text[1] /\ Head(text) # Dot
        BY <2>4, TextAssumption DEF SafeStoredName
      <3> QED BY <3>1, <3>2 DEF Has
    <2> QED BY <2>3, <2>4 DEF StoredNamesStay
  <1> QED BY <1>1, AlwaysTextTyped, PTL
-----------------------------------------------------------------------------
(***************************************************************************)
(* The other spelling of a path.                                           *)
(***************************************************************************)
LEMMA TableIs ==
  \A t \in NfdTable :
      /\ t[1] \in Nat /\ Between(128, t[1], 191)
      /\ t[2] \in Nat /\ (Between(65, t[2], 90) \/ Between(97, t[2], 122))
      /\ t[3] \in Nat /\ Between(128, t[3], 191)
  <1>1. \A t \in Capitals :
            /\ t[1] \in Nat /\ Between(128, t[1], 157)
            /\ t[2] \in Nat /\ Between(65, t[2], 90)
            /\ t[3] \in Nat /\ Between(128, t[3], 191)
    BY DEF Capitals, Between
  <1>2. ASSUME NEW t \in Capitals, NEW u, u = <<t[1] + 32, t[2] + 32, t[3]>>
        PROVE  /\ u[1] \in Nat /\ Between(128, u[1], 191)
               /\ u[2] \in Nat /\ Between(97, u[2], 122)
               /\ u[3] \in Nat /\ Between(128, u[3], 191)
    BY <1>1, <1>2 DEF Between
  <1>3. ASSUME NEW t \in NfdTable
        PROVE  t \in Capitals \/ \E s \in Capitals : t = <<s[1] + 32, s[2] + 32, s[3]>>
    BY DEF NfdTable
  <1> HIDE DEF Between
  <1>4. \A t \in Nat : Between(128, t, 157) => Between(128, t, 191)
    BY DEF Between
  <1> QED BY <1>1, <1>2, <1>3, <1>4

\* What takes the place of byte i, and how many bytes it stands for.
Chosen(path, i) == CHOOSE t \in Precomposed(path, i) : TRUE
Piece(path, i) == IF Precomposed(path, i) = {} THEN <<path[i]>>
                  ELSE <<Chosen(path, i)[2], 204, Chosen(path, i)[3]>>
Stride(path, i) == IF Precomposed(path, i) = {} THEN 1 ELSE 2

LEMMA PieceIs ==
  ASSUME NEW path \in Seq(Byte), NEW i \in 1..Len(path)
  PROVE  /\ Piece(path, i) \in Seq(Byte) /\ Stride(path, i) \in {1, 2}
         /\ i + Stride(path, i) <= Len(path) + 1
         /\ Precomposed(path, i) = {} => Piece(path, i) = <<path[i]>> /\ Stride(path, i) = 1
         /\ Precomposed(path, i) # {} =>
               \E b, m \in Byte :
                  /\ Piece(path, i) = <<b, 204, m>> /\ Stride(path, i) = 2
                  /\ path[i] = 195 /\ i < Len(path) /\ Between(128, path[i + 1], 191)
                  /\ Between(65, b, 90) \/ Between(97, b, 122)
                  /\ Between(128, m, 191)
  <1>1. CASE Precomposed(path, i) = {}
    BY <1>1 DEF Piece, Stride
  <1>2. CASE Precomposed(path, i) # {}
    <2>1. PICK t : t = Chosen(path, i)
      OBVIOUS
    <2>2. t \in NfdTable /\ path[i] = 195 /\ i < Len(path) /\ path[i + 1] = t[1]
      BY <1>2, <2>1 DEF Chosen, Precomposed
    <2>3. PICK b \in Nat, m \in Nat : b = t[2] /\ m = t[3]
      BY <2>2, TableIs
    <2>4. (Between(65, b, 90) \/ Between(97, b, 122)) /\ Between(128, m, 191)
          /\ Between(128, path[i + 1], 191)
      BY <2>2, <2>3, TableIs
    <2>5. b \in Byte /\ m \in Byte /\ 204 \in Byte
      BY <2>4 DEF Between, Byte
    <2>6. Piece(path, i) = <<b, 204, m>> /\ Stride(path, i) = 2
      BY <1>2, <2>1, <2>3 DEF Piece, Stride
    <2>7. Piece(path, i) \in Seq(Byte)
      BY <2>5, <2>6
    <2> QED BY <1>2, <2>2, <2>4, <2>5, <2>6, <2>7
  <1> QED BY <1>1, <1>2

LEMMA Joined ==
  ASSUME NEW p \in Seq(Byte), NEW q \in Seq(Byte)
  PROVE  /\ p \o q \in Seq(Byte) /\ Len(p \o q) = Len(p) + Len(q)
         /\ \A k \in 1..Len(p) : (p \o q)[k] = p[k]
         /\ \A k \in 1..Len(q) : (p \o q)[Len(p) + k] = q[k]
  <1>1. \A k \in 1..Len(q) : Len(p) + k \in 1..(Len(p) + Len(q)) /\ ~(Len(p) + k <= Len(p))
                              /\ Len(p) + k - Len(p) = k
    OBVIOUS
  <1> QED BY <1>1

\* Rewrites(path, f): f[i] is the other spelling of what path has from i on.
Rewrites(path, f) ==
    /\ f \in [1..(Len(path) + 1) -> Seq(Byte)]
    /\ f[Len(path) + 1] = <<>>
    /\ \A i \in 1..Len(path) : f[i] = Piece(path, i) \o f[i + Stride(path, i)]

LEMMA RewriteExists ==
  ASSUME NEW path \in Seq(Byte)
  PROVE  \E f : Rewrites(path, f)
  <1> DEFINE n == Len(path)
             F == [1..(n + 1) -> Seq(Byte)]
             op == [p \in (1..n) \X F |-> Piece(path, p[1]) \o p[2][p[1] + Stride(path, p[1])]]
  <1>1. n \in Nat /\ <<>> \in Seq(Byte)
    OBVIOUS
  <1>2. \A i \in 1..n : Piece(path, i) \in Seq(Byte)
                        /\ i + Stride(path, i) \in (i + 1)..(n + 1)
    <2> SUFFICES ASSUME NEW i \in 1..n PROVE Piece(path, i) \in Seq(Byte)
                        /\ i + Stride(path, i) \in (i + 1)..(n + 1)
      OBVIOUS
    <2>1. Piece(path, i) \in Seq(Byte) /\ Stride(path, i) \in {1, 2}
          /\ i + Stride(path, i) <= n + 1
      BY PieceIs
    <2> QED BY <2>1
  <1>3. ASSUME NEW i \in 1..n, NEW f \in F
        PROVE  /\ op[<<i, f>>] = Piece(path, i) \o f[i + Stride(path, i)]
               /\ Piece(path, i) \o f[i + Stride(path, i)] \in Seq(Byte)
    <2>1. i + Stride(path, i) \in 1..(n + 1) /\ Piece(path, i) \in Seq(Byte)
      BY <1>2
    <2>2. PICK p, q : p = Piece(path, i) /\ q = f[i + Stride(path, i)]
      OBVIOUS
    <2>3. p \in Seq(Byte) /\ q \in Seq(Byte)
      BY <2>1, <2>2
    <2>4. p \o q \in Seq(Byte)
      BY ONLY <2>3, Joined
    <2>5. op[<<i, f>>] = Piece(path, i) \o f[i + Stride(path, i)]
      OBVIOUS
    <2> QED BY <2>2, <2>4, <2>5
  <1>4. op \in [(1..n) \X F -> Seq(Byte)]
    BY <1>3
  <1> HIDE DEF op, n
  <1>5. \A i \in 1..n : \A f, g \in F :
            (\A j \in (i + 1)..(n + 1) : f[j] = g[j]) => op[<<i, f>>] = op[<<i, g>>]
    BY <1>2, <1>3, ZenonT(40)
  <1>6. PICK f : GivenBy(n, Seq(Byte), <<>>, op, f)
    <2>1. LooksAhead(n, Seq(Byte), op)
      BY <1>4, <1>5 DEF LooksAhead
    <2> QED BY <1>1, <2>1, Backwards
  <1>7. Rewrites(path, f)
    BY <1>3, <1>6 DEF GivenBy, Rewrites, n
  <1> QED BY <1>7

LEMMA NfdRewrites ==
  ASSUME NEW path \in Seq(Byte)
  PROVE  \E f : Rewrites(path, f) /\ Nfd(path) = IF Len(f[1]) < NfdSize THEN f[1] ELSE TooLong
  <1> DEFINE n == Len(path)
             at(f, i) == IF i > n THEN <<>>
                         ELSE IF Precomposed(path, i) = {} THEN <<path[i]>> \o f[i + 1]
                         ELSE <<Chosen(path, i)[2], 204, Chosen(path, i)[3]>> \o f[i + 2]
             fix(f) == f = [i \in 1..(n + 1) |-> at(f, i)]
             from == CHOOSE f : fix(f)
  <1>1. Nfd(path) = IF Len(from[1]) < NfdSize THEN from[1] ELSE TooLong
    BY Zenon DEF Nfd, Chosen
  <1>2. \A f : \A i \in 1..n : at(f, i) = Piece(path, i) \o f[i + Stride(path, i)]
    <2> SUFFICES ASSUME NEW f, NEW i \in 1..n PROVE at(f, i) = Piece(path, i) \o f[i + Stride(path, i)]
      BY Zenon
    <2>1. ~(i > n)
      OBVIOUS
    <2>2. CASE Precomposed(path, i) = {}
      BY <2>1, <2>2, Zenon DEF Piece, Stride
    <2>3. CASE Precomposed(path, i) # {}
      BY <2>1, <2>3, Zenon DEF Piece, Stride
    <2> QED BY <2>2, <2>3
  <1>3. n \in Nat /\ n + 1 \in 1..(n + 1) /\ \A f : at(f, n + 1) = <<>>
    OBVIOUS
  <1>4. \A i \in 1..(n + 1) : i \in 1..n \/ i = n + 1
    OBVIOUS
  <1> HIDE DEF at
  <1>5. \E f : fix(f)
    <2>1. PICK f : Rewrites(path, f)
      BY RewriteExists
    <2>2. f \in [1..(n + 1) -> Seq(Byte)]
      BY <2>1 DEF Rewrites
    <2>3. \A i \in 1..(n + 1) : f[i] = at(f, i)
      BY <1>2, <1>3, <1>4, <2>1 DEF Rewrites
    <2>4. fix(f)
      BY <2>2, <2>3
    <2> QED BY <2>4
  <1>6. fix(from)
    <2> HIDE DEF fix
    <2> QED BY <1>5
  <1> HIDE DEF from
  <1>7. \A i \in 1..(n + 1) : from[i] = at(from, i)
    BY <1>6
  <1>8. \A i \in 1..(n + 1) : from[i] \in Seq(Byte)
    <2> DEFINE T == {i \in 1..(n + 1) : from[i] \in Seq(Byte)}
    <2>1. n + 1 \in T
      <3>1. from[n + 1] = <<>>
        BY <1>3, <1>7
      <3>2. <<>> \in Seq(Byte)
        OBVIOUS
      <3> QED BY <1>3, <3>1, <3>2
    <2>2. ASSUME NEW i \in 1..n, \A j \in (i + 1)..(n + 1) : j \in T PROVE i \in T
      <3>1. Piece(path, i) \in Seq(Byte) /\ i + Stride(path, i) \in (i + 1)..(n + 1)
        <4>1. Piece(path, i) \in Seq(Byte) /\ Stride(path, i) \in {1, 2}
              /\ i + Stride(path, i) <= n + 1
          BY PieceIs
        <4> QED BY <4>1
      <3>2. from[i + Stride(path, i)] \in Seq(Byte)
        BY <2>2, <3>1
      <3>3. from[i] = Piece(path, i) \o from[i + Stride(path, i)] /\ i \in 1..(n + 1)
        BY <1>2, <1>7
      <3>4. PICK p, q : p = Piece(path, i) /\ q = from[i + Stride(path, i)]
        OBVIOUS
      <3>5. p \o q \in Seq(Byte)
        <4>1. p \in Seq(Byte) /\ q \in Seq(Byte)
          BY <3>1, <3>2, <3>4
        <4> QED BY ONLY <4>1, Joined
      <3>6. from[i] \in Seq(Byte)
        BY <3>3, <3>4, <3>5
      <3> QED BY <3>3, <3>6
    <2> HIDE DEF T
    <2>3. \A i \in 1..(n + 1) : i \in T
      BY <1>3, <2>1, <2>2, Downwards
    <2> QED BY <2>3 DEF T
  <1>9. Rewrites(path, from)
    <2>1. from \in [1..(n + 1) -> Seq(Byte)]
      BY <1>6, <1>8
    <2>2. from[n + 1] = <<>>
      BY <1>3, <1>7
    <2>3. \A i \in 1..n : from[i] = Piece(path, i) \o from[i + Stride(path, i)]
      BY <1>2, <1>7, <1>3, SMTT(40)
    <2> QED BY <2>1, <2>2, <2>3 DEF Rewrites
  <1> QED BY <1>1, <1>9

\* Follows(r, c, q): q is what r has after its first c bytes.
Follows(r, c, q) == Len(r) = c + Len(q) /\ \A k \in 1..Len(q) : r[c + k] = q[k]
Letter(b) == Between(65, b, 90) \/ Between(97, b, 122)

\* A byte is taken over, or two bytes give way to a letter and its mark.
Copies(path, f, i) ==
    /\ Precomposed(path, i) = {}
    /\ f[i][1] = path[i] /\ i + 1 \in 1..(Len(path) + 1) /\ Follows(f[i], 1, f[i + 1])

Decomposes(path, f, i) ==
    /\ Precomposed(path, i) # {}
    /\ i < Len(path) /\ path[i] = 195 /\ Between(128, path[i + 1], 191)
    /\ Letter(f[i][1]) /\ f[i][2] = 204 /\ Between(128, f[i][3], 191)
    /\ i + 2 \in 1..(Len(path) + 1) /\ Follows(f[i], 3, f[i + 2])

LEMMA RewriteStep ==
  ASSUME NEW path \in Seq(Byte), NEW f, Rewrites(path, f), NEW i \in 1..Len(path)
  PROVE  f[i] \in Seq(Byte) /\ (Copies(path, f, i) \/ Decomposes(path, f, i))
  <1>1. /\ Len(path) \in Nat /\ i + Stride(path, i) \in 1..(Len(path) + 1)
        /\ Stride(path, i) \in {1, 2} /\ Piece(path, i) \in Seq(Byte)
    BY PieceIs
  <1>2. PICK p, q : /\ p = Piece(path, i) /\ q = f[i + Stride(path, i)] /\ f[i] = p \o q
                    /\ p \in Seq(Byte) /\ q \in Seq(Byte)
    BY <1>1 DEF Rewrites
  <1>3. /\ f[i] \in Seq(Byte) /\ Len(f[i]) = Len(p) + Len(q)
        /\ \A k \in 1..Len(p) : f[i][k] = p[k]
        /\ \A k \in 1..Len(q) : f[i][Len(p) + k] = q[k]
    BY <1>2, Joined
  <1>4. CASE Precomposed(path, i) = {}
    <2>1. p = <<path[i]>> /\ Stride(path, i) = 1
      BY <1>2, <1>4, PieceIs
    <2>2. Len(p) = 1 /\ p[1] = path[i]
      BY <2>1
    <2>3. Copies(path, f, i)
      BY <1>1, <1>2, <1>3, <1>4, <2>1, <2>2, SMTT(40) DEF Copies, Follows
    <2> QED BY <1>3, <2>3
  <1>5. CASE Precomposed(path, i) # {}
    <2>1. PICK b \in Byte, m \in Byte :
             /\ p = <<b, 204, m>> /\ Stride(path, i) = 2
             /\ path[i] = 195 /\ i < Len(path) /\ Between(128, path[i + 1], 191)
             /\ Letter(b) /\ Between(128, m, 191)
      BY <1>2, <1>5, PieceIs DEF Letter
    <2>2. Len(p) = 3 /\ p[1] = b /\ p[2] = 204 /\ p[3] = m
      BY <2>1
    <2>3. f[i][1] = b /\ f[i][2] = 204 /\ f[i][3] = m
      BY <1>3, <2>2
    <2>4. Decomposes(path, f, i)
      BY <1>1, <1>2, <1>3, <1>5, <2>1, <2>2, <2>3, SMTT(40) DEF Decomposes, Follows
    <2> QED BY <1>3, <2>4
  <1> QED BY <1>4, <1>5

\* Three bytes for two at most.
LEMMA RewriteLength ==
  ASSUME NEW path \in Seq(Byte), NEW f, Rewrites(path, f)
  PROVE  2 * Len(f[1]) <= 3 * Len(path) /\ f[1] \in Seq(Byte)
  <1> DEFINE n == Len(path)
             T == {i \in 1..(n + 1) : f[i] \in Seq(Byte) /\ 2 * Len(f[i]) <= 3 * (n + 1 - i)}
  <1>1. n \in Nat /\ n + 1 \in T
    <2>1. f[n + 1] = <<>> /\ n \in Nat
      BY DEF Rewrites
    <2>2. Len(f[n + 1]) = 0 /\ f[n + 1] \in Seq(Byte) /\ n + 1 - (n + 1) = 0
      BY <2>1
    <2>3. n + 1 \in 1..(n + 1) /\ 2 * Len(f[n + 1]) <= 3 * (n + 1 - (n + 1))
      BY <2>1, <2>2
    <2> QED BY <2>1, <2>2, <2>3
  <1>2. ASSUME NEW i \in 1..n, \A j \in (i + 1)..(n + 1) : j \in T PROVE i \in T
    <2>1. f[i] \in Seq(Byte) /\ (Copies(path, f, i) \/ Decomposes(path, f, i))
      BY RewriteStep
    <2>2. CASE Copies(path, f, i)
      <3>1. i + 1 \in T /\ Len(f[i]) = 1 + Len(f[i + 1]) /\ i \in 1..(n + 1)
        BY <1>1, <1>2, <2>2 DEF Copies, Follows
      <3> QED BY <1>1, <2>1, <3>1
    <2>3. CASE Decomposes(path, f, i)
      <3>0. i + 2 \in (i + 1)..(n + 1) /\ i \in 1..(n + 1)
        BY <1>1, <2>3 DEF Decomposes
      <3>1. i + 2 \in T /\ Len(f[i]) = 3 + Len(f[i + 2]) /\ i \in 1..(n + 1)
        BY <1>2, <2>3, <3>0 DEF Decomposes, Follows
      <3> QED BY <1>1, <2>1, <3>1
    <2> QED BY <2>1, <2>2, <2>3
  <1>3. \A i \in 1..(n + 1) : i \in T
    <2> HIDE DEF T
    <2> QED BY <1>1, <1>2, Downwards
  <1>4. 1 \in T
    BY <1>1, <1>3
  <1> QED BY <1>1, <1>4

\* A text has nothing precomposed when no C3 is followed by a second byte of
\* the table.
Settled(r) == \A k \in 1..Len(r) : Precomposed(r, k) = {}

LEMMA Settles ==
  ASSUME NEW r \in Seq(Byte), NEW q \in Seq(Byte), NEW c \in Nat \ {0}, Follows(r, c, q), Settled(q),
         \A k \in 1..c : r[k] = 195 => k = c /\ (q # <<>> => \A t \in NfdTable : q[1] # t[1])
  PROVE  Settled(r)
  <1> SUFFICES ASSUME NEW k \in 1..Len(r), NEW t \in NfdTable,
                      r[k] = 195, k < Len(r), r[k + 1] = t[1]
               PROVE  FALSE
    BY DEF Settled, Precomposed
  <1>1. Len(r) = c + Len(q) /\ Len(q) \in Nat
    BY DEF Follows
  <1>3. CASE k <= c
    <2>1. k = c /\ (q # <<>> => q[1] # t[1])
      BY <1>3
    <2>2. q # <<>> /\ r[c + 1] = q[1]
      BY <1>1, <2>1 DEF Follows
    <2> QED BY <2>1, <2>2
  <1>4. CASE k > c
    <2>1. PICK j \in 1..Len(q) : k = c + j /\ j < Len(q)
      <3>1. k - c \in 1..Len(q) /\ k = c + (k - c) /\ k - c < Len(q)
        BY <1>1, <1>4
      <3> QED BY <3>1
    <2>2. j + 1 \in 1..Len(q) /\ c + (j + 1) = k + 1
      BY <1>1, <2>1
    <2>3. q[j] = 195 /\ q[j + 1] = t[1]
      BY <2>1, <2>2 DEF Follows
    <2>4. t \in Precomposed(q, j)
      BY <2>1, <2>3 DEF Precomposed
    <2> QED BY <2>4 DEF Settled
  <1> QED BY <1>3, <1>4

LEMMA RewriteFirst ==
  ASSUME NEW path \in Seq(Byte), NEW f, Rewrites(path, f), NEW i \in 1..Len(path)
  PROVE  Len(f[i]) > 0 /\ (f[i][1] = path[i] \/ Letter(f[i][1]))
  <1>1. f[i] \in Seq(Byte) /\ (Copies(path, f, i) \/ Decomposes(path, f, i))
    BY RewriteStep
  <1>2. CASE Copies(path, f, i)
    <2>1. f[i + 1] \in Seq(Byte)
      BY <1>2 DEF Copies, Rewrites
    <2> QED BY <1>1, <1>2, <2>1 DEF Copies, Follows
  <1>3. CASE Decomposes(path, f, i)
    <2>1. f[i + 2] \in Seq(Byte)
      BY <1>3 DEF Decomposes, Rewrites
    <2> QED BY <1>1, <1>3, <2>1 DEF Decomposes, Follows
  <1> QED BY <1>1, <1>2, <1>3

LEMMA RewriteSettled ==
  ASSUME NEW path \in Seq(Byte), NEW f, Rewrites(path, f)
  PROVE  Settled(f[1])
  <1> DEFINE n == Len(path)
             T == {i \in 1..(n + 1) : Settled(f[i])}
  <1>0. n \in Nat /\ \A i \in 1..(n + 1) : f[i] \in Seq(Byte)
    BY DEF Rewrites
  <1>1. n + 1 \in T
    <2>1. f[n + 1] = <<>> /\ n + 1 \in 1..(n + 1)
      BY <1>0 DEF Rewrites
    <2>2. Len(f[n + 1]) = 0
      BY <2>1
    <2>3. Settled(f[n + 1])
      BY <2>2 DEF Settled
    <2> QED BY <2>1, <2>3
  <1>2. ASSUME NEW i \in 1..n, \A j \in (i + 1)..(n + 1) : j \in T PROVE i \in T
    <2>1. f[i] \in Seq(Byte) /\ (Copies(path, f, i) \/ Decomposes(path, f, i))
      BY RewriteStep
    <2>2. CASE Copies(path, f, i)
      <3>1. PICK q : q = f[i + 1]
        OBVIOUS
      <3>2. q \in Seq(Byte) /\ Follows(f[i], 1, q) /\ Settled(q) /\ f[i][1] = path[i]
        BY <1>0, <1>2, <2>2, <3>1 DEF Copies
      <3>3. ASSUME q # <<>>, path[i] = 195, NEW t \in NfdTable, q[1] = t[1] PROVE FALSE
        <4>1. i + 1 # n + 1
          BY <3>1, <3>3 DEF Rewrites
        <4>2. i + 1 \in 1..n /\ i < n
          BY <1>0, <4>1
        <4>3. q[1] = path[i + 1] \/ Letter(q[1])
          BY <3>1, <4>2, RewriteFirst
        <4>4. ~Letter(q[1])
          BY <3>3, TableIs DEF Letter, Between
        <4>5. t \in Precomposed(path, i)
          BY <3>3, <4>2, <4>3, <4>4 DEF Precomposed
        <4> QED BY <2>2, <4>5 DEF Copies
      <3>4. \A k \in 1..1 : f[i][k] = 195 => k = 1 /\ (q # <<>> => \A t \in NfdTable : q[1] # t[1])
        BY <3>2, <3>3
      <3>5. Settled(f[i])
        BY <2>1, <3>2, <3>4, Settles
      <3> QED BY <3>5
    <2>3. CASE Decomposes(path, f, i)
      <3>1. PICK q : q = f[i + 2]
        OBVIOUS
      <3>0. i + 2 \in (i + 1)..(n + 1) /\ i + 2 \in 1..(n + 1) /\ Follows(f[i], 3, f[i + 2])
        BY <1>0, <2>3 DEF Decomposes
      <3>2. q \in Seq(Byte) /\ Follows(f[i], 3, q) /\ Settled(q)
        BY <1>0, <1>2, <3>0, <3>1
      <3>3. f[i][1] # 195 /\ f[i][2] # 195 /\ f[i][3] # 195
        BY <2>3 DEF Decomposes, Letter, Between
      <3>4. \A k \in 1..3 : f[i][k] # 195
        <4>1. \A k \in 1..3 : k = 1 \/ k = 2 \/ k = 3
          OBVIOUS
        <4> QED BY <3>3, <4>1
      <3>5. Settled(f[i])
        BY <2>1, <3>2, <3>4, Settles, SMTT(40)
      <3> QED BY <3>5
    <2> QED BY <2>1, <2>2, <2>3
  <1>3. \A i \in 1..(n + 1) : i \in T
    <2> HIDE DEF T
    <2> QED BY <1>0, <1>1, <1>2, Downwards
  <1> QED BY <1>0, <1>3

\* A text that has nothing precomposed is left as it is.
LEMMA SettledStays ==
  ASSUME NEW r \in Seq(Byte), Settled(r), Len(r) < NfdSize
  PROVE  Nfd(r) = r
  <1> DEFINE n == Len(r)
  <1>1. PICK f : Rewrites(r, f) /\ Nfd(r) = IF Len(f[1]) < NfdSize THEN f[1] ELSE TooLong
    BY NfdRewrites
  <1> DEFINE Same(i) == Len(f[i]) = n + 1 - i /\ \A k \in 1..(n + 1 - i) : f[i][k] = r[i - 1 + k]
             T == {i \in 1..(n + 1) : Same(i)}
  <1>2. n \in Nat /\ \A i \in 1..(n + 1) : f[i] \in Seq(Byte)
    BY <1>1 DEF Rewrites
  <1>3. n + 1 \in T
    <2>1. f[n + 1] = <<>> /\ n + 1 \in 1..(n + 1) /\ n + 1 - (n + 1) = 0
      BY <1>1, <1>2 DEF Rewrites
    <2>2. Len(f[n + 1]) = 0
      BY <2>1
    <2> QED BY <2>1, <2>2
  <1>4. ASSUME NEW i \in 1..n, \A j \in (i + 1)..(n + 1) : j \in T PROVE i \in T
    <2>1. Precomposed(r, i) = {}
      BY DEF Settled
    <2>2. f[i] = Piece(r, i) \o f[i + Stride(r, i)] /\ Piece(r, i) = <<r[i]>> /\ Stride(r, i) = 1
      BY <1>1, <2>1, PieceIs DEF Rewrites
    <2>3. PICK p, q : p = <<r[i]>> /\ q = f[i + 1] /\ f[i] = p \o q
      BY <2>2
    <2>4. i + 1 \in T /\ i + 1 \in 1..(n + 1) /\ r[i] \in Byte
      <3>1. i + 1 \in (i + 1)..(n + 1) /\ i + 1 \in 1..(n + 1)
        BY <1>2
      <3>2. i + 1 \in T
        BY <1>4, <3>1
      <3> QED BY <3>1, <3>2
    <2>5. p \in Seq(Byte) /\ q \in Seq(Byte) /\ Len(p) = 1 /\ p[1] = r[i]
      BY <1>2, <2>3, <2>4
    <2>6. /\ Len(f[i]) = 1 + Len(q) /\ f[i][1] = r[i]
          /\ \A k \in 1..Len(q) : f[i][1 + k] = q[k]
      BY <2>3, <2>5, Joined
    <2>7. Len(q) = n - i /\ \A k \in 1..(n - i) : q[k] = r[i + k]
      <3>1. Same(i + 1)
        BY <2>4
      <3>2. n + 1 - (i + 1) = n - i /\ i + 1 - 1 = i
        BY <1>2
      <3> QED BY <2>3, <3>1, <3>2
    <2>8. Same(i)
      <3>1. Len(f[i]) = n + 1 - i
        BY <1>2, <2>6, <2>7
      <3>2. ASSUME NEW k \in 1..(n + 1 - i) PROVE f[i][k] = r[i - 1 + k]
        <4>1. CASE k = 1
          BY <2>6, <4>1
        <4>2. CASE k # 1
          <5>1. k - 1 \in 1..(n - i) /\ 1 + (k - 1) = k /\ i + (k - 1) = i - 1 + k
            BY <1>2, <4>2
          <5>2. f[i][1 + (k - 1)] = r[i + (k - 1)]
            BY <2>6, <2>7, <5>1
          <5> QED BY <5>1, <5>2
        <4> QED BY <4>1, <4>2
      <3> QED BY <3>1, <3>2
    <2> QED BY <1>2, <2>8
  <1>5. Same(1)
    <2>1. \A i \in 1..(n + 1) : i \in T
      <3> HIDE DEF T
      <3> QED BY <1>2, <1>3, <1>4, Downwards
    <2> QED BY <1>2, <2>1
  <1>6. f[1] = r
    <2>1. f[1] \in Seq(Byte) /\ Len(f[1]) = n /\ \A k \in 1..n : f[1][k] = r[k]
      BY <1>2, <1>5
    <2> QED BY <2>1, SameText
  <1> QED BY <1>1, <1>6

\* No NUL is made.
Whole(r) == \A k \in 1..Len(r) : r[k] # NUL

LEMMA WholeParts ==
  ASSUME NEW r \in Seq(Byte), NEW q \in Seq(Byte), NEW c \in Nat, Follows(r, c, q),
         Whole(q), \A k \in 1..c : r[k] # NUL
  PROVE  Whole(r)
  <1>1. Len(r) = c + Len(q) /\ Len(q) \in Nat
    BY DEF Follows
  <1> SUFFICES ASSUME NEW k \in 1..Len(r) PROVE r[k] # NUL
    BY DEF Whole
  <1>2. CASE k \in 1..c
    BY <1>2
  <1>3. CASE k \notin 1..c
    <2>1. k - c \in 1..Len(q) /\ c + (k - c) = k
      BY <1>1, <1>3
    <2>2. r[c + (k - c)] = q[k - c]
      BY <2>1 DEF Follows
    <2> QED BY <2>1, <2>2 DEF Whole
  <1> QED BY <1>2, <1>3

LEMMA RewriteWhole ==
  ASSUME NEW path \in Seq(Byte), NEW f, Rewrites(path, f), Whole(path)
  PROVE  Whole(f[1])
  <1> DEFINE n == Len(path)
             T == {i \in 1..(n + 1) : Whole(f[i])}
  <1>0. n \in Nat /\ \A i \in 1..(n + 1) : f[i] \in Seq(Byte)
    BY DEF Rewrites
  <1>1. n + 1 \in T
    <2>1. f[n + 1] = <<>> /\ n + 1 \in 1..(n + 1)
      BY <1>0 DEF Rewrites
    <2>2. Len(f[n + 1]) = 0
      BY <2>1
    <2> QED BY <2>1, <2>2 DEF Whole
  <1>2. ASSUME NEW i \in 1..n, \A j \in (i + 1)..(n + 1) : j \in T PROVE i \in T
    <2>1. f[i] \in Seq(Byte) /\ (Copies(path, f, i) \/ Decomposes(path, f, i)) /\ i \in 1..(n + 1)
      BY RewriteStep
    <2>2. CASE Copies(path, f, i)
      <3>1. PICK q : q = f[i + 1]
        OBVIOUS
      <3>2. q \in Seq(Byte) /\ Follows(f[i], 1, q) /\ Whole(q) /\ f[i][1] = path[i]
        BY <1>0, <1>2, <2>2, <3>1 DEF Copies
      <3>3. \A k \in 1..1 : f[i][k] # NUL
        <4>1. \A k \in 1..1 : k = 1
          OBVIOUS
        <4> QED BY <3>2, <4>1 DEF Whole
      <3>4. Whole(f[i])
        BY <2>1, <3>2, <3>3, WholeParts
      <3> QED BY <2>1, <3>4
    <2>3. CASE Decomposes(path, f, i)
      <3>1. PICK q : q = f[i + 2]
        OBVIOUS
      <3>2. q \in Seq(Byte) /\ Follows(f[i], 3, q) /\ Whole(q)
        <4>1. i + 2 \in (i + 1)..(n + 1)
          BY <2>3 DEF Decomposes
        <4> QED BY <1>0, <1>2, <2>3, <3>1, <4>1 DEF Decomposes
      <3>3. \A k \in 1..3 : f[i][k] # NUL
        <4>1. \A k \in 1..3 : k = 1 \/ k = 2 \/ k = 3
          OBVIOUS
        <4> QED BY <2>3, <4>1, SMTT(40) DEF Decomposes, Letter, Between, NUL
      <3>4. Whole(f[i])
        BY <2>1, <3>2, <3>3, WholeParts
      <3> QED BY <2>1, <3>4
    <2> QED BY <2>1, <2>2, <2>3
  <1>3. \A i \in 1..(n + 1) : i \in T
    <2> HIDE DEF T
    <2> QED BY <1>0, <1>1, <1>2, Downwards
  <1> QED BY <1>0, <1>3

\* A text is accepted when its first character is and what follows is.
LEMMA CharacterShift ==
  ASSUME NEW r \in Seq(Byte), NEW q \in Seq(Byte), NEW c \in Nat, Follows(r, c, q),
         NEW k \in 1..Len(q)
  PROVE  Character(r, c + k) = Character(q, k)
  <1>1. Len(r) = c + Len(q) /\ Len(q) \in Nat /\ k \in Nat /\ r[c + k] = q[k] /\ k - 1 \in Nat
        /\ c + k - 1 \in Nat
    BY DEF Follows
  <1> DEFINE s == Drop(r, c + k - 1)
             t == Drop(q, k - 1)
  <1>2. /\ s \in Seq(Byte) /\ Len(s) = Len(q) + 1 - k
        /\ \A j \in 1..Len(s) : s[j] = r[c + k - 1 + j]
    <2>1. /\ s \in Seq(Byte) /\ Len(s) = (IF c + k - 1 < Len(r) THEN Len(r) - (c + k - 1) ELSE 0)
          /\ \A j \in 1..Len(s) : s[j] = r[c + k - 1 + j]
      BY <1>1, DropIs
    <2> HIDE DEF s
    <2> QED BY <1>1, <2>1, SMTT(40)
  <1>3. /\ t \in Seq(Byte) /\ Len(t) = Len(q) + 1 - k
        /\ \A j \in 1..Len(t) : t[j] = q[k - 1 + j]
    <2>1. /\ t \in Seq(Byte) /\ Len(t) = (IF k - 1 < Len(q) THEN Len(q) - (k - 1) ELSE 0)
          /\ \A j \in 1..Len(t) : t[j] = q[k - 1 + j]
      BY <1>1, DropIs
    <2> HIDE DEF t
    <2> QED BY <1>1, <2>1
  <1> HIDE DEF s, t
  <1>4. ASSUME NEW j \in 1..Len(s) PROVE s[j] = t[j]
    <2>1. k - 1 + j \in 1..Len(q) /\ c + (k - 1 + j) = c + k - 1 + j
      BY <1>1, <1>2
    <2>2. r[c + (k - 1 + j)] = q[k - 1 + j]
      BY <2>1 DEF Follows
    <2> QED BY <1>2, <1>3, <2>1, <2>2
  <1>5. s = t
    BY <1>2, <1>3, <1>4, SameText
  <1>6. Character(r, c + k) = (IF r[c + k] < 128 THEN IF r[c + k] \in NameByte \cup {Dot} THEN 1 ELSE 0
                               ELSE Utf8Len(s))
    BY DEF Character, s
  <1>7. Character(q, k) = (IF q[k] < 128 THEN IF q[k] \in NameByte \cup {Dot} THEN 1 ELSE 0
                           ELSE Utf8Len(t))
    BY DEF Character, t
  <1> QED BY <1>1, <1>5, <1>6, <1>7

LEMMA AcceptsStep ==
  ASSUME NEW r \in Seq(Byte), NEW q \in Seq(Byte), NEW c \in Nat \ {0}, Follows(r, c, q),
         Character(r, 1) = c, Accepts(q)
  PROVE  Accepts(r)
  <1>1. PICK f : Walks(r, f) /\ Accepts(r) = f[1]
    BY AcceptsWalks
  <1>2. PICK g : Walks(q, g) /\ Accepts(q) = g[1]
    BY AcceptsWalks
  <1> DEFINE n == Len(q)
             T == {k \in 1..(n + 1) : f[c + k] <=> g[k]}
  <1>3. Len(r) = c + n /\ n \in Nat
    BY DEF Follows
  <1>4. n + 1 \in T
    <2>1. c + (n + 1) = Len(r) + 1 /\ n + 1 \in 1..(n + 1)
      BY <1>3
    <2> QED BY <1>1, <1>2, <2>1 DEF Walks
  <1>5. ASSUME NEW k \in 1..n, \A j \in (k + 1)..(n + 1) : j \in T PROVE k \in T
    <2>1. PICK a : a = Character(q, k) /\ a = Character(r, c + k)
      BY CharacterShift
    <2>2. a \in 0..(n + 1 - k)
      BY <2>1, CharacterFits
    <2>3. c + k \in 1..Len(r)
      BY <1>3
    <2>4. f[c + k] <=> (a > 0 /\ f[c + k + a])
      BY <1>1, <2>1, <2>3 DEF Walks
    <2>5. g[k] <=> (a > 0 /\ g[k + a])
      <3>1. \A j \in 1..Len(q) : g[j] <=> (Character(q, j) > 0 /\ g[j + Character(q, j)])
        BY <1>2, Zenon DEF Walks
      <3> QED BY <2>1, <3>1
    <2>6. a > 0 => k + a \in T /\ c + (k + a) = c + k + a
      <3>1. a > 0 => k + a \in (k + 1)..(n + 1)
        BY <1>3, <2>2
      <3>2. c + (k + a) = c + k + a
        BY <2>2
      <3> QED BY <1>5, <3>1, <3>2
    <2>7. k \in 1..(n + 1) /\ (f[c + k] <=> g[k])
      <3>1. k \in 1..(n + 1)
        BY <1>3
      <3>2. a > 0 => (f[c + k + a] <=> g[k + a])
        BY <2>6
      <3> QED BY <2>4, <2>5, <3>1, <3>2
    <2> QED BY <2>7
  <1>6. \A k \in 1..(n + 1) : k \in T
    <2> HIDE DEF T
    <2> QED BY <1>3, <1>4, <1>5, Downwards
  <1>7. f[c + 1]
    <2>1. 1 \in T
      BY <1>3, <1>6
    <2> QED BY <1>2, <2>1
  <1>8. 1 \in 1..Len(r) /\ 1 + c = c + 1 /\ c > 0
    BY <1>3
  <1> QED BY <1>1, <1>7, <1>8 DEF Walks

\* Only the bytes of a sequence decide its length.
LEMMA Utf8Same ==
  ASSUME NEW d \in Seq(Byte), NEW e \in Seq(Byte), NEW c \in 1..4, c = Utf8Len(d), d # <<>>,
         c <= Len(e), \A k \in 1..c : e[k] = d[k]
  PROVE  Utf8Len(e) = c
  <1>1. Head(d) = d[1] /\ Head(e) = e[1] /\ e[1] = d[1]
    BY DEF Utf8Len
  <1> DEFINE a == Head(d)
             len == IF Between(194, a, 223) THEN 2 ELSE IF Between(224, a, 239) THEN 3
                    ELSE IF Between(240, a, 244) THEN 4 ELSE 0
             least == IF a = 224 THEN 160 ELSE IF a = 240 THEN 144 ELSE 128
             sound(s) == /\ len > 0 /\ len <= Len(s)
                         /\ Between(least, s[2], 191)
                         /\ \A i \in 3..len : Between(128, s[i], 191)
  <1>2. Utf8Len(d) = (IF sound(d) THEN len ELSE 0)
    BY DEF Utf8Len
  <1>3. Utf8Len(e) = (IF sound(e) THEN len ELSE 0)
    BY <1>1 DEF Utf8Len
  <1>4. len \in {0, 2, 3, 4}
    OBVIOUS
  <1> HIDE DEF len, least
  <1>5. sound(d) /\ len = c
    BY <1>2
  <1>6. 2 \in 1..c /\ \A i \in 3..len : i \in 1..c
    BY <1>4, <1>5
  <1>7. sound(e)
    BY <1>5, <1>6
  <1> QED BY <1>3, <1>5, <1>7

LEMMA FollowsTwice ==
  ASSUME NEW r \in Seq(Byte), NEW q \in Seq(Byte), NEW p \in Seq(Byte), NEW c \in Nat, NEW d \in Nat,
         Follows(r, c, q), Follows(q, d, p)
  PROVE  Follows(r, c + d, p)
  <1>1. Len(r) = c + Len(q) /\ Len(q) = d + Len(p) /\ Len(p) \in Nat
    BY DEF Follows
  <1>2. ASSUME NEW k \in 1..Len(p) PROVE r[c + d + k] = p[k]
    <2>1. d + k \in 1..Len(q) /\ c + (d + k) = c + d + k
      BY <1>1
    <2>2. r[c + (d + k)] = q[d + k] /\ q[d + k] = p[k]
      BY <2>1 DEF Follows
    <2> QED BY <2>1, <2>2
  <1> QED BY <1>1, <1>2 DEF Follows

\* Bytes of which none is precomposed are taken over one by one.
Plain(path, i, c) == \A k \in i..(i + c - 1) : Precomposed(path, k) = {}

LEMMA CopiesRun ==
  ASSUME NEW path \in Seq(Byte), NEW f, Rewrites(path, f), NEW i \in 1..Len(path),
         NEW c \in Nat, i + c <= Len(path) + 1,
         Plain(path, i, c)
  PROVE  Follows(f[i], c, f[i + c]) /\ \A k \in 1..c : f[i][k] = path[i + k - 1]
  <1> DEFINE n == Len(path)
             Run(m) == Follows(f[i], m, f[i + m]) /\ \A k \in 1..m : f[i][k] = path[i + k - 1]
             T == {m \in 0..c : Run(m)}
  <1>1. n \in Nat /\ \A k \in 1..(n + 1) : f[k] \in Seq(Byte)
    <2>1. f \in [1..(n + 1) -> Seq(Byte)]
      BY DEF Rewrites
    <2> QED BY <2>1
  <1>2. 0 \in T
    <2>1. f[i] \in Seq(Byte) /\ i + 0 = i
      BY <1>1
    <2>2. Len(f[i]) = 0 + Len(f[i]) /\ \A k \in 1..Len(f[i]) : f[i][0 + k] = f[i][k]
      BY <2>1
    <2> QED BY <2>1, <2>2 DEF Follows
  <1>3. ASSUME NEW m \in 1..c, m - 1 \in T PROVE m \in T
    <2>1. PICK j \in 1..n : j = i + (m - 1) /\ j + 1 = i + m /\ j \in i..(i + c - 1) /\ j = i + m - 1
      <3>1. i + (m - 1) \in 1..n /\ i + (m - 1) + 1 = i + m /\ i + (m - 1) \in i..(i + c - 1)
            /\ i + (m - 1) = i + m - 1
        BY <1>1
      <3> QED BY <3>1
    <2>2. Copies(path, f, j)
      <3>1. Precomposed(path, j) = {}
        BY <2>1 DEF Plain
      <3> QED BY <3>1, RewriteStep DEF Decomposes
    <2>3. PICK r, q, p : r = f[i] /\ q = f[j] /\ p = f[j + 1]
      OBVIOUS
    <2>4. r \in Seq(Byte) /\ q \in Seq(Byte) /\ p \in Seq(Byte)
      BY <1>1, <2>2, <2>3, SMTT(40) DEF Copies
    <2>5. Follows(r, m - 1, q) /\ Follows(q, 1, p) /\ q[1] = path[j]
      BY <1>3, <2>1, <2>2, <2>3 DEF Copies
    <2>6. Follows(r, m, p)
      <3>1. m - 1 \in Nat /\ m - 1 + 1 = m
        OBVIOUS
      <3> QED BY <2>4, <2>5, <3>1, FollowsTwice
    <2>7. r[m] = path[i + m - 1]
      <3>1. 1 \in 1..Len(q)
        BY <2>4, <2>5 DEF Follows
      <3>2. r[m - 1 + 1] = q[1] /\ m - 1 + 1 = m
        BY <2>5, <3>1 DEF Follows
      <3> QED BY <2>1, <2>5, <3>2
    <2>8. \A k \in 1..m : r[k] = path[i + k - 1]
      <3>1. \A k \in 1..m : k = m \/ k \in 1..(m - 1)
        OBVIOUS
      <3>2. \A k \in 1..(m - 1) : r[k] = path[i + k - 1]
        BY <1>3, <2>3
      <3> QED BY <2>7, <3>1, <3>2
    <2>9. Run(m)
      BY <2>1, <2>3, <2>6, <2>8
    <2> QED BY <2>9
  <1>4. \A m \in 0..c : m \in T
    <2> HIDE DEF T
    <2> QED BY <1>2, <1>3, Upwards
  <1>5. c \in T
    BY <1>4
  <1> QED BY <1>5

\* The letter and its mark are characters that a name may have.
LEMMA LetterIs ==
  ASSUME NEW r \in Seq(Byte), Len(r) > 0, Letter(r[1])
  PROVE  Character(r, 1) = 1
  <1>1. r[1] \in NameByte
    <2>1. \A b \in Nat : Letter(b) => b \in NameByte
      BY DEF Letter, Between, NameByte, Alnum
    <2>2. r[1] \in Nat
      BY Bytes
    <2> QED BY <2>1, <2>2
  <1> QED BY <1>1, Bytes DEF Character

LEMMA PairIs ==
  ASSUME NEW r \in Seq(Byte), NEW i \in 1..Len(r), i < Len(r),
         Between(194, r[i], 223), Between(128, r[i + 1], 191)
  PROVE  Character(r, i) = 2
  <1> DEFINE d == Drop(r, i - 1)
  <1>1. Len(r) \in Nat /\ i - 1 \in Nat /\ i + 1 \in 1..Len(r) /\ r[i] \in Nat /\ r[i + 1] \in Nat
    <2>1. Len(r) \in Nat /\ i - 1 \in Nat /\ i + 1 \in 1..Len(r) /\ r[i] \in Byte /\ r[i + 1] \in Byte
      OBVIOUS
    <2> QED BY <2>1, Bytes
  <1>2. d \in Seq(Byte) /\ Len(d) >= 2 /\ d[1] = r[i] /\ d[2] = r[i + 1]
    <2>1. /\ d \in Seq(Byte) /\ Len(d) = (IF i - 1 < Len(r) THEN Len(r) - (i - 1) ELSE 0)
          /\ \A j \in 1..Len(d) : d[j] = r[i - 1 + j]
      BY <1>1, DropIs
    <2> HIDE DEF d
    <2>2. Len(d) >= 2 /\ 1 \in 1..Len(d) /\ 2 \in 1..Len(d) /\ i - 1 + 1 = i /\ i - 1 + 2 = i + 1
      BY <1>1, <2>1
    <2> QED BY <2>1, <2>2
  <1>3. ~(r[i] < 128)
    BY <1>1 DEF Between
  <1>4. Character(r, i) = Utf8Len(d)
    BY <1>3 DEF Character, d
  <1> HIDE DEF d
  <1>5. Head(d) = r[i]
    BY <1>2
  <1>6. Utf8Len(d) = 2
    BY <1>1, <1>2, <1>5 DEF Utf8Len, Between
  <1> QED BY <1>4, <1>6

\* What is left of a text from byte i on.
LEMMA RestIs ==
  ASSUME NEW name \in Seq(Byte), NEW i \in 1..Len(name)
  PROVE  /\ Drop(name, i - 1) \in Seq(Byte) /\ Drop(name, i - 1) # <<>>
         /\ Len(Drop(name, i - 1)) = Len(name) + 1 - i
         /\ \A k \in 1..(Len(name) + 1 - i) : Drop(name, i - 1)[k] = name[i + k - 1]
  <1> DEFINE d == Drop(name, i - 1)
  <1>1. i - 1 \in Nat /\ Len(name) \in Nat /\ i - 1 < Len(name)
    OBVIOUS
  <1>2. /\ d \in Seq(Byte) /\ Len(d) = (IF i - 1 < Len(name) THEN Len(name) - (i - 1) ELSE 0)
        /\ \A j \in 1..Len(d) : d[j] = name[i - 1 + j]
    BY <1>1, DropIs
  <1> HIDE DEF d
  <1>3. Len(d) = Len(name) + 1 - i /\ Len(d) > 0
    BY <1>1, <1>2
  <1>4. \A k \in 1..(Len(name) + 1 - i) : i - 1 + k = i + k - 1
    BY <1>1
  <1>5. d \in Seq(Byte) /\ d # <<>> /\ Len(d) = Len(name) + 1 - i
        /\ \A k \in 1..(Len(name) + 1 - i) : d[k] = name[i + k - 1]
    BY <1>2, <1>3, <1>4
  <1> QED BY <1>5 DEF d

\* A character is one of the bytes of ASCII, or a sequence whose bytes after
\* the first are not the first of another.
LEMMA CharacterParts ==
  ASSUME NEW name \in Seq(Byte), NEW i \in 1..Len(name), NEW a, a = Character(name, i), a > 0
  PROVE  /\ a \in 1..4 /\ i + a <= Len(name) + 1
         /\ \/ a = 1 /\ name[i] \in NameByte \cup {Dot}
            \/ a = Utf8Len(Drop(name, i - 1)) /\ ~(name[i] < 128)
         /\ \A k \in (i + 1)..(i + a - 1) : name[k] # 195
  <1> DEFINE d == Drop(name, i - 1)
  <1>1. a \in 1..4 /\ i + a <= Len(name) + 1 /\ Len(name) \in Nat
    BY CharacterLength
  <1>2. /\ d \in Seq(Byte) /\ Len(d) = Len(name) + 1 - i
        /\ \A k \in 1..(Len(name) + 1 - i) : d[k] = name[i + k - 1]
    BY RestIs
  <1>3. a = IF name[i] < 128 THEN IF name[i] \in NameByte \cup {Dot} THEN 1 ELSE 0 ELSE Utf8Len(d)
    BY DEF Character
  <1> HIDE DEF d
  <1>4. CASE name[i] < 128
    BY <1>1, <1>3, <1>4
  <1>5. CASE ~(name[i] < 128)
    <2>1. a = Utf8Len(d)
      BY <1>3, <1>5
    <2>2. ASSUME NEW k \in (i + 1)..(i + a - 1) PROVE name[k] # 195
      <3>1. PICK m \in 2..a : k = i + m - 1 /\ m \in 1..(Len(name) + 1 - i)
        <4>1. k - i + 1 \in 2..a /\ k = i + (k - i + 1) - 1 /\ k - i + 1 \in 1..(Len(name) + 1 - i)
          BY <1>1
        <4> QED BY <4>1
      <3>2. d[m] <= 191 /\ d[m] = name[k]
        <4>1. d \in Seq(Nat)
          BY <1>2, Bytes
        <4> QED BY <1>2, <2>1, <3>1, <4>1, Utf8Bytes
      <3>3. name[k] \in Nat
        BY <1>2, <3>1, Bytes, SMTT(40)
      <3> QED BY <3>2, <3>3
    <2> QED BY <1>1, <1>5, <2>1, <2>2 DEF d
  <1> QED BY <1>4, <1>5

LEMMA SameCharacter ==
  ASSUME NEW name \in Seq(Byte), NEW i \in 1..Len(name), NEW r \in Seq(Byte),
         NEW a, a = Character(name, i), a > 0, a <= Len(r),
         \A k \in 1..a : r[k] = name[i + k - 1]
  PROVE  Character(r, 1) = a
  <1>1. a \in 1..4 /\ i + a <= Len(name) + 1 /\ Len(name) \in Nat /\ 1 \in 1..Len(r)
    BY CharacterParts
  <1>2. r[1] = name[i] /\ r[1] \in Nat
    <2>1. 1 \in 1..a /\ i + 1 - 1 = i /\ r[1] \in Byte
      BY <1>1
    <2>2. r[1] = name[i + 1 - 1]
      BY <2>1
    <2> QED BY <2>1, <2>2, Bytes
  <1>3. CASE a = 1 /\ name[i] \in NameByte \cup {Dot}
    BY <1>2, <1>3, Bytes DEF Character
  <1>4. CASE a = Utf8Len(Drop(name, i - 1)) /\ ~(name[i] < 128)
    <2> DEFINE d == Drop(name, i - 1)
               e == Drop(r, 1 - 1)
    <2>1. Character(r, 1) = Utf8Len(e)
      BY <1>2, <1>4 DEF Character
    <2>2. /\ d \in Seq(Byte) /\ d # <<>>
          /\ \A k \in 1..(Len(name) + 1 - i) : d[k] = name[i + k - 1]
      BY RestIs
    <2>3. /\ e \in Seq(Byte) /\ Len(e) = Len(r) + 1 - 1
          /\ \A k \in 1..(Len(r) + 1 - 1) : e[k] = r[1 + k - 1]
      BY <1>1, RestIs
    <2>4. a = Utf8Len(d)
      BY <1>4
    <2> HIDE DEF d, e
    <2>5. a <= Len(e) /\ \A k \in 1..a : e[k] = d[k]
      <3>1. \A k \in 1..a : /\ k \in 1..(Len(name) + 1 - i) /\ k \in 1..(Len(r) + 1 - 1)
                            /\ 1 + k - 1 = k
        BY <1>1
      <3> QED BY <1>1, <2>2, <2>3, <3>1
    <2>6. Utf8Len(e) = a
      BY <1>1, <2>2, <2>3, <2>4, <2>5, Utf8Same
    <2> QED BY <2>1, <2>6
  <1> QED BY <1>3, <1>4, CharacterParts

\* A letter and its mark, put before an accepted text.
LEMMA AcceptsLetter ==
  ASSUME NEW r \in Seq(Byte), NEW q \in Seq(Byte), Follows(r, 3, q), Accepts(q),
         Letter(r[1]), r[2] = 204, Between(128, r[3], 191)
  PROVE  Accepts(r)
  <1>1. Len(r) = 3 + Len(q) /\ Len(q) \in Nat /\ 1 \in Nat
    BY DEF Follows
  <1>2. PICK s \in Seq(Byte) : Len(s) = 2 + Len(q) /\ \A k \in 1..Len(s) : s[k] = r[1 + k]
    <2> DEFINE d == Drop(r, 1)
    <2>1. /\ d \in Seq(Byte) /\ Len(d) = (IF 1 < Len(r) THEN Len(r) - 1 ELSE 0)
          /\ \A k \in 1..Len(d) : d[k] = r[1 + k]
      BY <1>1, DropIs
    <2> HIDE DEF d
    <2>2. Len(d) = 2 + Len(q)
      BY <1>1, <2>1
    <2>3. d \in Seq(Byte) /\ Len(d) = 2 + Len(q) /\ \A k \in 1..Len(d) : d[k] = r[1 + k]
      BY <2>1, <2>2
    <2> QED BY ONLY <2>3, Zenon
  <1>3. Follows(r, 1, s)
    BY <1>1, <1>2 DEF Follows
  <1>4. Follows(s, 2, q)
    <2>1. ASSUME NEW k \in 1..Len(q) PROVE s[2 + k] = q[k]
      <3>1. 2 + k \in 1..Len(s) /\ 1 + (2 + k) = 3 + k
        BY <1>1, <1>2
      <3>2. s[2 + k] = r[3 + k] /\ r[3 + k] = q[k]
        BY <1>2, <3>1, SMTT(40) DEF Follows
      <3> QED BY <3>2
    <2> QED BY <1>2, <2>1 DEF Follows
  <1>5. 1 \in 1..Len(s) /\ 1 < Len(s) /\ s[1] = 204 /\ s[1 + 1] = r[3]
    <2>1. 1 \in 1..Len(s) /\ 2 \in 1..Len(s) /\ 1 < Len(s)
      BY <1>1, <1>2
    <2>2. s[1] = r[1 + 1] /\ s[2] = r[1 + 2] /\ 1 + 1 = 2 /\ 1 + 2 = 3
      BY <1>2, <2>1
    <2> QED BY <2>1, <2>2
  <1>6. Character(s, 1) = 2
    <2>1. Between(194, s[1], 223) /\ Between(128, s[1 + 1], 191)
      BY <1>5 DEF Between
    <2> QED BY <1>5, <2>1, PairIs
  <1>7. Accepts(s)
    BY <1>4, <1>6, AcceptsStep
  <1>8. Character(r, 1) = 1
    BY <1>1, LetterIs, SMTT(40)
  <1> QED BY <1>3, <1>7, <1>8, AcceptsStep

\* The other spelling of a path is accepted when the path is.
LEMMA RewriteAccepts ==
  ASSUME NEW path \in Seq(Byte), NEW f, Rewrites(path, f), Accepts(path)
  PROVE  Accepts(f[1])
  <1> DEFINE n == Len(path)
  <1>1. PICK w : Walks(path, w) /\ w[1]
    BY AcceptsWalks
  <1> DEFINE T == {i \in 1..(n + 1) : w[i] => Accepts(f[i])}
  <1>2. n \in Nat /\ \A i \in 1..(n + 1) : f[i] \in Seq(Byte)
    <2>1. f \in [1..(n + 1) -> Seq(Byte)]
      BY DEF Rewrites
    <2> QED BY <2>1
  <1>3. n + 1 \in T
    <2>1. PICK e : e = f[n + 1]
      OBVIOUS
    <2>2. e = <<>> /\ e \in Seq(Byte) /\ n + 1 \in 1..(n + 1)
      BY <1>2, <2>1 DEF Rewrites
    <2>3. PICK g : Walks(e, g) /\ Accepts(e) = g[1]
      BY <2>2, AcceptsWalks
    <2>4. Len(e) + 1 = 1
      BY <2>2
    <2>5. Accepts(e)
      BY <2>3, <2>4 DEF Walks
    <2> QED BY <2>1, <2>2, <2>5
  <1>4. ASSUME NEW i \in 1..n, \A j \in (i + 1)..(n + 1) : j \in T PROVE i \in T
    <2> SUFFICES ASSUME w[i] PROVE Accepts(f[i])
      BY <1>2
    <2>1. PICK a : a = Character(path, i)
      OBVIOUS
    <2>2. a > 0 /\ w[i + a]
      <3>1. \A k \in 1..n : w[k] <=> (Character(path, k) > 0 /\ w[k + Character(path, k)])
        BY <1>1, Zenon DEF Walks
      <3> QED BY <2>1, <3>1
    <2>3. /\ a \in 1..4 /\ i + a <= n + 1 /\ i + a \in (i + 1)..(n + 1) /\ i + a \in 1..(n + 1)
          /\ \A k \in (i + 1)..(i + a - 1) : path[k] # 195
      <3>1. /\ a \in 1..4 /\ i + a <= Len(path) + 1
            /\ \A k \in (i + 1)..(i + a - 1) : path[k] # 195
        BY <2>1, <2>2, CharacterParts
      <3> QED BY <1>2, <3>1
    <2>4. Accepts(f[i + a])
      BY <1>4, <2>2, <2>3
    <2>5. PICK r, q : r = f[i] /\ q = f[i + a] /\ r \in Seq(Byte) /\ q \in Seq(Byte)
      BY <1>2, <2>3
    <2>6. CASE Decomposes(path, f, i)
      <3>1. i < Len(path) /\ Between(194, path[i], 223) /\ Between(128, path[i + 1], 191)
        BY <2>6 DEF Decomposes, Between
      <3>2. a = 2
        BY <2>1, <3>1, PairIs
      <3>3. Follows(r, 3, q) /\ Letter(r[1]) /\ r[2] = 204 /\ Between(128, r[3], 191)
        BY <2>5, <2>6, <3>2 DEF Decomposes
      <3> QED BY <2>4, <2>5, <3>3, AcceptsLetter
    <2>7. CASE Copies(path, f, i)
      <3>1. ASSUME NEW k \in i..(i + a - 1) PROVE Precomposed(path, k) = {}
        <4>1. CASE k = i
          BY <2>7, <4>1 DEF Copies
        <4>2. CASE k # i
          <5>1. k \in (i + 1)..(i + a - 1)
            BY <2>3, <4>2
          <5> QED BY <2>3, <5>1 DEF Precomposed
        <4> QED BY <4>1, <4>2
      <3>2. Follows(r, a, q) /\ \A k \in 1..a : r[k] = path[i + k - 1]
        <4>1. a \in Nat
          BY <2>3
        <4>2. i + a <= Len(path) + 1
          BY <2>3
        <4>3. Follows(f[i], a, f[i + a]) /\ \A k \in 1..a : f[i][k] = path[i + k - 1]
          <5>1. Plain(path, i, a) /\ i \in 1..Len(path)
            BY <3>1 DEF Plain
          <5> HIDE DEF n
          <5> QED BY <4>1, <4>2, <5>1, CopiesRun
        <4> QED BY <2>5, <4>3
      <3>3. Character(r, 1) = a
        <4>1. a <= Len(r)
          BY <2>3, <2>5, <3>2, SMTT(40) DEF Follows
        <4> QED BY <2>1, <2>2, <2>5, <3>2, <4>1, SameCharacter
      <3>4. a \in Nat \ {0}
        BY <2>3
      <3> QED BY <2>4, <2>5, <3>2, <3>3, <3>4, AcceptsStep
    <2> QED BY <2>6, <2>7, RewriteStep
  <1>5. \A i \in 1..(n + 1) : i \in T
    <2> HIDE DEF T
    <2> QED BY <1>2, <1>3, <1>4, Downwards
  <1>6. 1 \in T
    BY <1>2, <1>5
  <1> QED BY <1>1, <1>6

\* The table has each letter with its mark once.
LEMMA MarksApart ==
  \A t, u \in NfdTable : t[2] = u[2] /\ t[3] = u[3] => t[1] = u[1]
  <1>1. \A t, u \in Capitals : t[2] = u[2] /\ t[3] = u[3] => t[1] = u[1]
    BY SMTT(60) DEF Capitals
  <1>2. \A t \in Capitals : t[1] \in Nat /\ t[2] \in Nat /\ Between(65, t[2], 90)
    BY DEF Capitals, Between
  <1>3. ASSUME NEW t \in NfdTable
        PROVE  \E s \in Capitals, d \in {0, 32} : t[1] = s[1] + d /\ t[2] = s[2] + d /\ t[3] = s[3]
    <2>1. CASE t \in Capitals
      <3>1. t[1] = t[1] + 0 /\ t[2] = t[2] + 0 /\ t[3] = t[3] /\ 0 \in {0, 32}
        BY <1>2, <2>1
      <3> QED BY <2>1, <3>1
    <2>2. CASE \E s \in Capitals : t = <<s[1] + 32, s[2] + 32, s[3]>>
      <3>1. PICK s \in Capitals : t = <<s[1] + 32, s[2] + 32, s[3]>>
        BY <2>2
      <3>2. t[1] = s[1] + 32 /\ t[2] = s[2] + 32 /\ t[3] = s[3] /\ 32 \in {0, 32}
        BY <3>1
      <3> QED BY <3>2
    <2> QED BY <2>1, <2>2 DEF NfdTable
  <1> SUFFICES ASSUME NEW t \in NfdTable, NEW u \in NfdTable, t[2] = u[2], t[3] = u[3]
               PROVE  t[1] = u[1]
    OBVIOUS
  <1>4. PICK s \in Capitals, d \in {0, 32} : t[1] = s[1] + d /\ t[2] = s[2] + d /\ t[3] = s[3]
    BY <1>3
  <1>5. PICK v \in Capitals, e \in {0, 32} : u[1] = v[1] + e /\ u[2] = v[2] + e /\ u[3] = v[3]
    BY <1>3
  <1>6. d = e /\ s[2] = v[2]
    <2>1. /\ s[2] \in Nat /\ 65 <= s[2] /\ s[2] <= 90
          /\ v[2] \in Nat /\ 65 <= v[2] /\ v[2] <= 90
      BY <1>2 DEF Between
    <2>2. s[2] + d = v[2] + e
      BY <1>4, <1>5
    <2> QED BY <2>1, <2>2
  <1>7. s[1] = v[1]
    BY <1>1, <1>4, <1>5, <1>6
  <1> QED BY <1>4, <1>5, <1>6, <1>7

\* The second bytes of the table are bytes.
LEMMA Numbers ==
  195 \in Byte /\ \A b \in Nat : b <= 191 => b \in Byte
  BY DEF Byte

\* What is put in the place of byte i, and how many bytes it stands for.
Made(path, i) == CHOOSE t \in Decomposed(path, i) : TRUE
Put(path, i) == IF Decomposed(path, i) = {} THEN <<path[i]>> ELSE <<195, Made(path, i)[1]>>
Span(path, i) == IF Decomposed(path, i) = {} THEN 1 ELSE 3

\* A text that has the bytes of t has t put in their place, whichever was chosen.
LEMMA MadeIs ==
  ASSUME NEW path \in Seq(Byte), NEW i \in 1..Len(path), NEW t \in Decomposed(path, i)
  PROVE  Put(path, i) = <<195, t[1]>> /\ Span(path, i) = 3
  <1>1. PICK u : u = Made(path, i)
    OBVIOUS
  <1>2. u \in Decomposed(path, i)
    BY <1>1 DEF Made
  <1>3. t \in NfdTable /\ u \in NfdTable /\ t[2] = u[2] /\ t[3] = u[3]
    BY <1>2 DEF Decomposed
  <1>4. t[1] = u[1]
    BY <1>3, MarksApart
  <1> QED BY <1>1, <1>4 DEF Put, Span

LEMMA PutIs ==
  ASSUME NEW path \in Seq(Byte), NEW i \in 1..Len(path)
  PROVE  /\ Put(path, i) \in Seq(Byte) /\ Span(path, i) \in {1, 3}
         /\ i + Span(path, i) \in (i + 1)..(Len(path) + 1)
  <1>1. CASE Decomposed(path, i) = {}
    <2>1. <<path[i]>> \in Seq(Byte)
      OBVIOUS
    <2> QED BY <1>1, <2>1 DEF Put, Span
  <1>2. CASE Decomposed(path, i) # {}
    <2>1. PICK t : t \in Decomposed(path, i)
      BY <1>2
    <2>2. t \in NfdTable /\ i + 2 <= Len(path)
      BY <2>1 DEF Decomposed
    <2>3. PICK b \in Nat : b = t[1] /\ Between(128, b, 191)
      BY <2>2, TableIs
    <2>4. b \in Byte /\ 195 \in Byte
      <3>1. b <= 191
        BY <2>3 DEF Between
      <3> QED BY <3>1, Numbers
    <2>5. <<195, b>> \in Seq(Byte)
      BY <2>4
    <2>6. Put(path, i) = <<195, b>> /\ Span(path, i) = 3
      BY <2>1, <2>3, MadeIs
    <2>7. i + 3 \in (i + 1)..(Len(path) + 1) /\ 3 \in {1, 3}
      BY <2>2
    <2> QED BY <2>5, <2>6, <2>7
  <1> QED BY <1>1, <1>2

\* Composes(path, f): f[i] is what path has from i on, put together.
Composes(path, f) ==
    /\ f \in [1..(Len(path) + 1) -> Seq(Byte)]
    /\ f[Len(path) + 1] = <<>>
    /\ \A i \in 1..Len(path) : f[i] = Put(path, i) \o f[i + Span(path, i)]

LEMMA ComposeExists ==
  ASSUME NEW path \in Seq(Byte)
  PROVE  \E f : Composes(path, f)
  <1> DEFINE n == Len(path)
             F == [1..(n + 1) -> Seq(Byte)]
             op == [p \in (1..n) \X F |-> Put(path, p[1]) \o p[2][p[1] + Span(path, p[1])]]
  <1>1. n \in Nat /\ <<>> \in Seq(Byte)
    OBVIOUS
  <1>2. \A i \in 1..n : Put(path, i) \in Seq(Byte) /\ i + Span(path, i) \in (i + 1)..(n + 1)
    BY PutIs
  <1>3. ASSUME NEW i \in 1..n, NEW f \in F
        PROVE  /\ op[<<i, f>>] = Put(path, i) \o f[i + Span(path, i)]
               /\ Put(path, i) \o f[i + Span(path, i)] \in Seq(Byte)
    <2>1. i + Span(path, i) \in 1..(n + 1) /\ Put(path, i) \in Seq(Byte)
      BY <1>2
    <2>2. PICK p, q : p = Put(path, i) /\ q = f[i + Span(path, i)]
      OBVIOUS
    <2>3. p \in Seq(Byte) /\ q \in Seq(Byte)
      BY <2>1, <2>2
    <2>4. p \o q \in Seq(Byte)
      BY ONLY <2>3, Joined
    <2>5. op[<<i, f>>] = Put(path, i) \o f[i + Span(path, i)]
      OBVIOUS
    <2> QED BY <2>2, <2>4, <2>5
  <1>4. op \in [(1..n) \X F -> Seq(Byte)]
    BY <1>3
  <1> HIDE DEF op, n
  <1>5. \A i \in 1..n : \A f, g \in F :
            (\A j \in (i + 1)..(n + 1) : f[j] = g[j]) => op[<<i, f>>] = op[<<i, g>>]
    BY <1>2, <1>3, ZenonT(40)
  <1>6. PICK f : GivenBy(n, Seq(Byte), <<>>, op, f)
    <2>1. LooksAhead(n, Seq(Byte), op)
      BY <1>4, <1>5 DEF LooksAhead
    <2> QED BY <1>1, <2>1, Backwards
  <1>7. Composes(path, f)
    BY <1>3, <1>6 DEF GivenBy, Composes, n
  <1> QED BY <1>7

LEMMA ComposedComposes ==
  ASSUME NEW path \in Seq(Byte)
  PROVE  \E f : Composes(path, f) /\ Composed(path) = f[1]
  <1> DEFINE n == Len(path)
             at(f, i) == IF i > n THEN <<>>
                         ELSE IF Decomposed(path, i) = {} THEN <<path[i]>> \o f[i + 1]
                         ELSE <<195, Made(path, i)[1]>> \o f[i + 3]
             fix(f) == f = [i \in 1..(n + 1) |-> at(f, i)]
             from == CHOOSE f : fix(f)
  <1>1. Composed(path) = from[1]
    BY Zenon DEF Composed, Made
  <1>2. \A f : \A i \in 1..n : at(f, i) = Put(path, i) \o f[i + Span(path, i)]
    <2> SUFFICES ASSUME NEW f, NEW i \in 1..n PROVE at(f, i) = Put(path, i) \o f[i + Span(path, i)]
      BY Zenon
    <2>1. ~(i > n)
      OBVIOUS
    <2>2. CASE Decomposed(path, i) = {}
      BY <2>1, <2>2, Zenon DEF Put, Span
    <2>3. CASE Decomposed(path, i) # {}
      BY <2>1, <2>3, Zenon DEF Put, Span
    <2> QED BY <2>2, <2>3
  <1>3. n \in Nat /\ n + 1 \in 1..(n + 1) /\ \A f : at(f, n + 1) = <<>>
    OBVIOUS
  <1>4. \A i \in 1..(n + 1) : i \in 1..n \/ i = n + 1
    OBVIOUS
  <1> HIDE DEF at
  <1>5. \E f : fix(f)
    <2>1. PICK f : Composes(path, f)
      BY ComposeExists
    <2>2. f \in [1..(n + 1) -> Seq(Byte)]
      BY <2>1 DEF Composes
    <2>3. \A i \in 1..(n + 1) : f[i] = at(f, i)
      BY <1>2, <1>3, <1>4, <2>1 DEF Composes
    <2>4. fix(f)
      BY <2>2, <2>3
    <2> QED BY <2>4
  <1>6. fix(from)
    <2> HIDE DEF fix
    <2> QED BY <1>5
  <1> HIDE DEF from
  <1>7. \A i \in 1..(n + 1) : from[i] = at(from, i)
    BY <1>6
  <1>8. \A i \in 1..(n + 1) : from[i] \in Seq(Byte)
    <2> DEFINE T == {i \in 1..(n + 1) : from[i] \in Seq(Byte)}
    <2>1. n + 1 \in T
      <3>1. from[n + 1] = <<>>
        BY <1>3, <1>7
      <3>2. <<>> \in Seq(Byte)
        OBVIOUS
      <3> QED BY <1>3, <3>1, <3>2
    <2>2. ASSUME NEW i \in 1..n, \A j \in (i + 1)..(n + 1) : j \in T PROVE i \in T
      <3>1. Put(path, i) \in Seq(Byte) /\ i + Span(path, i) \in (i + 1)..(n + 1)
        BY PutIs
      <3>2. from[i + Span(path, i)] \in Seq(Byte)
        BY <2>2, <3>1
      <3>3. from[i] = Put(path, i) \o from[i + Span(path, i)] /\ i \in 1..(n + 1)
        BY <1>2, <1>7
      <3>4. PICK p, q : p = Put(path, i) /\ q = from[i + Span(path, i)]
        OBVIOUS
      <3>5. p \o q \in Seq(Byte)
        <4>1. p \in Seq(Byte) /\ q \in Seq(Byte)
          BY <3>1, <3>2, <3>4
        <4> QED BY ONLY <4>1, Joined
      <3>6. from[i] \in Seq(Byte)
        BY <3>3, <3>4, <3>5
      <3> QED BY <3>3, <3>6
    <2> HIDE DEF T
    <2>3. \A i \in 1..(n + 1) : i \in T
      BY <1>3, <2>1, <2>2, Downwards
    <2> QED BY <2>3 DEF T
  <1>9. Composes(path, from)
    <2>1. from \in [1..(n + 1) -> Seq(Byte)]
      BY <1>6, <1>8
    <2>2. from[n + 1] = <<>>
      BY <1>3, <1>7
    <2>3. \A i \in 1..n : from[i] = Put(path, i) \o from[i + Span(path, i)]
      BY <1>2, <1>7, <1>3, SMTT(40)
    <2> QED BY <2>1, <2>2, <2>3 DEF Composes
  <1> QED BY <1>1, <1>9

\* What a text is put together to does not depend on what goes before it.
LEMMA PutShift ==
  ASSUME NEW r \in Seq(Byte), NEW q \in Seq(Byte), NEW c \in Nat, Follows(r, c, q),
         NEW k \in 1..Len(q)
  PROVE  Put(r, c + k) = Put(q, k) /\ Span(r, c + k) = Span(q, k)
  <1>1. Len(r) = c + Len(q) /\ Len(q) \in Nat /\ k \in Nat /\ r[c + k] = q[k]
    BY DEF Follows
  <1>2. c + k + 2 <= Len(r) <=> k + 2 <= Len(q)
    BY <1>1
  <1>3. k + 2 <= Len(q) => r[c + k + 1] = q[k + 1] /\ r[c + k + 2] = q[k + 2]
    <2> SUFFICES ASSUME k + 2 <= Len(q) PROVE r[c + k + 1] = q[k + 1] /\ r[c + k + 2] = q[k + 2]
      OBVIOUS
    <2>1. k + 1 \in 1..Len(q) /\ k + 2 \in 1..Len(q) /\ c + (k + 1) = c + k + 1
          /\ c + (k + 2) = c + k + 2
      BY <1>1
    <2> QED BY <2>1 DEF Follows
  <1>4. Decomposed(r, c + k) = Decomposed(q, k)
    <2>1. CASE k + 2 <= Len(q)
      BY <1>1, <1>2, <1>3, <2>1 DEF Decomposed
    <2>2. CASE ~(k + 2 <= Len(q))
      <3>1. Decomposed(r, c + k) = {} /\ Decomposed(q, k) = {}
        BY <1>2, <2>2, Zenon DEF Decomposed
      <3> QED BY <3>1
    <2> QED BY <2>1, <2>2
  <1>5. Made(r, c + k) = Made(q, k)
    BY <1>4, Zenon DEF Made
  <1>6. r[c + k] = q[k]
    BY <1>1
  <1> QED BY <1>4, <1>5, <1>6, Zenon DEF Put, Span

LEMMA ComposedStep ==
  ASSUME NEW r \in Seq(Byte), NEW q \in Seq(Byte), Len(r) > 0, Follows(r, Span(r, 1), q)
  PROVE  Composed(r) = Put(r, 1) \o Composed(q) /\ Composed(q) \in Seq(Byte)
  <1>1. PICK f : Composes(r, f) /\ Composed(r) = f[1]
    BY ComposedComposes
  <1>2. PICK g : Composes(q, g) /\ Composed(q) = g[1]
    BY ComposedComposes
  <1>3. PICK c \in Nat : c = Span(r, 1) /\ 1 \in 1..Len(r) /\ 1 + c = c + 1
    <2>1. 1 \in 1..Len(r)
      OBVIOUS
    <2>2. Span(r, 1) \in {1, 3}
      BY <2>1, PutIs
    <2> QED BY <2>1, <2>2
  <1> DEFINE n == Len(q)
             T == {k \in 1..(n + 1) : f[c + k] = g[k]}
  <1>4. Follows(r, c, q) /\ Len(r) = c + n /\ n \in Nat
    BY <1>3 DEF Follows
  <1>5. n + 1 \in T
    <2>1. c + (n + 1) = Len(r) + 1 /\ n + 1 \in 1..(n + 1)
      BY <1>4
    <2> QED BY <1>1, <1>2, <2>1 DEF Composes
  <1>6. ASSUME NEW k \in 1..n, \A j \in (k + 1)..(n + 1) : j \in T PROVE k \in T
    <2>1. PICK a, p : a = Span(q, k) /\ a = Span(r, c + k) /\ p = Put(q, k) /\ p = Put(r, c + k)
      BY <1>4, PutShift
    <2>2. k + a \in (k + 1)..(n + 1) /\ a \in Nat
      <3>1. k \in 1..Len(q)
        OBVIOUS
      <3>2. Span(q, k) \in {1, 3} /\ k + Span(q, k) \in (k + 1)..(Len(q) + 1)
        BY <3>1, PutIs
      <3>3. a \in {1, 3} /\ k + a \in (k + 1)..(n + 1)
        BY <2>1, <3>2
      <3> QED BY <3>3
    <2>3. c + k \in 1..Len(r) /\ c + (k + a) = c + k + a /\ k \in 1..(n + 1)
      BY <1>4, <2>2
    <2>4. f[c + k] = p \o f[c + k + a]
      BY <1>1, <2>1, <2>3 DEF Composes
    <2>5. g[k] = p \o g[k + a]
      <3>1. \A j \in 1..Len(q) : g[j] = Put(q, j) \o g[j + Span(q, j)]
        BY <1>2 DEF Composes
      <3> QED BY <2>1, <3>1
    <2>6. f[c + k + a] = g[k + a]
      <3>1. k + a \in T
        BY <1>6, <2>2
      <3> QED BY <2>3, <3>1
    <2> QED BY <2>3, <2>4, <2>5, <2>6
  <1>7. 1 \in T
    <2>1. \A k \in 1..(n + 1) : k \in T
      <3> HIDE DEF T
      <3> QED BY <1>4, <1>5, <1>6, Downwards
    <2> QED BY <1>4, <2>1
  <1>8. f[1] = Put(r, 1) \o f[1 + c]
    BY <1>1, <1>3 DEF Composes
  <1>9. g[1] \in Seq(Byte)
    <2>1. 1 \in 1..(n + 1)
      BY <1>4
    <2> QED BY <1>2, <2>1 DEF Composes
  <1> QED BY <1>1, <1>2, <1>3, <1>7, <1>8, <1>9

LEMMA TwoBytes ==
  ASSUME NEW a \in Byte, NEW b \in Byte, NEW q \in Seq(Byte)
  PROVE  <<a>> \o (<<b>> \o q) = <<a, b>> \o q
  <1>1. PICK s, t, u : s = <<a>> /\ t = <<b>> /\ u = <<a, b>>
    OBVIOUS
  <1>2. /\ s \in Seq(Byte) /\ Len(s) = 1 /\ s[1] = a
        /\ t \in Seq(Byte) /\ Len(t) = 1 /\ t[1] = b
        /\ u \in Seq(Byte) /\ Len(u) = 2 /\ u[1] = a /\ u[2] = b
    BY <1>1
  <1>3. PICK p : p = t \o q
    OBVIOUS
  <1>4. /\ p \in Seq(Byte) /\ Len(p) = 1 + Len(q) /\ p[1] = b
        /\ \A k \in 1..Len(q) : p[1 + k] = q[k]
    <2>1. /\ p \in Seq(Byte) /\ Len(p) = Len(t) + Len(q)
          /\ \A k \in 1..Len(t) : p[k] = t[k]
          /\ \A k \in 1..Len(q) : p[Len(t) + k] = q[k]
      BY <1>2, <1>3, Joined, ZenonT(40)
    <2>2. 1 \in 1..Len(t)
      BY <1>2
    <2> QED BY <1>2, <2>1, <2>2
  <1>5. PICK v, w : v = s \o p /\ w = u \o q
    OBVIOUS
  <1>6. /\ v \in Seq(Byte) /\ Len(v) = 1 + Len(p) /\ v[1] = a
        /\ \A k \in 1..Len(p) : v[1 + k] = p[k]
    <2>1. /\ v \in Seq(Byte) /\ Len(v) = Len(s) + Len(p)
          /\ \A k \in 1..Len(s) : v[k] = s[k]
          /\ \A k \in 1..Len(p) : v[Len(s) + k] = p[k]
      <3>1. s \in Seq(Byte) /\ p \in Seq(Byte) /\ v = s \o p
        BY <1>2, <1>4, <1>5
      <3> QED BY <3>1, Joined, Zenon
    <2>2. 1 \in 1..Len(s)
      BY <1>2
    <2> QED BY <1>2, <2>1, <2>2
  <1>7. /\ w \in Seq(Byte) /\ Len(w) = 2 + Len(q) /\ w[1] = a /\ w[2] = b
        /\ \A k \in 1..Len(q) : w[2 + k] = q[k]
    <2>1. /\ w \in Seq(Byte) /\ Len(w) = Len(u) + Len(q)
          /\ \A k \in 1..Len(u) : w[k] = u[k]
          /\ \A k \in 1..Len(q) : w[Len(u) + k] = q[k]
      BY <1>2, <1>5, Joined, ZenonT(40)
    <2>2. 1 \in 1..Len(u) /\ 2 \in 1..Len(u)
      BY <1>2
    <2> QED BY <1>2, <2>1, <2>2
  <1>8. ASSUME NEW k \in 1..Len(v) PROVE v[k] = w[k]
    <2>0. Len(q) \in Nat /\ Len(v) = 2 + Len(q) /\ Len(p) = 1 + Len(q)
      BY <1>4, <1>6
    <2>1. CASE k = 1
      BY <1>6, <1>7, <2>1
    <2>2. CASE k = 2
      <3>1. 1 \in 1..Len(p) /\ 1 + 1 = 2
        BY <2>0
      <3> QED BY <1>4, <1>6, <1>7, <2>2, <3>1
    <2>3. CASE k > 2
      <3>1. PICK j \in 1..Len(q) : k = 2 + j /\ k = 1 + (1 + j) /\ 1 + j \in 1..Len(p)
        <4>1. /\ k - 2 \in 1..Len(q) /\ k = 2 + (k - 2) /\ k = 1 + (1 + (k - 2))
              /\ 1 + (k - 2) \in 1..Len(p)
          BY <2>0, <2>3
        <4> QED BY <4>1
      <3>2. v[k] = p[1 + j] /\ p[1 + j] = q[j] /\ w[k] = q[j]
        BY <1>4, <1>6, <1>7, <3>1
      <3> QED BY <3>2
    <2> QED BY <2>1, <2>2, <2>3
  <1>9. v = w
    <2>1. Len(v) = Len(w)
      BY <1>4, <1>6, <1>7
    <2> QED BY <1>6, <1>7, <1>8, <2>1, SameText
  <1> QED BY <1>1, <1>3, <1>5, <1>9

\* No letter is the first byte of an encoding.
LEMMA NotDecomposed ==
  ASSUME NEW r \in Seq(Byte), NEW i \in 1..Len(r), r[i] >= 128
  PROVE  Put(r, i) = <<r[i]>> /\ Span(r, i) = 1
  <1>1. Decomposed(r, i) = {}
    BY TableIs, SMTT(40) DEF Decomposed, Between
  <1> QED BY <1>1 DEF Put, Span

\* A path and its other spelling are put together to the same text.
LEMMA RewriteComposed ==
  ASSUME NEW path \in Seq(Byte), NEW f, Rewrites(path, f)
  PROVE  Composed(f[1]) = Composed(path)
  <1> DEFINE n == Len(path)
  <1>1. PICK h : Composes(path, h) /\ Composed(path) = h[1]
    BY ComposedComposes
  <1> DEFINE T == {i \in 1..(n + 1) : Composed(f[i]) = h[i]}
  <1>2. /\ n \in Nat
        /\ \A i \in 1..(n + 1) : f[i] \in Seq(Byte) /\ h[i] \in Seq(Byte)
        /\ \A i \in 1..n : h[i] = Put(path, i) \o h[i + Span(path, i)]
    <2>1. /\ f \in [1..(n + 1) -> Seq(Byte)] /\ h \in [1..(n + 1) -> Seq(Byte)]
          /\ \A i \in 1..n : h[i] = Put(path, i) \o h[i + Span(path, i)]
      BY <1>1 DEF Rewrites, Composes
    <2> QED BY <2>1
  <1>3. n + 1 \in T
    <2>1. PICK e : e = f[n + 1]
      OBVIOUS
    <2>2. e = <<>> /\ e \in Seq(Byte) /\ n + 1 \in 1..(n + 1)
      BY <1>2, <2>1 DEF Rewrites
    <2>3. PICK g : Composes(e, g) /\ Composed(e) = g[1]
      BY <2>2, ComposedComposes
    <2>4. Len(e) + 1 = 1
      BY <2>2
    <2>5. Composed(e) = <<>> /\ h[n + 1] = <<>>
      BY <1>1, <2>3, <2>4 DEF Composes
    <2> QED BY <2>1, <2>2, <2>5
  <1>4. ASSUME NEW i \in 1..n, \A j \in (i + 1)..(n + 1) : j \in T PROVE i \in T
    <2>1. PICK r : r = f[i] /\ r \in Seq(Byte) /\ i \in 1..(n + 1)
      BY <1>2
    <2>2. Len(r) > 0
      BY <2>1, RewriteFirst
    <2> SUFFICES Composed(r) = h[i]
      BY <2>1
    <2>3. CASE Decomposes(path, f, i)
      <3>1. PICK t : t = Chosen(path, i) /\ t \in Precomposed(path, i)
        BY <2>3 DEF Decomposes, Chosen
      <3>2. /\ t \in NfdTable /\ path[i] = 195 /\ i < n /\ path[i + 1] = t[1]
            /\ i + 1 \in 1..n /\ i + 1 + 1 = i + 2
        BY <3>1 DEF Precomposed
      <3>3. PICK q : q = f[i + 2] /\ q \in Seq(Byte) /\ Composed(q) = h[i + 2] /\ Follows(r, 3, q)
        <4>1. i + 2 \in (i + 1)..(n + 1) /\ i + 2 \in 1..(n + 1) /\ Follows(r, 3, f[i + 2])
          BY <2>1, <2>3 DEF Decomposes
        <4> QED BY <1>2, <1>4, <4>1
      <3>4. t \in Decomposed(r, 1)
        <4>1. Piece(path, i) = <<t[2], 204, t[3]>> /\ Stride(path, i) = 2
          BY <3>1 DEF Piece, Stride
        <4>2. PICK p : p = <<t[2], 204, t[3]>> /\ r = p \o q /\ p \in Seq(Byte)
          <5>1. f[i] = Piece(path, i) \o f[i + Stride(path, i)] /\ Piece(path, i) \in Seq(Byte)
            BY PieceIs DEF Rewrites
          <5> QED BY <2>1, <3>3, <4>1, <5>1
        <4>3. Len(p) = 3 /\ p[1] = t[2] /\ p[2] = 204 /\ p[3] = t[3]
          BY <4>2
        <4>4. /\ Len(r) = 3 + Len(q) /\ Len(q) \in Nat
              /\ \A k \in 1..3 : r[k] = p[k]
          BY <3>3, <4>2, <4>3, Joined
        <4>5. r[1] = t[2] /\ r[1 + 1] = 204 /\ r[1 + 2] = t[3] /\ 1 + 2 <= Len(r)
          BY <4>3, <4>4
        <4> QED BY <3>2, <4>5 DEF Decomposed
      <3>5. PICK b \in Byte : b = t[1] /\ b >= 128 /\ 195 \in Byte
        <4>1. PICK b \in Nat : b = t[1] /\ 128 <= b /\ b <= 191
          <5>1. t[1] \in Nat /\ 128 <= t[1] /\ t[1] <= 191
            BY <3>2, TableIs DEF Between
          <5> QED BY <5>1
        <4>2. b \in Byte /\ 195 \in Byte
          BY <4>1, Numbers
        <4> QED BY <4>1, <4>2
      <3>6. Composed(r) = <<195, b>> \o h[i + 2]
        <4>1. Put(r, 1) = <<195, b>> /\ Span(r, 1) = 3
          <5>1. 1 \in 1..Len(r)
            BY <2>1, <2>2
          <5> QED BY <2>1, <3>4, <3>5, <5>1, MadeIs
        <4> QED BY <2>1, <2>2, <3>3, <4>1, ComposedStep, ZenonT(40)
      <3>7. h[i] = <<195>> \o h[i + 1]
        <4>1. Put(path, i) = <<path[i]>> /\ Span(path, i) = 1
          BY <3>2, NotDecomposed
        <4>2. h[i] = Put(path, i) \o h[i + Span(path, i)]
          BY <1>2
        <4> QED BY <3>2, <4>1, <4>2, Zenon
      <3>8. h[i + 1] = <<b>> \o h[i + 2]
        <4>1. Put(path, i + 1) = <<path[i + 1]>> /\ Span(path, i + 1) = 1
          BY <3>2, <3>5, NotDecomposed
        <4>2. h[i + 1] = Put(path, i + 1) \o h[i + 1 + Span(path, i + 1)]
          BY <1>2, <3>2
        <4>3. path[i + 1] = b /\ i + 1 + 1 = i + 2
          BY <3>2, <3>5
        <4> QED BY <4>1, <4>2, <4>3, Zenon
      <3>9. h[i + 2] \in Seq(Byte)
        <4>1. i + 2 \in 1..(n + 1)
          BY <2>3 DEF Decomposes
        <4> QED BY <1>2, <4>1
      <3>10. <<195>> \o (<<b>> \o h[i + 2]) = <<195, b>> \o h[i + 2]
        BY <3>5, <3>9, TwoBytes, SMTT(40)
      <3> QED BY <3>6, <3>7, <3>8, <3>10, Zenon
    <2>4. CASE Copies(path, f, i) /\ Decomposed(path, i) = {}
      <3>1. PICK q : q = f[i + 1] /\ q \in Seq(Byte) /\ Composed(q) = h[i + 1] /\ Follows(r, 1, q)
        <4>1. i + 1 \in (i + 1)..(n + 1) /\ i + 1 \in 1..(n + 1) /\ Follows(r, 1, f[i + 1])
          BY <1>2, <2>1, <2>4 DEF Copies
        <4> QED BY <1>2, <1>4, <4>1
      <3>2. h[i] = <<path[i]>> \o h[i + 1]
        <4>1. Put(path, i) = <<path[i]>> /\ Span(path, i) = 1
          BY <2>4 DEF Put, Span
        <4> QED BY <1>2, <4>1
      <3>3. Decomposed(r, 1) = {}
        <4> SUFFICES ASSUME NEW t \in NfdTable, 1 + 2 <= Len(r), r[1] = t[2], r[1 + 1] = 204,
                            r[1 + 2] = t[3]
                     PROVE  FALSE
          BY DEF Decomposed
        <4>1. path[i] = t[2] /\ Len(r) = 1 + Len(q) /\ Len(q) \in Nat
          BY <2>1, <2>4, <3>1 DEF Copies, Follows
        <4>2. q[1] = 204 /\ q[2] = t[3] /\ Len(q) >= 2
          <5>1. 1 \in 1..Len(q) /\ 2 \in 1..Len(q)
            BY <4>1
          <5> QED BY <3>1, <4>1, <5>1 DEF Follows
        <4>3. i + 1 \in 1..n
          <5>1. i + 1 # n + 1
            <6>1. i + 1 = n + 1 => Len(q) = 0
              BY <3>1 DEF Rewrites
            <6> QED BY <4>2, <6>1
          <5> QED BY <1>2, <5>1
        <4>4. /\ \A b \in Nat : Letter(b) => b # 204 /\ ~(b >= 128)
              /\ t[3] \in Nat /\ t[3] >= 128
          <5>1. t[3] \in Nat /\ Between(128, t[3], 191)
            BY TableIs
          <5> QED BY <5>1 DEF Letter, Between
        <4>5. path[i + 1] = 204
          <5>1. q[1] = path[i + 1] \/ Letter(q[1])
            BY <3>1, <4>3, RewriteFirst
          <5> QED BY <4>2, <4>4, <5>1
        <4>6. /\ f[i + 1][1] = 204 /\ i + 1 + 1 \in 1..(n + 1)
              /\ Follows(q, 1, f[i + 1 + 1])
          <5>1. Copies(path, f, i + 1)
            <6>1. ~Decomposes(path, f, i + 1)
              BY <4>5 DEF Decomposes
            <6> QED BY <4>3, <6>1, RewriteStep
          <5> QED BY <3>1, <4>2, <5>1 DEF Copies
        <4>7. PICK p : p = f[i + 2] /\ p \in Seq(Byte) /\ Len(q) = 1 + Len(p) /\ Len(p) \in Nat
                       /\ p[1] = q[2] /\ i + 2 \in 1..(n + 1)
          <5>1. i + 1 + 1 = i + 2
            OBVIOUS
          <5>2. f[i + 2] \in Seq(Byte) /\ i + 2 \in 1..(n + 1) /\ Follows(q, 1, f[i + 2])
            BY <1>2, <4>6, <5>1
          <5>3. Len(q) = 1 + Len(f[i + 2]) /\ Len(f[i + 2]) \in Nat
            BY <5>2 DEF Follows
          <5>4. 1 \in 1..Len(f[i + 2])
            BY <4>2, <5>3
          <5>5. q[1 + 1] = f[i + 2][1]
            BY <5>2, <5>4 DEF Follows
          <5> QED BY <5>2, <5>3, <5>5
        <4>8. i + 2 \in 1..n
          <5>1. i + 2 # n + 1
            <6>1. i + 2 = n + 1 => Len(p) = 0
              BY <4>7 DEF Rewrites
            <6> QED BY <4>2, <4>7, <6>1
          <5> QED BY <1>2, <4>7, <5>1
        <4>9. path[i + 2] = t[3]
          <5>1. p[1] = path[i + 2] \/ Letter(p[1])
            BY <4>7, <4>8, RewriteFirst
          <5> QED BY <4>2, <4>4, <4>7, <5>1
        <4>10. t \in Decomposed(path, i)
          BY <4>1, <4>5, <4>8, <4>9 DEF Decomposed
        <4> QED BY <2>4, <4>10
      <3>4. Put(r, 1) = <<path[i]>> /\ Span(r, 1) = 1
        BY <2>1, <2>4, <3>3 DEF Put, Span, Copies
      <3> QED BY <2>1, <2>2, <3>1, <3>2, <3>4, ComposedStep
    <2>5. CASE Copies(path, f, i) /\ Decomposed(path, i) # {}
      <3>1. PICK t : t \in Decomposed(path, i)
        BY <2>5
      <3>2. /\ t \in NfdTable /\ i + 2 <= n /\ path[i] = t[2] /\ path[i + 1] = 204
            /\ path[i + 2] = t[3]
        BY <3>1 DEF Decomposed
      <3>3. Plain(path, i, 3)
        <4>1. \A k \in i..(i + 3 - 1) : k = i \/ k = i + 1 \/ k = i + 2
          OBVIOUS
        <4>2. t[2] # 195 /\ t[3] # 195
          BY <3>2, TableIs, SMTT(40) DEF Between
        <4>3. Precomposed(path, i) = {} /\ Precomposed(path, i + 1) = {}
              /\ Precomposed(path, i + 2) = {}
          BY <3>2, <4>2 DEF Precomposed
        <4> QED BY <4>1, <4>3 DEF Plain
      <3>4. Follows(r, 3, f[i + 3]) /\ \A k \in 1..3 : r[k] = path[i + k - 1]
        <4>1. i + 3 <= Len(path) + 1 /\ 3 \in Nat
          BY <3>2
        <4> HIDE DEF n
        <4> QED BY <2>1, <3>3, <4>1, CopiesRun
      <3>5. PICK q : q = f[i + 3] /\ q \in Seq(Byte) /\ Composed(q) = h[i + 3] /\ Follows(r, 3, q)
        <4>1. i + 3 \in (i + 1)..(n + 1) /\ i + 3 \in 1..(n + 1)
          BY <1>2, <3>2
        <4> QED BY <1>2, <1>4, <3>4, <4>1
      <3>6. t \in Decomposed(r, 1)
        <4>1. Len(r) = 3 + Len(q) /\ Len(q) \in Nat
          BY <3>5 DEF Follows
        <4>2. 1 \in 1..3 /\ 2 \in 1..3 /\ 3 \in 1..3 /\ i + 1 - 1 = i /\ i + 2 - 1 = i + 1
              /\ i + 3 - 1 = i + 2
          OBVIOUS
        <4>3. r[1] = path[i] /\ r[2] = path[i + 1] /\ r[3] = path[i + 2]
          BY <3>4, <4>2
        <4>4. r[1] = t[2] /\ r[1 + 1] = 204 /\ r[1 + 2] = t[3] /\ 1 + 2 <= Len(r)
          BY <3>2, <4>1, <4>3
        <4> QED BY <3>2, <4>4 DEF Decomposed
      <3>7. Put(r, 1) = <<195, t[1]>> /\ Span(r, 1) = 3
        <4>1. 1 \in 1..Len(r)
          BY <2>1, <2>2
        <4> QED BY <2>1, <3>6, <4>1, MadeIs
      <3>8. h[i] = <<195, t[1]>> \o h[i + 3]
        <4>1. Put(path, i) = <<195, t[1]>> /\ Span(path, i) = 3
          BY <3>1, MadeIs
        <4> QED BY <1>2, <4>1
      <3> QED BY <2>1, <2>2, <3>5, <3>7, <3>8, ComposedStep, ZenonT(40)
    <2> QED BY <2>3, <2>4, <2>5, RewriteStep
  <1>5. 1 \in T
    <2>1. \A i \in 1..(n + 1) : i \in T
      <3> HIDE DEF T
      <3> QED BY <1>2, <1>3, <1>4, Downwards
    <2> QED BY <1>2, <2>1
  <1> QED BY <1>1, <1>5

\* For any path that a prompt can return: the second spelling that the code looks
\* for its file under fits its buffer, which is at least twice as long; it is
\* spelt the same the second time; no character of it is broken; and it is
\* another spelling of the same text, never that of another path.
THEOREM OtherSpellingIsTheSameName == Spec => []NfdIsOtherSpelling
  <1>1. TextTyped => NfdIsOtherSpelling
    <2> SUFFICES ASSUME text \in Seq(Byte), Len(text) < NameSize, ~Has(text, NUL)
                 PROVE  LET nfd == Nfd(text)
                        IN  /\ nfd # TooLong
                            /\ Nfd(nfd) = nfd
                            /\ Accepts(text) => Accepts(nfd)
                            /\ Composed(nfd) = Composed(text)
      BY DEF TextTyped, NfdIsOtherSpelling
    <2>1. PICK f : Rewrites(text, f) /\ Nfd(text) = IF Len(f[1]) < NfdSize THEN f[1] ELSE TooLong
      BY NfdRewrites
    <2>2. PICK nfd : nfd = f[1]
      OBVIOUS
    <2>3. nfd \in Seq(Byte) /\ 2 * Len(nfd) <= 3 * Len(text)
      BY <2>1, <2>2, RewriteLength
    <2>4. Len(nfd) < NfdSize
      <3>1. NameSize \in Nat /\ NfdSize \in Nat /\ NfdSize >= 2 * NameSize
        BY TextAssumption
      <3>2. Len(nfd) \in Nat /\ Len(text) \in Nat
        BY <2>3
      <3> QED BY <2>3, <3>1, <3>2
    <2>5. Nfd(text) = nfd
      BY <2>1, <2>2, <2>4
    <2>6. nfd # TooLong
      <3>1. Whole(text)
        BY DEF Has, Whole
      <3>2. Whole(nfd)
        BY <2>1, <2>2, <3>1, RewriteWhole
      <3>3. Len(TooLong) = 1 /\ TooLong[1] = NUL
        BY DEF TooLong
      <3>4. ~Whole(TooLong)
        BY <3>3 DEF Whole
      <3> QED BY <3>2, <3>4
    <2>7. Settled(nfd)
      BY <2>1, <2>2, RewriteSettled
    <2>8. Nfd(nfd) = nfd
      BY <2>3, <2>4, <2>7, SettledStays
    <2>9. Accepts(text) => Accepts(nfd)
      BY <2>1, <2>2, RewriteAccepts
    <2>10. Composed(nfd) = Composed(text)
      BY <2>1, <2>2, RewriteComposed
    <2> QED BY <2>5, <2>6, <2>8, <2>9, <2>10, Zenon
  <1> QED BY <1>1, AlwaysTextTyped, PTL
-----------------------------------------------------------------------------
(***************************************************************************)
(* Fields of the audit log.                                                *)
(***************************************************************************)
LEMMA EscapeIs ==
  ASSUME NEW c \in Byte
  PROVE  /\ Escape(c) \in Seq(Byte) /\ Len(Escape(c)) \in {1, 2}
         /\ \/ /\ c \notin {Quote, Backslash} /\ Len(Escape(c)) = 1
               /\ Escape(c)[1] = (IF c < 32 THEN 32 ELSE c)
               /\ Escape(c)[1] >= 32 /\ Escape(c)[1] \notin {Quote, Backslash}
            \/ /\ c \in {Quote, Backslash} /\ Len(Escape(c)) = 2
               /\ Escape(c)[1] = Backslash /\ Escape(c)[2] = c /\ ~(c < 32)
  <1>1. c \in Nat /\ 32 \in Byte /\ Backslash \in Byte
    BY Bytes DEF Byte, Backslash
  <1>2. CASE c \in {Quote, Backslash}
    <2>1. Escape(c) = <<Backslash, c>>
      BY <1>2 DEF Escape
    <2>2. ~(c < 32)
      BY <1>2 DEF Quote, Backslash
    <2> QED BY <1>1, <1>2, <2>1, <2>2
  <1>3. CASE c \notin {Quote, Backslash}
    <2>1. Escape(c) = <<IF c < 32 THEN 32 ELSE c>>
      BY <1>3 DEF Escape
    <2>2. 32 \notin {Quote, Backslash}
      BY DEF Quote, Backslash
    <2> QED BY <1>1, <1>3, <2>1, <2>2
  <1> QED BY <1>2, <1>3

\* Escapes(s, f): f[n] is what the first n bytes of s become.
Escapes(s, f) ==
    /\ f \in [0..Len(s) -> Seq(Byte)]
    /\ f[0] = <<>>
    /\ \A n \in 1..Len(s) : f[n] = f[n - 1] \o Escape(s[n])

LEMMA EscapesExist ==
  ASSUME NEW s \in Seq(Byte)
  PROVE  \E f : Escapes(s, f)
  <1> DEFINE n == Len(s)
             V == Seq(Byte)
             op == [p \in V \X (1..n) |-> p[1] \o Escape(s[p[2]])]
  <1>1. n \in Nat /\ <<>> \in V
    OBVIOUS
  <1>2. ASSUME NEW v \in V, NEW i \in 1..n
        PROVE  op[<<v, i>>] = v \o Escape(s[i]) /\ v \o Escape(s[i]) \in V
    <2>1. PICK e : e = Escape(s[i]) /\ e \in Seq(Byte)
      BY EscapeIs
    <2>2. v \o e \in Seq(Byte)
      BY ONLY <2>1, v \in V, Joined DEF V
    <2> QED BY <2>1, <2>2
  <1>3. op \in [V \X (1..n) -> V]
    BY <1>2
  <1> HIDE DEF op
  <1>4. PICK f : Iterated(n, V, <<>>, op, f)
    <2> HIDE DEF V, n
    <2> QED BY <1>1, <1>3, Iterates
  <1>5. \A i \in 1..n : f[i - 1] \in V /\ f[i] = op[<<f[i - 1], i>>]
    <2>1. \A i \in 1..n : i - 1 \in 0..n
      BY <1>1
    <2> QED BY <1>4, <2>1 DEF Iterated
  <1>6. Escapes(s, f)
    BY <1>2, <1>4, <1>5 DEF Iterated, Escapes
  <1> QED BY <1>6

\* The field is the escapes of as many bytes as fit.
LEMMA FieldEnds ==
  ASSUME NEW s \in Seq(Byte), NEW f, Escapes(s, f)
  PROVE  \E n \in 0..Len(s) : /\ Len(f[n]) < FieldSize
                              /\ n < Len(s) => ~(Len(f[n + 1]) < FieldSize)
  <1> SUFFICES ASSUME \A n \in 0..Len(s) : Len(f[n]) < FieldSize =>
                          n < Len(s) /\ Len(f[n + 1]) < FieldSize
               PROVE  FALSE
    OBVIOUS
  <1> DEFINE T == {n \in 0..Len(s) : Len(f[n]) < FieldSize}
  <1>1. Len(s) \in Nat /\ FieldSize \in Nat \ {0}
    BY TextAssumption
  <1>2. 0 \in T
    <2>1. f[0] = <<>>
      BY DEF Escapes
    <2>2. Len(f[0]) = 0
      BY <2>1
    <2> QED BY <1>1, <2>2
  <1>3. ASSUME NEW i \in 1..Len(s), i - 1 \in T PROVE i \in T
    <2>1. i - 1 \in 0..Len(s) /\ i - 1 + 1 = i
      BY <1>1
    <2> QED BY <1>3, <2>1
  <1>4. \A n \in 0..Len(s) : n \in T
    <2> HIDE DEF T
    <2> QED BY <1>1, <1>2, <1>3, Upwards
  <1>5. Len(s) \in T
    BY <1>1, <1>4
  <1> QED BY <1>1, <1>5

LEMMA FieldEscapes ==
  ASSUME NEW src \in Seq(Byte), NEW s \in Seq(Byte), s = Before(src, NUL)
  PROVE  \E f : /\ Escapes(s, f)
                /\ \E n \in 0..Len(s) : /\ JsonEscape(src) = f[n]
                                        /\ Len(f[n]) < FieldSize
                                        /\ n < Len(s) => ~(Len(f[n + 1]) < FieldSize)
  <1> DEFINE at(f, n) == IF n = 0 THEN <<>> ELSE f[n - 1] \o Escape(s[n])
             fix(f) == f = [n \in 0..Len(s) |-> at(f, n)]
             dst == CHOOSE f : fix(f)
             ends(f, n) == /\ Len(f[n]) < FieldSize
                           /\ n < Len(s) => ~(Len(f[n + 1]) < FieldSize)
  <1>1. JsonEscape(src) = dst[CHOOSE n \in 0..Len(s) : ends(dst, n)]
    BY Zenon DEF JsonEscape
  <1>2. Len(s) \in Nat /\ \A f : at(f, 0) = <<>>
    OBVIOUS
  <1>3. ASSUME NEW f, NEW n \in 1..Len(s) PROVE at(f, n) = f[n - 1] \o Escape(s[n])
    <2>1. n # 0
      OBVIOUS
    <2> QED BY <2>1
  <1>4. \A n \in 0..Len(s) : n = 0 \/ n \in 1..Len(s)
    BY <1>2
  <1> HIDE DEF at
  <1>5. \E f : fix(f)
    <2>1. PICK f : Escapes(s, f)
      BY EscapesExist
    <2>2. f \in [0..Len(s) -> Seq(Byte)]
      BY <2>1 DEF Escapes
    <2>3. \A n \in 0..Len(s) : f[n] = at(f, n)
      BY <1>2, <1>3, <1>4, <2>1 DEF Escapes
    <2>4. fix(f)
      BY <2>2, <2>3
    <2> QED BY <2>4
  <1>6. fix(dst)
    <2> HIDE DEF fix
    <2> QED BY <1>5
  <1> HIDE DEF dst
  <1>7. \A n \in 0..Len(s) : dst[n] = at(dst, n)
    BY <1>6
  <1>8. ASSUME NEW i \in 1..Len(s) PROVE i \in 0..Len(s) /\ dst[i] = dst[i - 1] \o Escape(s[i])
    <2>1. i \in 0..Len(s)
      BY <1>2
    <2>2. dst[i] = at(dst, i) /\ at(dst, i) = dst[i - 1] \o Escape(s[i])
      BY <1>3, <1>7, <2>1, Zenon
    <2> QED BY <2>1, <2>2
  <1>9. \A n \in 0..Len(s) : dst[n] \in Seq(Byte)
    <2> DEFINE T == {n \in 0..Len(s) : dst[n] \in Seq(Byte)}
    <2>1. 0 \in T
      <3>1. dst[0] = <<>> /\ 0 \in 0..Len(s)
        BY <1>2, <1>7
      <3>2. <<>> \in Seq(Byte)
        OBVIOUS
      <3> QED BY <3>1, <3>2
    <2>2. ASSUME NEW i \in 1..Len(s), i - 1 \in T PROVE i \in T
      <3>1. dst[i] = dst[i - 1] \o Escape(s[i]) /\ i \in 0..Len(s)
        BY <1>8
      <3>2. PICK p, q : /\ p = dst[i - 1] /\ q = Escape(s[i])
                        /\ p \in Seq(Byte) /\ q \in Seq(Byte)
        BY <2>2, EscapeIs
      <3>3. p \o q \in Seq(Byte)
        BY ONLY <3>2, Joined
      <3> QED BY <3>1, <3>2, <3>3
    <2>3. \A n \in 0..Len(s) : n \in T
      <3> HIDE DEF T
      <3> QED BY <1>2, <2>1, <2>2, Upwards
    <2> QED BY <2>3
  <1>10. Escapes(s, dst)
    <2>1. dst \in [0..Len(s) -> Seq(Byte)]
      BY <1>6, <1>9
    <2>2. dst[0] = <<>>
      BY <1>2, <1>7
    <2>3. \A n \in 1..Len(s) : dst[n] = dst[n - 1] \o Escape(s[n])
      BY <1>8
    <2> QED BY <2>1, <2>2, <2>3 DEF Escapes
  <1>11. \E n \in 0..Len(s) : ends(dst, n)
    BY <1>10, FieldEnds
  <1> DEFINE last == CHOOSE n \in 0..Len(s) : ends(dst, n)
  <1>12. last \in 0..Len(s) /\ ends(dst, last)
    <2> HIDE DEF ends
    <2> QED BY <1>11
  <1>13. JsonEscape(src) = dst[last]
    BY <1>1
  <1> HIDE DEF last
  <1> QED BY <1>10, <1>12, <1>13, Zenon

\* What a reader of s takes next, at byte i, given what it makes of the rest.
Bare(s, i) == s[i] >= 32 /\ s[i] \notin {Quote, Backslash}
Escaped(s, i) == s[i] = Backslash /\ i < Len(s) /\ s[i + 1] \in {Quote, Backslash}
Taken(s, i, f) == IF Bare(s, i) THEN <<s[i]>> \o f[i + 1]
                  ELSE IF Escaped(s, i) THEN <<s[i + 1]>> \o f[i + 2]
                  ELSE <<Unreadable>>

\* Reads(s, f): f[i] is what a reader makes of what s has from i on.
Reads(s, f) ==
    /\ f \in [1..(Len(s) + 1) -> Seq(Nat)]
    /\ f[Len(s) + 1] = <<>>
    /\ \A i \in 1..Len(s) : f[i] = Taken(s, i, f)

LEMMA NextIs ==
  ASSUME NEW s \in Seq(Byte), NEW i \in 1..Len(s), NEW f,
         f[i + 1] \in Seq(Nat), i < Len(s) => f[i + 2] \in Seq(Nat)
  PROVE  Taken(s, i, f) \in Seq(Nat)
  <1>1. s[i] \in Nat /\ (i < Len(s) => s[i + 1] \in Nat) /\ Unreadable \in Nat
    BY Bytes DEF Unreadable
  <1>2. CASE Bare(s, i)
    <2>1. PICK q \in Seq(Nat), c \in Nat : q = f[i + 1] /\ c = s[i]
      BY <1>1
    <2>2. <<c>> \o q \in Seq(Nat)
      OBVIOUS
    <2> QED BY <1>2, <2>1, <2>2 DEF Taken
  <1>3. CASE ~Bare(s, i) /\ Escaped(s, i)
    <2>1. PICK q \in Seq(Nat), c \in Nat : q = f[i + 2] /\ c = s[i + 1]
      BY <1>1, <1>3 DEF Escaped
    <2>2. <<c>> \o q \in Seq(Nat)
      OBVIOUS
    <2> QED BY <1>3, <2>1, <2>2 DEF Taken
  <1>4. CASE ~Bare(s, i) /\ ~Escaped(s, i)
    BY <1>1, <1>4 DEF Taken
  <1> QED BY <1>2, <1>3, <1>4

LEMMA ReadsExist ==
  ASSUME NEW s \in Seq(Byte)
  PROVE  \E f : Reads(s, f)
  <1> DEFINE n == Len(s)
             F == [1..(n + 1) -> Seq(Nat)]
             op == [p \in (1..n) \X F |-> Taken(s, p[1], p[2])]
  <1>1. n \in Nat /\ <<>> \in Seq(Nat)
    OBVIOUS
  <1>2. ASSUME NEW i \in 1..n, NEW f \in F
        PROVE  op[<<i, f>>] = Taken(s, i, f) /\ Taken(s, i, f) \in Seq(Nat)
    <2>1. i + 1 \in 1..(n + 1) /\ (i < n => i + 2 \in 1..(n + 1))
      BY <1>1
    <2>2. f[i + 1] \in Seq(Nat) /\ (i < n => f[i + 2] \in Seq(Nat))
      BY <2>1
    <2>3. Taken(s, i, f) \in Seq(Nat)
      BY <2>2, NextIs
    <2> QED BY <2>3
  <1>3. op \in [(1..n) \X F -> Seq(Nat)]
    BY <1>2
  <1> HIDE DEF op
  <1>4. \A i \in 1..n : \A f, g \in F :
            (\A j \in (i + 1)..(n + 1) : f[j] = g[j]) => op[<<i, f>>] = op[<<i, g>>]
    <2> SUFFICES ASSUME NEW i \in 1..n, NEW f \in F, NEW g \in F,
                        \A j \in (i + 1)..(n + 1) : f[j] = g[j]
                 PROVE  op[<<i, f>>] = op[<<i, g>>]
      OBVIOUS
    <2>1. f[i + 1] = g[i + 1]
      BY <1>1
    <2>2. i < n => f[i + 2] = g[i + 2]
      BY <1>1
    <2>3. Taken(s, i, f) = Taken(s, i, g)
      BY <2>1, <2>2 DEF Taken, Escaped
    <2> QED BY <1>2, <2>3
  <1>5. PICK f : GivenBy(n, Seq(Nat), <<>>, op, f)
    <2>1. LooksAhead(n, Seq(Nat), op)
      <3> HIDE DEF n
      <3> QED BY <1>3, <1>4 DEF LooksAhead
    <2> HIDE DEF n
    <2> QED BY <1>1, <2>1, Backwards
  <1>6. \A i \in 1..n : f[i] = Taken(s, i, f)
    <2>1. f \in F /\ \A i \in 1..n : f[i] = op[<<i, f>>]
      BY <1>5 DEF GivenBy
    <2> HIDE DEF F
    <2> QED BY <1>2, <2>1
  <1>7. Reads(s, f)
    BY <1>5, <1>6 DEF GivenBy, Reads
  <1> QED BY <1>7

LEMMA UnescapedReads ==
  ASSUME NEW s \in Seq(Byte)
  PROVE  \E f : Reads(s, f) /\ Unescaped(s) = f[1]
  <1> DEFINE n == Len(s)
             at(f, i) == IF i > n THEN <<>> ELSE Taken(s, i, f)
             fix(f) == f = [i \in 1..(n + 1) |-> at(f, i)]
             from == CHOOSE f : fix(f)
  <1>1. Unescaped(s) = from[1]
    BY Zenon DEF Unescaped, Taken, Bare, Escaped
  <1>2. /\ n \in Nat /\ n + 1 \in 1..(n + 1)
        /\ \A i \in 1..(n + 1) : i \in 1..n \/ i = n + 1
    OBVIOUS
  <1>3. \A f : at(f, n + 1) = <<>>
    BY <1>2
  <1>4. ASSUME NEW f, NEW i \in 1..n PROVE i \in 1..(n + 1) /\ at(f, i) = Taken(s, i, f)
    <2>1. ~(i > n) /\ i \in 1..(n + 1)
      BY <1>2
    <2> QED BY <2>1
  <1> HIDE DEF at
  <1>5. \E f : fix(f)
    <2>1. PICK f : Reads(s, f)
      BY ReadsExist
    <2>2. f \in [1..(n + 1) -> Seq(Nat)]
      BY <2>1 DEF Reads
    <2>3. ASSUME NEW i \in 1..(n + 1) PROVE f[i] = at(f, i)
      BY <1>2, <1>3, <1>4, <2>1 DEF Reads
    <2>4. fix(f)
      BY <2>2, <2>3
    <2> QED BY <2>4
  <1>6. fix(from)
    <2> HIDE DEF fix
    <2> QED BY <1>5
  <1> HIDE DEF from
  <1>7. \A i \in 1..(n + 1) : from[i] = at(from, i)
    BY <1>6
  <1>8. from[n + 1] = <<>> /\ \A i \in 1..n : from[i] = Taken(s, i, from)
    <2>1. from[n + 1] = <<>>
      BY <1>2, <1>3, <1>7
    <2>2. ASSUME NEW i \in 1..n PROVE from[i] = Taken(s, i, from)
      BY <1>4, <1>7, Zenon
    <2> QED BY <2>1, <2>2
  <1>9. \A i \in 1..(n + 1) : from[i] \in Seq(Nat)
    <2> DEFINE T == {i \in 1..(n + 1) : from[i] \in Seq(Nat)}
    <2>1. n + 1 \in T
      <3>1. <<>> \in Seq(Nat)
        OBVIOUS
      <3> QED BY <1>2, <1>8, <3>1
    <2>2. ASSUME NEW i \in 1..n, \A j \in (i + 1)..(n + 1) : j \in T PROVE i \in T
      <3>1. i \in 1..(n + 1) /\ i + 1 \in (i + 1)..(n + 1) /\ (i < n => i + 2 \in (i + 1)..(n + 1))
        BY <1>2
      <3>2. from[i + 1] \in Seq(Nat) /\ (i < n => from[i + 2] \in Seq(Nat))
        BY <2>2, <3>1
      <3>3. Taken(s, i, from) \in Seq(Nat)
        BY <3>2, NextIs
      <3> QED BY <1>8, <3>1, <3>3
    <2>3. \A i \in 1..(n + 1) : i \in T
      <3> HIDE DEF T
      <3> QED BY <1>2, <2>1, <2>2, Downwards
    <2> QED BY <2>3
  <1>10. Reads(s, from)
    <2>1. from \in [1..(n + 1) -> Seq(Nat)]
      BY <1>6, <1>9
    <2> QED BY <1>8, <2>1 DEF Reads
  <1> QED BY <1>1, <1>10

\* What is written first stays.
LEMMA EscapesGrow ==
  ASSUME NEW s \in Seq(Byte), NEW f, Escapes(s, f), NEW n \in 0..Len(s), NEW k \in 0..n
  PROVE  /\ f[k] \in Seq(Byte) /\ f[n] \in Seq(Byte) /\ Len(f[k]) <= Len(f[n])
         /\ \A j \in 1..Len(f[k]) : f[n][j] = f[k][j]
  <1> DEFINE Grown(m) == Len(f[k]) <= Len(f[k + m]) /\ \A j \in 1..Len(f[k]) : f[k + m][j] = f[k][j]
             T == {m \in 0..(n - k) : Grown(m)}
  <1>1. n - k \in Nat /\ n \in Nat /\ k \in Nat /\ Len(s) \in Nat /\ n <= Len(s)
    OBVIOUS
  <1>2. \A m \in 0..Len(s) : f[m] \in Seq(Byte)
    <2>1. f \in [0..Len(s) -> Seq(Byte)]
      BY DEF Escapes
    <2> QED BY <2>1
  <1>3. 0 \in T
    <2>1. f[k] \in Seq(Byte) /\ k + 0 = k
      BY <1>1, <1>2
    <2> QED BY <1>1, <2>1
  <1>4. ASSUME NEW i \in 1..(n - k), i - 1 \in T PROVE i \in T
    <2>1. PICK m \in 1..Len(s) : m = k + i /\ m - 1 = k + (i - 1) /\ m - 1 \in 0..Len(s)
      <3>1. k + i \in 1..Len(s) /\ k + i - 1 = k + (i - 1) /\ k + i - 1 \in 0..Len(s)
        BY <1>1
      <3> QED BY <3>1
    <2>2. PICK p, q : /\ p = f[m - 1] /\ q = Escape(s[m]) /\ f[m] = p \o q
                      /\ p \in Seq(Byte) /\ q \in Seq(Byte)
      <3>1. f[m] = f[m - 1] \o Escape(s[m])
        BY DEF Escapes
      <3>2. f[m - 1] \in Seq(Byte) /\ Escape(s[m]) \in Seq(Byte)
        BY <1>2, <2>1, EscapeIs
      <3> QED BY <3>1, <3>2, Zenon
    <2>3. Len(p \o q) = Len(p) + Len(q) /\ \A j \in 1..Len(p) : (p \o q)[j] = p[j]
      BY ONLY <2>2, Joined
    <2>4. Len(f[k]) <= Len(p) /\ \A j \in 1..Len(f[k]) : p[j] = f[k][j]
      BY <1>4, <2>1, <2>2
    <2>5. f[k] \in Seq(Byte)
      BY <1>1, <1>2
    <2>6. Grown(i)
      <3>1. f[k + i] = p \o q
        BY <2>1, <2>2
      <3>2. \A j \in 1..Len(f[k]) : j \in 1..Len(p)
        BY <2>2, <2>4, <2>5
      <3>3. Len(f[k]) <= Len(p \o q)
        <4>1. Len(p) \in Nat /\ Len(q) \in Nat /\ Len(f[k]) \in Nat
          BY <2>2, <2>5
        <4>2. \A a, b, c \in Nat : a <= b => a <= b + c
          OBVIOUS
        <4> QED BY <2>3, <2>4, <4>1, <4>2
      <3>4. \A j \in 1..Len(f[k]) : (p \o q)[j] = f[k][j]
        BY <2>3, <2>4, <3>2
      <3> QED BY <3>1, <3>3, <3>4
    <2> QED BY <2>6
  <1>5. \A m \in 0..(n - k) : m \in T
    <2> HIDE DEF T
    <2> QED BY <1>1, <1>3, <1>4, Upwards
  <1>6. n - k \in T /\ k + (n - k) = n
    <2>1. n - k \in 0..(n - k) /\ k + (n - k) = n
      BY <1>1
    <2> HIDE DEF T
    <2> QED BY <1>5, <2>1
  <1> QED BY <1>1, <1>2, <1>6

\* A reader gets a byte back from its escape, or a blank for it.
Blanked(c) == IF c < 32 THEN 32 ELSE c

LEMMA ReadsBack ==
  ASSUME NEW s \in Seq(Byte), NEW f, Escapes(s, f), NEW n \in 0..Len(s),
         NEW g, Reads(f[n], g), NEW i \in 1..n
  PROVE  /\ Len(f[i - 1]) + 1 \in 1..(Len(f[n]) + 1) /\ Len(f[i]) + 1 \in 1..(Len(f[n]) + 1)
         /\ g[Len(f[i - 1]) + 1] = <<Blanked(s[i])>> \o g[Len(f[i]) + 1]
  <1>1. /\ f[n] \in Seq(Byte) /\ f[i] \in Seq(Byte) /\ f[i - 1] \in Seq(Byte)
        /\ Len(f[i]) <= Len(f[n])
        /\ \A j \in 1..Len(f[i]) : f[n][j] = f[i][j]
    <2>1. i \in 0..n /\ i - 1 \in 0..n
      OBVIOUS
    <2> QED BY <2>1, EscapesGrow
  <1>2. PICK out, p, q, c : /\ out = f[n] /\ p = f[i - 1] /\ c = s[i] /\ q = Escape(c)
                            /\ f[i] = p \o q
    <2>1. i \in 1..Len(s)
      OBVIOUS
    <2>2. f[i] = f[i - 1] \o Escape(s[i])
      BY <2>1 DEF Escapes
    <2> QED BY <2>2
  <1>3. c \in Byte /\ q \in Seq(Byte) /\ p \in Seq(Byte) /\ out \in Seq(Byte)
    <2>1. i \in 1..Len(s)
      OBVIOUS
    <2> QED BY <1>1, <1>2, <2>1, EscapeIs
  <1>4. /\ Len(f[i]) = Len(p) + Len(q)
        /\ \A j \in 1..Len(q) : f[i][Len(p) + j] = q[j]
    <2>1. Len(p \o q) = Len(p) + Len(q) /\ \A j \in 1..Len(q) : (p \o q)[Len(p) + j] = q[j]
      BY ONLY <1>3, Joined
    <2> QED BY <1>2, <2>1
  <1>5. Len(p) \in Nat /\ Len(q) \in {1, 2} /\ Len(p) + Len(q) <= Len(out) /\ Len(out) \in Nat
    <2>1. Len(q) \in {1, 2}
      BY <1>2, <1>3, EscapeIs
    <2>2. Len(f[i]) <= Len(out)
      BY <1>1, <1>2
    <2> QED BY <1>3, <1>4, <2>1, <2>2
  <1>6. \A j \in 1..Len(q) : out[Len(p) + j] = q[j]
    <2>1. \A j \in 1..Len(q) : Len(p) + j \in 1..Len(f[i])
      BY <1>4, <1>5
    <2> QED BY <1>1, <1>2, <1>4, <2>1
  <1> DEFINE e == Len(p) + 1
  <1>7. e \in 1..Len(out) /\ g[e] = Taken(out, e, g)
    <2>1. e \in 1..Len(out)
      <3>1. PICK a \in Nat, l \in Nat : a = Len(p) /\ l = Len(out) /\ a + 1 <= l
        <4>1. Len(q) >= 1 /\ Len(q) \in Nat
          <5>1. \A m \in {1, 2} : m >= 1 /\ m \in Nat
            OBVIOUS
          <5>2. Len(q) \in {1, 2}
            BY <1>5
          <5> HIDE DEF e
          <5> QED BY ONLY <5>1, <5>2
        <4>2. Len(p) + 1 <= Len(out)
          BY <1>5, <4>1
        <4> QED BY <1>5, <4>2
      <3>2. a + 1 \in 1..l
        BY <3>1
      <3> QED BY <3>1, <3>2
    <2> HIDE DEF e
    <2> QED BY <1>2, <2>1 DEF Reads
  <1>8. CASE c \notin {Quote, Backslash}
    <2>1. /\ Len(q) = 1 /\ q[1] = Blanked(c) /\ q[1] >= 32 /\ q[1] \notin {Quote, Backslash}
      BY <1>2, <1>3, <1>8, EscapeIs DEF Blanked
    <2>2. out[e] = q[1]
      BY <1>6, <2>1
    <2>3. g[e] = <<Blanked(c)>> \o g[e + 1]
      BY <1>7, <2>1, <2>2 DEF Taken, Bare
    <2>4. Len(f[i]) + 1 = e + 1
      BY <1>4, <2>1
    <2>5. e \in 1..(Len(out) + 1) /\ e + 1 \in 1..(Len(out) + 1)
      BY <1>5, <1>7
    <2> QED BY <1>2, <2>3, <2>4, <2>5
  <1>9. CASE c \in {Quote, Backslash}
    <2>1. Len(q) = 2 /\ q[1] = Backslash /\ q[2] = c /\ Blanked(c) = c
      BY <1>2, <1>3, <1>9, EscapeIs DEF Blanked
    <2>2. out[e] = Backslash /\ out[e + 1] = c /\ e < Len(out)
      <3>1. out[Len(p) + 1] = q[1] /\ out[Len(p) + 2] = q[2] /\ Len(p) + 2 = e + 1
        BY <1>5, <1>6, <2>1
      <3> QED BY <1>5, <2>1, <3>1
    <2>3. g[e] = <<c>> \o g[e + 2]
      BY <1>7, <1>9, <2>2 DEF Taken, Bare, Escaped
    <2>4. Len(f[i]) + 1 = e + 2
      BY <1>4, <1>5, <2>1
    <2>5. e \in 1..(Len(out) + 1) /\ e + 2 \in 1..(Len(out) + 1)
      BY <1>5, <1>7, <2>1
    <2> QED BY <1>2, <2>1, <2>3, <2>4, <2>5
  <1> QED BY <1>8, <1>9

LEMMA Prepended ==
  ASSUME NEW b \in Nat, NEW q \in Seq(Nat)
  PROVE  /\ <<b>> \o q \in Seq(Nat) /\ Len(<<b>> \o q) = 1 + Len(q) /\ (<<b>> \o q)[1] = b
         /\ \A j \in 1..Len(q) : (<<b>> \o q)[1 + j] = q[j]
  OBVIOUS

\* So a reader of the first n bytes' escapes gets n bytes.
LEMMA ReadsAll ==
  ASSUME NEW s \in Seq(Byte), NEW f, Escapes(s, f), NEW n \in 0..Len(s),
         NEW g, Reads(f[n], g)
  PROVE  /\ g[1] \in Seq(Nat) /\ Len(g[1]) = n
         /\ \A j \in 1..n : g[1][j] = Blanked(s[j])
  <1> DEFINE rest(k) == g[Len(f[k]) + 1]
             Back(k) == /\ rest(k) \in Seq(Nat) /\ Len(rest(k)) = n - k
                        /\ \A j \in 1..(n - k) : rest(k)[j] = Blanked(s[k + j])
             T == {i \in 1..(n + 1) : Back(i - 1)}
  <1>1. n \in Nat /\ n <= Len(s) /\ Len(s) \in Nat /\ n + 1 - 1 = n /\ n - n = 0 /\ n - 0 = n
    OBVIOUS
  <1>2. rest(n) = <<>> /\ rest(0) = g[1]
    <2>1. f[0] = <<>>
      BY DEF Escapes
    <2>2. Len(f[0]) + 1 = 1
      BY <2>1
    <2> QED BY <2>2 DEF Reads
  <1>3. ASSUME NEW i \in 1..n PROVE rest(i - 1) = <<Blanked(s[i])>> \o rest(i)
    BY ReadsBack
  <1> HIDE DEF rest
  <1>4. n + 1 \in T
    <2>1. rest(n) \in Seq(Nat) /\ Len(rest(n)) = 0 /\ n + 1 \in 1..(n + 1)
      BY <1>1, <1>2
    <2>2. \A j \in 1..(n - n) : rest(n)[j] = Blanked(s[n + j])
      BY <1>1
    <2>3. Back(n)
      BY <1>1, <2>1, <2>2
    <2> QED BY <1>1, <2>1, <2>3
  <1>5. ASSUME NEW i \in 1..n, \A j \in (i + 1)..(n + 1) : j \in T PROVE i \in T
    <2>1. Back(i) /\ i \in 1..(n + 1)
      <3>1. i + 1 \in (i + 1)..(n + 1) /\ i \in 1..(n + 1) /\ i + 1 - 1 = i
        BY <1>1
      <3>2. i + 1 \in T
        BY <1>5, <3>1
      <3>3. Back(i + 1 - 1)
        BY <3>2, SMTT(40)
      <3> HIDE DEF Back
      <3> QED BY <3>1, <3>3
    <2>2. PICK r, q, b : r = rest(i - 1) /\ q = rest(i) /\ b = Blanked(s[i]) /\ r = <<b>> \o q
      BY <1>3, Zenon
    <2>3. b \in Nat
      <3>1. i \in 1..Len(s)
        BY <1>1
      <3>2. s[i] \in Nat
        BY <3>1, Bytes
      <3> QED BY <2>2, <3>2 DEF Blanked
    <2>4. /\ q \in Seq(Nat) /\ Len(q) = n - i
          /\ \A j \in 1..(n - i) : q[j] = Blanked(s[i + j])
      BY <2>1, <2>2, Zenon
    <2>5. /\ r \in Seq(Nat) /\ Len(r) = 1 + Len(q) /\ r[1] = b
          /\ \A j \in 1..Len(q) : r[1 + j] = q[j]
      <3>1. q \in Seq(Nat)
        BY <2>4
      <3>2. /\ <<b>> \o q \in Seq(Nat) /\ Len(<<b>> \o q) = 1 + Len(q) /\ (<<b>> \o q)[1] = b
            /\ \A j \in 1..Len(q) : (<<b>> \o q)[1 + j] = q[j]
        BY ONLY <2>3, <3>1, Prepended
      <3> QED BY <2>2, <3>2, Zenon
    <2>6. Len(r) = n - (i - 1)
      BY <1>1, <2>4, <2>5
    <2>7. ASSUME NEW j \in 1..(n - (i - 1)) PROVE r[j] = Blanked(s[i - 1 + j])
      <3>1. CASE j = 1
        BY <2>2, <2>5, <3>1
      <3>2. CASE j # 1
        <4>1. j - 1 \in 1..(n - i) /\ 1 + (j - 1) = j /\ i + (j - 1) = i - 1 + j
          BY <1>1, <3>2
        <4>2. r[1 + (j - 1)] = Blanked(s[i + (j - 1)])
          BY <2>4, <2>5, <4>1
        <4> QED BY <4>1, <4>2
      <3> QED BY <3>1, <3>2
    <2>8. Back(i - 1)
      BY <2>2, <2>5, <2>6, <2>7
    <2> QED BY <2>1, <2>8
  <1>6. Back(0)
    <2>1. \A i \in 1..(n + 1) : i \in T
      <3> HIDE DEF T
      <3> QED BY <1>1, <1>4, <1>5, Downwards
    <2>2. 1 \in 1..(n + 1) /\ 1 - 1 = 0
      BY <1>1
    <2>3. Back(1 - 1)
      BY <2>1, <2>2
    <2> HIDE DEF Back
    <2> QED BY <2>2, <2>3
  <1>7. \A j \in 1..n : 0 + j = j
    BY <1>1
  <1> QED BY <1>1, <1>2, <1>6, <1>7

\* A field of any length, in a buffer of any size, is the inside of a JSON
\* string that reads as what was logged.
THEOREM FieldsAreJson == Spec => []FieldIsJson
  <1>1. TextTyped => FieldIsJson
    <2> SUFFICES ASSUME text \in Seq(Byte) PROVE FieldIsJson
      BY DEF TextTyped
    <2>1. PICK s \in Seq(Byte) : s = Before(text, NUL)
      <3>1. PICK q \in 0..Len(text) : Before(text, NUL) = Take(text, q)
        BY NulIs
      <3>2. Take(text, q) \in Seq(Byte)
        BY TakeIs
      <3> QED BY <3>1, <3>2
    <2>2. PICK f : /\ Escapes(s, f)
                   /\ \E n \in 0..Len(s) : /\ JsonEscape(text) = f[n]
                                           /\ Len(f[n]) < FieldSize
                                           /\ n < Len(s) => ~(Len(f[n + 1]) < FieldSize)
      BY <2>1, FieldEscapes
    <2>3. PICK n \in 0..Len(s) : /\ JsonEscape(text) = f[n]
                                 /\ Len(f[n]) < FieldSize
                                 /\ n < Len(s) => ~(Len(f[n + 1]) < FieldSize)
      BY <2>2
    <2>4. f[n] \in Seq(Byte) /\ Len(s) \in Nat /\ n \in 0..n
      <3>1. f \in [0..Len(s) -> Seq(Byte)]
        BY <2>2 DEF Escapes
      <3> QED BY <3>1
    <2>5. PICK g : Reads(f[n], g) /\ Unescaped(f[n]) = g[1]
      BY <2>4, UnescapedReads
    <2>6. PICK out, read : out = f[n] /\ read = g[1]
      OBVIOUS
    <2>7. /\ read \in Seq(Nat) /\ Len(read) = n
          /\ \A j \in 1..n : read[j] = Blanked(s[j])
      BY <2>2, <2>5, <2>6, ReadsAll
    <2> DEFINE plain == [i \in DOMAIN s |-> IF s[i] < 32 THEN 32 ELSE s[i]]
    <2>8. plain \in Seq(Nat) /\ Len(plain) = Len(s) /\ \A j \in 1..Len(s) : plain[j] = Blanked(s[j])
      <3>1. DOMAIN s = 1..Len(s) /\ \A j \in 1..Len(s) : s[j] \in Nat
        BY Bytes
      <3> QED BY <2>4, <3>1 DEF Blanked
    <2> HIDE DEF plain
    <2>9. IsPrefix(read, plain)
      <3>1. Len(read) <= Len(plain) /\ \A j \in 1..Len(read) : read[j] = plain[j]
        BY <2>4, <2>7, <2>8
      <3>2. SubSeq(read, 1, Len(read)) = SubSeq(plain, 1, Len(read))
        BY <2>7, <2>8, <3>1
      <3> QED BY <3>1, <3>2 DEF IsPrefix
    <2>10. ASSUME Len(read) < Len(plain) PROVE Len(out) >= FieldSize - 2
      <3>1. n + 1 \in 1..Len(s) /\ n + 1 - 1 = n
        BY <2>4, <2>7, <2>8, <2>10
      <3>2. PICK e : e = Escape(s[n + 1]) /\ e \in Seq(Byte) /\ Len(e) \in {1, 2}
        BY <3>1, EscapeIs
      <3>3. f[n + 1] = out \o e
        <4>1. \A m \in 1..Len(s) : f[m] = f[m - 1] \o Escape(s[m])
          BY <2>2 DEF Escapes
        <4>2. PICK m \in 1..Len(s) : m = n + 1 /\ m - 1 = n
          BY <3>1
        <4>3. f[m] = f[m - 1] \o Escape(s[m])
          BY <4>1
        <4>4. f[n + 1] = f[n] \o Escape(s[n + 1])
          BY <4>2, <4>3, Zenon
        <4> QED BY <2>6, <3>2, <4>4, Zenon
      <3>4. Len(out \o e) = Len(out) + Len(e) /\ Len(out) \in Nat /\ Len(e) <= 2 /\ Len(e) \in Nat
        <4>1. out \in Seq(Byte) /\ e \in Seq(Byte)
          BY <2>4, <2>6, <3>2
        <4>2. Len(out \o e) = Len(out) + Len(e) /\ Len(out) \in Nat
          BY ONLY <4>1, Joined
        <4>3. \A m \in {1, 2} : m <= 2 /\ m \in Nat
          OBVIOUS
        <4> QED BY <3>2, <4>2, <4>3
      <3>5. ~(Len(out) + Len(e) < FieldSize) /\ FieldSize \in Nat
        BY <2>3, <2>7, <2>8, <2>10, <3>3, <3>4, TextAssumption
      <3> QED BY <3>4, <3>5
    <2>11. Len(out) < FieldSize /\ JsonEscape(text) = out /\ Unescaped(out) = read
      BY <2>3, <2>5, <2>6
    <2> QED BY <2>1, <2>9, <2>10, <2>11, Zenon DEF FieldIsJson, plain
  <1> QED BY <1>1, AlwaysTextTyped, PTL
-----------------------------------------------------------------------------
(***************************************************************************)
(* Menu choices.                                                           *)
(***************************************************************************)
LEMMA LeadingIs ==
  ASSUME NEW t \in Seq(Byte), NEW set
  PROVE  \E n \in 0..Len(t) : /\ Leading(t, set) = n
                              /\ \A i \in 1..n : t[i] \in set
                              /\ n < Len(t) => t[n + 1] \notin set
  <1> DEFINE others == {i \in DOMAIN t : t[i] \notin set}
             first == CHOOSE i \in others : \A j \in others : i <= j
  <1>1. DOMAIN t = 1..Len(t) /\ Len(t) \in Nat
    OBVIOUS
  <1>2. CASE others = {}
    <2>1. Leading(t, set) = Len(t)
      BY <1>2, Zenon DEF Leading
    <2>2. \A i \in 1..Len(t) : t[i] \in set
      BY <1>1, <1>2
    <2>3. Len(t) \in 0..Len(t) /\ ~(Len(t) < Len(t))
      BY <1>1
    <2> QED BY <2>1, <2>2, <2>3, Zenon
  <1>3. CASE others # {}
    <2>1. others \subseteq Nat
      BY <1>1
    <2>2. \E i \in others : \A j \in others : i <= j
      <3> HIDE DEF others
      <3> QED BY <1>3, <2>1, Least
    <2>3. first \in others /\ \A j \in others : first <= j
      <3> HIDE DEF others
      <3> QED BY <2>2
    <2>4. Leading(t, set) = first - 1
      BY <1>3, Zenon DEF Leading
    <2> HIDE DEF first
    <2>5. PICK m \in 1..Len(t) : m = first /\ t[m] \notin set
      BY <1>1, <2>3
    <2>6. ASSUME NEW i \in 1..(m - 1) PROVE t[i] \in set
      <3>1. i \in 1..Len(t) /\ ~(m <= i)
        BY <1>1, <2>5
      <3> QED BY <1>1, <2>3, <2>5, <3>1
    <2>7. m - 1 \in 0..Len(t) /\ m - 1 + 1 = m
      BY <1>1, <2>5
    <2> QED BY <2>4, <2>5, <2>6, <2>7
  <1> QED BY <1>2, <1>3

\* Sums(s, o, d, v): v[i] is the number that the first i of the d digits of s
\* after the first o bytes make.
Sums(s, o, d, v) ==
    /\ v \in [0..d -> Nat]
    /\ v[0] = 0
    /\ \A i \in 1..d : v[i] = 10 * v[i - 1] + (s[o + i] - 48)

LEMMA SumsExist ==
  ASSUME NEW s, NEW o \in Nat, NEW d \in Nat, \A i \in 1..d : s[o + i] \in Digit
  PROVE  \E v : Sums(s, o, d, v)
  <1> DEFINE op == [p \in Nat \X (1..d) |-> 10 * p[1] + (s[o + p[2]] - 48)]
  <1>1. ASSUME NEW n \in Nat, NEW i \in 1..d
        PROVE  op[<<n, i>>] = 10 * n + (s[o + i] - 48) /\ 10 * n + (s[o + i] - 48) \in Nat
    <2>1. PICK c : c = s[o + i] /\ c \in Digit
      OBVIOUS
    <2>2. c - 48 \in Nat
      BY <2>1 DEF Digit
    <2>3. 10 * n + (c - 48) \in Nat
      BY <2>2
    <2> QED BY <2>1, <2>3
  <1>2. op \in [Nat \X (1..d) -> Nat]
    BY <1>1
  <1> HIDE DEF op
  <1>3. PICK v : Iterated(d, Nat, 0, op, v)
    BY <1>2, Iterates
  <1>4. \A i \in 1..d : v[i - 1] \in Nat /\ v[i] = op[<<v[i - 1], i>>]
    <2>1. \A i \in 1..d : i - 1 \in 0..d
      OBVIOUS
    <2> QED BY <1>3, <2>1 DEF Iterated
  <1>5. Sums(s, o, d, v)
    BY <1>1, <1>3, <1>4 DEF Iterated, Sums
  <1> QED BY <1>5

\* A number has one digit when all of its digits but the last are zeros.
LEMMA OneDigit ==
  ASSUME NEW s, NEW o \in Nat, NEW d \in Nat \ {0}, \A i \in 1..d : s[o + i] \in Digit,
         NEW v, Sums(s, o, d, v)
  PROVE  /\ v[d] <= 9 <=> \A i \in 1..(d - 1) : s[o + i] = 48
         /\ v[d] <= 9 => v[d] = s[o + d] - 48
         /\ v[d] \in Nat
  <1>1. \A i \in 0..d : v[i] \in Nat
    BY DEF Sums
  <1>2. ASSUME NEW i \in 1..d
        PROVE  \E c \in Nat : /\ c = s[o + i] - 48 /\ c <= 9 /\ s[o + i] = 48 + c
                              /\ i - 1 \in 0..d /\ v[i] = 10 * v[i - 1] + c
    <2>1. PICK e : e = s[o + i] /\ e \in Digit
      OBVIOUS
    <2>2. e - 48 \in Nat /\ e - 48 <= 9 /\ e = 48 + (e - 48)
      BY <2>1 DEF Digit
    <2>3. v[i] = 10 * v[i - 1] + (s[o + i] - 48)
      BY DEF Sums
    <2> QED BY <2>1, <2>2, <2>3
  <1>3. ASSUME v[d] <= 9 PROVE \A i \in 1..(d - 1) : s[o + i] = 48 /\ v[i] = 0
    <2> DEFINE T == {i \in 1..d : v[i] <= 9}
    <2>1. d - 1 \in Nat /\ d - 1 + 1 = d /\ d \in T
      BY <1>3
    <2>2. ASSUME NEW i \in 1..(d - 1), i + 1 \in T PROVE v[i] = 0 /\ i \in T
      <3>1. PICK m \in 1..d : m = i + 1 /\ m - 1 = i
        <4>1. i + 1 \in 1..d /\ i + 1 - 1 = i
          OBVIOUS
        <4> QED BY <4>1
      <3>2. PICK c \in Nat : v[m] = 10 * v[m - 1] + c
        BY <1>2
      <3>3. v[i] \in Nat /\ v[m] = 10 * v[i] + c /\ v[m] <= 9
        BY <1>1, <2>2, <3>1, <3>2
      <3>4. v[i] = 0
        BY <3>3
      <3> QED BY <3>1, <3>4
    <2>3. ASSUME NEW i \in 1..(d - 1), \A j \in (i + 1)..(d - 1 + 1) : j \in T PROVE i \in T
      <3>1. i + 1 \in (i + 1)..(d - 1 + 1)
        OBVIOUS
      <3> QED BY <2>2, <2>3, <3>1
    <2>4. \A i \in 1..(d - 1 + 1) : i \in T
      <3> HIDE DEF T
      <3> QED BY <2>1, <2>3, Downwards
    <2>5. ASSUME NEW i \in 1..(d - 1) PROVE s[o + i] = 48 /\ v[i] = 0
      <3>1. i + 1 \in 1..(d - 1 + 1) /\ i \in 1..d
        OBVIOUS
      <3>2. v[i] = 0
        BY <2>2, <2>4, <3>1
      <3>3. PICK c \in Nat : s[o + i] = 48 + c /\ i - 1 \in 0..d /\ v[i] = 10 * v[i - 1] + c
        BY <1>2, <3>1
      <3>4. v[i - 1] \in Nat
        BY <1>1, <3>3
      <3>5. c = 0
        BY <3>2, <3>3, <3>4
      <3> QED BY <3>2, <3>3, <3>5
    <2> QED BY <2>5
  <1>4. ASSUME \A i \in 1..(d - 1) : s[o + i] = 48 PROVE v[d - 1] = 0
    <2> DEFINE T == {i \in 0..(d - 1) : v[i] = 0}
    <2>1. d - 1 \in Nat /\ 0 \in T
      BY DEF Sums
    <2>2. ASSUME NEW i \in 1..(d - 1), i - 1 \in T PROVE i \in T
      <3>1. PICK c \in Nat : c = s[o + i] - 48 /\ v[i] = 10 * v[i - 1] + c
        <4>1. i \in 1..d
          OBVIOUS
        <4> QED BY <1>2, <4>1
      <3>2. c = 0
        BY <1>4, <3>1
      <3> QED BY <2>2, <3>1, <3>2
    <2>3. \A i \in 0..(d - 1) : i \in T
      <3> HIDE DEF T
      <3> QED BY <2>1, <2>2, Upwards
    <2> QED BY <2>1, <2>3
  <1>5. PICK c \in Nat : c = s[o + d] - 48 /\ c <= 9 /\ v[d] = 10 * v[d - 1] + c
    <2>1. d \in 1..d
      OBVIOUS
    <2> QED BY <1>2, <2>1
  <1>6. v[d] <= 9 => v[d - 1] = 0
    <2>1. d = 1 \/ d - 1 \in 1..(d - 1)
      OBVIOUS
    <2>2. v[0] = 0
      BY DEF Sums
    <2> QED BY <1>3, <2>1, <2>2
  <1>7. v[d - 1] = 0 => v[d] = c
    BY <1>5
  <1>8. v[d] \in Nat
    BY <1>1
  <1> QED BY <1>3, <1>4, <1>5, <1>6, <1>7, <1>8

\* The function that Strtol adds the digits up with.
LEMMA SumsChosen ==
  ASSUME NEW s, NEW o \in Nat, NEW d \in Nat, \A i \in 1..d : s[o + i] \in Digit,
         NEW v, v = CHOOSE f : f = [i \in 0..d |->
                        IF i = 0 THEN 0 ELSE 10 * f[i - 1] + (s[o + i] - 48)]
  PROVE  Sums(s, o, d, v)
  <1> DEFINE at(f, i) == IF i = 0 THEN 0 ELSE 10 * f[i - 1] + (s[o + i] - 48)
             fix(f) == f = [i \in 0..d |-> at(f, i)]
  <1>1. v = CHOOSE f : fix(f)
    OBVIOUS
  <1>2. \A f : at(f, 0) = 0
    OBVIOUS
  <1>3. ASSUME NEW f, NEW i \in 1..d PROVE at(f, i) = 10 * f[i - 1] + (s[o + i] - 48)
    <2>1. i # 0
      OBVIOUS
    <2> QED BY <2>1
  <1>4. 0 \in 0..d /\ \A i \in 0..d : i = 0 \/ i \in 1..d
    OBVIOUS
  <1> HIDE DEF at
  <1>5. \E f : fix(f)
    <2>1. PICK f : Sums(s, o, d, f)
      BY SumsExist
    <2>2. f \in [0..d -> Nat]
      BY <2>1 DEF Sums
    <2>3. ASSUME NEW i \in 0..d PROVE f[i] = at(f, i)
      BY <1>2, <1>3, <1>4, <2>1, ZenonT(40) DEF Sums
    <2>4. fix(f)
      BY <2>2, <2>3
    <2> QED BY <2>4
  <1>6. fix(v)
    <2> HIDE DEF fix
    <2> QED BY <1>1, <1>5
  <1>7. \A i \in 0..d : v[i] = at(v, i)
    BY <1>6
  <1>8. v[0] = 0
    BY <1>2, <1>4, <1>7
  <1>9. ASSUME NEW i \in 1..d PROVE i \in 0..d /\ v[i] = 10 * v[i - 1] + (s[o + i] - 48)
    <2>1. i \in 0..d
      OBVIOUS
    <2>2. v[i] = at(v, i) /\ at(v, i) = 10 * v[i - 1] + (s[o + i] - 48)
      BY <1>3, <1>7, <2>1, Zenon
    <2> QED BY <2>1, <2>2
  <1>10. \A i \in 0..d : v[i] \in Nat
    <2> DEFINE T == {i \in 0..d : v[i] \in Nat}
    <2>1. 0 \in T
      BY <1>4, <1>8
    <2>2. ASSUME NEW i \in 1..d, i - 1 \in T PROVE i \in T
      <3>1. PICK c, n : c = s[o + i] /\ c \in Digit /\ n = v[i - 1] /\ n \in Nat
        BY <2>2
      <3>2. c - 48 \in Nat
        BY <3>1, SMTT(40) DEF Digit
      <3>3. 10 * n + (c - 48) \in Nat
        BY <3>1, <3>2
      <3> QED BY <1>9, <3>1, <3>3
    <2>3. \A i \in 0..d : i \in T
      <3> HIDE DEF T
      <3> QED BY <2>1, <2>2, Upwards
    <2> QED BY <2>3
  <1>11. v \in [0..d -> Nat]
    BY <1>6, <1>10
  <1> QED BY <1>8, <1>9, <1>11 DEF Sums

\* What strtol finds in a line: blanks, perhaps a sign, and digits.
Number(s, b, g, d) ==
    /\ b \in 0..Len(s) /\ g \in 0..1 /\ d \in Nat /\ b + g + d <= Len(s)
    /\ \A i \in 1..b : s[i] \in Blank
    /\ b < Len(s) => s[b + 1] \notin Blank
    /\ g = 1 <=> b < Len(s) /\ s[b + 1] \in Sign
    /\ \A i \in 1..d : s[b + g + i] \in Digit
    /\ b + g + d < Len(s) => s[b + g + d + 1] \notin Digit

LEMMA StrtolIs ==
  ASSUME NEW s \in Seq(Byte)
  PROVE  \E b, g, d, v :
            /\ Number(s, b, g, d) /\ Sums(s, b + g, d, v)
            /\ Strtol(s).used = (IF d = 0 THEN 0 ELSE b + g + d)
            /\ Strtol(s).minus <=> g = 1 /\ s[b + 1] = 45
            /\ Strtol(s).value = v[d]
  <1> DEFINE b == Leading(s, Blank)
             g == IF b < Len(s) /\ s[b + 1] \in Sign THEN 1 ELSE 0
             t == Drop(s, b + g)
             d == Leading(t, Digit)
             v == CHOOSE f : f = [i \in 0..d |->
                     IF i = 0 THEN 0 ELSE 10 * f[i - 1] + (s[b + g + i] - 48)]
  <1>1. /\ Strtol(s).used = (IF d = 0 THEN 0 ELSE b + g + d)
        /\ Strtol(s).minus = (g = 1 /\ s[b + 1] = 45)
        /\ Strtol(s).value = v[d]
    <2> HIDE DEF b, d, v
    <2>1. Strtol(s) = [used |-> IF d = 0 THEN 0 ELSE b + g + d,
                       minus |-> g = 1 /\ s[b + 1] = 45,
                       value |-> v[d]]
      BY Zenon DEF Strtol, b, g, t, d, v
    <2> QED BY <2>1
  <1>2. /\ b \in 0..Len(s) /\ Len(s) \in Nat
        /\ \A i \in 1..b : s[i] \in Blank
        /\ b < Len(s) => s[b + 1] \notin Blank
    BY LeadingIs
  <1> HIDE DEF b
  <1>3. g \in 0..1 /\ b + g \in Nat /\ b + g <= Len(s) /\ (g = 1 <=> b < Len(s) /\ s[b + 1] \in Sign)
    BY <1>2
  <1> HIDE DEF g
  <1>4. /\ t \in Seq(Byte) /\ Len(t) = Len(s) - (b + g)
        /\ \A i \in 1..Len(t) : t[i] = s[b + g + i]
    <2>1. /\ t \in Seq(Byte) /\ Len(t) = (IF b + g < Len(s) THEN Len(s) - (b + g) ELSE 0)
          /\ \A i \in 1..Len(t) : t[i] = s[b + g + i]
      BY <1>3, DropIs
    <2> HIDE DEF t
    <2> QED BY <1>2, <1>3, <2>1
  <1> HIDE DEF t
  <1>5. /\ d \in 0..Len(t) /\ \A i \in 1..d : t[i] \in Digit
        /\ d < Len(t) => t[d + 1] \notin Digit
    BY <1>4, LeadingIs
  <1> HIDE DEF d
  <1>6. /\ d \in Nat /\ b + g + d <= Len(s)
        /\ \A i \in 1..d : s[b + g + i] \in Digit
        /\ b + g + d < Len(s) => s[b + g + d + 1] \notin Digit
    <2>1. d \in Nat /\ b + g + d <= Len(s) /\ \A i \in 1..d : i \in 1..Len(t)
      BY <1>2, <1>3, <1>4, <1>5
    <2>2. ASSUME b + g + d < Len(s) PROVE s[b + g + d + 1] \notin Digit
      <3>1. d + 1 \in 1..Len(t) /\ d < Len(t) /\ b + g + (d + 1) = b + g + d + 1
        BY <1>2, <1>3, <1>4, <2>1, <2>2
      <3> QED BY <1>4, <1>5, <3>1
    <2> QED BY <1>4, <1>5, <2>1, <2>2
  <1>7. Sums(s, b + g, d, v)
    BY <1>3, <1>6, SumsChosen
  <1> HIDE DEF v
  <1>8. Number(s, b, g, d)
    BY <1>2, <1>3, <1>6 DEF Number
  <1>9. /\ Number(s, b, g, d) /\ Sums(s, b + g, d, v)
        /\ Strtol(s).used = (IF d = 0 THEN 0 ELSE b + g + d)
        /\ Strtol(s).minus <=> g = 1 /\ s[b + 1] = 45
        /\ Strtol(s).value = v[d]
    BY <1>1, <1>7, <1>8
  <1> QED BY <1>9, Zenon

\* The whole line is one number, of the digit that stands for c.
Spells(s, b, g, d, c) ==
    /\ d > 0 /\ b + g + d = Len(s)
    /\ \A i \in 1..(d - 1) : s[b + g + i] = 48
    /\ s[b + g + d] = 48 + c
    /\ g = 1 /\ s[b + 1] = 45 => c = 0

LEMMA KindsApart ==
  /\ \A c \in Digit : c \notin Blank /\ c \notin Sign /\ c \in Nat
  /\ \A c \in Sign : c \notin Blank
  BY DEF Digit, Blank, Sign

\* What a line denotes is found in one way only.
LEMMA Denoted ==
  ASSUME NEW s \in Seq(Byte), NEW b, NEW g, NEW d, Number(s, b, g, d), NEW c \in 0..9
  PROVE  Denotes(s, c) <=> Spells(s, b, g, d, c)
  <1>1. /\ b \in 0..Len(s) /\ g \in 0..1 /\ d \in Nat /\ b + g + d <= Len(s) /\ Len(s) \in Nat
        /\ b + g \in Nat
    BY DEF Number
  <1>2. ASSUME NEW o \in Nat, o < Len(s)
        PROVE  /\ Drop(s, o) \in Seq(Byte) /\ Len(Drop(s, o)) = Len(s) - o
               /\ DOMAIN Drop(s, o) = 1..(Len(s) - o)
               /\ \A i \in 1..(Len(s) - o) : Drop(s, o)[i] = s[o + i]
               /\ Last(Drop(s, o)) = s[Len(s)]
    <2> DEFINE t == Drop(s, o)
    <2>1. /\ t \in Seq(Byte) /\ Len(t) = (IF o < Len(s) THEN Len(s) - o ELSE 0)
          /\ \A i \in 1..Len(t) : t[i] = s[o + i]
      BY <1>2, DropIs
    <2> HIDE DEF t
    <2>2. Len(t) = Len(s) - o /\ Len(t) \in Nat \ {0} /\ o + Len(t) = Len(s)
      BY <1>1, <1>2, <2>1
    <2>3. DOMAIN t = 1..Len(t)
      BY <2>1
    <2>4. Last(t) = s[Len(s)]
      <3>1. Len(t) \in 1..Len(t)
        BY <2>2
      <3>2. t[Len(t)] = s[o + Len(t)]
        BY <2>1, <3>1
      <3> QED BY <2>2, <3>2 DEF Last
    <2>5. /\ t \in Seq(Byte) /\ Len(t) = Len(s) - o
          /\ DOMAIN t = 1..(Len(s) - o)
          /\ \A i \in 1..(Len(s) - o) : t[i] = s[o + i]
          /\ Last(t) = s[Len(s)]
      BY <2>1, <2>2, <2>3, <2>4
    <2> QED BY <2>5 DEF t
  <1>3. ASSUME Spells(s, b, g, d, c) PROVE Denotes(s, c)
    <2>1. d > 0 /\ b + g + d = Len(s) /\ b + g < Len(s) /\ Len(s) - (b + g) = d
      BY <1>1, <1>3 DEF Spells
    <2>2. /\ Len(Drop(s, b + g)) = d /\ DOMAIN Drop(s, b + g) = 1..d
          /\ \A i \in 1..d : Drop(s, b + g)[i] = s[b + g + i]
          /\ Last(Drop(s, b + g)) = s[b + g + d]
      BY <1>1, <1>2, <2>1
    <2>3. PICK digits : digits = Drop(s, b + g)
      OBVIOUS
    <2>4. \A i \in DOMAIN digits : digits[i] \in Digit
      BY <2>2, <2>3 DEF Number
    <2>5. \A i \in 1..(Len(digits) - 1) : digits[i] = 48
      <3>1. \A i \in 1..(d - 1) : i \in 1..d
        BY <1>1
      <3> QED BY <1>3, <2>2, <2>3, <3>1 DEF Spells
    <2>6. Last(digits) = 48 + c
      BY <1>3, <2>2, <2>3 DEF Spells
    <2>7. \A i \in 1..b : s[i] \in Blank
      BY DEF Number
    <2>8. g = 1 => s[b + 1] \in Sign /\ (s[b + 1] = 45 => c = 0)
      BY <1>3 DEF Spells, Number
    <2> QED BY <1>1, <2>1, <2>3, <2>4, <2>5, <2>6, <2>7, <2>8, Zenon DEF Denotes
  <1>4. ASSUME Denotes(s, c) PROVE Spells(s, b, g, d, c)
    <2>1. PICK x \in 0..Len(s), y \in 0..1 :
             /\ x + y < Len(s)
             /\ \A i \in 1..x : s[i] \in Blank
             /\ y = 1 => s[x + 1] \in Sign /\ (s[x + 1] = 45 => c = 0)
             /\ \A i \in DOMAIN Drop(s, x + y) : Drop(s, x + y)[i] \in Digit
             /\ \A i \in 1..(Len(Drop(s, x + y)) - 1) : Drop(s, x + y)[i] = 48
             /\ Last(Drop(s, x + y)) = 48 + c
      BY <1>4 DEF Denotes
    <2>2. PICK n \in Nat \ {0} : n = Len(s) - (x + y) /\ x + y + n = Len(s) /\ x + y \in Nat
      <3>1. Len(s) - (x + y) \in Nat \ {0} /\ x + y + (Len(s) - (x + y)) = Len(s) /\ x + y \in Nat
        BY <1>1, <2>1
      <3> QED BY <3>1
    <2>3. /\ \A i \in 1..n : s[x + y + i] \in Digit
          /\ \A i \in 1..(n - 1) : s[x + y + i] = 48
          /\ s[Len(s)] = 48 + c
      <3>1. /\ Len(Drop(s, x + y)) = n /\ DOMAIN Drop(s, x + y) = 1..n
            /\ \A i \in 1..n : Drop(s, x + y)[i] = s[x + y + i]
            /\ Last(Drop(s, x + y)) = s[Len(s)]
        BY <1>2, <2>1, <2>2
      <3>2. \A i \in 1..(n - 1) : i \in 1..n
        OBVIOUS
      <3> QED BY <2>1, <3>1, <3>2
    <2>4. s[x + 1] \notin Blank /\ (y = 0 => s[x + 1] \notin Sign)
      <3>1. CASE y = 0
        <4>1. 1 \in 1..n /\ x + y + 1 = x + 1
          BY <2>2, <3>1
        <4>2. s[x + 1] \in Digit
          BY <2>3, <4>1
        <4> QED BY <4>2, KindsApart
      <3>2. CASE y = 1
        BY <2>1, <3>2, KindsApart
      <3> QED BY <3>1, <3>2
    <2>5. b = x
      <3>1. ASSUME b < x PROVE FALSE
        <4>1. b + 1 \in 1..x /\ b < Len(s)
          BY <1>1, <3>1
        <4> QED BY <2>1, <4>1 DEF Number
      <3>2. ASSUME x < b PROVE FALSE
        <4>1. x + 1 \in 1..b
          BY <1>1, <3>2
        <4> QED BY <2>4, <4>1 DEF Number
      <3> QED BY <1>1, <3>1, <3>2
    <2>6. g = y
      <3>1. b < Len(s) /\ (g = 1 <=> s[b + 1] \in Sign)
        <4>1. b < Len(s)
          BY <1>1, <2>1, <2>5
        <4> QED BY <4>1 DEF Number
      <3> QED BY <1>1, <2>1, <2>4, <2>5, <3>1
    <2>7. d = n
      <3>1. d <= n
        BY <1>1, <2>2, <2>5, <2>6
      <3>2. ASSUME d < n PROVE FALSE
        <4>1. d + 1 \in 1..n /\ b + g + d < Len(s) /\ x + y + (d + 1) = b + g + d + 1
          BY <1>1, <2>2, <2>5, <2>6, <3>2
        <4>2. s[b + g + d + 1] \in Digit
          BY <2>3, <4>1
        <4> QED BY <4>1, <4>2 DEF Number
      <3> QED BY <1>1, <2>2, <3>1, <3>2
    <2> QED BY <2>1, <2>2, <2>3, <2>5, <2>6, <2>7 DEF Spells
  <1> QED BY <1>3, <1>4

LEMMA ChoiceSpelt ==
  ASSUME NEW input \in Seq(Byte), NEW line \in Seq(Byte), line = ReadLine(input, ChoiceSize).line
  PROVE  \E b, g, d : /\ Number(line, b, g, d)
                      /\ MenuChoice(input) \in 0..9 \cup {NoChoice}
                      /\ \A c \in 0..9 : MenuChoice(input) = c <=> Spells(line, b, g, d, c)
  <1>1. PICK b, g, d, v :
            /\ Number(line, b, g, d) /\ Sums(line, b + g, d, v)
            /\ Strtol(line).used = (IF d = 0 THEN 0 ELSE b + g + d)
            /\ Strtol(line).minus <=> g = 1 /\ line[b + 1] = 45
            /\ Strtol(line).value = v[d]
    BY StrtolIs
  <1>2. /\ b \in Nat /\ g \in 0..1 /\ d \in Nat /\ Len(line) \in Nat
        /\ \A i \in 1..d : line[b + g + i] \in Digit
    BY <1>1 DEF Number
  <1> DEFINE meant == d > 0 /\ b + g + d = Len(line) /\ v[d] <= 9
                      /\ (g = 1 /\ line[b + 1] = 45 => v[d] = 0)
  <1>3. MenuChoice(input) = IF meant THEN v[d] ELSE NoChoice
    <2>1. PICK used, minus, value :
             used = Strtol(line).used /\ minus = Strtol(line).minus /\ value = Strtol(line).value
      OBVIOUS
    <2>2. MenuChoice(input) = IF /\ used > 0 /\ used = Len(line) /\ value <= 9
                                 /\ (minus => value = 0)
                              THEN value ELSE NoChoice
      BY <2>1, Zenon DEF MenuChoice
    <2>3. used > 0 <=> d > 0
      BY <1>1, <1>2, <2>1
    <2>4. d > 0 => used = b + g + d
      BY <1>1, <1>2, <2>1
    <2>5. value = v[d] /\ (minus <=> g = 1 /\ line[b + 1] = 45)
      BY <1>1, <2>1
    <2> QED BY <2>2, <2>3, <2>4, <2>5
  <1>4. NoChoice = 10
    BY DEF NoChoice
  <1>5. CASE d = 0
    <2>1. ~meant
      BY <1>5
    <2>2. \A c \in 0..9 : ~Spells(line, b, g, d, c)
      BY <1>5 DEF Spells
    <2>3. \A c \in 0..9 : c # NoChoice
      BY <1>4
    <2> HIDE DEF meant
    <2> QED BY <1>1, <1>3, <2>1, <2>2, <2>3
  <1>6. CASE d # 0
    <2>1. PICK n, e : n = v[d] /\ e = line[b + g + d]
      OBVIOUS
    <2>2. /\ n <= 9 <=> \A i \in 1..(d - 1) : line[b + g + i] = 48
          /\ n <= 9 => n = e - 48
          /\ n \in Nat
      <3>1. d \in Nat \ {0} /\ b + g \in Nat
        BY <1>2, <1>6
      <3>2. /\ v[d] <= 9 <=> \A i \in 1..(d - 1) : line[b + g + i] = 48
            /\ v[d] <= 9 => v[d] = line[b + g + d] - 48
            /\ v[d] \in Nat
        <4>1. PICK o \in Nat : o = b + g
          BY <3>1
        <4>2. Sums(line, o, d, v) /\ \A i \in 1..d : line[o + i] \in Digit
          BY <1>1, <1>2, <4>1
        <4>3. d \in Nat \ {0}
          BY <3>1
        <4>4. /\ v[d] <= 9 <=> \A i \in 1..(d - 1) : line[o + i] = 48
              /\ v[d] <= 9 => v[d] = line[o + d] - 48
              /\ v[d] \in Nat
          BY ONLY o \in Nat, <4>2, <4>3, OneDigit
        <4> QED BY <4>1, <4>4
      <3> QED BY <2>1, <3>2
    <2>3. e \in Digit
      <3>1. d \in 1..d
        BY <1>2, <1>6
      <3> QED BY <1>2, <2>1, <3>1
    <2>4. PICK k \in 0..9 : e = 48 + k
      <3>1. e - 48 \in 0..9 /\ e = 48 + (e - 48)
        BY <2>3 DEF Digit
      <3> QED BY <3>1
    <2>5. ASSUME NEW c \in 0..9 PROVE Spells(line, b, g, d, c) <=> meant /\ n = c
      <3>1. Spells(line, b, g, d, c) <=>
              /\ b + g + d = Len(line) /\ n <= 9 /\ k = c
              /\ g = 1 /\ line[b + 1] = 45 => c = 0
        <4>1. Spells(line, b, g, d, c) <=>
                /\ b + g + d = Len(line) /\ n <= 9 /\ e = 48 + c
                /\ g = 1 /\ line[b + 1] = 45 => c = 0
          <5>1. d > 0
            BY <1>2, <1>6
          <5> QED BY <2>1, <2>2, <5>1 DEF Spells
        <4>2. e = 48 + c <=> k = c
          BY <2>4
        <4> QED BY <4>1, <4>2
      <3>2. n <= 9 => n = k
        BY <2>2, <2>4
      <3>3. meant <=> /\ b + g + d = Len(line) /\ n <= 9
                      /\ g = 1 /\ line[b + 1] = 45 => n = 0
        BY <1>2, <1>6, <2>1
      <3>4. n = c => n <= 9
        OBVIOUS
      <3> HIDE DEF meant
      <3> QED BY <3>1, <3>2, <3>3, <3>4
    <2>6. meant => n \in 0..9
      <3>1. meant => n <= 9
        BY <2>1
      <3>2. n \in Nat
        BY <2>2
      <3>3. n <= 9 => n \in 0..9
        BY ONLY <3>2
      <3> QED BY ONLY <3>1, <3>3
    <2> HIDE DEF meant
    <2>7. MenuChoice(input) \in 0..9 \cup {NoChoice}
      BY <1>3, <2>1, <2>6
    <2>8. \A c \in 0..9 : MenuChoice(input) = c <=> meant /\ n = c
      BY <1>3, <1>4, <2>1
    <2> QED BY <1>1, <2>5, <2>7, <2>8
  <1> QED BY <1>5, <1>6

\* With a buffer of any size the choice is the one that the bytes kept of its
\* line denote, and there is none when they denote none.
THEOREM ChoicesAreMeant == Spec => []ChoiceIsMeant
  <1>1. TextTyped => ChoiceIsMeant
    <2> SUFFICES ASSUME text \in Seq(Byte)
                 PROVE  LET kept == Before(Take(Before(text, NL), ChoiceSize - 1), NUL)
                        IN  /\ MenuChoice(text) \in 0..9 \cup {NoChoice}
                            /\ \A c \in 0..9 : MenuChoice(text) = c <=> Denotes(kept, c)
      BY DEF TextTyped, ChoiceIsMeant
    <2>1. ChoiceSize \in Nat \ {0, 1} /\ ChoiceSize - 1 \in Nat
      BY TextAssumption
    <2>2. PICK line : /\ line = Before(Take(Before(text, NL), ChoiceSize - 1), NUL)
                      /\ line = ReadLine(text, ChoiceSize).line
      BY <2>1, OneRead
    <2>3. line \in Seq(Byte)
      <3>1. PICK typed \in Seq(Byte) : typed = Before(text, NL)
        <4>1. PICK p \in 0..Len(text) : Line(text, p)
          BY LineIs
        <4>2. Before(text, NL) = Take(text, p) /\ p \in Nat
          BY <4>1, LineTaken
        <4> QED BY <4>2, TakeIs
      <3>2. PICK taken \in Seq(Byte) : taken = Take(typed, ChoiceSize - 1)
        BY <2>1, TakeIs
      <3>3. Before(taken, NUL) \in Seq(Byte)
        <4>1. PICK m \in 0..Len(taken) : Before(taken, NUL) = Take(taken, m)
          <5>1. NUL \in Byte
            BY DEF NUL, Byte
          <5> QED BY <5>1, BeforeIs
        <4> QED BY <4>1, TakeIs
      <3> QED BY <2>2, <3>1, <3>2, <3>3
    <2>4. PICK b, g, d : /\ Number(line, b, g, d)
                         /\ MenuChoice(text) \in 0..9 \cup {NoChoice}
                         /\ \A c \in 0..9 : MenuChoice(text) = c <=> Spells(line, b, g, d, c)
      BY <2>2, <2>3, ChoiceSpelt
    <2>5. \A c \in 0..9 : Spells(line, b, g, d, c) <=> Denotes(line, c)
      BY <2>3, <2>4, Denoted
    <2> QED BY <2>2, <2>4, <2>5
  <1> QED BY <1>1, AlwaysTextTyped, PTL
=============================================================================
