---------------------------- MODULE PolicyProofs ----------------------------
(***************************************************************************)
(* Proofs about Policy.  Its operators walk over text, so most lemmas need *)
(* induction: SetInduction gives it for a set of numbers, from the         *)
(* well-foundedness of < and the least element it promises, and Recursion  *)
(* shows that a function defined by recursion over 0..n exists.  The rest  *)
(* follows the text from the globs to the policy and to the read.          *)
(***************************************************************************)
EXTENDS Policy, WellFoundedInduction, SequenceTheorems, TLAPS

-----------------------------------------------------------------------------
(* Numbers, induction, recursion *)

\* A set of numbers has a least one.
LEMMA Least ==
  ASSUME NEW T, T \subseteq Nat, T # {}
  PROVE  \E x \in T : \A y \in T : x <= y
<1> DEFINE Less == {ss \in Nat \X Nat : ss[1] < ss[2]}
<1>1. IsWellFoundedOn(Less, Nat)
  BY NatLessThanWellFounded DEF OpToRel
<1>2. \A a, b \in Nat : a < b => <<a, b>> \in Less
  OBVIOUS
<1> HIDE DEF Less
<1>3. PICK x \in T : \A y \in T : ~ (<<y, x>> \in Less)
  BY <1>1, WFMin
<1>4. \A y \in T : ~ (y < x)
  BY <1>2, <1>3
<1>5. \A y \in T : x \in Nat /\ y \in Nat
  OBVIOUS
<1>6. \A y \in T : x <= y
  BY <1>4, <1>5
<1>7. QED
  BY <1>6

\* Induction, for a set of numbers.
LEMMA SetInduction ==
  ASSUME NEW T, 0 \in T, \A n \in Nat : n \in T => n + 1 \in T
  PROVE  Nat \subseteq T
<1>1. SUFFICES ASSUME Nat \ T # {} PROVE FALSE
  OBVIOUS
<1>2. PICK x \in Nat \ T : \A y \in Nat \ T : x <= y
  BY <1>1, Least
<1>3. x # 0 /\ x - 1 \in Nat /\ x - 1 \in T /\ x = (x - 1) + 1
  BY <1>2
<1>4. QED
  BY <1>2, <1>3

\* The same up to a bound.
LEMMA BoundedInduction ==
  ASSUME NEW n \in Nat, NEW m \in 0..n, NEW T, m \in T,
         \A i \in m..(n - 1) : i \in T => i + 1 \in T
  PROVE  \A i \in m..n : i \in T
<1> DEFINE D == {d \in Nat : m + d <= n => m + d \in T}
<1>1. 0 \in D
  OBVIOUS
<1>2. \A d \in Nat : d \in D => d + 1 \in D
  <2>1. SUFFICES ASSUME NEW d \in Nat, d \in D, m + (d + 1) <= n
                 PROVE  m + (d + 1) \in T
    OBVIOUS
  <2>2. m + d \in T /\ m + d \in m..(n - 1) /\ m + (d + 1) = (m + d) + 1
    BY <2>1
  <2>3. QED
    BY <2>2
<1>3. Nat \subseteq D
  <2> HIDE DEF D
  <2> QED
    BY <1>1, <1>2, SetInduction
<1>4. \A i \in m..n : i - m \in Nat /\ m + (i - m) = i
  OBVIOUS
<1>5. QED
  BY <1>3, <1>4

LEMMA MinIsLeast ==
  ASSUME NEW T, T \subseteq Nat, T # {}
  PROVE  Min(T) \in T /\ \A y \in T : Min(T) <= y
BY Least DEF Min

LEMMA MaxIsGreatest ==
  ASSUME NEW n \in Nat, NEW T, T \subseteq 0..n, T # {}
  PROVE  Max(T) \in T /\ \A y \in T : y <= Max(T)
<1> DEFINE Below == {n - x : x \in T}
<1>1. Below \subseteq Nat /\ Below # {}
  OBVIOUS
<1>2. PICK b \in Below : \A y \in Below : b <= y
  <2> HIDE DEF Below
  <2> QED
    BY <1>1, Least
<1>3. PICK x \in T : b = n - x
  OBVIOUS
<1>4. \A y \in T : n - x <= n - y
  BY <1>2, <1>3
<1>5. \A y \in T : x \in 0..n /\ y \in 0..n
  OBVIOUS
<1>6. \A y \in T : x >= y
  BY <1>4, <1>5
<1>7. Max(T) \in T /\ \A y \in T : Max(T) >= y
  BY <1>6 DEF Max
<1>8. QED
  BY <1>5, <1>7

\* There is a function that starts at init and takes these steps.
LEMMA Recursion ==
  ASSUME NEW S, NEW init \in S, NEW n \in Nat, NEW step \in [1..n -> [S -> S]]
  PROVE  \E f \in [0..n -> S] : f[0] = init /\ \A i \in 1..n : f[i] = step[i][f[i - 1]]
<1> DEFINE Starts(f, k) == f[0] = init /\ \A i \in 1..k : f[i] = step[i][f[i - 1]]
           Reached == {k \in 0..n : \E f \in [0..k -> S] : Starts(f, k)}
<1>1. 0 \in Reached
  <2>1. [i \in 0..0 |-> init] \in [0..0 -> S]
    OBVIOUS
  <2>2. \A i \in 1..0 : FALSE
    OBVIOUS
  <2>3. Starts([i \in 0..0 |-> init], 0)
    BY <2>2
  <2>4. 0 \in 0..n /\ \E f \in [0..0 -> S] : Starts(f, 0)
    <3> HIDE DEF Starts
    <3> QED
      BY <2>1, <2>3
  <2>5. QED
    BY <2>4
<1>2. ASSUME NEW k \in 0..(n - 1), k \in Reached PROVE k + 1 \in Reached
  <2>1. PICK f \in [0..k -> S] : Starts(f, k)
    BY <1>2
  <2> DEFINE g == [i \in 0..(k + 1) |-> IF i = k + 1 THEN step[k + 1][f[k]] ELSE f[i]]
  <2>2. g \in [0..(k + 1) -> S]
    OBVIOUS
  <2>3. g[0] = init
    BY <2>1
  <2>4. ASSUME NEW i \in 1..(k + 1) PROVE g[i] = step[i][g[i - 1]]
    <3>1. CASE i = k + 1
      BY <3>1
    <3>2. CASE i # k + 1
      <4>1. i \in 1..k /\ i - 1 \in 0..k /\ i - 1 # k + 1
        BY <3>2
      <4>2. QED
        BY <2>1, <4>1
    <3>3. QED
      BY <3>1, <3>2
  <2>5. k + 1 \in 0..n
    OBVIOUS
  <2>6. QED
    BY <2>2, <2>3, <2>4, <2>5
<1>3. n \in Reached
  <2>1. 0 \in 0..n /\ n \in 0..n
    OBVIOUS
  <2> HIDE DEF Reached
  <2>2. QED
    BY <1>1, <1>2, <2>1, BoundedInduction
<1>4. QED
  BY <1>3

-----------------------------------------------------------------------------
(* Text and where it is cut *)

\* A part of a text, token by token.
LEMMA PartOfText ==
  ASSUME NEW s \in Text, NEW a \in Nat, NEW b \in Nat, 1 <= a, a <= b + 1, b <= Len(s)
  PROVE  /\ SubSeq(s, a, b) \in Text
         /\ Len(SubSeq(s, a, b)) = b - a + 1
         /\ \A i \in 1..(b - a + 1) : SubSeq(s, a, b)[i] = s[a + i - 1]
<1>1. Len(s) \in Nat /\ \A i \in 1..Len(s) : s[i] \in Tokens
  BY DEF Text
<1>2. a \in Int /\ b \in Int /\ \A i \in a..b : s[i] \in Tokens
  BY <1>1
<1>3. /\ SubSeq(s, a, b) \in Seq(Tokens)
      /\ Len(SubSeq(s, a, b)) = IF a <= b THEN b - a + 1 ELSE 0
      /\ \A i \in 1..(b - a + 1) : SubSeq(s, a, b)[i] = s[a + i - 1]
  BY <1>2, SubSeqProperties
<1>4. (IF a <= b THEN b - a + 1 ELSE 0) = b - a + 1
  BY <1>1
<1>5. QED
  BY <1>3, <1>4 DEF Text

\* Two texts of the same tokens are the same.
LEMMA SameText ==
  ASSUME NEW s \in Text, NEW t \in Text, Len(s) = Len(t),
         \A i \in 1..Len(s) : s[i] = t[i]
  PROVE  s = t
BY SeqEqual DEF Text

LEMMA JoinedText ==
  ASSUME NEW s \in Text, NEW t \in Text
  PROVE  /\ s \o t \in Text
         /\ Len(s \o t) = Len(s) + Len(t)
         /\ \A i \in 1..(Len(s) + Len(t)) :
              (s \o t)[i] = IF i <= Len(s) THEN s[i] ELSE t[i - Len(s)]
BY ConcatProperties DEF Text

\* The tokens of two texts joined are those of both.
LEMMA JoinedTokens ==
  ASSUME NEW s \in Text, NEW t \in Text
  PROVE  ToSet(s \o t) = ToSet(s) \cup ToSet(t)
<1> DEFINE st == s \o t
<1>1. Len(s) \in Nat /\ Len(t) \in Nat /\ DOMAIN s = 1..Len(s) /\ DOMAIN t = 1..Len(t)
  BY DEF Text
<1>2. /\ st \in Text /\ Len(st) = Len(s) + Len(t)
      /\ \A i \in 1..(Len(s) + Len(t)) : st[i] = IF i <= Len(s) THEN s[i] ELSE t[i - Len(s)]
  BY JoinedText
<1> HIDE DEF st
<1>3. DOMAIN st = 1..(Len(s) + Len(t))
  BY <1>2 DEF Text
<1>4. \A i \in 1..Len(s) : i \in DOMAIN st /\ st[i] = s[i]
  BY <1>1, <1>2, <1>3
<1>5. \A i \in 1..Len(t) : i + Len(s) \in DOMAIN st /\ st[i + Len(s)] = t[i]
  <2>1. \A i \in 1..Len(t) : /\ i + Len(s) \in 1..(Len(s) + Len(t))
                             /\ ~(i + Len(s) <= Len(s)) /\ (i + Len(s)) - Len(s) = i
    BY <1>1
  <2>2. QED
    BY <1>2, <1>3, <2>1
<1>6. \A i \in DOMAIN st : \/ i \in 1..Len(s) /\ st[i] = s[i]
                           \/ i - Len(s) \in 1..Len(t) /\ st[i] = t[i - Len(s)]
  BY <1>1, <1>2, <1>3
<1>7. ToSet(st) = ToSet(s) \cup ToSet(t)
  BY <1>1, <1>4, <1>5, <1>6 DEF ToSet
<1>8. QED
  BY <1>7 DEF st

LEMMA JoinedTexts ==
  ASSUME NEW s \in Text, NEW t \in Text, NEW u \in Text
  PROVE  (s \o t) \o u = s \o (t \o u)
BY ConcatAssociative DEF Text

\* A text cut behind its i-th token is the two parts joined.
LEMMA SplitText ==
  ASSUME NEW s \in Text, NEW a \in Nat, NEW k \in Nat, NEW m \in Nat, NEW b \in Nat,
         1 <= a, a <= k + 1, m = k + 1, k <= b, b <= Len(s)
  PROVE  SubSeq(s, a, k) \o SubSeq(s, m, b) = SubSeq(s, a, b)
<1>1. Len(s) \in Nat /\ s \in Seq(Tokens)
  BY DEF Text
<1>2. a \in 1..(Len(s) + 1) /\ k \in (a - 1)..Len(s) /\ b \in k..Len(s)
  BY <1>1
<1>3. SubSeq(s, a, k) \o SubSeq(s, k + 1, b) = SubSeq(s, a, b)
  BY <1>1, <1>2, ConcatAdjacentSubSeq
<1>4. QED
  BY <1>3

LEMMA WholeText ==
  ASSUME NEW s \in Text
  PROVE  SubSeq(s, 1, Len(s)) = s
BY SubSeqFull DEF Text

\* The middle of three texts, the first of one token, is found behind that.
LEMMA MiddleText ==
  ASSUME NEW s \in Text, NEW t \in Text, NEW u \in Text, Len(s) = 1
  PROVE  /\ Len(t) + 1 \in 0..Len(s \o (t \o u))
         /\ SubSeq(s \o (t \o u), 2, Len(t) + 1) = t
<1> DEFINE n == Len(t) + 1
           tu == t \o u
           all == s \o tu
<1>1. Len(t) \in Nat /\ Len(u) \in Nat
  BY DEF Text
<1>2. tu \in Text /\ Len(tu) = Len(t) + Len(u) /\ \A i \in 1..Len(t) : tu[i] = t[i]
  BY <1>1, JoinedText
<1> HIDE DEF tu
<1>3. /\ all \in Text /\ Len(all) = 1 + Len(tu)
      /\ \A i \in 1..(1 + Len(tu)) : all[i] = IF i <= 1 THEN s[i] ELSE tu[i - 1]
  <2>1. /\ all \in Text /\ Len(all) = Len(s) + Len(tu)
        /\ \A i \in 1..(Len(s) + Len(tu)) : all[i] = IF i <= Len(s) THEN s[i] ELSE tu[i - Len(s)]
    BY <1>2, JoinedText
  <2> HIDE DEF all
  <2>2. QED
    BY <2>1
<1> HIDE DEF all
<1>4. \A i \in 1..Len(t) : all[i + 1] = t[i]
  <2>1. \A i \in 1..Len(t) : i + 1 \in 1..(1 + Len(tu)) /\ ~(i + 1 <= 1) /\ (i + 1) - 1 = i
    BY <1>1, <1>2
  <2>2. QED
    BY <1>2, <1>3, <2>1
<1>5. 2 \in Nat /\ n \in Nat /\ 2 <= n + 1 /\ n <= Len(all) /\ n - 2 + 1 = Len(t)
  BY <1>1, <1>2, <1>3
<1> HIDE DEF n
<1>6. /\ SubSeq(all, 2, n) \in Text /\ Len(SubSeq(all, 2, n)) = Len(t)
      /\ \A i \in 1..Len(t) : SubSeq(all, 2, n)[i] = all[2 + i - 1]
  BY <1>3, <1>5, PartOfText
<1>7. \A i \in 1..Len(t) : 2 + i - 1 = i + 1
  BY <1>1
<1>8. \A i \in 1..Len(t) : SubSeq(all, 2, n)[i] = t[i]
  BY <1>4, <1>6, <1>7
<1>9. SubSeq(all, 2, n) = t
  BY <1>6, <1>8, SameText
<1>10. n \in 0..Len(all)
  BY <1>1, <1>3, <1>5
<1>11. QED
  BY <1>9, <1>10 DEF n, all, tu

\* What strings.Cut promises: the parts around the first separator, and no
\* separator before it.
LEMMA CutIsFirst ==
  ASSUME NEW s \in Text, NEW sep \in Text, Len(sep) >= 1, Occurs(s, sep) # {}
  PROVE  /\ Cut(s, sep)[1] \in Text
         /\ Cut(s, sep)[2] \in Text
         /\ s = Cut(s, sep)[1] \o sep \o Cut(s, sep)[2]
         /\ Occurs(Cut(s, sep)[1] \o sep, sep) = {Len(Cut(s, sep)[1]) + 1}
<1> DEFINE i == Min(Occurs(s, sep))
           n == Len(s)
           l == Len(sep)
           first == SubSeq(s, 1, i - 1)
           second == SubSeq(s, i + l, n)
           both == first \o sep
<1>1. n \in Nat /\ l \in Nat
  BY DEF Text
<1>2. Occurs(s, sep) \subseteq Nat
  BY <1>1 DEF Occurs
<1>3. i \in Occurs(s, sep) /\ \A j \in Occurs(s, sep) : i <= j
  BY <1>2, MinIsLeast
<1>4. i \in 1..(n - l + 1) /\ SubSeq(s, i, i + l - 1) = sep
  BY <1>3 DEF Occurs
<1>5. Cut(s, sep)[1] = first /\ Cut(s, sep)[2] = second
  BY DEF Cut
<1> HIDE DEF i
<1>6. first \in Text /\ Len(first) = i - 1
  BY <1>1, <1>4, PartOfText
<1>7. second \in Text
  BY <1>1, <1>4, PartOfText
<1>8. both = SubSeq(s, 1, i + l - 1)
  <2>1. /\ 1 \in Nat /\ i - 1 \in Nat /\ i \in Nat /\ i + l - 1 \in Nat
        /\ 1 <= (i - 1) + 1 /\ i = (i - 1) + 1 /\ i - 1 <= i + l - 1 /\ i + l - 1 <= n
    BY <1>1, <1>4
  <2>2. SubSeq(s, 1, i - 1) \o SubSeq(s, i, i + l - 1) = SubSeq(s, 1, i + l - 1)
    BY <1>1, <2>1, SplitText
  <2>3. QED
    BY <1>4, <2>2
<1>9. s = both \o second
  <2>1. /\ 1 \in Nat /\ i + l - 1 \in Nat /\ i + l \in Nat
        /\ 1 <= (i + l - 1) + 1 /\ i + l = (i + l - 1) + 1 /\ i + l - 1 <= n /\ n <= n
    BY <1>1, <1>4
  <2>2. SubSeq(s, 1, i + l - 1) \o SubSeq(s, i + l, n) = SubSeq(s, 1, n)
    BY <1>1, <2>1, SplitText
  <2>3. QED
    BY <1>8, <2>2, WholeText
<1>10. Occurs(both, sep) = {i}
  <2>1. /\ Len(both) = i + l - 1
        /\ \A j \in 1..(i + l - 1) : both[j] = s[j]
        /\ both \in Text
    <3> DEFINE b == i + l - 1
    <3>1. b \in Nat /\ 1 <= b + 1 /\ b <= n /\ b - 1 + 1 = b
      BY <1>1, <1>4
    <3> HIDE DEF b
    <3>2. /\ SubSeq(s, 1, b) \in Text /\ Len(SubSeq(s, 1, b)) = b
          /\ \A j \in 1..b : SubSeq(s, 1, b)[j] = s[j]
      BY <3>1, PartOfText
    <3>3. QED
      BY <1>8, <3>2 DEF b
  <2>2. ASSUME NEW k \in 1..i
        PROVE  SubSeq(both, k, k + l - 1) = SubSeq(s, k, k + l - 1)
    <3> DEFINE b == k + l - 1
               x == SubSeq(both, k, b)
               y == SubSeq(s, k, b)
    <3>1. /\ k \in Nat /\ b \in Nat /\ 1 <= k /\ k <= b + 1
          /\ b <= n /\ b <= i + l - 1 /\ b - k + 1 = l
      BY <1>1, <1>4
    <3> HIDE DEF b, both
    <3>2. x \in Text /\ Len(x) = l /\ \A j \in 1..l : x[j] = both[k + j - 1]
      BY <2>1, <3>1, PartOfText
    <3>3. y \in Text /\ Len(y) = l /\ \A j \in 1..l : y[j] = s[k + j - 1]
      BY <3>1, PartOfText
    <3>4. \A j \in 1..l : k + j - 1 \in 1..(i + l - 1)
      BY <1>1, <1>4
    <3>5. \A j \in 1..l : x[j] = y[j]
      BY <2>1, <3>2, <3>3, <3>4
    <3> HIDE DEF x, y
    <3>6. x = y
      BY <3>2, <3>3, <3>5, SameText
    <3>7. QED
      BY <3>6 DEF x, y, b
  <2>3. Occurs(both, sep) = {k \in 1..i : SubSeq(s, k, k + l - 1) = sep}
    <3>1. Len(both) - l + 1 = i
      BY <1>1, <1>4, <2>1
    <3>2. QED
      BY <2>2, <3>1 DEF Occurs
  <2>4. \A k \in 1..i : k \in 1..(n - l + 1)
    BY <1>1, <1>4
  <2>5. \A k \in 1..i : SubSeq(s, k, k + l - 1) = sep => k = i
    BY <1>1, <1>3, <1>4, <2>4 DEF Occurs
  <2>6. i \in 1..i
    BY <1>4
  <2>7. QED
    BY <1>4, <2>3, <2>5, <2>6
<1>11. i = Len(first) + 1
  BY <1>4, <1>6
<1>12. QED
  BY <1>5, <1>6, <1>7, <1>9, <1>10, <1>11

-----------------------------------------------------------------------------
(* Requests *)

\* A request that is one: two names, neither empty nor with a slash.
LEMMA RequestHasNames ==
  ASSUME NEW unit \in Text, NEW credential \in Text,
         NewRequest(unit, credential) # NoRequest
  PROVE  /\ NewRequest(unit, credential) = [unit |-> unit, credential |-> credential]
         /\ unit \in Segment \ {<<>>}
         /\ credential \in Segment \ {<<>>}
<1>1. /\ unit # <<>> /\ credential # <<>>
      /\ "/" \notin ToSet(unit \o credential)
      /\ NewRequest(unit, credential) = [unit |-> unit, credential |-> credential]
  BY DEF NewRequest
<1>2. "/" \notin ToSet(unit) /\ "/" \notin ToSet(credential)
  BY <1>1, JoinedTokens
<1>3. QED
  BY <1>1, <1>2 DEF Segment

\* Two such names are a request.
LEMMA NamesMakeRequest ==
  ASSUME NEW unit \in Segment \ {<<>>}, NEW credential \in Segment \ {<<>>}
  PROVE  NewRequest(unit, credential) # NoRequest
<1>1. /\ unit \in Text /\ credential \in Text /\ unit # <<>> /\ credential # <<>>
      /\ "/" \notin ToSet(unit) \cup ToSet(credential)
  BY DEF Segment
<1>2. "/" \notin ToSet(unit \o credential)
  BY <1>1, JoinedTokens
<1>3. QED
  BY <1>1, <1>2 DEF NewRequest, NoRequest

\* What an address says: the text before its first marker, then the unit, then
\* the credential.
Says(address, random, unit, credential) ==
  /\ Len(random) + 1 \in 0..Len(address)
  /\ SubSeq(address, 2, Len(random) + 1) = random
  /\ Occurs(random \o Marker, Marker) = {Len(random) + 1}
  /\ address = <<"@">> \o random \o Marker \o unit \o <<"/">> \o credential

\* A request that came from an address is what the address says.
LEMMA ParsedRequest ==
  ASSUME NEW address \in Text, ParsePeer(address) # NoRequest
  PROVE  \E random, unit, credential \in Text :
           /\ Says(address, random, unit, credential)
           /\ ParsePeer(address) = NewRequest(unit, credential)
<1> DEFINE tail == Tail(address)
           outer == Cut(tail, Marker)
           rest == outer[2]
           inner == Cut(rest, <<"/">>)
<1>1. /\ IsPrefix(<<"@">>, address)
      /\ Occurs(tail, Marker) # {}
      /\ Occurs(rest, <<"/">>) # {}
      /\ ParsePeer(address) = NewRequest(inner[1], inner[2])
  BY DEF ParsePeer
<1>2. Len(address) >= 1 /\ address[1] = "@"
  <2>1. Len(<<"@">>) = 1 /\ <<"@">>[1] = "@" /\ <<"@">> \in Text
    BY TokensAreEnough DEF Text
  <2>2. Len(address) >= 1 /\ Len(address) \in Nat
    BY <1>1, <2>1 DEF IsPrefix, Text
  <2>3. SubSeq(<<"@">>, 1, 1) = SubSeq(address, 1, 1)
    BY <1>1, <2>1 DEF IsPrefix
  <2>4. SubSeq(<<"@">>, 1, 1)[1] = "@"
    BY <2>1, WholeText
  <2>5. SubSeq(address, 1, 1)[1] = address[1]
    BY <2>2, PartOfText
  <2>6. QED
    BY <2>2, <2>3, <2>4, <2>5
<1>3. tail \in Text /\ address = <<"@">> \o tail
  BY <1>2 DEF Text
<1>4. Marker \in Text /\ Len(Marker) >= 1 /\ <<"/">> \in Text /\ Len(<<"/">>) >= 1
  BY TokensAreEnough DEF Marker, Text
<1> HIDE DEF tail
<1>5. /\ outer[1] \in Text /\ rest \in Text
      /\ tail = outer[1] \o Marker \o rest
      /\ Occurs(outer[1] \o Marker, Marker) = {Len(outer[1]) + 1}
  BY <1>1, <1>3, <1>4, CutIsFirst
<1> HIDE DEF outer
<1>6. /\ inner[1] \in Text /\ inner[2] \in Text
      /\ rest = inner[1] \o <<"/">> \o inner[2]
  BY <1>1, <1>4, <1>5, CutIsFirst
<1> HIDE DEF inner
<1>7. PICK random, unit, credential :
        random = outer[1] /\ unit = inner[1] /\ credential = inner[2]
  OBVIOUS
<1>8. random \in Text
  BY <1>5, <1>7
<1>9. unit \in Text
  BY <1>6, <1>7
<1>10. credential \in Text
  BY <1>6, <1>7
<1>11. Says(address, random, unit, credential)
  <2> DEFINE at == <<"@">>
             slash == <<"/">>
             before == random \o Marker
             front == (at \o random) \o Marker
             named == unit \o slash
  <2>1. at \in Text /\ Len(at) = 1
    BY TokensAreEnough DEF Text
  <2>2. slash \in Text /\ Marker \in Text
    BY <1>4
  <2>3. rest = named \o credential /\ tail = before \o rest
    BY <1>5, <1>6, <1>7
  <2>4. rest \in Text
    BY <1>5
  <2> HIDE DEF at, slash, rest
  <2>5. before \in Text /\ at \o random \in Text
    BY <1>8, <2>1, <2>2, JoinedText
  <2>6. front \in Text
    BY <2>2, <2>5, JoinedText
  <2>7. front = at \o before
    BY <1>8, <2>1, <2>2, JoinedTexts
  <2>8. tail = random \o (Marker \o rest)
    BY <1>8, <2>2, <2>3, <2>4, JoinedTexts
  <2>9. Marker \o rest \in Text
    BY <2>2, <2>4, JoinedText
  <2>10. /\ SubSeq(at \o tail, 2, Len(random) + 1) = random
         /\ Len(random) + 1 \in 0..Len(at \o tail)
    BY <1>8, <2>1, <2>8, <2>9, MiddleText
  <2>11. named \in Text /\ front \o named = (front \o unit) \o slash
    <3> HIDE DEF front
    <3> QED
      BY <1>9, <2>2, <2>6, JoinedText, JoinedTexts
  <2> HIDE DEF before, front, named
  <2>12. at \o tail = front \o rest
    BY <2>1, <2>3, <2>4, <2>5, <2>7, JoinedTexts
  <2>13. front \o rest = (front \o named) \o credential
    BY <1>10, <2>3, <2>6, <2>11, JoinedTexts
  <2>14. address = at \o random \o Marker \o unit \o slash \o credential
    BY <1>3, <2>11, <2>12, <2>13 DEF front, at
  <2>15. Occurs(random \o Marker, Marker) = {Len(random) + 1}
    BY <1>5, <1>7
  <2>16. QED
    BY <1>3, <2>10, <2>14, <2>15 DEF Says, at, slash
<1>12. QED
  BY <1>1, <1>7, <1>8, <1>9, <1>10, <1>11

-----------------------------------------------------------------------------
(* The inductive invariant *)

\* A plan answers a request by the rules in effect.
Answers(from, request) == request # NoRequest /\ plan = Resolved(from, request)

\* The rules were checked, the policy is theirs, and so is the plan, for a
\* request that came from an address or from the command line.
IInv ==
  /\ rules \in Files
  /\ \A r \in ToSet(rules) : Valid(r)
  /\ policy = Grants(rules)
  /\ \/ plan = NoPlan
     \/ \E address \in Addresses : Answers(address, ParsePeer(address))
     \/ \E unit \in Units, credential \in CredentialIDs :
          Answers(<<>>, NewRequest(unit, credential))

LEMMA Invariant == Spec => []IInv
<1>1. Init => IInv
  BY DEF Init, IInv
<1>2. IInv /\ [Next]_vars => IInv'
  <2>1. SUFFICES ASSUME IInv, [Next]_vars PROVE IInv'
    OBVIOUS
  <2>2. ASSUME NEW from, NEW request, rules' = rules
        PROVE  Resolved(from, request)' = Resolved(from, request)
    BY <2>2 DEF Resolved, Match, Refused, SelectInSeq
  <2>3. ASSUME NEW from, NEW request, Plan(from, request)
        PROVE  /\ rules' = rules /\ policy' = policy
               /\ Answers(from, request)'
    <3>1. /\ rules' = rules /\ policy' = policy /\ request # NoRequest
          /\ plan' = Resolved(from, request)
      BY <2>3 DEF Plan
    <3>2. plan' = Resolved(from, request)'
      BY <2>2, <3>1
    <3>3. QED
      BY <3>1, <3>2 DEF Answers
  <2>4. CASE \E address \in Addresses : Serve(address)
    <3>1. PICK address \in Addresses : Serve(address)
      BY <2>4
    <3>2. rules' = rules /\ policy' = policy /\ Answers(address, ParsePeer(address))'
      BY <2>3, <3>1 DEF Serve
    <3>3. QED
      BY <2>1, <3>2 DEF IInv
  <2>5. CASE \E unit \in Units, credential \in CredentialIDs : Resolve(unit, credential)
    <3>1. PICK unit \in Units, credential \in CredentialIDs : Resolve(unit, credential)
      BY <2>5
    <3>2. rules' = rules /\ policy' = policy /\ Answers(<<>>, NewRequest(unit, credential))'
      BY <2>3, <3>1 DEF Resolve
    <3>3. QED
      BY <2>1, <3>2 DEF IInv
  <2>6. CASE UNCHANGED vars
    <3>1. rules' = rules /\ policy' = policy /\ plan' = plan
      BY <2>6 DEF vars
    <3>2. ASSUME NEW from, NEW request, Answers(from, request)
          PROVE  Answers(from, request)'
      <4>1. Resolved(from, request)' = Resolved(from, request)
        BY <2>2, <3>1
      <4>2. QED
        BY <3>1, <3>2, <4>1 DEF Answers
    <3>3. CASE plan = NoPlan
      BY <2>1, <3>1, <3>3 DEF IInv
    <3>4. CASE \E address \in Addresses : Answers(address, ParsePeer(address))
      BY <2>1, <3>1, <3>2, <3>4 DEF IInv
    <3>5. CASE \E unit \in Units, credential \in CredentialIDs :
                 Answers(<<>>, NewRequest(unit, credential))
      BY <2>1, <3>1, <3>2, <3>5 DEF IInv
    <3>6. QED
      BY <2>1, <3>3, <3>4, <3>5 DEF IInv
  <2>7. QED
    BY <2>1, <2>4, <2>5, <2>6 DEF Next
<1>3. QED
  BY <1>1, <1>2, PTL DEF Spec

\* The same for the reader of a plan: what its request was.
LEMMA PlanHasRequest ==
  ASSUME IInv, plan # NoPlan
  PROVE  \E unit, credential \in Segment \ {<<>>} :
           /\ plan = Resolved(plan.from, [unit |-> unit, credential |-> credential])
           /\ plan.unit = unit /\ plan.credential = credential
           /\ plan.from = <<>> \/ (/\ plan.from \in Addresses
                                   /\ \E random \in Text :
                                        Says(plan.from, random, unit, credential))
<1>1. ASSUME NEW from, NEW unit \in Text, NEW credential \in Text,
             Answers(from, NewRequest(unit, credential))
      PROVE  /\ unit \in Segment \ {<<>>} /\ credential \in Segment \ {<<>>}
             /\ plan = Resolved(from, [unit |-> unit, credential |-> credential])
             /\ plan.from = from /\ plan.unit = unit /\ plan.credential = credential
  <2>1. /\ plan = Resolved(from, NewRequest(unit, credential))
        /\ NewRequest(unit, credential) = [unit |-> unit, credential |-> credential]
        /\ unit \in Segment \ {<<>>} /\ credential \in Segment \ {<<>>}
    BY <1>1, RequestHasNames DEF Answers
  <2>2. \A request : /\ Resolved(from, request).from = from
                     /\ Resolved(from, request).unit = request.unit
                     /\ Resolved(from, request).credential = request.credential
    BY DEF Resolved
  <2>3. QED
    BY <2>1, <2>2
<1>2. CASE \E address \in Addresses : Answers(address, ParsePeer(address))
  <2>1. PICK address \in Addresses : Answers(address, ParsePeer(address))
    BY <1>2
  <2>2. address \in Text /\ ParsePeer(address) # NoRequest
    BY <2>1, NamesAreText DEF Answers
  <2>3. PICK random, unit, credential \in Text :
          /\ Says(address, random, unit, credential)
          /\ ParsePeer(address) = NewRequest(unit, credential)
    BY <2>2, ParsedRequest
  <2>4. Answers(address, NewRequest(unit, credential))
    BY <2>1, <2>3
  <2>5. /\ unit \in Segment \ {<<>>} /\ credential \in Segment \ {<<>>}
        /\ plan = Resolved(address, [unit |-> unit, credential |-> credential])
        /\ plan.from = address /\ plan.unit = unit /\ plan.credential = credential
    BY <1>1, <2>4
  <2>6. plan = Resolved(plan.from, [unit |-> unit, credential |-> credential])
    BY <2>5
  <2>7. plan.from \in Addresses /\ Says(plan.from, random, unit, credential)
    BY <2>3, <2>5
  <2>8. QED
    BY <2>5, <2>6, <2>7
<1>3. CASE \E unit \in Units, credential \in CredentialIDs :
             Answers(<<>>, NewRequest(unit, credential))
  <2>1. PICK unit \in Units, credential \in CredentialIDs :
          Answers(<<>>, NewRequest(unit, credential))
    BY <1>3
  <2>2. unit \in Text /\ credential \in Text
    BY NamesAreText
  <2>3. QED
    BY <1>1, <2>1, <2>2
<1>4. QED
  BY <1>2, <1>3 DEF IInv

\* A request is the one its address names (ParsePeer).
THEOREM AddressNamesRequest == Spec => []RequestIsTheAddress
<1>1. IInv => RequestIsTheAddress
  <2>1. SUFFICES ASSUME IInv, plan.from # <<>> PROVE RequestIsTheAddress
    BY DEF RequestIsTheAddress
  <2>2. plan # NoPlan
    BY <2>1 DEF NoPlan
  <2>3. PICK unit, credential \in Segment \ {<<>>}, random \in Text :
          /\ plan.unit = unit /\ plan.credential = credential
          /\ plan.from \in Addresses
          /\ Says(plan.from, random, unit, credential)
    BY <2>1, <2>2, PlanHasRequest
  <2>4. PICK address \in Addresses : address = plan.from
    BY <2>3
  <2>5. QED
    BY <2>3, <2>4 DEF RequestIsTheAddress, Says
<1>2. QED
  BY <1>1, Invariant, PTL

-----------------------------------------------------------------------------
(* Expanding a segment *)

\* What FlattenSeq computes: it joins one text after the other.
LEMMA FlattenJoins ==
  ASSUME NEW ss \in Seq(Text)
  PROVE  \E f \in [0..Len(ss) -> Text] :
           /\ f[0] = <<>>
           /\ \A i \in 1..Len(ss) : f[i] = f[i - 1] \o ss[i]
           /\ FlattenSeq(ss) = f[Len(ss)]
<1> DEFINE n == Len(ss)
           step == [i \in 1..n |-> [t \in Text |-> t \o ss[i]]]
<1>1. n \in Nat /\ ss \in [1..n -> Text] /\ <<>> \in Text
  BY DEF Text
<1>2. step \in [1..n -> [Text -> Text]]
  <2>1. \A i \in 1..n, t \in Text : t \o ss[i] \in Text
    BY <1>1, JoinedText
  <2>2. QED
    BY <2>1
<1>3. \A i \in 1..n, t \in Text : step[i][t] = t \o ss[i]
  OBVIOUS
<1> HIDE DEF step, n
<1>4. PICK f \in [0..n -> Text] :
        f[0] = <<>> /\ \A i \in 1..n : f[i] = step[i][f[i - 1]]
  <2>1. PICK S, m : S = Text /\ m = n
    OBVIOUS
  <2>2. PICK start \in S : start = <<>>
    BY <1>1, <2>1
  <2>3. step \in [1..m -> [S -> S]]
    BY <1>2, <2>1
  <2>4. m \in Nat
    BY <1>1, <2>1
  <2>5. \E f \in [0..m -> S] : f[0] = start /\ \A i \in 1..m : f[i] = step[i][f[i - 1]]
    BY <2>3, <2>4, Recursion
  <2>6. QED
    BY <2>1, <2>2, <2>5
<1>5. f[0] = <<>> /\ \A i \in 1..n : f[i] = f[i - 1] \o ss[i]
  <2>1. \A i \in 1..n : f[i - 1] \in Text
    BY <1>1
  <2>2. QED
    BY <1>3, <1>4, <2>1
<1>6. CASE n = 0
  BY <1>1, <1>5, <1>6 DEF FlattenSeq, n
<1>7. CASE n # 0
  <2> DEFINE Flattens(g) == g = [i \in 1..n |-> IF i = 1 THEN ss[i] ELSE g[i - 1] \o ss[i]]
             flatten == CHOOSE g : Flattens(g)
  <2>1. FlattenSeq(ss) = flatten[n]
    BY <1>7 DEF FlattenSeq, n
  <2>2. f[1] = ss[1]
    <3>1. 1 \in 1..n /\ 1 - 1 = 0
      BY <1>1, <1>7
    <3>2. f[1] = <<>> \o ss[1] /\ ss[1] \in Text
      BY <1>1, <1>5, <3>1
    <3>3. QED
      BY <3>2, ConcatEmptySeq DEF Text
  <2>3. \A i \in 1..n : f[i] = IF i = 1 THEN ss[i] ELSE f[i - 1] \o ss[i]
    BY <1>5, <2>2
  <2> DEFINE h == [i \in 1..n |-> f[i]]
  <2>4. \A i \in 1..n : i # 1 => i - 1 \in 1..n
    BY <1>1
  <2>5. Flattens(h)
    <3>1. \A i \in 1..n : h[i] = IF i = 1 THEN ss[i] ELSE h[i - 1] \o ss[i]
      BY <2>3, <2>4
    <3>2. QED
      BY <3>1
  <2>6. Flattens(flatten)
    <3> HIDE DEF Flattens
    <3> QED
      BY <2>5
  <2>7. \A i \in 1..n : flatten[i] = IF i = 1 THEN ss[i] ELSE flatten[i - 1] \o ss[i]
    <3> HIDE DEF flatten
    <3> QED
      BY <2>6
  <2> HIDE DEF flatten, h
  <2> DEFINE Same == {i \in Nat : flatten[i] = f[i]}
  <2>8. \A i \in 1..n : i \in Same
    <3>1. 1 \in Same
      BY <1>1, <1>7, <2>2, <2>7
    <3>2. ASSUME NEW i \in 1..(n - 1), i \in Same PROVE i + 1 \in Same
      <4>1. i + 1 \in 1..n /\ i + 1 # 1 /\ (i + 1) - 1 = i /\ i + 1 \in Nat
        BY <1>1
      <4>2. flatten[i + 1] = flatten[i] \o ss[i + 1] /\ f[i + 1] = f[i] \o ss[i + 1]
        BY <1>5, <2>7, <4>1
      <4>3. QED
        BY <3>2, <4>1, <4>2
    <3>3. 1 \in 0..n
      BY <1>1, <1>7
    <3> HIDE DEF Same
    <3>4. QED
      BY <1>1, <3>1, <3>2, <3>3, BoundedInduction
  <2>9. flatten[n] = f[n]
    BY <1>1, <1>7, <2>8
  <2>10. QED
    BY <1>5, <2>1, <2>9 DEF n
<1>8. QED
  BY <1>6, <1>7

-----------------------------------------------------------------------------
(* Matching a glob *)

\* What MatchGlob computes: where the glob's first tokens can end.
LEMMA MatchEnds ==
  ASSUME NEW glob \in Text, NEW name \in Text, MatchGlob(glob, name)
  PROVE  \E ends :
           /\ ends[0] = {0}
           /\ \A i \in 1..Len(glob) : \A j \in ends[i] :
                /\ j \in Nat /\ j <= Len(name)
                /\ \E k \in ends[i - 1] :
                     /\ k <= j
                     /\ glob[i] = "*" \/ (j = k + 1 /\ glob[i] = name[j])
           /\ Len(name) \in ends[Len(glob)]
<1> DEFINE n == Len(glob)
           m == Len(name)
           Next1(i, r) == UNION {{j \in k..m : glob[i] = "*" \/ (j = k + 1 /\ glob[i] = name[j])} :
                                   k \in r}
           step == [i \in 1..n |-> [r \in SUBSET Nat |-> Next1(i, r)]]
           Ends(g) == g = [i \in 0..n |-> IF i = 0 THEN {0} ELSE Next1(i, g[i - 1])]
           ends == CHOOSE g : Ends(g)
<1>1. n \in Nat /\ m \in Nat
  BY DEF Text
<1>2. MatchGlob(glob, name) <=> m \in ends[n]
  BY DEF MatchGlob
<1>3. step \in [1..n -> [SUBSET Nat -> SUBSET Nat]]
  <2>1. \A i \in 1..n : \A r \in SUBSET Nat : Next1(i, r) \in SUBSET Nat
    BY <1>1
  <2> HIDE DEF Next1
  <2>2. QED
    BY <2>1
<1>4. \A i \in 1..n : \A r \in SUBSET Nat : step[i][r] = Next1(i, r)
  <2> HIDE DEF Next1
  <2> QED
    OBVIOUS
<1> HIDE DEF Next1, step
<1>5. PICK f \in [0..n -> SUBSET Nat] :
        f[0] = {0} /\ \A i \in 1..n : f[i] = step[i][f[i - 1]]
  <2>1. PICK S : S = SUBSET Nat
    OBVIOUS
  <2>2. {0} \in SUBSET Nat
    OBVIOUS
  <2>3. PICK start \in S : start = {0}
    BY <2>1, <2>2
  <2> HIDE DEF n, m
  <2>4. step \in [1..n -> [S -> S]]
    BY <1>3, <2>1
  <2>5. n \in Nat
    BY <1>1
  <2>6. \E f \in [0..n -> S] : f[0] = start /\ \A i \in 1..n : f[i] = step[i][f[i - 1]]
    BY <2>4, <2>5, Recursion
  <2>7. QED
    BY <2>1, <2>3, <2>6
<1>6. Ends(f)
  <2>1. \A i \in 1..n : i # 0 /\ i \in 0..n /\ i - 1 \in 0..n
    BY <1>1
  <2>2. \A i \in 1..n : step[i][f[i - 1]] = Next1(i, f[i - 1])
    BY <1>4, <2>1
  <2> HIDE DEF n
  <2>3. \A i \in 0..n : i # 0 => i \in 1..n
    BY <1>1
  <2>4. \A i \in 0..n : f[i] = IF i = 0 THEN {0} ELSE Next1(i, f[i - 1])
    BY <1>5, <2>2, <2>3
  <2>5. f = [i \in 0..n |-> f[i]]
    OBVIOUS
  <2>6. QED
    BY <2>4, <2>5
<1>7. Ends(ends)
  <2> HIDE DEF Ends
  <2> QED
    BY <1>6
<1> HIDE DEF ends
<1>8. ends[0] = {0} /\ \A i \in 1..n : ends[i] = Next1(i, ends[i - 1])
  <2>1. 0 \in 0..n /\ \A i \in 1..n : i # 0 /\ i \in 0..n
    BY <1>1
  <2>2. QED
    BY <1>7, <2>1
<1>9. ASSUME NEW i \in 1..n, NEW j \in ends[i]
      PROVE  \E k \in ends[i - 1] :
               /\ j \in k..m
               /\ glob[i] = "*" \/ (j = k + 1 /\ glob[i] = name[j])
  BY <1>8 DEF Next1
<1>10. \A i \in 0..n : ends[i] \subseteq Nat
  <2> DEFINE Good == {i \in Nat : ends[i] \subseteq Nat}
  <2>1. 0 \in Good
    BY <1>8
  <2>2. ASSUME NEW i \in 0..(n - 1), i \in Good PROVE i + 1 \in Good
    <3>1. i + 1 \in 1..n /\ (i + 1) - 1 = i /\ i + 1 \in Nat
      BY <1>1
    <3>2. \A j \in ends[i + 1] : \E k \in ends[i] : j \in k..m
      BY <1>9, <3>1
    <3>3. \A k \in ends[i] : k \in Nat
      BY <2>2
    <3>4. \A j \in ends[i + 1] : j \in Nat
      BY <1>1, <3>2, <3>3
    <3>5. QED
      BY <3>1, <3>4
  <2>3. 0 \in 0..n
    BY <1>1
  <2> HIDE DEF Good
  <2>4. \A i \in 0..n : i \in Good
    BY <1>1, <2>1, <2>2, <2>3, BoundedInduction
  <2>5. QED
    BY <2>4 DEF Good
<1>11. \A i \in 1..n : \A j \in ends[i] :
         /\ j \in Nat /\ j <= m
         /\ \E k \in ends[i - 1] :
              /\ k <= j
              /\ glob[i] = "*" \/ (j = k + 1 /\ glob[i] = name[j])
  <2>1. SUFFICES ASSUME NEW i \in 1..n, NEW j \in ends[i]
                 PROVE  /\ j \in Nat /\ j <= m
                        /\ \E k \in ends[i - 1] :
                             /\ k <= j
                             /\ glob[i] = "*" \/ (j = k + 1 /\ glob[i] = name[j])
    OBVIOUS
  <2>2. PICK k \in ends[i - 1] :
          /\ j \in k..m
          /\ glob[i] = "*" \/ (j = k + 1 /\ glob[i] = name[j])
    BY <1>9
  <2>3. i - 1 \in 0..n
    BY <1>1
  <2>4. k \in Nat
    BY <1>10, <2>3
  <2>5. j \in Nat /\ j <= m /\ k <= j
    BY <1>1, <2>2, <2>4
  <2>6. QED
    BY <2>2, <2>5
<1>12. m \in ends[n]
  BY <1>2
<1>13. QED
  BY <1>8, <1>11, <1>12

\* A name that matches a glob starts with the glob's text up to its first
\* metacharacter, and any literal token behind that is found behind that.
LEMMA MatchedHead ==
  ASSUME NEW glob \in Text, NEW name \in Text, MatchGlob(glob, name),
         NEW n \in 0..Len(glob), \A i \in 1..n : glob[i] # "*"
  PROVE  /\ n <= Len(name)
         /\ \A i \in 1..n : name[i] = glob[i]
         /\ n = Len(glob) => n = Len(name)
         /\ \A d \in (n + 1)..Len(glob) :
              glob[d] # "*" => \E k \in (n + 1)..Len(name) : name[k] = glob[d]
<1> DEFINE g == Len(glob)
           m == Len(name)
<1>1. g \in Nat /\ m \in Nat /\ n \in Nat /\ n <= g
  BY DEF Text
<1>2. PICK ends :
        /\ ends[0] = {0}
        /\ \A i \in 1..g : \A j \in ends[i] :
             /\ j \in Nat /\ j <= m
             /\ \E k \in ends[i - 1] :
                  /\ k <= j
                  /\ glob[i] = "*" \/ (j = k + 1 /\ glob[i] = name[j])
        /\ m \in ends[g]
  BY MatchEnds
<1>3. \A i \in 0..g : \A j \in ends[i] : j \in Nat /\ j <= m
  <2>1. \A i \in 0..g : i = 0 \/ i \in 1..g
    BY <1>1
  <2>2. \A j \in ends[0] : j \in Nat /\ j <= m
    BY <1>1, <1>2
  <2>3. QED
    BY <1>2, <2>1, <2>2
<1>4. ASSUME NEW a \in 0..g, NEW i \in a..g, NEW j \in ends[i]
      PROVE  \E k \in ends[a] : k <= j
  <2> DEFINE Back == {x \in Nat : \A y \in ends[x] : \E k \in ends[a] : k <= y}
  <2>1. a \in Back
    BY <1>3
  <2>2. ASSUME NEW x \in a..(g - 1), x \in Back PROVE x + 1 \in Back
    <3>1. x + 1 \in 1..g /\ (x + 1) - 1 = x /\ x \in 0..g /\ a \in 0..g /\ x + 1 \in Nat
          /\ x + 1 \in 0..g
      BY <1>1
    <3>2. ASSUME NEW y \in ends[x + 1] PROVE \E k \in ends[a] : k <= y
      <4>1. PICK z \in ends[x] : z <= y
        BY <1>2, <3>1
      <4>2. PICK k \in ends[a] : k <= z
        BY <2>2
      <4>3. k \in Nat /\ z \in Nat /\ y \in Nat
        BY <1>3, <3>1
      <4>4. k <= y
        BY <4>1, <4>2, <4>3
      <4>5. QED
        BY <4>4
    <3>3. QED
      BY <3>1, <3>2
  <2> HIDE DEF Back
  <2>3. \A x \in a..g : x \in Back
    BY <1>1, <2>1, <2>2, BoundedInduction
  <2>4. i \in Back
    BY <2>3
  <2>5. QED
    BY <2>4 DEF Back
<1>5. \A i \in 0..n : /\ ends[i] \subseteq {i}
                      /\ \A x \in 1..i : i \in ends[i] => name[x] = glob[x]
  <2> DEFINE Here == {i \in Nat : /\ ends[i] \subseteq {i}
                                  /\ \A x \in 1..i : i \in ends[i] => name[x] = glob[x]}
  <2>1. 0 \in Here
    BY <1>2
  <2>2. ASSUME NEW i \in 0..(n - 1), i \in Here PROVE i + 1 \in Here
    <3>1. i + 1 \in 1..g /\ i + 1 \in 1..n /\ (i + 1) - 1 = i /\ i + 1 \in Nat
      BY <1>1
    <3>2. glob[i + 1] # "*"
      BY <3>1
    <3>3. \A j \in ends[i + 1] : /\ \E k \in ends[i] : j = k + 1
                                 /\ name[j] = glob[i + 1]
      BY <1>2, <3>1, <3>2
    <3>4. \A j \in ends[i + 1] : j = i + 1 /\ i \in ends[i]
      BY <2>2, <3>3
    <3>5. ASSUME NEW x \in 1..(i + 1), i + 1 \in ends[i + 1] PROVE name[x] = glob[x]
      <4>1. CASE x = i + 1
        BY <3>3, <3>5, <4>1
      <4>2. CASE x # i + 1
        <5>1. x \in 1..i
          BY <4>2
        <5>2. QED
          BY <2>2, <3>4, <3>5, <5>1
      <4>3. QED
        BY <4>1, <4>2
    <3>6. QED
      BY <3>1, <3>4, <3>5
  <2>3. 0 \in 0..n
    BY <1>1
  <2> HIDE DEF Here
  <2>4. \A i \in 0..n : i \in Here
    BY <1>1, <2>1, <2>2, <2>3, BoundedInduction
  <2>5. QED
    BY <2>4 DEF Here
<1>6. n \in ends[n]
  <2>1. n \in 0..g /\ g \in n..g /\ n \in 0..n
    BY <1>1
  <2>2. \E k \in ends[n] : k <= m
    BY <1>2, <1>4, <2>1
  <2>3. QED
    BY <1>5, <2>1, <2>2
<1>7. n <= m /\ \A i \in 1..n : name[i] = glob[i]
  <2>1. n \in 0..n
    BY <1>1
  <2>2. QED
    BY <1>1, <1>3, <1>5, <1>6, <2>1
<1>8. n = g => n = m
  <2>1. n \in 0..n
    BY <1>1
  <2>2. QED
    BY <1>2, <1>5, <2>1
<1>9. ASSUME NEW d \in (n + 1)..g, glob[d] # "*"
      PROVE  \E k \in (n + 1)..m : name[k] = glob[d]
  <2>1. /\ d \in 0..g /\ d \in 1..g /\ d - 1 \in n..g /\ n \in 0..g /\ g \in d..g
        /\ d - 1 \in 0..g /\ n \in 0..n
    BY <1>1
  <2>2. PICK k \in ends[d] : k <= m
    BY <1>2, <1>4, <2>1
  <2>3. PICK l \in ends[d - 1] : k = l + 1 /\ glob[d] = name[k]
    BY <1>2, <1>9, <2>1
  <2>4. PICK e \in ends[n] : e <= l
    BY <1>4, <2>1
  <2>5. e = n
    BY <1>5, <2>1
  <2>6. l \in Nat /\ k \in Nat
    BY <1>3, <2>1
  <2>7. k \in (n + 1)..m
    BY <1>1, <2>2, <2>3, <2>4, <2>5, <2>6
  <2>8. QED
    BY <2>3, <2>7
<1>10. QED
  BY <1>7, <1>8, <1>9

LEMMA LiteralTokens ==
  ASSUME NEW s \in Text
  PROVE  Literal(s) <=> \A i \in 1..Len(s) : s[i] # "*"
<1>1. DOMAIN s = 1..Len(s)
  BY DEF Text
<1>2. QED
  BY <1>1 DEF Literal, ToSet

\* A glob without metacharacters matches one name.
LEMMA LiteralMatchesItself ==
  ASSUME NEW glob \in Text, NEW name \in Text, MatchGlob(glob, name), Literal(glob)
  PROVE  name = glob
<1>1. Len(glob) \in 0..Len(glob)
  BY DEF Text
<1>2. \A i \in 1..Len(glob) : glob[i] # "*"
  BY LiteralTokens
<1>3. Len(name) = Len(glob) /\ \A i \in 1..Len(glob) : name[i] = glob[i]
  BY <1>1, <1>2, MatchedHead
<1>4. QED
  BY <1>3, SameText

-----------------------------------------------------------------------------
(* Where a name is cut *)

LEMMA AtIsFirst ==
  ASSUME NEW s \in Text
  PROVE  /\ At(s) \in 0..Len(s)
         /\ At(s) = 0 => \A i \in 1..Len(s) : s[i] # "@"
         /\ At(s) # 0 => /\ s[At(s)] = "@"
                         /\ \A i \in 1..(At(s) - 1) : s[i] # "@"
<1> DEFINE I == {i \in 1..Len(s) : s[i] = "@"}
<1>1. At(s) = IF I # {} THEN Min(I) ELSE 0
  BY DEF At, SelectInSeq
<1>2. Len(s) \in Nat /\ I \subseteq Nat
  BY DEF Text
<1>3. CASE I = {}
  <2>1. At(s) = 0
    BY <1>1, <1>3
  <2>2. \A i \in 1..Len(s) : s[i] # "@"
    BY <1>3
  <2>3. QED
    BY <1>2, <2>1, <2>2
<1>4. CASE I # {}
  <2>1. Min(I) \in I /\ \A i \in I : Min(I) <= i
    <3> HIDE DEF I
    <3> QED
      BY <1>2, <1>4, MinIsLeast
  <2>2. At(s) \in I /\ \A i \in I : At(s) <= i
    BY <1>1, <1>4, <2>1
  <2>3. At(s) \in 1..Len(s) /\ s[At(s)] = "@"
    BY <2>2
  <2>4. \A i \in 1..(At(s) - 1) : i \in 1..Len(s) /\ ~(At(s) <= i)
    BY <1>2, <2>3
  <2>5. QED
    BY <1>2, <2>2, <2>3, <2>4
<1>5. QED
  BY <1>3, <1>4

\* The only place with an "@" and none before it.
LEMMA AtIsThere ==
  ASSUME NEW s \in Text, NEW a \in 1..Len(s), s[a] = "@",
         \A i \in 1..(a - 1) : s[i] # "@"
  PROVE  At(s) = a
<1>1. Len(s) \in Nat
  BY DEF Text
<1>2. At(s) # 0
  BY AtIsFirst
<1>3. At(s) \in 1..Len(s) /\ s[At(s)] = "@" /\ \A i \in 1..(At(s) - 1) : s[i] # "@"
  BY <1>1, <1>2, AtIsFirst
<1>4. ~(At(s) < a) /\ ~(a < At(s))
  <2>1. At(s) < a => At(s) \in 1..(a - 1)
    BY <1>1, <1>3
  <2>2. a < At(s) => a \in 1..(At(s) - 1)
    BY <1>1, <1>3
  <2>3. QED
    BY <1>3, <2>1, <2>2
<1>5. QED
  BY <1>1, <1>3, <1>4

LEMMA LastDotIsLast ==
  ASSUME NEW s \in Text
  PROVE  /\ LastDot(s) \in 0..Len(s)
         /\ LastDot(s) # 0 => s[LastDot(s)] = "."
         /\ \A i \in 1..Len(s) : s[i] = "." => i <= LastDot(s)
<1> DEFINE I == {i \in 1..Len(s) : s[i] = "."}
<1>1. LastDot(s) = IF I # {} THEN Max(I) ELSE 0
  BY DEF LastDot, SelectLastInSeq
<1>2. Len(s) \in Nat /\ I \subseteq 0..Len(s)
  BY DEF Text
<1>3. CASE I = {}
  <2>1. LastDot(s) = 0
    BY <1>1, <1>3
  <2>2. \A i \in 1..Len(s) : s[i] # "."
    BY <1>3
  <2>3. QED
    BY <1>2, <2>1, <2>2
<1>4. CASE I # {}
  <2>1. Max(I) \in I /\ \A i \in I : i <= Max(I)
    <3> HIDE DEF I
    <3> QED
      BY <1>2, <1>4, MaxIsGreatest
  <2>2. LastDot(s) \in I /\ \A i \in I : i <= LastDot(s)
    BY <1>1, <1>4, <2>1
  <2>3. LastDot(s) \in 1..Len(s) /\ s[LastDot(s)] = "."
    BY <2>2
  <2>4. QED
    BY <1>2, <2>2, <2>3
<1>5. QED
  BY <1>3, <1>4

LEMMA NameHasValues ==
  ASSUME NEW unit, NEW credential
  PROVE  LET values == PlaceholderValues(unit, credential)
             name == WithoutSuffix(unit)
             at == IF At(name) = 0 THEN Len(name) + 1 ELSE At(name)
         IN  /\ DOMAIN values = Placeholders
             /\ values["{unit}"] = unit
             /\ values["{unit_name}"] = name
             /\ values["{prefix}"] = SubSeq(name, 1, at - 1)
             /\ values["{instance}"] = SubSeq(name, at + 1, Len(name))
             /\ values["{credential}"] = credential
BY DEF PlaceholderValues, Placeholders

\* A value is a part of the unit, or the credential.
LEMMA ValuesAreParts ==
  ASSUME NEW unit \in Text, NEW credential \in Text, NEW p \in Placeholders
  PROVE  /\ PlaceholderValues(unit, credential)[p] \in Text
         /\ ToSet(PlaceholderValues(unit, credential)[p])
              \subseteq ToSet(unit) \cup ToSet(credential)
<1> DEFINE name == WithoutSuffix(unit)
           at == IF At(name) = 0 THEN Len(name) + 1 ELSE At(name)
           value == PlaceholderValues(unit, credential)[p]
<1>1. ASSUME NEW s \in Text, NEW a \in Nat, NEW b \in Nat, 1 <= a, a <= b + 1, b <= Len(s)
      PROVE  SubSeq(s, a, b) \in Text /\ ToSet(SubSeq(s, a, b)) \subseteq ToSet(s)
  <2> DEFINE part == SubSeq(s, a, b)
  <2>1. /\ part \in Text /\ Len(part) = b - a + 1
        /\ \A i \in 1..(b - a + 1) : part[i] = s[a + i - 1]
    BY <1>1, PartOfText
  <2> HIDE DEF part
  <2>2. DOMAIN part = 1..(b - a + 1) /\ DOMAIN s = 1..Len(s) /\ Len(s) \in Nat
    BY <2>1 DEF Text
  <2>3. \A i \in 1..(b - a + 1) : a + i - 1 \in 1..Len(s)
    BY <1>1, <2>2
  <2>4. ToSet(part) \subseteq ToSet(s)
    BY <2>1, <2>2, <2>3 DEF ToSet
  <2>5. QED
    BY <2>1, <2>4 DEF part
<1>2. name \in Text /\ ToSet(name) \subseteq ToSet(unit)
  <2>1. CASE LastDot(unit) > 1
    <3> DEFINE d == LastDot(unit) - 1
    <3>1. name = SubSeq(unit, 1, d)
      BY <2>1 DEF WithoutSuffix
    <3>2. 1 \in Nat /\ d \in Nat /\ 1 <= 1 /\ 1 <= d + 1 /\ d <= Len(unit)
      BY <2>1, LastDotIsLast DEF Text
    <3> HIDE DEF d, name
    <3>3. QED
      BY <1>1, <3>1, <3>2
  <2>2. CASE ~(LastDot(unit) > 1)
    BY <2>2 DEF WithoutSuffix
  <2>3. QED
    BY <2>1, <2>2
<1> HIDE DEF name
<1>3. at \in Nat /\ 1 <= at /\ at <= Len(name) + 1 /\ Len(name) \in Nat
  <2>1. At(name) \in 0..Len(name) /\ Len(name) \in Nat
    BY <1>2, AtIsFirst DEF Text
  <2>2. QED
    BY <2>1
<1> HIDE DEF at
<1>4. SubSeq(name, 1, at - 1) \in Text /\ ToSet(SubSeq(name, 1, at - 1)) \subseteq ToSet(name)
  <2> DEFINE b == at - 1
  <2>1. 1 \in Nat /\ b \in Nat /\ 1 <= 1 /\ 1 <= b + 1 /\ b <= Len(name)
    BY <1>3
  <2> HIDE DEF b
  <2>2. SubSeq(name, 1, b) \in Text /\ ToSet(SubSeq(name, 1, b)) \subseteq ToSet(name)
    BY <1>1, <1>2, <2>1
  <2>3. QED
    BY <2>2 DEF b
<1>5. /\ SubSeq(name, at + 1, Len(name)) \in Text
      /\ ToSet(SubSeq(name, at + 1, Len(name))) \subseteq ToSet(name)
  <2>1. CASE at <= Len(name)
    <3> DEFINE a == at + 1
               b == Len(name)
    <3>1. a \in Nat /\ b \in Nat /\ 1 <= a /\ a <= b + 1 /\ b <= Len(name)
      BY <1>3, <2>1
    <3> HIDE DEF a, b
    <3>2. SubSeq(name, a, b) \in Text /\ ToSet(SubSeq(name, a, b)) \subseteq ToSet(name)
      BY <1>1, <1>2, <3>1
    <3>3. QED
      BY <3>2 DEF a, b
  <2>2. CASE ~(at <= Len(name))
    <3>1. at + 1 \in Int /\ Len(name) \in Int /\ Len(name) < at + 1
      BY <1>3, <2>2
    <3>2. SubSeq(name, at + 1, Len(name)) = <<>>
      BY <3>1, SubSeqEmpty
    <3>3. <<>> \in Text /\ ToSet(<<>>) = {}
      BY DEF Text, ToSet
    <3>4. QED
      BY <3>2, <3>3
  <2>3. QED
    BY <2>1, <2>2
<1>6. value \in {unit, name, SubSeq(name, 1, at - 1), SubSeq(name, at + 1, Len(name)), credential}
  <2> DEFINE values == PlaceholderValues(unit, credential)
  <2>1. /\ values["{unit}"] = unit
        /\ values["{unit_name}"] = name
        /\ values["{prefix}"] = SubSeq(name, 1, at - 1)
        /\ values["{instance}"] = SubSeq(name, at + 1, Len(name))
        /\ values["{credential}"] = credential
    BY NameHasValues DEF name, at
  <2> HIDE DEF values
  <2>2. p \in {"{unit}", "{unit_name}", "{prefix}", "{instance}", "{credential}"}
    BY DEF Placeholders
  <2>3. values[p] \in {unit, name, SubSeq(name, 1, at - 1),
                       SubSeq(name, at + 1, Len(name)), credential}
    BY <2>1, <2>2
  <2>4. QED
    BY <2>3 DEF values
<1>7. QED
  BY <1>2, <1>4, <1>5, <1>6

PrefixOf(unit, credential) == PlaceholderValues(unit, credential)["{prefix}"]

\* The prefix of a name whose last dot is not inside it: what is in front of
\* its first "@".
LEMMA PrefixIsHead ==
  ASSUME NEW s \in Text, NEW credential, At(s) # 0, ~CutsItsPrefix(s)
  PROVE  PrefixOf(s, credential) = SubSeq(s, 1, At(s) - 1)
<1> DEFINE a == At(s)
           d == LastDot(s)
           name == WithoutSuffix(s)
<1>1. Len(s) \in Nat
  BY DEF Text
<1>2. /\ a \in 1..Len(s) /\ s[a] = "@" /\ \A i \in 1..(a - 1) : s[i] # "@"
      /\ d \in 0..Len(s)
      /\ d # 0 => s[d] = "."
  BY <1>1, AtIsFirst, LastDotIsLast
<1>3. ~(1 < d) \/ a < d
  BY <1>1, <1>2 DEF CutsItsPrefix
<1>4. name \in Text /\ At(name) = a /\ SubSeq(name, 1, a - 1) = SubSeq(s, 1, a - 1)
  <2>1. CASE ~(1 < d)
    <3>1. name = s
      BY <1>1, <1>2, <2>1 DEF WithoutSuffix
    <3>2. QED
      BY <3>1
  <2>2. CASE 1 < d /\ a < d
    <3> DEFINE b == d - 1
               e == a - 1
    <3>1. name = SubSeq(s, 1, b)
      BY <1>1, <1>2, <2>2 DEF WithoutSuffix
    <3>2. /\ b \in Nat /\ e \in Nat /\ 1 <= b + 1 /\ b <= Len(s) /\ b - 1 + 1 = b
          /\ a <= b /\ e <= b /\ e <= Len(s) /\ 1 <= e + 1 /\ e - 1 + 1 = e /\ 1 <= 1
      BY <1>1, <1>2, <2>2
    <3> HIDE DEF b, name, a, d
    <3>3. name \in Text /\ Len(name) = b /\ \A i \in 1..b : name[i] = s[1 + i - 1]
      BY <3>1, <3>2, PartOfText
    <3>4. \A i \in 1..b : 1 + i - 1 = i
      BY <3>2
    <3>5. \A i \in 1..b : name[i] = s[i]
      BY <3>3, <3>4
    <3>6. a \in 1..Len(name) /\ a \in 1..b /\ \A i \in 1..(a - 1) : i \in 1..b
      BY <1>1, <1>2, <3>2, <3>3
    <3>7. At(name) = a
      BY <1>2, <3>3, <3>5, <3>6, AtIsThere
    <3> HIDE DEF e
    <3>8. SubSeq(name, 1, e) = SubSeq(s, 1, e)
      <4> DEFINE x == SubSeq(name, 1, e)
                 y == SubSeq(s, 1, e)
      <4>1. x \in Text /\ Len(x) = e /\ \A i \in 1..e : x[i] = name[1 + i - 1]
        BY <3>2, <3>3, PartOfText
      <4>2. y \in Text /\ Len(y) = e /\ \A i \in 1..e : y[i] = s[1 + i - 1]
        BY <3>2, PartOfText
      <4>3. \A i \in 1..e : 1 + i - 1 = i /\ i \in 1..b
        BY <3>2
      <4>4. \A i \in 1..e : x[i] = y[i]
        BY <3>5, <4>1, <4>2, <4>3
      <4> HIDE DEF x, y
      <4>5. x = y
        BY <4>1, <4>2, <4>4, SameText
      <4>6. QED
        BY <4>5 DEF x, y
    <3>9. QED
      BY <3>3, <3>7, <3>8 DEF e
  <2>3. QED
    BY <1>3, <2>1, <2>2
<1> HIDE DEF name
<1>5. PrefixOf(s, credential)
        = SubSeq(name, 1, (IF At(name) = 0 THEN Len(name) + 1 ELSE At(name)) - 1)
  BY NameHasValues DEF name, PrefixOf
<1>6. QED
  BY <1>4, <1>5

\* A glob with no metacharacter in front of its first "@".
FixesPrefix(glob) == At(glob) # 0 /\ Literal(SubSeq(glob, 1, At(glob) - 1))

\* The text a glob fixes in front of its "@" is the prefix of every name it
\* matches, unless the glob's last dot is inside that text.
LEMMA PinnedPrefixIsReal ==
  ASSUME NEW glob \in Text, NEW name \in Text, MatchGlob(glob, name),
         FixesPrefix(glob), ~CutsItsPrefix(glob),
         NEW c \in Text, NEW d \in Text
  PROVE  PrefixOf(glob, c) = PrefixOf(name, d)
<1> DEFINE a == At(glob)
           e == a - 1
           head == SubSeq(glob, 1, e)
<1>1. Len(glob) \in Nat /\ Len(name) \in Nat
  BY DEF Text
<1>2. a \in 1..Len(glob) /\ glob[a] = "@" /\ \A i \in 1..e : glob[i] # "@"
  BY <1>1, AtIsFirst DEF FixesPrefix
<1>3. /\ 1 \in Nat /\ e \in Nat /\ 1 <= 1 /\ 1 <= e + 1 /\ e <= Len(glob) /\ e - 1 + 1 = e
      /\ a = e + 1
  BY <1>1, <1>2
<1> HIDE DEF a, e
<1>4. head \in Text /\ Len(head) = e /\ \A i \in 1..e : head[i] = glob[1 + i - 1]
  BY <1>3, PartOfText
<1>5. \A i \in 1..e : 1 + i - 1 = i
  BY <1>3
<1>6. \A i \in 1..e : head[i] = glob[i]
  BY <1>4, <1>5
<1>7. \A i \in 1..e : head[i] # "*"
  <2>1. Literal(head)
    BY DEF a, e, FixesPrefix
  <2> HIDE DEF head
  <2>2. QED
    BY <1>4, <2>1, LiteralTokens
<1>8. a \in 0..Len(glob) /\ \A i \in 1..a : glob[i] # "*"
  <2>1. \A i \in 1..a : i = a \/ i \in 1..e
    BY <1>3
  <2>2. glob[a] # "*" /\ \A i \in 1..e : glob[i] # "*"
    <3> HIDE DEF head
    <3> QED
      BY <1>2, <1>6, <1>7
  <2>3. a \in 0..Len(glob)
    BY <1>1, <1>2
  <2>4. QED
    BY <2>1, <2>2, <2>3
<1>9. /\ a <= Len(name)
      /\ \A i \in 1..a : name[i] = glob[i]
      /\ \A x \in (a + 1)..Len(glob) :
           glob[x] # "*" => \E k \in (a + 1)..Len(name) : name[k] = glob[x]
  BY <1>8, MatchedHead
<1>10. At(name) = a
  <2>1. a \in 1..Len(name) /\ a \in 1..a /\ \A i \in 1..(a - 1) : i \in 1..e /\ i \in 1..a
    BY <1>1, <1>2, <1>3, <1>9
  <2>2. name[a] = "@" /\ \A i \in 1..(a - 1) : name[i] # "@"
    BY <1>2, <1>9, <2>1
  <2>3. QED
    BY <2>1, <2>2, AtIsThere
<1>11. ~CutsItsPrefix(name)
  <2>1. SUFFICES ASSUME 1 < LastDot(name), LastDot(name) < a PROVE FALSE
    BY <1>10 DEF CutsItsPrefix
  <2>2. PICK x \in Nat : x = LastDot(name)
    BY <1>1, LastDotIsLast
  <2>3. x \in 1..a /\ x \in 1..Len(glob) /\ 1 < x /\ x < a /\ x \in 1..Len(name)
    BY <1>1, <1>2, <1>9, <2>1, <2>2
  <2>4. name[x] = "."
    BY <2>2, <2>3, LastDotIsLast
  <2>5. glob[x] = "."
    BY <1>9, <2>3, <2>4
  <2>6. PICK y \in 0..Len(glob) : y = LastDot(glob)
    BY LastDotIsLast
  <2>7. x <= y
    BY <2>3, <2>5, <2>6, LastDotIsLast
  <2>8. y # 0 /\ glob[y] = "."
    BY <2>3, <2>6, <2>7, LastDotIsLast
  <2>9. ~(y < a)
    <3>1. ~(1 < y /\ y < a)
      BY <2>6 DEF CutsItsPrefix, a
    <3>2. QED
      BY <1>1, <2>3, <2>7, <3>1
  <2>10. y \in (a + 1)..Len(glob)
    BY <1>1, <1>2, <2>6, <2>8, <2>9
  <2>11. PICK k \in (a + 1)..Len(name) : name[k] = "."
    BY <1>9, <2>8, <2>10
  <2>12. k \in 1..Len(name)
    BY <1>1, <1>2, <2>11
  <2>13. k <= x
    BY <2>2, <2>11, <2>12, LastDotIsLast
  <2>14. QED
    BY <1>1, <1>2, <2>3, <2>11, <2>13
<1>12. head = SubSeq(name, 1, e)
  <2>1. e <= Len(name) /\ \A i \in 1..e : i \in 1..a
    BY <1>1, <1>3, <1>9
  <2> DEFINE x == SubSeq(name, 1, e)
  <2>2. x \in Text /\ Len(x) = e /\ \A i \in 1..e : x[i] = name[1 + i - 1]
    BY <1>3, <2>1, PartOfText
  <2>3. \A i \in 1..e : x[i] = head[i]
    BY <1>5, <1>6, <1>9, <2>1, <2>2
  <2> HIDE DEF x, head
  <2>4. x = head
    BY <1>4, <2>2, <2>3, SameText
  <2>5. QED
    BY <2>4 DEF x
<1>13. At(glob) # 0 /\ At(name) # 0
  BY <1>1, <1>2, <1>10 DEF a
<1>14. PrefixOf(glob, c) = SubSeq(glob, 1, At(glob) - 1)
  BY <1>13, PrefixIsHead
<1>15. PrefixOf(name, d) = SubSeq(name, 1, At(name) - 1)
  BY <1>11, <1>13, PrefixIsHead
<1>16. QED
  BY <1>10, <1>12, <1>14, <1>15 DEF a, e

\* What the globs pin is what the names they match have, but for a prefix the
\* glob's own last dot cuts.
LEMMA PinnedIsReal ==
  ASSUME NEW unitGlob \in Text, NEW credentialGlob \in Text,
         NEW unit \in Text, NEW credential \in Text,
         MatchGlob(unitGlob, unit), MatchGlob(credentialGlob, credential),
         ~CutsItsPrefix(unitGlob),
         NEW p \in DOMAIN PinnedValues(unitGlob, credentialGlob)
  PROVE  /\ p \in Placeholders
         /\ PinnedValues(unitGlob, credentialGlob)[p] = PlaceholderValues(unit, credential)[p]
<1>1. /\ p \in Placeholders
      /\ PinnedValues(unitGlob, credentialGlob)[p] = PlaceholderValues(unitGlob, credentialGlob)[p]
      /\ \/ p = "{credential}" /\ Literal(credentialGlob)
         \/ p # "{credential}" /\ Literal(unitGlob)
         \/ p = "{prefix}" /\ FixesPrefix(unitGlob)
  BY DEF PinnedValues, Restrict, FixesPrefix
<1>2. CASE p = "{credential}" /\ Literal(credentialGlob)
  <2>1. credential = credentialGlob
    BY <1>2, LiteralMatchesItself
  <2>2. \A u, c : PlaceholderValues(u, c)["{credential}"] = c
    BY NameHasValues
  <2>3. QED
    BY <1>1, <1>2, <2>1, <2>2
<1>3. CASE p # "{credential}" /\ Literal(unitGlob)
  <2>1. unit = unitGlob
    BY <1>3, LiteralMatchesItself
  <2>2. p \in {"{unit}", "{unit_name}", "{prefix}", "{instance}"}
    BY <1>1, <1>3 DEF Placeholders
  <2>3. PlaceholderValues(unit, credentialGlob)[p] = PlaceholderValues(unit, credential)[p]
    BY <2>2 DEF PlaceholderValues, Placeholders
  <2>4. QED
    BY <1>1, <2>1, <2>3
<1>4. CASE p = "{prefix}" /\ FixesPrefix(unitGlob)
  <2>1. FixesPrefix(unitGlob)
    BY <1>4
  <2>2. PrefixOf(unitGlob, credentialGlob) = PrefixOf(unit, credential)
    BY <2>1, PinnedPrefixIsReal
  <2>3. QED
    BY <1>1, <1>4, <2>2 DEF PrefixOf
<1>5. QED
  BY <1>1, <1>2, <1>3, <1>4

-----------------------------------------------------------------------------
(* What a segment expands to *)

\* Values are texts.
AreValues(values) == \A p \in DOMAIN values : values[p] \in Text

\* What one token of a segment becomes.
Piece(values, token) == IF token \in DOMAIN values THEN values[token] ELSE <<token>>

LEMMA ExpandJoins ==
  ASSUME NEW values, AreValues(values), NEW segment \in Text
  PROVE  /\ \A i \in 1..Len(segment) : Piece(values, segment[i]) \in Text
         /\ \E f \in [0..Len(segment) -> Text] :
              /\ f[0] = <<>>
              /\ \A i \in 1..Len(segment) : f[i] = f[i - 1] \o Piece(values, segment[i])
              /\ ExpandSegment(values, segment) = f[Len(segment)]
<1> DEFINE n == Len(segment)
           pieces == [j \in DOMAIN segment |->
                        IF segment[j] \in DOMAIN values THEN values[segment[j]]
                        ELSE <<segment[j]>>]
<1>1. n \in Nat /\ DOMAIN segment = 1..n /\ \A i \in 1..n : segment[i] \in Tokens
  BY DEF Text
<1>2. \A t \in Tokens : <<t>> \in Text
  BY DEF Text
<1>3. \A i \in 1..n : Piece(values, segment[i]) \in Text
  <2>1. \A t \in Tokens : Piece(values, t) \in Text
    BY <1>2 DEF AreValues, Piece
  <2>2. QED
    BY <1>1, <2>1
<1>4. pieces = [j \in 1..n |-> Piece(values, segment[j])]
  BY <1>1 DEF Piece
<1>5. ExpandSegment(values, segment) = FlattenSeq(pieces)
  BY DEF ExpandSegment
<1> HIDE DEF pieces
<1>6. /\ pieces \in Seq(Text) /\ Len(pieces) = n
      /\ \A i \in 1..n : pieces[i] = Piece(values, segment[i])
  <2> HIDE DEF n
  <2>1. pieces \in [1..n -> Text]
    BY <1>3, <1>4
  <2>2. pieces \in Seq(Text) /\ Len(pieces) = n
    BY <1>1, <2>1
  <2>3. QED
    BY <1>4, <2>2
<1>7. PICK f \in [0..Len(pieces) -> Text] :
        /\ f[0] = <<>>
        /\ \A i \in 1..Len(pieces) : f[i] = f[i - 1] \o pieces[i]
        /\ FlattenSeq(pieces) = f[Len(pieces)]
  BY <1>6, FlattenJoins
<1>8. /\ f \in [0..n -> Text] /\ f[0] = <<>>
      /\ \A i \in 1..n : f[i] = f[i - 1] \o Piece(values, segment[i])
      /\ ExpandSegment(values, segment) = f[n]
  <2> HIDE DEF n
  <2> QED
    BY <1>5, <1>6, <1>7
<1>9. QED
  BY <1>3, <1>8

\* The tokens of an expanded segment are those of its pieces.
LEMMA ExpandTokens ==
  ASSUME NEW values, AreValues(values), NEW segment \in Text
  PROVE  /\ ExpandSegment(values, segment) \in Text
         /\ \A t : t \in ToSet(ExpandSegment(values, segment))
                     <=> \E i \in 1..Len(segment) : t \in ToSet(Piece(values, segment[i]))
<1> DEFINE n == Len(segment)
           P(i) == Piece(values, segment[i])
<1>1. n \in Nat /\ \A i \in 1..n : P(i) \in Text
  <2>1. n \in Nat
    BY DEF Text
  <2>2. QED
    BY <2>1, ExpandJoins
<1>2. PICK f \in [0..n -> Text] :
        /\ f[0] = <<>>
        /\ \A i \in 1..n : f[i] = f[i - 1] \o P(i)
        /\ ExpandSegment(values, segment) = f[n]
  BY ExpandJoins
<1>3. \A s, u \in Text : ToSet(s \o u) = ToSet(s) \cup ToSet(u)
  BY JoinedTokens
<1>4. ToSet(<<>>) = {}
  BY DEF ToSet
<1> HIDE DEF P
<1>5. \A i \in 1..n : ToSet(f[i]) = ToSet(f[i - 1]) \cup ToSet(P(i))
  <2>1. \A i \in 1..n : f[i - 1] \in Text
    BY <1>1
  <2> HIDE DEF n
  <2>2. QED
    BY <1>1, <1>2, <1>3, <2>1
<1> DEFINE Good == {k \in Nat : ToSet(f[k]) = UNION {ToSet(P(i)) : i \in 1..k}}
<1>6. 0 \in Good
  <2>1. UNION {ToSet(P(i)) : i \in 1..0} = {}
    OBVIOUS
  <2>2. QED
    BY <1>2, <1>4, <2>1
<1>7. ASSUME NEW k \in 0..(n - 1), k \in Good PROVE k + 1 \in Good
  <2>1. k + 1 \in 1..n /\ (k + 1) - 1 = k /\ k + 1 \in Nat
    BY <1>1
  <2>2. ToSet(f[k + 1]) = ToSet(f[k]) \cup ToSet(P(k + 1))
    BY <1>5, <2>1
  <2>3. \A i : i \in 1..(k + 1) <=> i \in 1..k \/ i = k + 1
    BY <2>1
  <2>4. UNION {ToSet(P(i)) : i \in 1..(k + 1)} = UNION {ToSet(P(i)) : i \in 1..k} \cup ToSet(P(k + 1))
    BY <2>3
  <2>5. QED
    BY <1>7, <2>1, <2>2, <2>4
<1>8. n \in Good
  <2>1. 0 \in 0..n /\ n \in 0..n
    BY <1>1
  <2> HIDE DEF Good, n
  <2>2. QED
    BY <1>1, <1>6, <1>7, <2>1, BoundedInduction
<1>9. \A t : t \in ToSet(f[n]) <=> \E i \in 1..n : t \in ToSet(P(i))
  BY <1>8
<1>10. f[n] \in Text
  BY <1>1
<1>11. QED
  BY <1>2, <1>9, <1>10 DEF P

\* Equal pieces make equal segments.
LEMMA ExpandSame ==
  ASSUME NEW v, NEW w, NEW segment \in Text,
         \A i \in 1..Len(segment) : Piece(v, segment[i]) = Piece(w, segment[i])
  PROVE  ExpandSegment(v, segment) = ExpandSegment(w, segment)
<1>1. DOMAIN segment = 1..Len(segment)
  BY DEF Text
<1>2. [j \in DOMAIN segment |->
         IF segment[j] \in DOMAIN v THEN v[segment[j]] ELSE <<segment[j]>>]
      = [j \in DOMAIN segment |->
           IF segment[j] \in DOMAIN w THEN w[segment[j]] ELSE <<segment[j]>>]
  BY <1>1 DEF Piece
<1>3. QED
  BY <1>2 DEF ExpandSegment

\* Sums of naturals grow.
LEMMA SumsGrow ==
  ASSUME NEW n \in Nat, NEW a \in [0..n -> Nat], NEW b \in [1..n -> Nat],
         \A i \in 1..n : a[i] = a[i - 1] + b[i],
         NEW k \in 0..n, NEW l \in k..n
  PROVE  a[k] <= a[l]
<1> DEFINE Above == {i \in 0..n : a[k] <= a[i]}
<1>1. k \in Above
  OBVIOUS
<1>2. ASSUME NEW i \in k..(n - 1), i \in Above PROVE i + 1 \in Above
  <2>1. i + 1 \in 1..n /\ (i + 1) - 1 = i /\ i + 1 \in 0..n /\ i \in 0..n
    OBVIOUS
  <2>2. a[i + 1] = a[i] + b[i + 1]
    BY <2>1
  <2>3. a[i] \in Nat /\ b[i + 1] \in Nat /\ a[k] \in Nat /\ a[k] <= a[i] /\ a[i + 1] \in Nat
    BY <1>2, <2>1
  <2>4. QED
    BY <2>1, <2>2, <2>3
<1> HIDE DEF Above
<1>3. l \in Above
  BY <1>1, <1>2, BoundedInduction
<1>4. QED
  BY <1>3 DEF Above

\* A sum of naturals that is one has one term.
LEMMA LoneTerm ==
  ASSUME NEW n \in Nat, NEW a \in [0..n -> Nat], NEW b \in [1..n -> Nat],
         \A i \in 1..n : a[i] = a[i - 1] + b[i], a[n] = 1,
         NEW x \in 1..n, b[x] # 0, NEW i \in 1..n, i # x
  PROVE  b[i] = 0
<1>1. \A k \in 1..n : \A l \in 1..n : k < l => b[k] = 0 \/ b[l] = 0
  <2>1. SUFFICES ASSUME NEW k \in 1..n, NEW l \in 1..n, k < l, b[k] # 0, b[l] # 0
                 PROVE  FALSE
    OBVIOUS
  <2>2. k \in 0..n /\ l \in 0..n /\ k - 1 \in 0..n /\ l - 1 \in k..n /\ l - 1 \in 0..n /\ n \in l..n
    BY <2>1
  <2>3. a[k] <= a[l - 1] /\ a[l] <= a[n]
    BY <2>2, SumsGrow
  <2>4. a[k] = a[k - 1] + b[k] /\ a[l] = a[l - 1] + b[l]
    OBVIOUS
  <2>5. /\ a[k] \in Nat /\ a[l] \in Nat /\ a[k - 1] \in Nat /\ a[l - 1] \in Nat
        /\ b[k] \in Nat /\ b[l] \in Nat
    <3>1. a[k] \in Nat /\ a[l] \in Nat
      BY <2>2
    <3>2. a[k - 1] \in Nat /\ a[l - 1] \in Nat
      BY <2>2
    <3>3. QED
      BY <3>1, <3>2
  <2>6. PICK c, d, e, f, h, m \in Nat :
          /\ c = a[k] /\ d = a[k - 1] /\ e = b[k]
          /\ f = a[l] /\ h = a[l - 1] /\ m = b[l]
    BY <2>5
  <2>7. c = d + e /\ f = h + m /\ c <= h /\ f <= 1 /\ e # 0 /\ m # 0
    <3>1. c = d + e /\ f = h + m
      BY <2>4, <2>6
    <3>2. c <= h /\ f <= 1
      BY <2>3, <2>6
    <3>3. QED
      BY <2>1, <2>6, <3>1, <3>2
  <2>8. QED
    BY <2>7
<1>2. QED
  BY <1>1

\* A segment that expands to one token has one piece that is not empty, and
\* values that leave the others empty too expand it to their piece.
LEMMA ExpandLone ==
  ASSUME NEW v, AreValues(v), NEW w, AreValues(w), NEW segment \in Text,
         Len(ExpandSegment(v, segment)) = 1,
         NEW x \in 1..Len(segment), Piece(v, segment[x]) # <<>>,
         \A i \in 1..Len(segment) :
           Piece(v, segment[i]) = <<>> => Piece(w, segment[i]) = <<>>
  PROVE  ExpandSegment(w, segment) = Piece(w, segment[x])
<1> DEFINE n == Len(segment)
           P(i) == Piece(v, segment[i])
           Q(i) == Piece(w, segment[i])
<1>1. n \in Nat /\ x \in 1..n
  BY DEF Text
<1>2. (\A i \in 1..n : P(i) \in Text) /\ (\A i \in 1..n : Q(i) \in Text)
  BY ExpandJoins
<1>3. PICK f \in [0..n -> Text] :
        /\ f[0] = <<>>
        /\ \A i \in 1..n : f[i] = f[i - 1] \o P(i)
        /\ ExpandSegment(v, segment) = f[n]
  BY ExpandJoins
<1>4. PICK g \in [0..n -> Text] :
        /\ g[0] = <<>>
        /\ \A i \in 1..n : g[i] = g[i - 1] \o Q(i)
        /\ ExpandSegment(w, segment) = g[n]
  BY ExpandJoins
<1>5. Len(f[n]) = 1 /\ P(x) # <<>> /\ \A i \in 1..n : P(i) = <<>> => Q(i) = <<>>
  BY <1>3
<1> HIDE DEF P, Q, n
<1>6. \A s \in Text : Len(s) \in Nat /\ (Len(s) = 0 <=> s = <<>>)
  BY EmptySeq DEF Text
<1>7. \A i \in 1..n : /\ f[i - 1] \in Text /\ f[i] \in Text /\ g[i - 1] \in Text
                      /\ Len(f[i]) = Len(f[i - 1]) + Len(P(i))
  <2>1. \A i \in 1..n : i - 1 \in 0..n /\ i \in 0..n
    BY <1>1
  <2>2. \A i \in 1..n : f[i - 1] \in Text /\ f[i] \in Text /\ g[i - 1] \in Text
    BY <2>1
  <2>3. \A i \in 1..n : Len(f[i - 1] \o P(i)) = Len(f[i - 1]) + Len(P(i))
    BY <1>2, <2>2, JoinedText
  <2>4. QED
    BY <1>3, <2>2, <2>3
<1>8. ASSUME NEW i \in 1..n, i # x PROVE P(i) = <<>>
  <2> DEFINE a == [j \in 0..n |-> Len(f[j])]
             b == [j \in 1..n |-> Len(P(j))]
  <2>1. a \in [0..n -> Nat] /\ b \in [1..n -> Nat]
    <3>1. \A j \in 0..n : Len(f[j]) \in Nat
      BY <1>6
    <3>2. \A j \in 1..n : Len(P(j)) \in Nat
      BY <1>2, <1>6
    <3>3. QED
      BY <3>1, <3>2
  <2>2. \A j \in 1..n : a[j] = a[j - 1] + b[j]
    <3>1. \A j \in 1..n : j - 1 \in 0..n /\ j \in 0..n
      BY <1>1
    <3>2. \A j \in 1..n : a[j] = Len(f[j]) /\ a[j - 1] = Len(f[j - 1]) /\ b[j] = Len(P(j))
      BY <3>1
    <3>3. QED
      BY <1>7, <3>2
  <2>3. a[n] = 1 /\ b[x] # 0
    BY <1>1, <1>2, <1>5, <1>6
  <2>4. b[i] = Len(P(i))
    OBVIOUS
  <2> HIDE DEF a, b
  <2>5. b[i] = 0
    BY <1>1, <1>8, <2>1, <2>2, <2>3, LoneTerm
  <2>6. QED
    BY <1>2, <1>6, <2>4, <2>5
<1>9. \A i \in 1..n : i # x => Q(i) = <<>>
  BY <1>5, <1>8
<1>10. \A s \in Text : s \o <<>> = s /\ <<>> \o s = s
  BY ConcatEmptySeq DEF Text
<1>11. g[n] = Q(x)
  <2> DEFINE Only == {k \in Nat : g[k] = IF k < x THEN <<>> ELSE Q(x)}
  <2>1. 0 \in Only
    BY <1>1, <1>4
  <2>2. ASSUME NEW k \in 0..(n - 1), k \in Only PROVE k + 1 \in Only
    <3>1. k + 1 \in 1..n /\ (k + 1) - 1 = k /\ k + 1 \in Nat /\ k \in 0..n
      BY <1>1
    <3>2. g[k + 1] = g[k] \o Q(k + 1) /\ g[k] \in Text
      BY <1>4, <3>1
    <3>3. CASE k + 1 = x
      <4>1. g[k] = <<>> /\ Q(k + 1) = Q(x) /\ Q(x) \in Text
        BY <1>1, <1>2, <2>2, <3>3
      <4>2. g[k + 1] = Q(x)
        BY <1>10, <3>2, <4>1
      <4>3. QED
        BY <3>1, <3>3, <4>2
    <3>4. CASE k + 1 # x
      <4>1. Q(k + 1) = <<>>
        BY <1>9, <3>1, <3>4
      <4>2. g[k + 1] = g[k]
        BY <1>10, <3>2, <4>1
      <4>3. k < x <=> k + 1 < x
        BY <1>1, <3>1, <3>4
      <4>4. QED
        BY <2>2, <3>1, <4>2, <4>3
    <3>5. QED
      BY <3>3, <3>4
  <2>3. 0 \in 0..n /\ n \in 0..n
    BY <1>1
  <2> HIDE DEF Only
  <2>4. n \in Only
    BY <1>1, <2>1, <2>2, <2>3, BoundedInduction
  <2>5. ~(n < x)
    BY <1>1
  <2>6. QED
    BY <2>4, <2>5 DEF Only
<1>12. QED
  BY <1>4, <1>11 DEF Q

-----------------------------------------------------------------------------
(* The grants of a file *)

GrantSet == [path : Seq(Text), widened : BOOLEAN]

\* A grant that is added is there, with its mark; the others keep theirs; and
\* no path is made up.
LEMMA AddKeeps ==
  ASSUME NEW grants \in Seq(GrantSet), NEW g \in GrantSet
  PROVE  /\ Add(grants, g) \in Seq(GrantSet)
         /\ \A h \in ToSet(grants) \cup {g} : \E a \in ToSet(Add(grants, g)) :
              a.path = h.path /\ (h.widened => a.widened)
         /\ \A a \in ToSet(Add(grants, g)) : \E h \in ToSet(grants) \cup {g} :
              a.path = h.path
<1> DEFINE n == Len(grants)
           I == {i \in 1..n : grants[i].path = g.path}
           same == SelectInSeq(grants, LAMBDA h : h.path = g.path)
           marked == [grants EXCEPT ![same].widened = @ \/ g.widened]
<1>1. /\ n \in Nat /\ DOMAIN grants = 1..n /\ I \subseteq Nat
      /\ grants \in [1..n -> GrantSet]
  OBVIOUS
<1>2. same = IF I # {} THEN Min(I) ELSE 0
  BY DEF SelectInSeq
<1>3. Add(grants, g) = IF same = 0 THEN Append(grants, g) ELSE marked
  BY DEF Add
<1> HIDE DEF same
<1>4. CASE I = {}
  <2> DEFINE both == Append(grants, g)
  <2>1. Add(grants, g) = both
    BY <1>2, <1>3, <1>4
  <2>2. /\ both \in Seq(GrantSet) /\ Len(both) = n + 1
        /\ both[n + 1] = g
        /\ \A i \in 1..n : both[i] = grants[i]
    BY AppendProperties
  <2> HIDE DEF both, n
  <2>3. DOMAIN both = 1..(n + 1)
    BY <2>2
  <2>4. \A i \in 1..(n + 1) : i \in 1..n \/ i = n + 1
    BY <1>1
  <2>5. (\A i \in 1..n : i \in 1..(n + 1)) /\ n + 1 \in 1..(n + 1)
    BY <1>1
  <2>6. ToSet(both) = ToSet(grants) \cup {g}
    BY <1>1, <2>2, <2>3, <2>4, <2>5 DEF ToSet
  <2>7. QED
    BY <2>1, <2>2, <2>6
<1>5. CASE I # {}
  <2>1. Min(I) \in I
    <3> HIDE DEF I
    <3> QED
      BY <1>1, <1>5, MinIsLeast
  <2>2. same \in 1..n /\ grants[same].path = g.path /\ same # 0
    BY <1>1, <1>2, <1>5, <2>1
  <2> DEFINE new == [grants[same] EXCEPT !.widened = @ \/ g.widened]
  <2>3. Add(grants, g) = marked /\ marked = [grants EXCEPT ![same] = new]
    BY <1>3, <2>2
  <2>4. /\ new \in GrantSet /\ new.path = g.path /\ new.path = grants[same].path
        /\ new.widened = (grants[same].widened \/ g.widened)
    <3>1. grants[same] \in GrantSet
      BY <1>1, <2>2
    <3>2. QED
      BY <2>2, <3>1, Zenon DEF GrantSet
  <2> HIDE DEF new, marked
  <2>5. /\ marked \in [1..n -> GrantSet] /\ marked[same] = new
        /\ \A i \in 1..n : i # same => marked[i] = grants[i]
    BY <1>1, <2>2, <2>3, <2>4
  <2>6. DOMAIN marked = 1..n /\ marked \in Seq(GrantSet)
    BY <1>1, <2>5
  <2>7. ASSUME NEW h \in ToSet(grants) \cup {g}
        PROVE  \E a \in ToSet(marked) : a.path = h.path /\ (h.widened => a.widened)
    <3>1. CASE h = g \/ h = grants[same]
      BY <2>2, <2>4, <2>5, <2>6, <3>1, Zenon DEF ToSet
    <3>2. CASE h # g /\ h # grants[same]
      <4>1. PICK i \in 1..n : h = grants[i]
        BY <1>1, <2>7, <3>2 DEF ToSet
      <4>2. marked[i] = h
        BY <2>5, <3>2, <4>1
      <4>3. QED
        BY <2>6, <4>2 DEF ToSet
    <3>3. QED
      BY <3>1, <3>2
  <2>8. ASSUME NEW a \in ToSet(marked)
        PROVE  \E h \in ToSet(grants) \cup {g} : a.path = h.path
    <3>1. PICK i \in 1..n : a = marked[i]
      BY <2>6 DEF ToSet
    <3>2. CASE i = same
      BY <2>4, <2>5, <3>1, <3>2
    <3>3. CASE i # same
      BY <1>1, <2>5, <3>1, <3>3 DEF ToSet
    <3>4. QED
      BY <3>2, <3>3
  <2>9. QED
    BY <2>3, <2>6, <2>7, <2>8
<1>6. QED
  BY <1>4, <1>5

\* What globs pin are texts.
LEMMA PinnedAreValues ==
  ASSUME NEW unitGlob \in Text, NEW credentialGlob \in Text
  PROVE  /\ AreValues(PinnedValues(unitGlob, credentialGlob))
         /\ DOMAIN PinnedValues(unitGlob, credentialGlob) \subseteq Placeholders
         /\ \A p \in DOMAIN PinnedValues(unitGlob, credentialGlob) :
              PinnedValues(unitGlob, credentialGlob)[p]
                = PlaceholderValues(unitGlob, credentialGlob)[p]
<1>1. \A p \in DOMAIN PinnedValues(unitGlob, credentialGlob) :
        /\ p \in Placeholders
        /\ PinnedValues(unitGlob, credentialGlob)[p]
             = PlaceholderValues(unitGlob, credentialGlob)[p]
  BY DEF PinnedValues, Restrict
<1>2. QED
  BY <1>1, ValuesAreParts DEF AreValues

\* So are the values of a request, one for every placeholder.
LEMMA RequestHasValues ==
  ASSUME NEW unit \in Text, NEW credential \in Text
  PROVE  /\ AreValues(PlaceholderValues(unit, credential))
         /\ DOMAIN PlaceholderValues(unit, credential) = Placeholders
<1>1. DOMAIN PlaceholderValues(unit, credential) = Placeholders
  BY NameHasValues
<1>2. QED
  BY <1>1, ValuesAreParts DEF AreValues

\* What a rule reads is a path of its own segments, and of "data" for KV.
LEMMA LocationIsPath ==
  ASSUME NEW r \in Rule
  PROVE  /\ Location(r) \in Path
         /\ Last(Location(r)) = Last(r.path)
         /\ \A s \in ToSet(Location(r)) :
              s = <<"data">> \/ \E p \in Texts(r) : s \in ToSet(p)
<1>1. /\ r.path \in Path /\ r.mount \in Path \cup {<<>>}
      /\ r.backend = "kv" => r.mount # <<>>
  BY DEF Rule
<1>2. ASSUME NEW a \in Seq(Segment), NEW b \in Seq(Segment)
      PROVE  /\ a \o b \in Seq(Segment) /\ Len(a \o b) = Len(a) + Len(b)
             /\ \A i \in 1..(Len(a) + Len(b)) :
                  (a \o b)[i] = IF i <= Len(a) THEN a[i] ELSE b[i - Len(a)]
  BY ConcatProperties
<1>3. CASE r.backend # "kv"
  BY <1>1, <1>3 DEF Location, Texts
<1>4. CASE r.backend = "kv"
  <2> DEFINE mount == r.mount
             path == r.path
             data == <<<<"data">>>>
             front == mount \o data
             all == front \o path
  <2>1. /\ mount \in Seq(Segment) /\ Len(mount) >= 1 /\ Len(mount) \in Nat
        /\ path \in Seq(Segment) /\ Len(path) >= 1 /\ Len(path) \in Nat
    BY <1>1, <1>4 DEF Path
  <2>2. data \in Seq(Segment) /\ Len(data) = 1 /\ data[1] = <<"data">>
    <3>1. <<"data">> \in Text /\ ToSet(<<"data">>) = {"data"}
      BY TokensAreEnough DEF Text, ToSet
    <3>2. <<"data">> \in Segment
      BY <3>1 DEF Segment
    <3>3. QED
      BY <3>2
  <2> HIDE DEF data, mount, path
  <2>3. /\ front \in Seq(Segment) /\ Len(front) = Len(mount) + Len(data)
        /\ \A i \in 1..(Len(mount) + Len(data)) :
             front[i] = IF i <= Len(mount) THEN mount[i] ELSE data[i - Len(mount)]
    BY <1>2, <2>1, <2>2
  <2> HIDE DEF front
  <2>4. /\ all \in Seq(Segment) /\ Len(all) = Len(front) + Len(path)
        /\ \A i \in 1..(Len(front) + Len(path)) :
             all[i] = IF i <= Len(front) THEN front[i] ELSE path[i - Len(front)]
    BY <1>2, <2>1, <2>3
  <2> HIDE DEF all
  <2>5. Location(r) = all
    BY <1>4 DEF Location, all, front, data, mount, path
  <2>6. Len(front) = Len(mount) + 1 /\ Len(all) = Len(mount) + 1 + Len(path)
    BY <2>2, <2>3, <2>4
  <2>7. all \in Path
    BY <2>1, <2>4, <2>6 DEF Path
  <2>8. Last(all) = Last(path)
    BY <2>1, <2>4, <2>6 DEF Last
  <2>9. ASSUME NEW s \in ToSet(all)
        PROVE  s = <<"data">> \/ s \in ToSet(mount) \/ s \in ToSet(path)
    <3>1. PICK i \in 1..Len(all) : s = all[i]
      BY <2>4 DEF ToSet
    <3>2. CASE i <= Len(mount)
      <4>1. s = mount[i] /\ i \in DOMAIN mount
        BY <2>1, <2>2, <2>3, <2>4, <2>6, <3>1, <3>2
      <4>2. QED
        BY <4>1 DEF ToSet
    <3>3. CASE i = Len(mount) + 1
      BY <2>1, <2>2, <2>3, <2>4, <2>6, <3>1, <3>3
    <3>4. CASE i > Len(mount) + 1
      <4>1. s = path[i - Len(front)] /\ i - Len(front) \in DOMAIN path
        BY <2>1, <2>4, <2>6, <3>1, <3>4
      <4>2. QED
        BY <4>1 DEF ToSet
    <3>5. QED
      BY <2>1, <3>2, <3>3, <3>4
  <2>10. Texts(r) = {mount, path}
    BY <1>4 DEF Texts, mount, path
  <2>11. QED
    BY <2>5, <2>7, <2>8, <2>9, <2>10 DEF path
<1>5. QED
  BY <1>3, <1>4

\* A path expands segment by segment.
LEMMA ExpandIsPath ==
  ASSUME NEW values, AreValues(values), NEW path \in Path
  PROVE  /\ Expand(values, path) \in Seq(Text)
         /\ Len(Expand(values, path)) = Len(path)
         /\ Len(path) \in Nat \ {0}
         /\ \A i \in 1..Len(path) :
              path[i] \in Segment /\ Expand(values, path)[i] = ExpandSegment(values, path[i])
<1> DEFINE n == Len(path)
           expanded == Expand(values, path)
<1>1. n \in Nat \ {0} /\ DOMAIN path = 1..n /\ \A i \in 1..n : path[i] \in Segment
  BY DEF Path
<1>2. expanded = [i \in 1..n |-> ExpandSegment(values, path[i])]
  BY <1>1 DEF Expand
<1>3. \A s \in Text : ExpandSegment(values, s) \in Text
  BY ExpandTokens
<1>4. \A i \in 1..n : ExpandSegment(values, path[i]) \in Text
  BY <1>1, <1>3 DEF Segment
<1> HIDE DEF expanded, n
<1>5. expanded \in [1..n -> Text]
  BY <1>2, <1>4
<1>6. expanded \in Seq(Text) /\ Len(expanded) = n
  BY <1>1, <1>5
<1>7. \A i \in 1..n : expanded[i] = ExpandSegment(values, path[i])
  BY <1>2
<1>8. QED
  BY <1>1, <1>6, <1>7 DEF expanded, n

\* The i-th segment of what a rule reads, as far as its globs say.
Pinned(r, i) == ExpandSegment(PinnedValues(r.unit, r.credential), Location(r)[i])

LEMMA PolicyPathIsGrant ==
  ASSUME NEW r \in Rule
  PROVE  /\ PolicyPath(r) \in GrantSet
         /\ Len(PolicyPath(r).path) = Len(Location(r))
         /\ \A i \in 1..Len(Location(r)) :
              /\ PolicyPath(r).path[i] = IF Free(Pinned(r, i)) THEN <<"+">> ELSE Pinned(r, i)
              /\ Free(Pinned(r, i)) /\ Len(Pinned(r, i)) > 1 => PolicyPath(r).widened
<1> DEFINE values == PinnedValues(r.unit, r.credential)
           location == Location(r)
           n == Len(location)
           pinned == Expand(values, location)
           path == [i \in DOMAIN pinned |-> IF Free(pinned[i]) THEN <<"+">> ELSE pinned[i]]
<1>1. AreValues(values) /\ location \in Path
  <2>1. r.unit \in Text /\ r.credential \in Text
    BY DEF Rule, Segment
  <2>2. QED
    BY <2>1, PinnedAreValues, LocationIsPath
<1>2. PolicyPath(r) = [path |-> path,
                       widened |-> \E s \in ToSet(pinned) : Free(s) /\ Len(s) > 1]
  BY DEF PolicyPath
<1> HIDE DEF values, location
<1>3. /\ pinned \in Seq(Text) /\ Len(pinned) = n /\ n \in Nat
      /\ \A i \in 1..n : pinned[i] = ExpandSegment(values, location[i])
  BY <1>1, ExpandIsPath
<1> HIDE DEF pinned, n
<1>4. DOMAIN pinned = 1..n /\ \A i \in 1..n : pinned[i] \in Text
  BY <1>3
<1>5. <<"+">> \in Text
  BY TokensAreEnough DEF Text
<1>6. /\ path \in [1..n -> Text]
      /\ \A i \in 1..n : path[i] = IF Free(pinned[i]) THEN <<"+">> ELSE pinned[i]
  BY <1>4, <1>5
<1> HIDE DEF path
<1>7. path \in Seq(Text) /\ Len(path) = n
  BY <1>3, <1>6
<1>8. PolicyPath(r) \in GrantSet
  BY <1>2, <1>7 DEF GrantSet
<1>9. \A i \in 1..n : Free(pinned[i]) /\ Len(pinned[i]) > 1 => PolicyPath(r).widened
  <2>1. \A i \in 1..n : pinned[i] \in ToSet(pinned)
    BY <1>4 DEF ToSet
  <2>2. PolicyPath(r).widened = \E s \in ToSet(pinned) : Free(s) /\ Len(s) > 1
    BY <1>2
  <2>3. QED
    BY <2>1, <2>2, Zenon
<1>10. PolicyPath(r).path = path
  BY <1>2
<1>11. \A i \in 1..n : pinned[i] = Pinned(r, i)
  BY <1>3 DEF Pinned, values, location
<1>12. QED
  BY <1>6, <1>7, <1>8, <1>9, <1>10, <1>11 DEF n, location

LEMMA GrantsOneByOne ==
  ASSUME NEW n \in Nat, NEW step \in [1..n -> [Seq(GrantSet) -> Seq(GrantSet)]]
  PROVE  \E f \in [0..n -> Seq(GrantSet)] :
           f[0] = <<>> /\ \A i \in 1..n : f[i] = step[i][f[i - 1]]
<1>1. PICK S : S = Seq(GrantSet)
  OBVIOUS
<1>2. PICK start \in S : start = <<>>
  <2>1. <<>> \in Seq(GrantSet)
    OBVIOUS
  <2>2. QED
    BY <1>1, <2>1
<1>3. step \in [1..n -> [S -> S]]
  BY <1>1
<1>4. \E f \in [0..n -> S] : f[0] = start /\ \A i \in 1..n : f[i] = step[i][f[i - 1]]
  BY <1>3, Recursion
<1>5. QED
  BY <1>1, <1>2, <1>4

\* Every rule of a file is granted, marked if it is widened, and nothing else.
LEMMA GrantsHold ==
  ASSUME NEW file \in Seq(Rule)
  PROVE  /\ \A k \in 1..Len(file) : \E g \in ToSet(Grants(file)) :
              g.path = PolicyPath(file[k]).path /\ (PolicyPath(file[k]).widened => g.widened)
         /\ \A g \in ToSet(Grants(file)) :
              /\ g \in GrantSet
              /\ \E k \in 1..Len(file) : g.path = PolicyPath(file[k]).path
<1> DEFINE n == Len(file)
           W(i) == PolicyPath(file[i])
           step == [i \in 1..n |-> [s \in Seq(GrantSet) |-> Add(s, W(i))]]
           Makes(g) == g = [i \in 0..n |-> IF i = 0 THEN <<>> ELSE Add(g[i - 1], W(i))]
           grants == CHOOSE g : Makes(g)
<1>1. n \in Nat /\ \A i \in 1..n : W(i) \in GrantSet
  BY PolicyPathIsGrant
<1>2. Grants(file) = grants[n]
  BY DEF Grants
<1> HIDE DEF W, n
<1>3. \A i \in 1..n : \A s \in Seq(GrantSet) : Add(s, W(i)) \in Seq(GrantSet)
  BY <1>1, AddKeeps
<1>4. step \in [1..n -> [Seq(GrantSet) -> Seq(GrantSet)]]
  BY <1>3
<1>5. \A i \in 1..n : \A s \in Seq(GrantSet) : step[i][s] = Add(s, W(i))
  OBVIOUS
<1> HIDE DEF step
<1>6. PICK f \in [0..n -> Seq(GrantSet)] :
        f[0] = <<>> /\ \A i \in 1..n : f[i] = step[i][f[i - 1]]
  <2>1. PICK m : m = n
    OBVIOUS
  <2>2. m \in Nat
    BY <1>1, <2>1
  <2>3. step \in [1..m -> [Seq(GrantSet) -> Seq(GrantSet)]]
    BY <1>4, <2>1
  <2>4. \E f \in [0..m -> Seq(GrantSet)] :
          f[0] = <<>> /\ \A i \in 1..m : f[i] = step[i][f[i - 1]]
    BY <2>2, <2>3, GrantsOneByOne
  <2>5. QED
    BY <2>1, <2>4
<1>7. Makes(f)
  <2>1. \A i \in 0..n : i # 0 => i \in 1..n /\ i - 1 \in 0..n
    BY <1>1
  <2>2. \A i \in 0..n : f[i] = IF i = 0 THEN <<>> ELSE Add(f[i - 1], W(i))
    BY <1>5, <1>6, <2>1
  <2>3. f = [i \in 0..n |-> f[i]]
    OBVIOUS
  <2>4. QED
    BY <2>2, <2>3
<1>8. Makes(grants)
  <2> HIDE DEF Makes
  <2> QED
    BY <1>7
<1> HIDE DEF grants
<1>9. grants[0] = <<>> /\ \A i \in 1..n : grants[i] = Add(grants[i - 1], W(i))
  <2>1. 0 \in 0..n /\ \A i \in 1..n : i # 0 /\ i \in 0..n
    BY <1>1
  <2>2. \A i \in 0..n : grants[i] = IF i = 0 THEN <<>> ELSE Add(grants[i - 1], W(i))
    <3> HIDE DEF n
    <3> QED
      BY <1>8
  <2>3. QED
    BY <2>1, <2>2
<1> HIDE DEF Makes
<1> DEFINE Holds(i) ==
             /\ grants[i] \in Seq(GrantSet)
             /\ \A k \in 1..i : \E g \in ToSet(grants[i]) :
                  g.path = W(k).path /\ (W(k).widened => g.widened)
             /\ \A g \in ToSet(grants[i]) : \E k \in 1..i : g.path = W(k).path
           Good == {i \in Nat : Holds(i)}
<1>10. 0 \in Good
  <2>1. <<>> \in Seq(GrantSet) /\ ToSet(<<>>) = {} /\ 1..0 = {}
    BY DEF ToSet
  <2>2. Holds(0)
    BY <1>9, <2>1
  <2> HIDE DEF Holds
  <2>3. QED
    BY <2>2
<1>11. ASSUME NEW i \in 0..(n - 1), i \in Good PROVE i + 1 \in Good
  <2> DEFINE g1 == W(i + 1)
             old == grants[i]
             new == grants[i + 1]
  <2>1. i + 1 \in 1..n /\ (i + 1) - 1 = i /\ i + 1 \in Nat
    BY <1>1
  <2>2. new = Add(old, g1) /\ g1 \in GrantSet
    BY <1>1, <1>9, <2>1
  <2>3. Holds(i)
    <3> HIDE DEF Holds
    <3> QED
      BY <1>11
  <2>4. old \in Seq(GrantSet)
    BY <2>3
  <2> HIDE DEF g1, old, new
  <2>5. /\ new \in Seq(GrantSet)
        /\ \A h \in ToSet(old) \cup {g1} : \E a \in ToSet(new) :
             a.path = h.path /\ (h.widened => a.widened)
        /\ \A a \in ToSet(new) : \E h \in ToSet(old) \cup {g1} : a.path = h.path
    BY <2>2, <2>4, AddKeeps
  <2>6. \A k : k \in 1..(i + 1) <=> k \in 1..i \/ k = i + 1
    BY <2>1
  <2>7. ASSUME NEW k \in 1..(i + 1)
        PROVE  \E g \in ToSet(new) : g.path = W(k).path /\ (W(k).widened => g.widened)
    <3>1. CASE k = i + 1
      BY <2>5, <3>1 DEF g1
    <3>2. CASE k \in 1..i
      <4>1. PICK h \in ToSet(old) : h.path = W(k).path /\ (W(k).widened => h.widened)
        BY <2>3, <3>2 DEF old
      <4>2. PICK a \in ToSet(new) : a.path = h.path /\ (h.widened => a.widened)
        BY <2>5
      <4>3. QED
        BY <4>1, <4>2, Zenon
    <3>3. QED
      BY <2>6, <3>1, <3>2
  <2>8. ASSUME NEW a \in ToSet(new)
        PROVE  \E k \in 1..(i + 1) : a.path = W(k).path
    <3>1. PICK h \in ToSet(old) \cup {g1} : a.path = h.path
      BY <2>5
    <3>2. CASE h = g1
      BY <2>6, <3>1, <3>2 DEF g1
    <3>3. CASE h \in ToSet(old)
      <4>1. PICK k \in 1..i : h.path = W(k).path
        BY <2>3, <3>3 DEF old
      <4>2. QED
        BY <2>6, <3>1, <4>1
    <3>4. QED
      BY <3>2, <3>3
  <2>9. Holds(i + 1)
    BY <2>5, <2>7, <2>8 DEF new
  <2> HIDE DEF Holds
  <2>10. QED
    BY <2>1, <2>9
<1>12. Holds(n)
  <2>1. 0 \in 0..n /\ n \in 0..n
    BY <1>1
  <2> HIDE DEF Good
  <2>2. n \in Good
    BY <1>1, <1>10, <1>11, <2>1, BoundedInduction
  <2> HIDE DEF Holds
  <2>3. QED
    BY <2>2 DEF Good
<1>13. \A s \in Seq(GrantSet) : \A g \in ToSet(s) : g \in GrantSet
  BY DEF ToSet
<1>14. QED
  BY <1>2, <1>12, <1>13 DEF W, n

-----------------------------------------------------------------------------
(* What a plan reads *)

\* The first match, if there is one, is a rule whose globs match.
LEMMA MatchedRule ==
  ASSUME rules \in Seq(Rule), NEW unit, NEW credential
  PROVE  LET k == Match(unit, credential)
         IN  /\ k \in 0..Len(rules)
             /\ k # 0 => /\ MatchGlob(rules[k].unit, unit)
                         /\ MatchGlob(rules[k].credential, credential)
<1> DEFINE k == Match(unit, credential)
           I == {i \in 1..Len(rules) : /\ MatchGlob(rules[i].unit, unit)
                                       /\ MatchGlob(rules[i].credential, credential)}
<1>1. Len(rules) \in Nat /\ I \subseteq Nat
  OBVIOUS
<1>2. k = IF I # {} THEN Min(I) ELSE 0
  BY DEF Match, SelectInSeq
<1>3. I # {} => Min(I) \in I
  <2> HIDE DEF I
  <2> QED
    BY <1>1, MinIsLeast
<1>4. k = 0 \/ k \in I
  BY <1>2, <1>3
<1>5. QED
  BY <1>1, <1>4

\* What a plan with a read is: the paths of the rule it found, whose globs match
\* the names of the request, expanded with the values of these names.
Reads(r, unit, credential) ==
  LET values == PlaceholderValues(unit, credential)
  IN  /\ Valid(r)
      /\ MatchGlob(r.unit, unit) /\ MatchGlob(r.credential, credential)
      /\ \A p \in Texts(r) : CheckSegments(Expand(values, p))
      /\ plan.read = Expand(values, Location(r))

LEMMA PlanReads ==
  ASSUME IInv, plan.read # <<>>
  PROVE  \E r \in Rule : \E unit, credential \in Segment \ {<<>>} :
           /\ plan.rule \in 1..Len(rules) /\ rules[plan.rule] = r
           /\ plan.unit = unit /\ plan.credential = credential
           /\ Reads(r, unit, credential)
<1>1. plan # NoPlan
  BY DEF NoPlan
<1>2. PICK unit, credential \in Segment \ {<<>>} :
        /\ plan = Resolved(plan.from, [unit |-> unit, credential |-> credential])
        /\ plan.unit = unit /\ plan.credential = credential
  BY <1>1, PlanHasRequest
<1> DEFINE k == Match(unit, credential)
           values == PlaceholderValues(unit, credential)
<1>3. /\ plan.rule = k
      /\ plan.read = IF Refused(k, values) THEN <<>> ELSE Expand(values, Location(rules[k]))
  <2> DEFINE request == [unit |-> unit, credential |-> credential]
  <2>1. /\ Resolved(plan.from, request).rule = k
        /\ Resolved(plan.from, request).read
             = IF Refused(k, values) THEN <<>> ELSE Expand(values, Location(rules[k]))
    BY DEF Resolved
  <2> HIDE DEF k, values
  <2>2. QED
    BY <1>2, <2>1
<1>4. rules \in Seq(Rule)
  BY FilesAreRules DEF IInv
<1>5. /\ k \in 0..Len(rules)
      /\ k # 0 => /\ MatchGlob(rules[k].unit, unit)
                  /\ MatchGlob(rules[k].credential, credential)
  BY <1>4, MatchedRule
<1> HIDE DEF k, values
<1>6. ~Refused(k, values)
  BY <1>3
<1>7. k # 0 /\ k \in 1..Len(rules)
  BY <1>4, <1>5, <1>6 DEF Refused
<1>8. PICK r \in Rule : r = rules[k] /\ Valid(r)
  <2>1. rules[k] \in Rule /\ rules[k] \in ToSet(rules)
    BY <1>4, <1>7 DEF ToSet
  <2>2. QED
    BY <2>1 DEF IInv
<1>9. \A p \in Texts(r) : CheckSegments(Expand(values, p))
  BY <1>6, <1>8 DEF Refused, Texts
<1>10. Reads(r, unit, credential)
  BY <1>3, <1>5, <1>6, <1>7, <1>8, <1>9 DEF Reads, values
<1>11. QED
  BY <1>2, <1>3, <1>7, <1>8, <1>10

\* The policy has a grant for every rule, and none but for a rule.
LEMMA RulesAreGranted ==
  ASSUME IInv
  PROVE  /\ \A k \in 1..Len(rules) : \E g \in ToSet(policy) :
              /\ g.path = PolicyPath(rules[k]).path
              /\ PolicyPath(rules[k]).widened => g.widened
         /\ \A g \in ToSet(policy) :
              /\ g \in GrantSet
              /\ \E r \in Rule : Valid(r) /\ g.path = PolicyPath(r).path
<1>1. rules \in Seq(Rule) /\ policy = Grants(rules) /\ \A r \in ToSet(rules) : Valid(r)
  BY FilesAreRules DEF IInv
<1>2. PICK file \in Seq(Rule) : file = rules
  BY <1>1
<1>3. \A k \in 1..Len(file) : file[k] \in Rule /\ Valid(file[k])
  <2>1. \A k \in 1..Len(file) : file[k] \in Rule /\ file[k] \in ToSet(file)
    BY DEF ToSet
  <2>2. QED
    BY <1>1, <1>2, <2>1
<1>4. policy = Grants(file)
  BY <1>1, <1>2
<1>5. \A k \in 1..Len(file) : \E g \in ToSet(policy) :
        g.path = PolicyPath(file[k]).path /\ (PolicyPath(file[k]).widened => g.widened)
  <2>1. \A k \in 1..Len(file) : \E g \in ToSet(Grants(file)) :
          g.path = PolicyPath(file[k]).path /\ (PolicyPath(file[k]).widened => g.widened)
    BY GrantsHold, Zenon
  <2>2. QED
    BY <1>4, <2>1, Zenon
<1>6. \A g \in ToSet(policy) :
        g \in GrantSet /\ \E r \in Rule : Valid(r) /\ g.path = PolicyPath(r).path
  <2>1. \A g \in ToSet(policy) :
          g \in GrantSet /\ \E k \in 1..Len(file) : g.path = PolicyPath(file[k]).path
    BY <1>4, GrantsHold
  <2>2. QED
    BY <1>3, <2>1
<1>7. QED
  BY <1>2, <1>5, <1>6, Zenon

\* The segments of a path that is read are those of a rule's texts, expanded,
\* but for the "data" of KV.
LEMMA ExpandedSegments ==
  ASSUME NEW r \in Rule, NEW values, AreValues(values), DOMAIN values \subseteq Placeholders,
         NEW i \in 1..Len(Location(r))
  PROVE  \/ ExpandSegment(values, Location(r)[i]) = <<"data">>
         \/ \E p \in Texts(r) :
              ExpandSegment(values, Location(r)[i]) \in ToSet(Expand(values, p))
<1>1. /\ Location(r) \in Path
      /\ \A s \in ToSet(Location(r)) : s = <<"data">> \/ \E p \in Texts(r) : s \in ToSet(p)
  BY LocationIsPath
<1> DEFINE s == Location(r)[i]
<1>2. s \in ToSet(Location(r))
  BY <1>1 DEF Path, ToSet
<1> HIDE DEF s
<1>3. CASE s = <<"data">>
  <2> DEFINE data == <<"data">>
  <2>1. data \in Text /\ Len(data) = 1 /\ data[1] = "data"
    BY TokensAreEnough DEF Text
  <2>2. "data" \notin DOMAIN values
    <3>1. "data" \notin Placeholders
      BY Zenon DEF Placeholders
    <3>2. QED
      BY <3>1
  <2>3. Piece(values, data[1]) = <<"data">>
    BY <2>1, <2>2 DEF Piece
  <2> HIDE DEF data
  <2>4. PICK f \in [0..Len(data) -> Text] :
          /\ f[0] = <<>>
          /\ \A j \in 1..Len(data) : f[j] = f[j - 1] \o Piece(values, data[j])
          /\ ExpandSegment(values, data) = f[Len(data)]
    BY <2>1, ExpandJoins
  <2>5. f[1] = <<>> \o <<"data">> /\ ExpandSegment(values, data) = f[1]
    BY <2>1, <2>3, <2>4
  <2>6. ExpandSegment(values, data) = <<"data">>
    BY <2>5
  <2>7. QED
    BY <1>3, <2>6 DEF s, data
<1>4. CASE \E p \in Texts(r) : s \in ToSet(p)
  <2>1. PICK p \in Texts(r) : s \in ToSet(p)
    BY <1>4
  <2>2. p \in Path
    BY DEF Rule, Texts
  <2>3. PICK j \in 1..Len(p) : s = p[j]
    BY <2>1, <2>2 DEF Path, ToSet
  <2>4. /\ Expand(values, p)[j] = ExpandSegment(values, s)
        /\ Expand(values, p) \in Seq(Text) /\ Len(Expand(values, p)) = Len(p)
    BY <2>2, <2>3, ExpandIsPath
  <2>5. ExpandSegment(values, s) \in ToSet(Expand(values, p))
    BY <2>3, <2>4 DEF ToSet
  <2>6. QED
    BY <2>5 DEF s
<1>5. QED
  BY <1>1, <1>2, <1>3, <1>4

\* A segment without a slash stays one when its values have none.
LEMMA ExpandsToSegment ==
  ASSUME NEW values, AreValues(values), NEW s \in Segment,
         \A p \in DOMAIN values : "/" \notin ToSet(values[p])
  PROVE  ExpandSegment(values, s) \in Segment
<1>1. s \in Text /\ "/" \notin ToSet(s) /\ \A i \in 1..Len(s) : s[i] \in ToSet(s)
  BY DEF Segment, Text, ToSet
<1>2. \A t : ToSet(<<t>>) = {t}
  BY DEF ToSet
<1>3. \A i \in 1..Len(s) : "/" \notin ToSet(Piece(values, s[i]))
  BY <1>1, <1>2 DEF Piece
<1>4. QED
  BY <1>1, <1>3, ExpandTokens DEF Segment

\* What a placeholder stands for never adds a segment to a path (NewRequest).
THEOREM ReadsKeepSegments == Spec => []ReadKeepsItsSegments
<1>1. IInv => ReadKeepsItsSegments
  <2>1. SUFFICES ASSUME IInv, NEW segment \in ToSet(plan.read)
                 PROVE  "/" \notin ToSet(segment)
    BY DEF ReadKeepsItsSegments
  <2>2. plan.read # <<>>
    BY <2>1 DEF ToSet
  <2>3. PICK r \in Rule, unit, credential \in Segment \ {<<>>} :
          Reads(r, unit, credential)
    BY <2>1, <2>2, PlanReads
  <2> DEFINE values == PlaceholderValues(unit, credential)
  <2>4. unit \in Text /\ credential \in Text /\ "/" \notin ToSet(unit) \cup ToSet(credential)
    BY DEF Segment
  <2>5. AreValues(values) /\ \A p \in DOMAIN values : "/" \notin ToSet(values[p])
    BY <2>4, RequestHasValues, ValuesAreParts
  <2>6. plan.read = Expand(values, Location(r)) /\ Location(r) \in Path
    BY <2>3, LocationIsPath DEF Reads
  <2> HIDE DEF values
  <2> DEFINE location == Location(r)
             read == Expand(values, location)
  <2>7. /\ read \in Seq(Text) /\ Len(read) = Len(location)
        /\ \A i \in 1..Len(location) :
             location[i] \in Segment /\ read[i] = ExpandSegment(values, location[i])
    BY <2>5, <2>6, ExpandIsPath
  <2> HIDE DEF location, read
  <2>8. PICK i \in 1..Len(location) : segment = read[i]
    BY <2>1, <2>6, <2>7 DEF ToSet, read, location
  <2>9. QED
    BY <2>5, <2>7, <2>8, ExpandsToSegment DEF Segment
<1>2. QED
  BY <1>1, Invariant, PTL

\* Paths that are read or granted are clean, and a plan is for a request and by
\* a rule in effect (CheckSegments in Credential.validate and Resolver.Plan).
THEOREM PolicyTypeCorrect == Spec => []TypeOK
<1>1. IInv => TypeOK
  <2>1. SUFFICES ASSUME IInv PROVE TypeOK
    OBVIOUS
  <2> DEFINE Dots == {<<>>, <<".">>, <<".", ".">>}
  <2>2. <<"data">> \notin Dots /\ <<"+">> \notin Dots
    OBVIOUS
  <2>3. \A path : CheckSegments(path) <=> \A s \in ToSet(path) : s \notin Dots
    BY DEF CheckSegments
  <2> HIDE DEF Dots
  <2>4. ASSUME NEW r \in Rule, NEW values, AreValues(values),
               DOMAIN values \subseteq Placeholders,
               \A p \in Texts(r) : CheckSegments(Expand(values, p)),
               NEW i \in 1..Len(Location(r))
        PROVE  ExpandSegment(values, Location(r)[i]) \notin Dots
    <3> DEFINE s == ExpandSegment(values, Location(r)[i])
    <3>1. s = <<"data">> \/ \E p \in Texts(r) : s \in ToSet(Expand(values, p))
      BY <2>4, ExpandedSegments
    <3>2. QED
      BY <2>2, <2>3, <2>4, <3>1
  <2>5. ASSUME NEW g \in ToSet(policy)
        PROVE  CheckSegments(g.path) /\ g.widened \in BOOLEAN
    <3>1. PICK r \in Rule : Valid(r) /\ g.path = PolicyPath(r).path
      BY <2>1, RulesAreGranted
    <3> DEFINE values == PinnedValues(r.unit, r.credential)
               n == Len(Location(r))
    <3>2. AreValues(values) /\ DOMAIN values \subseteq Placeholders
      <4>1. r.unit \in Text /\ r.credential \in Text
        BY DEF Rule, Segment
      <4>2. QED
        BY <4>1, PinnedAreValues
    <3>3. \A p \in Texts(r) : CheckSegments(Expand(values, p))
      BY <3>1 DEF Valid, CheckLiteral
    <3>4. \A i \in 1..n : Pinned(r, i) \notin Dots
      BY <2>4, <3>2, <3>3 DEF Pinned
    <3>5. /\ g.path \in Seq(Text) /\ g.widened \in BOOLEAN /\ Len(g.path) = n
          /\ \A i \in 1..n : g.path[i] = <<"+">> \/ g.path[i] = Pinned(r, i)
      <4>1. g \in GrantSet
        BY <2>1, RulesAreGranted
      <4>2. QED
        BY <3>1, <4>1, PolicyPathIsGrant DEF GrantSet
    <3>6. \A s \in ToSet(g.path) : s \notin Dots
      BY <2>2, <3>4, <3>5 DEF ToSet
    <3>7. QED
      BY <2>3, <3>5, <3>6
  <2>6. CheckSegments(plan.read)
    <3>1. CASE plan.read = <<>>
      BY <3>1 DEF CheckSegments, ToSet
    <3>2. CASE plan.read # <<>>
      <4>1. PICK r \in Rule, unit, credential \in Segment \ {<<>>} :
              Reads(r, unit, credential)
        BY <2>1, <3>2, PlanReads
      <4> DEFINE values == PlaceholderValues(unit, credential)
                 location == Location(r)
                 read == Expand(values, location)
      <4>2. AreValues(values) /\ DOMAIN values = Placeholders
        BY RequestHasValues DEF Segment
      <4>3. \A p \in Texts(r) : CheckSegments(Expand(values, p))
        BY <4>1 DEF Reads
      <4>4. \A i \in 1..Len(location) : ExpandSegment(values, location[i]) \notin Dots
        BY <2>4, <4>2, <4>3
      <4> HIDE DEF values
      <4>5. /\ read \in Seq(Text) /\ Len(read) = Len(location)
            /\ \A i \in 1..Len(location) : read[i] = ExpandSegment(values, location[i])
        <5>1. location \in Path
          BY LocationIsPath
        <5> HIDE DEF location
        <5>2. QED
          BY <4>2, <5>1, ExpandIsPath
      <4>6. \A s \in ToSet(read) : s \notin Dots
        BY <4>4, <4>5 DEF ToSet
      <4>7. QED
        BY <2>3, <4>1, <4>6 DEF Reads, values
    <3>3. QED
      BY <3>1, <3>2
  <2>7. rules \in Seq(Rule)
    BY <2>1, FilesAreRules DEF IInv
  <2>8. CASE plan = NoPlan
    <3>1. plan.from = <<>> /\ plan.rule = 0
      BY <2>8 DEF NoPlan
    <3>2. Len(rules) \in Nat
      BY <2>7
    <3>3. QED
      BY <2>1, <2>5, <2>6, <2>8, <3>1, <3>2 DEF TypeOK, IInv
  <2>9. CASE plan # NoPlan
    <3>1. PICK unit, credential \in Segment \ {<<>>} :
            /\ plan = Resolved(plan.from, [unit |-> unit, credential |-> credential])
            /\ plan.unit = unit /\ plan.credential = credential
            /\ plan.from = <<>> \/ plan.from \in Addresses
      BY <2>1, <2>9, PlanHasRequest
    <3>2. plan.rule = Match(unit, credential)
      <4> DEFINE request == [unit |-> unit, credential |-> credential]
      <4>1. Resolved(plan.from, request).rule = Match(unit, credential)
        BY DEF Resolved
      <4>2. QED
        BY <3>1, <4>1
    <3>3. plan.rule \in 0..Len(rules)
      BY <2>7, <3>2, MatchedRule
    <3>4. NewRequest(plan.unit, plan.credential) # NoRequest
      BY <3>1, NamesMakeRequest
    <3>5. QED
      BY <2>1, <2>5, <2>6, <3>1, <3>3, <3>4 DEF TypeOK, IInv
  <2>10. QED
    BY <2>8, <2>9
<1>2. QED
  BY <1>1, Invariant, PTL

-----------------------------------------------------------------------------
(* The policy grants what is read *)

\* A segment whose placeholders the globs pin reads what they pin.
LEMMA FixedSegment ==
  ASSUME NEW r \in Rule, NEW unit \in Text, NEW credential \in Text,
         MatchGlob(r.unit, unit), MatchGlob(r.credential, credential),
         ~CutsItsPrefix(r.unit), NEW s \in Text,
         ~Free(ExpandSegment(PinnedValues(r.unit, r.credential), s))
  PROVE  ExpandSegment(PinnedValues(r.unit, r.credential), s)
           = ExpandSegment(PlaceholderValues(unit, credential), s)
<1> DEFINE pinned == PinnedValues(r.unit, r.credential)
           values == PlaceholderValues(unit, credential)
<1>1. r.unit \in Text /\ r.credential \in Text
  BY DEF Rule, Segment
<1>2. AreValues(pinned) /\ DOMAIN values = Placeholders
  BY <1>1, PinnedAreValues, RequestHasValues
<1>3. \A p \in DOMAIN pinned : p \in Placeholders /\ pinned[p] = values[p]
  BY <1>1, PinnedIsReal
<1>4. ToSet(ExpandSegment(pinned, s)) \cap Placeholders = {}
  BY DEF Free
<1> HIDE DEF pinned, values
<1>5. ASSUME NEW i \in 1..Len(s) PROVE Piece(pinned, s[i]) = Piece(values, s[i])
  <2>1. CASE s[i] \in DOMAIN pinned
    BY <1>2, <1>3, <2>1 DEF Piece
  <2>2. CASE s[i] \notin DOMAIN pinned
    <3>1. Piece(pinned, s[i]) = <<s[i]>> /\ s[i] \in ToSet(<<s[i]>>)
      BY <2>2 DEF Piece, ToSet
    <3>2. s[i] \in ToSet(ExpandSegment(pinned, s))
      BY <1>2, <3>1, ExpandTokens
    <3>3. s[i] \notin DOMAIN values
      BY <1>2, <1>4, <3>2
    <3>4. QED
      BY <3>1, <3>3 DEF Piece
  <2>3. QED
    BY <2>1, <2>2
<1>6. ExpandSegment(pinned, s) = ExpandSegment(values, s)
  BY <1>5, ExpandSame
<1>7. QED
  BY <1>6 DEF pinned, values

\* The grant of a rule covers what the rule reads.
LEMMA RuleCoversRead ==
  ASSUME NEW r \in Rule, NEW unit \in Text, NEW credential \in Text,
         MatchGlob(r.unit, unit), MatchGlob(r.credential, credential),
         ~CutsItsPrefix(r.unit)
  PROVE  Covers(PolicyPath(r).path, Expand(PlaceholderValues(unit, credential), Location(r)))
<1> DEFINE values == PlaceholderValues(unit, credential)
           location == Location(r)
           read == Expand(values, location)
           path == PolicyPath(r).path
<1>1. AreValues(values) /\ location \in Path
  BY RequestHasValues, LocationIsPath
<1>2. \A s \in Text : ~Free(ExpandSegment(PinnedValues(r.unit, r.credential), s)) =>
        ExpandSegment(PinnedValues(r.unit, r.credential), s) = ExpandSegment(values, s)
  BY FixedSegment
<1>3. /\ Len(path) = Len(location)
      /\ \A i \in 1..Len(location) :
           path[i] = IF Free(Pinned(r, i)) THEN <<"+">> ELSE Pinned(r, i)
  BY PolicyPathIsGrant
<1> HIDE DEF values, path
<1>4. /\ read \in Seq(Text) /\ Len(read) = Len(location)
      /\ \A i \in 1..Len(location) :
           location[i] \in Text /\ read[i] = ExpandSegment(values, location[i])
  <2> HIDE DEF location
  <2>1. QED
    BY <1>1, ExpandIsPath DEF Segment
<1>5. \A i \in 1..Len(location) : path[i] \in {<<"+">>, read[i]}
  BY <1>2, <1>3, <1>4 DEF Pinned
<1> HIDE DEF location, read
<1>6. DOMAIN read = 1..Len(location)
  BY <1>4
<1>7. Covers(path, read)
  BY <1>3, <1>4, <1>5, <1>6 DEF Covers
<1>8. QED
  BY <1>7 DEF path, read, values, location

\* Every read of a rule whose unit glob keeps its dots behind its "@" is granted
\* (PinnedValues, PlaceholderValues).
THEOREM PinnedReadsAreGranted == Spec => []PinnedValuesAreReal
<1>1. IInv => PinnedValuesAreReal
  <2>1. SUFFICES ASSUME IInv, plan.read # <<>>, ~CutsItsPrefix(rules[plan.rule].unit)
                 PROVE  Granting(plan.read) # {}
    BY DEF PinnedValuesAreReal
  <2>2. PICK r \in Rule, unit, credential \in Segment \ {<<>>} :
          /\ plan.rule \in 1..Len(rules) /\ rules[plan.rule] = r
          /\ Reads(r, unit, credential)
    BY <2>1, PlanReads
  <2>3. Covers(PolicyPath(r).path, plan.read)
    BY <2>1, <2>2, RuleCoversRead DEF Reads, Segment
  <2>4. PICK g \in ToSet(policy) : g.path = PolicyPath(r).path
    BY <2>1, <2>2, RulesAreGranted
  <2>5. QED
    BY <2>3, <2>4 DEF Granting
<1>2. QED
  BY <1>1, Invariant, PTL

\* What a rule's globs pin has no placeholder.
LEMMA PinnedHasNoPlaceholder ==
  ASSUME NEW r \in Rule, Valid(r), NEW p \in DOMAIN PinnedValues(r.unit, r.credential)
  PROVE  ToSet(PinnedValues(r.unit, r.credential)[p]) \cap Placeholders = {}
<1>1. r.unit \in Text /\ r.credential \in Text
  BY DEF Rule, Segment
<1>2. (ToSet(r.unit) \cup ToSet(r.credential)) \cap Placeholders = {}
  BY DEF Valid, ValidAsWritten
<1>3. ToSet(PinnedValues(r.unit, r.credential)[p]) \subseteq ToSet(r.unit) \cup ToSet(r.credential)
  BY <1>1, PinnedAreValues, ValuesAreParts
<1>4. QED
  BY <1>2, <1>3

\* A segment as far as the globs say is no wildcard.
LEMMA PinnedIsNoWildcard ==
  ASSUME NEW r \in Rule, Valid(r), NEW i \in 1..Len(Location(r))
  PROVE  Pinned(r, i) # <<"+">>
<1> DEFINE pinned == PinnedValues(r.unit, r.credential)
<1>1. AreValues(pinned) /\ DOMAIN pinned \subseteq Placeholders
  <2>1. r.unit \in Text /\ r.credential \in Text
    BY DEF Rule, Segment
  <2>2. QED
    BY <2>1, PinnedAreValues
<1>2. \A p \in Texts(r) : <<"+">> \notin ToSet(Expand(pinned, p))
  BY DEF Valid, CheckLiteral, CheckPolicyWildcards
<1>3. Pinned(r, i) = ExpandSegment(pinned, Location(r)[i])
  BY DEF Pinned
<1> HIDE DEF pinned
<1>4. \/ Pinned(r, i) = <<"data">>
      \/ \E p \in Texts(r) : Pinned(r, i) \in ToSet(Expand(pinned, p))
  BY <1>1, <1>3, ExpandedSegments
<1>5. <<"data">> # <<"+">>
  OBVIOUS
<1>6. QED
  BY <1>2, <1>4, <1>5

\* Literal globs pin everything, and what they pin is all the request's.
LEMMA NamedSegment ==
  ASSUME NEW r \in Rule, Valid(r), NEW unit \in Text, NEW credential \in Text,
         MatchGlob(r.unit, unit), MatchGlob(r.credential, credential),
         Literal(r.unit), Literal(r.credential), NEW s \in Text
  PROVE  LET pinned == PinnedValues(r.unit, r.credential)
         IN  /\ ExpandSegment(pinned, s) = ExpandSegment(PlaceholderValues(unit, credential), s)
             /\ ~Free(ExpandSegment(pinned, s))
<1> DEFINE pinned == PinnedValues(r.unit, r.credential)
           values == PlaceholderValues(unit, credential)
<1>1. r.unit \in Text /\ r.credential \in Text
  BY DEF Rule, Segment
<1>2. r.unit = unit /\ r.credential = credential
  BY <1>1, LiteralMatchesItself
<1>3. DOMAIN pinned = Placeholders
  <2>1. \A p \in Placeholders : p \in DOMAIN PlaceholderValues(r.unit, r.credential)
    BY <1>1, RequestHasValues
  <2>2. \A p \in Placeholders : p \in DOMAIN pinned
    BY <2>1, Zenon DEF PinnedValues, Restrict
  <2>3. QED
    BY <1>1, <2>2, PinnedAreValues
<1>4. /\ AreValues(pinned) /\ DOMAIN values = Placeholders
      /\ \A p \in Placeholders : pinned[p] = values[p]
  BY <1>1, <1>2, <1>3, PinnedAreValues, RequestHasValues
<1>5. \A p \in Placeholders : ToSet(pinned[p]) \cap Placeholders = {}
  BY <1>3, PinnedHasNoPlaceholder
<1> HIDE DEF pinned, values
<1>6. \A i \in 1..Len(s) : Piece(pinned, s[i]) = Piece(values, s[i])
  BY <1>3, <1>4 DEF Piece
<1>7. ExpandSegment(pinned, s) = ExpandSegment(values, s)
  BY <1>6, ExpandSame
<1>8. \A t : ToSet(<<t>>) = {t}
  BY DEF ToSet
<1>9. \A i \in 1..Len(s) : ToSet(Piece(pinned, s[i])) \cap Placeholders = {}
  BY <1>3, <1>5, <1>8 DEF Piece
<1>10. ~Free(ExpandSegment(pinned, s))
  BY <1>4, <1>9, ExpandTokens DEF Free
<1>11. QED
  BY <1>7, <1>10 DEF pinned, values

\* A rule that names one unit and one credential is granted exactly what it
\* reads, and no wildcard (Credential.validate, policyPath).
THEOREM NamedReadsAreGrantedExactly == Spec => []NamedReadIsGrantedExactly
<1>1. IInv => NamedReadIsGrantedExactly
  <2>1. SUFFICES ASSUME IInv, plan.read # <<>>,
                        Literal(rules[plan.rule].unit), Literal(rules[plan.rule].credential)
                 PROVE  /\ \E g \in ToSet(policy) : g.path = plan.read
                        /\ CheckPolicyWildcards(plan.read)
    BY DEF NamedReadIsGrantedExactly
  <2>2. PICK r \in Rule, unit, credential \in Segment \ {<<>>} :
          /\ plan.rule \in 1..Len(rules) /\ rules[plan.rule] = r
          /\ Reads(r, unit, credential)
    BY <2>1, PlanReads
  <2> DEFINE pinned == PinnedValues(r.unit, r.credential)
             values == PlaceholderValues(unit, credential)
             location == Location(r)
             read == Expand(values, location)
             n == Len(location)
  <2>3. /\ Literal(r.unit) /\ Literal(r.credential) /\ Valid(r) /\ plan.read = read
        /\ MatchGlob(r.unit, unit) /\ MatchGlob(r.credential, credential)
        /\ unit \in Text /\ credential \in Text
    BY <2>1, <2>2 DEF Reads, Segment
  <2>4. AreValues(values) /\ AreValues(pinned) /\ location \in Path /\ r.path \in Path
    <3>1. r.unit \in Text /\ r.credential \in Text /\ r.path \in Path
      BY DEF Rule, Segment
    <3>2. QED
      BY <2>3, <3>1, RequestHasValues, PinnedAreValues, LocationIsPath
  <2>5. \A s \in Text : /\ ExpandSegment(pinned, s) = ExpandSegment(values, s)
                        /\ ~Free(ExpandSegment(pinned, s))
    BY <2>3, NamedSegment
  <2> HIDE DEF values, read
  <2>6. /\ read \in Seq(Text) /\ Len(read) = n /\ n \in Nat \ {0}
        /\ \A i \in 1..n : location[i] \in Text /\ read[i] = ExpandSegment(values, location[i])
    <3> HIDE DEF location
    <3>1. QED
      BY <2>4, ExpandIsPath DEF read, Segment
  <2>7. \A i \in 1..n : read[i] = Pinned(r, i) /\ ~Free(Pinned(r, i))
    BY <2>5, <2>6 DEF Pinned
  <2>8. \E g \in ToSet(policy) : g.path = read
    <3> DEFINE path == PolicyPath(r).path
    <3>1. /\ path \in Seq(Text) /\ Len(path) = n
          /\ \A i \in 1..n : path[i] = IF Free(Pinned(r, i)) THEN <<"+">> ELSE Pinned(r, i)
      BY PolicyPathIsGrant DEF GrantSet
    <3>2. PICK g \in ToSet(policy) : g.path = path
      BY <2>1, <2>2, RulesAreGranted
    <3> HIDE DEF path, n
    <3>3. \A i \in 1..n : path[i] = read[i]
      BY <2>7, <3>1
    <3>4. path = read
      BY <2>6, <3>1, <3>3, SeqEqual
    <3>5. QED
      BY <3>2, <3>4
  <2>9. <<"+">> \notin ToSet(read)
    BY <2>6, <2>7, <2>3, PinnedIsNoWildcard DEF ToSet
  <2>10. Last(Last(read)) # "*"
    <3> DEFINE m == Len(r.path)
               own == Expand(pinned, r.path)
    <3>1. /\ own \in Seq(Text) /\ Len(own) = m /\ m \in Nat \ {0}
          /\ \A i \in 1..m : r.path[i] \in Text /\ own[i] = ExpandSegment(pinned, r.path[i])
      <4> HIDE DEF pinned
      <4>1. QED
        BY <2>4, ExpandIsPath DEF Segment
    <3>2. location[n] = r.path[m]
      BY LocationIsPath DEF Last
    <3>3. n \in 1..n /\ m \in 1..m
      BY <2>6, <3>1
    <3>4. read[n] = own[m]
      BY <2>5, <2>6, <3>1, <3>2, <3>3
    <3>5. Last(Last(own)) # "*"
      <4>1. r.path \in Texts(r)
        BY DEF Texts
      <4>2. QED
        BY <2>3, <4>1 DEF Valid, CheckLiteral, CheckPolicyWildcards
    <3>6. Last(own) = own[m] /\ Last(read) = read[n]
      BY <2>6, <3>1 DEF Last
    <3>7. QED
      BY <3>4, <3>5, <3>6
  <2>11. QED
    BY <2>3, <2>8, <2>9, <2>10 DEF CheckPolicyWildcards
<1>2. QED
  BY <1>1, Invariant, PTL

\* A segment that stays free and is one token is one value of the request.
LEMMA LoneValue ==
  ASSUME NEW r \in Rule, Valid(r), NEW unit \in Text, NEW credential \in Text,
         MatchGlob(r.unit, unit), MatchGlob(r.credential, credential),
         ~CutsItsPrefix(r.unit), NEW s \in Text,
         Free(ExpandSegment(PinnedValues(r.unit, r.credential), s)),
         Len(ExpandSegment(PinnedValues(r.unit, r.credential), s)) <= 1
  PROVE  ExpandSegment(PlaceholderValues(unit, credential), s)
           \in Range(PlaceholderValues(unit, credential))
<1> DEFINE pinned == PinnedValues(r.unit, r.credential)
           values == PlaceholderValues(unit, credential)
           segment == ExpandSegment(pinned, s)
<1>1. r.unit \in Text /\ r.credential \in Text
  BY DEF Rule, Segment
<1>2. /\ AreValues(pinned) /\ AreValues(values)
      /\ DOMAIN pinned \subseteq Placeholders /\ DOMAIN values = Placeholders
  BY <1>1, PinnedAreValues, RequestHasValues
<1>3. \A p \in DOMAIN pinned : /\ pinned[p] = values[p]
                               /\ ToSet(pinned[p]) \cap Placeholders = {}
  <2>1. \A p \in DOMAIN pinned : pinned[p] = values[p]
    BY <1>1, PinnedIsReal
  <2>2. \A p \in DOMAIN pinned : ToSet(pinned[p]) \cap Placeholders = {}
    BY PinnedHasNoPlaceholder
  <2>3. QED
    BY <2>1, <2>2
<1> HIDE DEF pinned, values
<1>4. PICK t \in Placeholders : t \in ToSet(segment)
  BY DEF Free, pinned
<1>5. PICK x \in 1..Len(s) : t \in ToSet(Piece(pinned, s[x]))
  BY <1>2, <1>4, ExpandTokens
<1>6. s[x] \notin DOMAIN pinned /\ s[x] = t /\ Piece(pinned, s[x]) = <<t>>
  <2>1. s[x] \notin DOMAIN pinned
    BY <1>3, <1>4, <1>5 DEF Piece
  <2>2. Piece(pinned, s[x]) = <<s[x]>> /\ ToSet(<<s[x]>>) = {s[x]}
    BY <2>1 DEF Piece, ToSet
  <2>3. QED
    BY <1>5, <2>1, <2>2
<1>7. segment \in Text /\ Len(segment) = 1
  <2>1. segment \in Text
    BY <1>2, ExpandTokens
  <2> HIDE DEF segment
  <2>2. segment # <<>>
    BY <1>4 DEF ToSet
  <2>3. PICK l \in Nat : l = Len(segment)
    BY <2>1 DEF Text
  <2>4. l # 0 /\ l <= 1
    <3>1. Len(segment) # 0
      BY <2>1, <2>2, EmptySeq DEF Text
    <3>2. Len(segment) <= 1
      BY DEF segment, pinned
    <3>3. QED
      BY <2>3, <3>1, <3>2
  <2>5. l = 1
    BY <2>4
  <2>6. QED
    BY <2>1, <2>3, <2>5
<1>8. \A i \in 1..Len(s) : Piece(pinned, s[i]) = <<>> => Piece(values, s[i]) = <<>>
  <2>1. \A y : <<y>> # <<>>
    OBVIOUS
  <2>2. QED
    BY <1>2, <1>3, <2>1 DEF Piece
<1>9. Piece(pinned, s[x]) # <<>>
  BY <1>6
<1>10. ExpandSegment(values, s) = Piece(values, s[x])
  BY <1>2, <1>7, <1>8, <1>9, ExpandLone
<1>11. Piece(values, s[x]) = values[t] /\ t \in DOMAIN values
  BY <1>2, <1>4, <1>6 DEF Piece
<1>12. ExpandSegment(values, s) \in Range(values)
  BY <1>10, <1>11 DEF Range
<1>13. QED
  BY <1>12 DEF values

\* A segment that is not one value of the request is granted as it is, or by a
\* grant that is marked, even when another rule was granted that path first
\* (Grants).
THEOREM WideningsAreMarked == Spec => []WideningIsMarked
<1>1. IInv => WideningIsMarked
  <2>1. SUFFICES ASSUME IInv, plan.read # <<>>, ~CutsItsPrefix(rules[plan.rule].unit),
                        NEW i \in DOMAIN plan.read
                 PROVE  \/ plan.read[i] \in Range(PlaceholderValues(plan.unit, plan.credential))
                        \/ \E g \in Granting(plan.read) : g.path[i] # <<"+">> \/ g.widened
    BY DEF WideningIsMarked
  <2>2. PICK r \in Rule, unit, credential \in Segment \ {<<>>} :
          /\ plan.rule \in 1..Len(rules) /\ rules[plan.rule] = r
          /\ plan.unit = unit /\ plan.credential = credential
          /\ Reads(r, unit, credential)
    BY <2>1, PlanReads
  <2> DEFINE pinned == PinnedValues(r.unit, r.credential)
             values == PlaceholderValues(unit, credential)
             location == Location(r)
             read == Expand(values, location)
             n == Len(location)
  <2>3. /\ ~CutsItsPrefix(r.unit) /\ Valid(r) /\ plan.read = read
        /\ MatchGlob(r.unit, unit) /\ MatchGlob(r.credential, credential)
        /\ unit \in Text /\ credential \in Text
    BY <2>1, <2>2 DEF Reads, Segment
  <2>4. AreValues(values) /\ location \in Path
    BY <2>3, RequestHasValues, LocationIsPath
  <2>5. Covers(PolicyPath(r).path, read)
    BY <2>3, RuleCoversRead
  <2>6. PICK g \in ToSet(policy) : /\ g.path = PolicyPath(r).path
                                   /\ PolicyPath(r).widened => g.widened
    BY <2>1, <2>2, RulesAreGranted
  <2> HIDE DEF values, read
  <2>7. g \in Granting(plan.read)
    BY <2>3, <2>5, <2>6 DEF Granting
  <2>8. i \in 1..n /\ location[i] \in Text /\ read[i] = ExpandSegment(values, location[i])
    <3> HIDE DEF location
    <3>1. /\ read \in Seq(Text) /\ Len(read) = n
          /\ \A j \in 1..n :
               location[j] \in Segment /\ read[j] = ExpandSegment(values, location[j])
      BY <2>4, ExpandIsPath DEF read
    <3>2. i \in 1..n
      BY <2>1, <2>3, <3>1
    <3>3. QED
      BY <3>1, <3>2 DEF Segment
  <2>9. /\ g.path[i] = IF Free(Pinned(r, i)) THEN <<"+">> ELSE Pinned(r, i)
        /\ Free(Pinned(r, i)) /\ Len(Pinned(r, i)) > 1 => g.widened
    BY <2>6, <2>8, PolicyPathIsGrant
  <2>10. CASE ~Free(Pinned(r, i))
    <3>1. Pinned(r, i) # <<"+">>
      BY <2>3, <2>8, PinnedIsNoWildcard
    <3>2. QED
      BY <2>7, <2>9, <2>10, <3>1
  <2>11. CASE Free(Pinned(r, i)) /\ Len(Pinned(r, i)) > 1
    BY <2>7, <2>9, <2>11
  <2>12. CASE Free(Pinned(r, i)) /\ Len(Pinned(r, i)) <= 1
    <3>1. Pinned(r, i) = ExpandSegment(pinned, location[i])
      BY DEF Pinned
    <3>2. ExpandSegment(values, location[i]) \in Range(values)
      BY <2>3, <2>8, <2>12, <3>1, LoneValue DEF values
    <3>3. QED
      BY <2>2, <2>3, <2>8, <3>2 DEF values
  <2>13. Len(Pinned(r, i)) \in Nat
    <3>1. AreValues(pinned)
      <4>1. r.unit \in Text /\ r.credential \in Text
        BY DEF Rule, Segment
      <4>2. QED
        BY <4>1, PinnedAreValues
    <3>2. Pinned(r, i) \in Text
      BY <2>8, <3>1, ExpandTokens DEF Pinned
    <3>3. QED
      BY <3>2 DEF Text
  <2>14. QED
    BY <2>10, <2>11, <2>12, <2>13
<1>2. QED
  BY <1>1, Invariant, PTL

=============================================================================
