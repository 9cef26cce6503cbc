---------------------------- MODULE SessionProofs ----------------------------
(***************************************************************************)
(* Proofs about Session: its bytes move as Stream says; a URL that is      *)
(* printed for a room is read as it was meant; and what a message means    *)
(* survives being decoded and encoded again.  All this for any tokens URLs *)
(* are made of, and whatever paths, bodies and states there are.           *)
(***************************************************************************)
EXTENDS Session, StreamProofs, WellFoundedInduction

\* Every step of a session is a step of its stream, or leaves the bytes alone:
\* it sends nothing a stream would not carry.
THEOREM ImplementsStream == Session => Spec
<1>1. SessionInit => Init
  BY DEF SessionInit
<1>2. [SessionNext]_sessionVars => [Next]_streamVars
  <2> SUFFICES ASSUME [SessionNext]_sessionVars PROVE [Next]_streamVars
    OBVIOUS
  <2> USE StreamAssumption DEF StreamAssumption
  <2>1. CASE Validate
    <3>1. PICK size \in 1 .. MaxStream, n \in NameLens : Start(size, n)
      BY <2>1 DEF Validate
    <3> QED  BY <3>1 DEF Next
  <2>2. CASE Enter
    BY <2>2 DEF Enter, Next, Reader
  <2>3. CASE Refuse
    BY <2>3 DEF Refuse
  <2>4. CASE SendObject
    <3>1. PICK size \in 1 .. MaxStream, n \in NameLens : Start(size, n)
      BY <2>4 DEF SendObject
    <3> QED  BY <3>1 DEF Next
  <2>5. CASE SendNothing
    <3>1. PICK n \in NameLens : Start(0, n)
      BY <2>5 DEF SendNothing
    <3> QED  BY <3>1 DEF Next
  <2>6. CASE Receive
    BY <2>6 DEF Receive
  <2>7. CASE \/ Carry(Cut) \/ Carry(Beat) \/ Carry(Arrive)
             \/ Carry(ReadHeader) \/ Carry(ReadBody) \/ Carry(DecodeBasic)
    BY <2>7 DEF Carry, Next, Reader
  <2>8. CASE UNCHANGED sessionVars
    BY <2>8 DEF sessionVars
  <2> QED  BY <2>1, <2>2, <2>3, <2>4, <2>5, <2>6, <2>7, <2>8 DEF SessionNext
<1> QED  BY <1>1, <1>2, PTL DEF Session, Spec

\* The reader of a session finds every frame, whatever is said in them.
THEOREM SessionIntact == Session => [](StreamInv /\ StreamIntact)
BY ImplementsStream, Inductive, NothingIsLost, PTL

-----------------------------------------------------------------------------
(* Least numbers, and what find() finds *)

\* The order of the naturals is well-founded: a set of them has a least.
LEMMA LeastNumber ==
    ASSUME NEW S, S \subseteq Nat, S # {}
    PROVE  \E n \in S : \A m \in S : n <= m
<1> DEFINE R == {ss \in Nat \X Nat : ss[1] < ss[2]}
<1>1. IsWellFoundedOn(R, Nat)
  BY NatLessThanWellFounded DEF OpToRel
<1>2. \A x, y \in Nat : <<y, x>> \in R <=> y < x
  <2> SUFFICES ASSUME NEW x \in Nat, NEW y \in Nat PROVE <<y, x>> \in R <=> y < x
    OBVIOUS
  <2>1. <<y, x>> \in Nat \X Nat /\ <<y, x>>[1] = y /\ <<y, x>>[2] = x
    OBVIOUS
  <2> QED  BY <2>1
<1> HIDE DEF R
<1>3. PICK x \in S : \A y \in S : ~(<<y, x>> \in R)
  BY <1>1, WFMin
<1>4. \A y \in S : x \in Nat /\ y \in Nat /\ ~(y < x)
  BY <1>2, <1>3
<1>5. \A y \in S : x <= y
  BY <1>4
<1> QED  BY <1>3, <1>5

LEMMA FirstIs ==
    ASSUME NEW S, S \subseteq Nat, S # {}
    PROVE  First(S) \in S /\ \A j \in S : First(S) <= j
  BY LeastNumber DEF First

LEMMA FindFirst ==
    ASSUME NEW text \in Seq(Tokens), NEW marks
    PROVE  /\ Find(text, marks) = 0 <=> Places(text, marks) = {}
           /\ Find(text, marks) # 0 =>
                 /\ Find(text, marks) \in 1 .. Len(text)
                 /\ text[Find(text, marks)] \in marks
                 /\ \A j \in 1 .. Find(text, marks) - 1 : text[j] \notin marks
<1> DEFINE at == Places(text, marks)
<1>1. at = {i \in 1 .. Len(text) : text[i] \in marks} /\ Len(text) \in Nat
  BY DEF Places
<1>2. CASE at = {}
  BY <1>2 DEF Find
<1>3. CASE at # {}
  <2>1. at \subseteq Nat
    BY <1>1
  <2>2. First(at) \in at /\ \A j \in at : First(at) <= j
    <3> HIDE DEF at
    <3> QED  BY <1>3, <2>1, FirstIs
  <2>3. Find(text, marks) = First(at)
    BY <1>3 DEF Find
  <2> DEFINE k == First(at)
  <2> HIDE DEF k
  <2>4. k \in 1 .. Len(text) /\ text[k] \in marks /\ \A j \in at : k <= j
    BY <1>1, <2>2 DEF k
  <2>5. \A j \in 1 .. k - 1 : text[j] \notin marks
    <3> SUFFICES ASSUME NEW j \in 1 .. k - 1, text[j] \in marks PROVE FALSE
      OBVIOUS
    <3>1. j \in 1 .. Len(text) /\ ~(k <= j)
      BY <1>1, <2>4
    <3> QED  BY <1>1, <2>4, <3>1
  <2>6. k # 0
    BY <1>1, <2>4
  <2> QED  BY <1>3, <2>3, <2>4, <2>5, <2>6 DEF k
<1> QED  BY <1>2, <1>3

LEMMA FindIs ==
    ASSUME NEW text \in Seq(Tokens), NEW marks, NEW i \in 1 .. Len(text),
           text[i] \in marks, \A j \in 1 .. i - 1 : text[j] \notin marks
    PROVE  Find(text, marks) = i
<1> DEFINE k == Find(text, marks)
<1>1. Places(text, marks) # {}
  BY DEF Places
<1>2. /\ k \in 1 .. Len(text) /\ text[k] \in marks
      /\ \A j \in 1 .. k - 1 : text[j] \notin marks
  BY <1>1, FindFirst
<1> HIDE DEF k
<1>3. ~(k < i) /\ ~(i < k)
  BY <1>2
<1>4. k = i
  BY <1>2, <1>3
<1> QED  BY <1>4 DEF k

LEMMA RFindIs ==
    ASSUME NEW text \in Seq(Tokens), NEW marks, NEW i \in 1 .. Len(text),
           text[i] \in marks, \A j \in i + 1 .. Len(text) : text[j] \notin marks
    PROVE  RFind(text, marks) = i
<1> DEFINE at == Places(text, marks)
<1>1. at = {j \in 1 .. Len(text) : text[j] \in marks} /\ Len(text) \in Nat
  BY DEF Places
<1>2. i \in at /\ \A j \in at : j <= i
  BY <1>1
<1>3. \A k \in at : (\A j \in at : j <= k) => k = i
  <2> SUFFICES ASSUME NEW k \in at, \A j \in at : j <= k PROVE k = i
    OBVIOUS
  <2>1. i <= k /\ k <= i /\ i \in Nat /\ k \in Nat
    BY <1>1, <1>2
  <2> QED  BY <2>1
<1> HIDE DEF at
<1>4. Last(at) = i
  BY <1>2, <1>3 DEF Last
<1> QED  BY <1>2, <1>4 DEF RFind, at

-----------------------------------------------------------------------------
(* A text of three parts *)

LEMMA Joined ==
    ASSUME NEW S, NEW a \in Seq(S), NEW b \in Seq(S)
    PROVE  /\ a \o b \in Seq(S) /\ Len(a \o b) = Len(a) + Len(b)
           /\ \A j \in 1 .. Len(a) : (a \o b)[j] = a[j]
           /\ \A j \in 1 .. Len(b) : (a \o b)[Len(a) + j] = b[j]
<1> DEFINE t == a \o b
<1>1. /\ t \in Seq(S) /\ Len(t) = Len(a) + Len(b)
      /\ \A j \in 1 .. Len(a) + Len(b) : t[j] = IF j <= Len(a) THEN a[j] ELSE b[j - Len(a)]
  BY ConcatProperties
<1>2. Len(a) \in Nat /\ Len(b) \in Nat
  OBVIOUS
<1> HIDE DEF t
<1>3. \A j \in 1 .. Len(a) : t[j] = a[j]
  BY <1>1, <1>2
<1>4. ASSUME NEW j \in 1 .. Len(b)
      PROVE  t[Len(a) + j] = b[j]
  <2> DEFINE k == Len(a) + j
  <2>1. k \in 1 .. Len(a) + Len(b) /\ ~(k <= Len(a)) /\ k - Len(a) = j
    BY <1>2
  <2> HIDE DEF k
  <2>2. t[k] = b[k - Len(a)]
    BY <1>1, <2>1
  <2> QED  BY <2>1, <2>2 DEF k
<1> QED  BY <1>1, <1>3, <1>4 DEF t

LEMMA BeforeIs ==
    ASSUME NEW t \in Seq(Tokens), NEW i \in 1 .. Len(t) + 1
    PROVE  /\ Before(t, i) \in Seq(Tokens) /\ Len(Before(t, i)) = i - 1
           /\ \A j \in 1 .. i - 1 : Before(t, i)[j] = t[j]
<1> DEFINE r == SubSeq(t, 1, i - 1)
<1>1. 1 \in Int /\ i - 1 \in Int /\ i - 1 >= 0 /\ \A j \in 1 .. i - 1 : t[j] \in Tokens
  OBVIOUS
<1>2. /\ r \in Seq(Tokens) /\ Len(r) = (IF 1 <= i - 1 THEN i - 1 - 1 + 1 ELSE 0)
      /\ \A j \in 1 .. i - 1 - 1 + 1 : r[j] = t[1 + j - 1]
  <2> DEFINE k == i - 1
  <2> HIDE DEF k
  <2>1. 1 \in Int /\ k \in Int /\ \A j \in 1 .. k : t[j] \in Tokens
    BY <1>1 DEF k
  <2>2. /\ SubSeq(t, 1, k) \in Seq(Tokens)
        /\ Len(SubSeq(t, 1, k)) = (IF 1 <= k THEN k - 1 + 1 ELSE 0)
        /\ \A j \in 1 .. k - 1 + 1 : SubSeq(t, 1, k)[j] = t[1 + j - 1]
    BY <2>1, SubSeqProperties
  <2> QED  BY <2>2 DEF k
<1>3. Len(r) = i - 1 /\ \A j \in 1 .. i - 1 : r[j] = t[j]
  <2> HIDE DEF r
  <2> QED  BY <1>1, <1>2
<1> QED  BY <1>2, <1>3 DEF Before

LEMMA BeyondIs ==
    ASSUME NEW t \in Seq(Tokens), NEW i \in 0 .. Len(t)
    PROVE  /\ Beyond(t, i) \in Seq(Tokens) /\ Len(Beyond(t, i)) = Len(t) - i
           /\ \A j \in 1 .. Len(t) - i : Beyond(t, i)[j] = t[i + j]
<1> DEFINE n == Len(t)
           r == SubSeq(t, i + 1, n)
<1>1. n \in Nat /\ i + 1 \in Int /\ n \in Int /\ \A j \in i + 1 .. n : t[j] \in Tokens
  OBVIOUS
<1>2. /\ r \in Seq(Tokens) /\ Len(r) = (IF i + 1 <= n THEN n - (i + 1) + 1 ELSE 0)
      /\ \A j \in 1 .. n - (i + 1) + 1 : r[j] = t[i + 1 + j - 1]
  <2> DEFINE k == i + 1
  <2> HIDE DEF k, n
  <2>1. k \in Int /\ n \in Int /\ \A j \in k .. n : t[j] \in Tokens
    BY <1>1 DEF k
  <2>2. /\ SubSeq(t, k, n) \in Seq(Tokens)
        /\ Len(SubSeq(t, k, n)) = (IF k <= n THEN n - k + 1 ELSE 0)
        /\ \A j \in 1 .. n - k + 1 : SubSeq(t, k, n)[j] = t[k + j - 1]
    BY <2>1, SubSeqProperties
  <2> QED  BY <2>2 DEF k
<1>3. Len(r) = n - i /\ \A j \in 1 .. n - i : r[j] = t[i + j]
  <2>1. i \in Int /\ i <= n
    OBVIOUS
  <2> HIDE DEF r, n
  <2>2. n - (i + 1) + 1 = n - i
    BY <1>1, <2>1
  <2>3. \A j \in 1 .. n - i : i + 1 + j - 1 = i + j
    BY <1>1, <2>1
  <2> QED  BY <1>1, <1>2, <2>1, <2>2, <2>3
<1> QED  BY <1>2, <1>3 DEF Beyond

LEMMA OneToken ==
    ASSUME NEW S, NEW m \in S
    PROVE  <<m>> \in Seq(S) /\ Len(<<m>>) = 1 /\ <<m>>[1] = m
  OBVIOUS

\* A sequence of one token.
One(s, m) == s \in Seq(Tokens) /\ Len(s) = 1 /\ s[1] = m

LEMMA OneIs ==
    ASSUME NEW m \in Tokens
    PROVE  One(<<m>>, m)
  BY OneToken DEF One

\* What stands before the token m of t is a, and what stands behind it is b.
Parts(t, a, m, b) ==
    LET i == Len(a) + 1
    IN  /\ t \in Seq(Tokens) /\ Len(t) = i + Len(b) /\ t[i] = m
        /\ \A j \in 1 .. Len(a) : t[j] = a[j]
        /\ \A j \in 1 .. Len(b) : t[i + j] = b[j]
        /\ Before(t, i) = a /\ Beyond(t, i) = b

LEMMA Parted ==
    ASSUME NEW a \in Seq(Tokens), NEW m, NEW one, One(one, m), NEW b \in Seq(Tokens),
           NEW t, t = a \o one \o b
    PROVE  Parts(t, a, m, b)
<1> DEFINE h == a \o one
           i == Len(a) + 1
<1>0. t = h \o b
  OBVIOUS
<1>1. one \in Seq(Tokens) /\ Len(one) = 1 /\ one[1] = m
  BY DEF One
<1>2. Len(a) \in Nat /\ Len(b) \in Nat
  OBVIOUS
<1>3. /\ h \in Seq(Tokens) /\ Len(h) = Len(a) + Len(one)
      /\ \A j \in 1 .. Len(a) : h[j] = a[j]
      /\ \A j \in 1 .. Len(one) : h[Len(a) + j] = one[j]
  <2>1. one \in Seq(Tokens)
    BY <1>1
  <2> QED  BY <2>1, Joined
<1>4. Len(h) = i /\ h[i] = m
  <2>1. 1 \in 1 .. Len(one)
    BY <1>1
  <2> QED  BY <1>1, <1>3, <2>1
<1> HIDE DEF h
<1>5. /\ t \in Seq(Tokens) /\ Len(t) = Len(h) + Len(b)
      /\ \A j \in 1 .. Len(h) : t[j] = h[j]
      /\ \A j \in 1 .. Len(b) : t[Len(h) + j] = b[j]
  <2>1. h \in Seq(Tokens)
    BY <1>3
  <2>2. /\ h \o b \in Seq(Tokens) /\ Len(h \o b) = Len(h) + Len(b)
        /\ \A j \in 1 .. Len(h) : (h \o b)[j] = h[j]
        /\ \A j \in 1 .. Len(b) : (h \o b)[Len(h) + j] = b[j]
    BY <2>1, Joined
  <2> QED  BY <1>0, <2>2
<1>6. /\ Len(t) = i + Len(b) /\ t[i] = m
      /\ \A j \in 1 .. Len(a) : t[j] = a[j]
  <2>1. i \in 1 .. Len(h) /\ 1 .. Len(a) \subseteq 1 .. Len(h)
    BY <1>2, <1>4
  <2> QED  BY <1>3, <1>4, <1>5, <2>1
<1>7. \A j \in 1 .. Len(b) : t[i + j] = b[j]
  BY <1>4, <1>5
<1>8. Before(t, i) = a
  <2>1. i \in 1 .. Len(t) + 1 /\ i - 1 = Len(a)
    BY <1>2, <1>6
  <2>2. /\ Before(t, i) \in Seq(Tokens) /\ Len(Before(t, i)) = i - 1
        /\ \A j \in 1 .. i - 1 : Before(t, i)[j] = t[j]
    BY <1>5, <2>1, BeforeIs
  <2>3. Len(Before(t, i)) = Len(a) /\ \A j \in 1 .. Len(a) : Before(t, i)[j] = a[j]
    BY <1>6, <2>1, <2>2
  <2> QED  BY <2>2, <2>3, SeqEqual
<1>9. Beyond(t, i) = b
  <2>1. i \in 0 .. Len(t) /\ Len(t) - i = Len(b)
    BY <1>2, <1>6
  <2>2. /\ Beyond(t, i) \in Seq(Tokens) /\ Len(Beyond(t, i)) = Len(t) - i
        /\ \A j \in 1 .. Len(t) - i : Beyond(t, i)[j] = t[i + j]
    BY <1>5, <2>1, BeyondIs
  <2>3. Len(Beyond(t, i)) = Len(b) /\ \A j \in 1 .. Len(b) : Beyond(t, i)[j] = b[j]
    BY <1>7, <2>1, <2>2
  <2> QED  BY <2>2, <2>3, SeqEqual
<1> QED  BY <1>5, <1>6, <1>7, <1>8, <1>9 DEF h, Parts

LEMMA FindParted ==
    ASSUME NEW a \in Seq(Tokens), NEW m, NEW b \in Seq(Tokens),
           NEW t, Parts(t, a, m, b), NEW marks, m \in marks, Places(a, marks) = {}
    PROVE  /\ Find(t, marks) = Len(a) + 1
           /\ StopAt(t, marks) = a
<1> DEFINE i == Len(a) + 1
<1>1. /\ t \in Seq(Tokens) /\ Len(t) = i + Len(b) /\ t[i] = m /\ Before(t, i) = a
      /\ \A j \in 1 .. Len(a) : t[j] = a[j]
  BY DEF Parts
<1>2. Len(a) \in Nat /\ Len(b) \in Nat /\ \A j \in 1 .. Len(a) : a[j] \notin marks
  BY DEF Places
<1>3. i \in 1 .. Len(t) /\ \A j \in 1 .. i - 1 : t[j] \notin marks
  BY <1>1, <1>2
<1>4. Find(t, marks) = i
  BY <1>1, <1>3, FindIs
<1>5. StopAt(t, marks) = a
  BY <1>1, <1>2, <1>4 DEF StopAt
<1> QED  BY <1>4, <1>5

LEMMA RFindParted ==
    ASSUME NEW a \in Seq(Tokens), NEW m, NEW b \in Seq(Tokens),
           NEW t, Parts(t, a, m, b), NEW marks, m \in marks, Places(b, marks) = {}
    PROVE  RFind(t, marks) = Len(a) + 1
<1> DEFINE i == Len(a) + 1
<1>1. /\ t \in Seq(Tokens) /\ Len(t) = i + Len(b) /\ t[i] = m
      /\ \A j \in 1 .. Len(a) : t[j] = a[j]
      /\ \A j \in 1 .. Len(b) : t[i + j] = b[j]
      /\ Before(t, i) = a /\ Beyond(t, i) = b
  BY DEF Parts
<1>2. Len(a) \in Nat /\ Len(b) \in Nat /\ \A j \in 1 .. Len(b) : b[j] \notin marks
  BY DEF Places
<1>3. \A j \in i + 1 .. Len(t) : t[j] \notin marks
  <2> SUFFICES ASSUME NEW j \in i + 1 .. Len(t) PROVE t[j] \notin marks
    OBVIOUS
  <2>1. j - i \in 1 .. Len(b) /\ i + (j - i) = j
    BY <1>1, <1>2
  <2> QED  BY <1>1, <1>2, <2>1
<1>4. i \in 1 .. Len(t)
  BY <1>1, <1>2
<1>5. RFind(t, marks) = i
  BY <1>1, <1>3, <1>4, RFindIs
<1> QED  BY <1>5

LEMMA StopAtNone ==
    ASSUME NEW text \in Seq(Tokens), NEW marks
    PROVE  /\ Places(text, marks) = {} => StopAt(text, marks) = text
           /\ StopAt(text, marks) \in Seq(Tokens)
           /\ Places(StopAt(text, marks), marks) = {}
<1> DEFINE k == Find(text, marks)
<1>1. CASE k = 0
  BY <1>1, FindFirst DEF StopAt
<1>2. CASE k # 0
  <2>1. /\ k \in 1 .. Len(text) /\ \A j \in 1 .. k - 1 : text[j] \notin marks
        /\ Places(text, marks) # {}
    BY <1>2, FindFirst
  <2> DEFINE s == SubSeq(text, 1, k - 1)
  <2>2. StopAt(text, marks) = s
    BY <1>2 DEF StopAt, Before
  <2>3. /\ s \in Seq(Tokens) /\ Len(s) = (IF 1 <= k - 1 THEN k - 1 - 1 + 1 ELSE 0)
        /\ \A j \in 1 .. k - 1 - 1 + 1 : s[j] = text[1 + j - 1]
    <3>1. 1 \in Int /\ k - 1 \in Int /\ \A j \in 1 .. k - 1 : text[j] \in Tokens
      BY <2>1
    <3> HIDE DEF k
    <3> QED  BY <3>1, SubSeqProperties
  <2> HIDE DEF s, k
  <2>4. Places(s, marks) = {}
    <3>1. DOMAIN s = 1 .. Len(s) /\ k \in Nat \ {0}
      BY <2>1, <2>3
    <3>2. Len(s) = k - 1
      BY <2>3, <3>1
    <3>3. \A j \in DOMAIN s : s[j] = text[j] /\ j \in 1 .. k - 1
      BY <2>3, <3>1, <3>2
    <3> QED  BY <2>1, <3>3 DEF Places
  <2> QED  BY <2>1, <2>2, <2>3, <2>4
<1> QED  BY <1>1, <1>2

-----------------------------------------------------------------------------
(* The URL that is printed *)

Begins(t, a) == Len(a) <= Len(t) /\ \A j \in 1 .. Len(a) : t[j] = a[j]

LEMMA BeginsJoined ==
    ASSUME NEW a \in Seq(Tokens), NEW t \in Seq(Tokens), NEW b \in Seq(Tokens),
           Begins(t, a)
    PROVE  Begins(t \o b, a)
<1> DEFINE r == t \o b
<1>1. Len(r) = Len(t) + Len(b) /\ \A j \in 1 .. Len(t) : r[j] = t[j]
  BY Joined
<1>2. Len(t) \in Nat /\ Len(b) \in Nat /\ Len(a) \in Nat
  OBVIOUS
<1>3. Len(a) <= Len(t) /\ \A j \in 1 .. Len(a) : t[j] = a[j]
  BY DEF Begins
<1> HIDE DEF r
<1>4. Len(a) <= Len(r) /\ \A j \in 1 .. Len(a) : r[j] = a[j]
  BY <1>1, <1>2, <1>3
<1> QED  BY <1>4 DEF Begins, r

LEMMA MarksAreTokens ==
    /\ "fernq" \in Tokens /\ ":" \in Tokens /\ Pass \in Tokens
    /\ "/" \in Tokens /\ "#" \in Tokens /\ "?" \in Tokens
  BY UrlAssumption DEF UrlAssumption

LEMMA PrefixIs ==
    /\ Prefix \in Seq(Tokens) /\ Len(Prefix) = 4
    /\ \A mark \in {"?", "#"} : Places(Prefix, {mark}) = {}
<1>1. Prefix \in Seq(Tokens) /\ Len(Prefix) = 4
  BY MarksAreTokens DEF Prefix
<1>2. Prefix[1] = "fernq" /\ Prefix[2] = ":" /\ Prefix[3] = "/" /\ Prefix[4] = "/"
  BY DEF Prefix
<1>3. \A j \in DOMAIN Prefix : Prefix[j] \notin {"?", "#"}
  <2> SUFFICES ASSUME NEW j \in 1 .. 4 PROVE Prefix[j] \notin {"?", "#"}
    BY <1>1
  <2>1. j = 1 \/ j = 2 \/ j = 3 \/ j = 4
    OBVIOUS
  <2> QED  BY <1>2, <2>1
<1> QED  BY <1>1, <1>3 DEF Places

\* A text starts with what it begins with.
LEMMA StartsIs ==
    ASSUME NEW t \in Seq(Tokens), NEW a \in Seq(Tokens), Begins(t, a)
    PROVE  StartsWith(t, a)
<1> DEFINE n == Len(a)
           r == SubSeq(t, 1, n)
<1>1. n \in Nat /\ Len(t) \in Nat /\ n <= Len(t) /\ \A j \in 1 .. n : t[j] = a[j]
  BY DEF Begins
<1>2. /\ r \in Seq(Tokens) /\ Len(r) = (IF 1 <= n THEN n - 1 + 1 ELSE 0)
      /\ \A j \in 1 .. n - 1 + 1 : r[j] = t[1 + j - 1]
  <2>1. 1 \in Int /\ n \in Int /\ \A j \in 1 .. n : t[j] \in Tokens
    BY <1>1
  <2> HIDE DEF n
  <2> QED  BY <2>1, SubSeqProperties
<1> HIDE DEF r
<1>3. Len(r) = Len(a) /\ \A j \in 1 .. Len(a) : r[j] = a[j]
  BY <1>1, <1>2
<1>4. r = a
  BY <1>2, <1>3, SeqEqual
<1> QED  BY <1>1, <1>4 DEF StartsWith, r

\* Its parts: what stands before the first "?" and behind it, before the first
\* "#" of that and behind it, before the last "/" of that and behind it.
LEMMA PrintedParts ==
    ASSUME NEW addr \in Seq(Tokens), NEW u \in Tokens,
           NEW name \in Seq(Tokens), NEW password \in Seq(Tokens)
    PROVE  LET front == Prefix \o addr
               path  == front \o <<"/">> \o <<u>>
               base  == path \o <<"#">> \o name
               query == <<Pass>> \o password
               text  == Printed(addr, u, name, password)
           IN  /\ front \in Seq(Tokens) /\ <<u>> \in Seq(Tokens)
               /\ path \in Seq(Tokens) /\ base \in Seq(Tokens) /\ query \in Seq(Tokens)
               /\ text = base \o <<"?">> \o query /\ text \in Seq(Tokens)
               /\ Begins(text, front \o <<"/">>) /\ Begins(text, Prefix)
<1> DEFINE front == Prefix \o addr
           start == front \o <<"/">>
           path  == start \o <<u>>
           most  == path \o <<"#">>
           base  == most \o name
           whole == base \o <<"?">>
           query == <<Pass>> \o password
           text  == Printed(addr, u, name, password)
<1>1. /\ Prefix \in Seq(Tokens) /\ <<Pass>> \in Seq(Tokens) /\ <<u>> \in Seq(Tokens)
      /\ <<"/">> \in Seq(Tokens) /\ <<"#">> \in Seq(Tokens) /\ <<"?">> \in Seq(Tokens)
  BY MarksAreTokens, PrefixIs, OneToken
<1>2. front \in Seq(Tokens) /\ query \in Seq(Tokens)
  BY <1>1, Joined
<1>3. start \in Seq(Tokens)
  BY <1>1, <1>2, Joined
<1>4. path \in Seq(Tokens)
  BY <1>1, <1>3, Joined
<1>5. most \in Seq(Tokens)
  BY <1>1, <1>4, Joined
<1>6. base \in Seq(Tokens)
  BY <1>5, Joined
<1>7. whole \in Seq(Tokens)
  BY <1>1, <1>6, Joined
<1>8. text = whole \o query
  BY DEF Printed
<1>9. text \in Seq(Tokens)
  BY <1>2, <1>7, <1>8, Joined
<1>10. Begins(text, start) /\ Begins(text, Prefix)
  <2> SUFFICES ASSUME NEW a, a = start \/ a = Prefix PROVE Begins(text, a)
    OBVIOUS
  <2>1. a \in Seq(Tokens) /\ Begins(start, a)
    <3> HIDE DEF start
    <3>1. Begins(start, start)
      BY <1>3 DEF Begins
    <3>2. Begins(Prefix, Prefix) /\ start = front \o <<"/">> /\ front = Prefix \o addr
      BY <1>1 DEF Begins, start
    <3> HIDE DEF front
    <3>3. Begins(front, Prefix)
      BY <1>1, <3>2, BeginsJoined
    <3>4. Begins(start, Prefix)
      BY <1>1, <1>2, <3>2, <3>3, BeginsJoined
    <3> QED  BY <1>1, <1>3, <3>1, <3>4
  <2> HIDE DEF start
  <2>2. Begins(path, a)
    BY <1>1, <1>3, <2>1, BeginsJoined
  <2> HIDE DEF path
  <2>3. Begins(most, a)
    BY <1>1, <1>4, <2>1, <2>2, BeginsJoined
  <2> HIDE DEF most
  <2>4. Begins(base, a)
    BY <1>5, <2>1, <2>3, BeginsJoined
  <2> HIDE DEF base
  <2>5. Begins(whole, a)
    BY <1>1, <1>6, <2>1, <2>4, BeginsJoined
  <2> HIDE DEF whole, text, query
  <2>6. Begins(whole \o query, a)
    BY <1>2, <1>7, <2>1, <2>5, BeginsJoined
  <2> QED  BY <1>8, <2>6
<1> QED  BY <1>1, <1>2, <1>4, <1>6, <1>8, <1>9, <1>10

LEMMA BehindPrefix ==
    ASSUME NEW a \in Seq(Tokens), NEW b \in Seq(Tokens), Len(a) = 4
    PROVE  Len(a \o b) = Len(b) + 4 /\ \A j \in 1 .. Len(b) : (a \o b)[4 + j] = b[j]
<1> DEFINE t == a \o b
<1>1. /\ t \in Seq(Tokens) /\ Len(t) = Len(a) + Len(b)
      /\ \A j \in 1 .. Len(a) + Len(b) : t[j] = IF j <= Len(a) THEN a[j] ELSE b[j - Len(a)]
  BY ConcatProperties
<1>2. Len(b) \in Nat
  OBVIOUS
<1> HIDE DEF t
<1>3. \A j \in 1 .. Len(b) : t[4 + j] = b[j]
  <2> SUFFICES ASSUME NEW j \in 1 .. Len(b) PROVE t[4 + j] = b[j]
    OBVIOUS
  <2>1. 4 + j \in 1 .. 4 + Len(b) /\ ~(4 + j <= 4) /\ (4 + j) - 4 = j
    BY <1>2
  <2> QED  BY <1>1, <2>1
<1>4. Len(t) = Len(b) + 4
  BY <1>1, <1>2
<1> QED  BY <1>3, <1>4 DEF t

\* The client finds the address of a URL that is printed.
LEMMA PrintedAddress ==
    ASSUME NEW addr \in Seq(Tokens), Places(addr, {"/", "?", "#"}) = {}, NEW u \in Tokens,
           NEW name \in Seq(Tokens), NEW password \in Seq(Tokens)
    PROVE  LET text == Printed(addr, u, name, password)
           IN  StartsWith(text, Prefix) /\ Address(text) = addr
<1> DEFINE front == Prefix \o addr
           start == front \o <<"/">>
           text == Printed(addr, u, name, password)
           marks == {"/", "?", "#"}
           n == Len(addr)
<1>1. /\ front \in Seq(Tokens) /\ text \in Seq(Tokens)
      /\ Begins(text, start) /\ Begins(text, Prefix)
  BY PrintedParts
<1>2. n \in Nat /\ \A j \in 1 .. n : addr[j] \notin marks
  BY DEF Places
<1>3. Len(front) = n + 4 /\ \A j \in 1 .. n : front[4 + j] = addr[j]
  <2>1. Prefix \in Seq(Tokens) /\ Len(Prefix) = 4
    BY PrefixIs
  <2> QED  BY <1>2, <2>1, BehindPrefix
<1> HIDE DEF front, text
<1>4. /\ Len(start) = n + 5 /\ start[n + 5] = "/"
      /\ \A j \in 1 .. n : start[4 + j] = addr[j]
  <2>1. <<"/">> \in Seq(Tokens) /\ Len(<<"/">>) = 1 /\ <<"/">>[1] = "/"
    BY MarksAreTokens, OneToken
  <2> DEFINE s == <<"/">>
  <2> HIDE DEF s
  <2>2. s \in Seq(Tokens) /\ Len(s) = 1 /\ s[1] = "/" /\ start = front \o s
    BY <2>1 DEF s
  <2>3. /\ Len(front \o s) = Len(front) + Len(s)
        /\ \A j \in 1 .. Len(front) : (front \o s)[j] = front[j]
        /\ \A j \in 1 .. Len(s) : (front \o s)[Len(front) + j] = s[j]
    BY <1>1, <2>2, Joined
  <2>4. 1 \in 1 .. Len(s) /\ Len(front) + 1 = n + 5
        /\ \A j \in 1 .. n : 4 + j \in 1 .. Len(front)
    BY <1>2, <1>3, <2>2
  <2> QED  BY <1>2, <1>3, <2>2, <2>3, <2>4
<1> HIDE DEF start
<1>5. /\ Len(text) \in Nat /\ n + 5 <= Len(text) /\ text[n + 5] = "/"
      /\ \A j \in 1 .. n : text[4 + j] = addr[j]
  <2>1. Len(text) \in Nat /\ n + 5 <= Len(text) /\ \A j \in 1 .. n + 5 : text[j] = start[j]
    BY <1>1, <1>4 DEF Begins
  <2>2. n + 5 \in 1 .. n + 5 /\ \A j \in 1 .. n : 4 + j \in 1 .. n + 5
    BY <1>2
  <2> QED  BY <1>4, <2>1, <2>2
<1>6. StartsWith(text, Prefix)
  BY <1>1, PrefixIs, StartsIs
<1> DEFINE tail == Beyond(text, 4)
<1>7. /\ tail \in Seq(Tokens) /\ Len(tail) = Len(text) - 4
      /\ \A i \in 1 .. Len(tail) : tail[i] = text[4 + i]
  <2>1. 4 \in 0 .. Len(text)
    BY <1>2, <1>5
  <2> QED  BY <1>1, <2>1, BeyondIs
<1> HIDE DEF tail
<1>8. /\ n + 1 \in 1 .. Len(tail) /\ tail[n + 1] = "/"
      /\ \A j \in 1 .. n : j \in 1 .. Len(tail) /\ tail[j] = addr[j]
  <2>1. n + 1 \in 1 .. Len(tail) /\ 4 + (n + 1) = n + 5
        /\ \A j \in 1 .. n : j \in 1 .. Len(tail)
    BY <1>2, <1>5, <1>7
  <2> QED  BY <1>5, <1>7, <2>1
<1>9. Find(tail, marks) = n + 1
  <2>1. "/" \in marks /\ \A j \in 1 .. (n + 1) - 1 : tail[j] \notin marks
    BY <1>2, <1>8
  <2>2. tail[n + 1] \in marks
    BY <1>8, <2>1
  <2> HIDE DEF marks, n
  <2> QED  BY <1>7, <1>8, <2>1, <2>2, FindIs
<1>10. SubSeq(tail, 1, n) = addr
  <2>1. /\ SubSeq(tail, 1, n) \in Seq(Tokens)
        /\ Len(SubSeq(tail, 1, n)) = (IF 1 <= n THEN n - 1 + 1 ELSE 0)
        /\ \A j \in 1 .. n - 1 + 1 : SubSeq(tail, 1, n)[j] = tail[1 + j - 1]
    <3>1. 1 \in Int /\ n \in Int /\ \A j \in 1 .. n : tail[j] \in Tokens
      BY <1>2, <1>7, <1>8
    <3> HIDE DEF n
    <3> QED  BY <3>1, SubSeqProperties
  <2>2. Len(SubSeq(tail, 1, n)) = Len(addr)
    BY <1>2, <2>1
  <2>3. \A j \in 1 .. Len(addr) : SubSeq(tail, 1, n)[j] = addr[j]
    BY <1>2, <1>8, <2>1
  <2> QED  BY <2>1, <2>2, <2>3, SeqEqual
<1>11. Address(text) = addr
  <2>1. (n + 1) - 1 = n /\ n + 1 # 0
    BY <1>2
  <2>2. StopAt(tail, marks) = SubSeq(tail, 1, (n + 1) - 1)
    BY <1>9, <2>1 DEF StopAt, Before
  <2> QED  BY <1>10, <2>1, <2>2, PrefixIs DEF Address, tail
<1> QED  BY <1>6, <1>11 DEF text

LEMMA PlacesJoined ==
    ASSUME NEW a \in Seq(Tokens), NEW b \in Seq(Tokens), NEW marks,
           Places(a, marks) = {}, Places(b, marks) = {}
    PROVE  Places(a \o b, marks) = {}
<1> DEFINE t == a \o b
<1>1. /\ t \in Seq(Tokens) /\ Len(t) = Len(a) + Len(b)
      /\ \A j \in 1 .. Len(a) : t[j] = a[j]
      /\ \A j \in 1 .. Len(b) : t[Len(a) + j] = b[j]
  BY Joined
<1>2. /\ Len(a) \in Nat /\ Len(b) \in Nat
      /\ \A j \in 1 .. Len(a) : a[j] \notin marks
      /\ \A j \in 1 .. Len(b) : b[j] \notin marks
  BY DEF Places
<1> HIDE DEF t
<1>3. \A j \in DOMAIN t : t[j] \notin marks
  <2> SUFFICES ASSUME NEW j \in 1 .. Len(a) + Len(b) PROVE t[j] \notin marks
    BY <1>1
  <2>1. CASE j \in 1 .. Len(a)
    BY <1>1, <1>2, <2>1
  <2>2. CASE j \notin 1 .. Len(a)
    <3>1. j - Len(a) \in 1 .. Len(b) /\ Len(a) + (j - Len(a)) = j
      BY <1>2, <2>2
    <3> QED  BY <1>1, <1>2, <3>1
  <2> QED  BY <2>1, <2>2
<1>4. Places(t, marks) = {}
  BY <1>3 DEF Places
<1> QED  BY <1>4 DEF t

LEMMA PlacesOne ==
    ASSUME NEW m \in Tokens, NEW marks, m \notin marks
    PROVE  Places(<<m>>, marks) = {}
<1> DEFINE t == <<m>>
<1>1. t \in Seq(Tokens) /\ Len(t) = 1 /\ t[1] = m
  BY OneToken
<1> HIDE DEF t
<1>2. \A j \in DOMAIN t : t[j] \notin marks
  BY <1>1
<1>3. Places(t, marks) = {}
  BY <1>2 DEF Places
<1> QED  BY <1>3 DEF t

\* The node reads in the URL of a room what was printed in it.
LEMMA ParsePrinted ==
    ASSUME NEW addr \in Seq(Tokens), Places(addr, {"/", "?", "#"}) = {},
           NEW u \in DOMAIN UuidOf,
           NEW name \in Seq(Tokens), NEW password \in Seq(Tokens), Sayable(name, password)
    PROVE  ParseValidate(Printed(addr, u, name, password)) =
              [ok |-> TRUE, uuid |-> UuidOf[u], name |-> name, password |-> password]
<1> DEFINE slash == <<"/">>
           id    == <<u>>
           hash  == <<"#">>
           ask   == <<"?">>
           front == Prefix \o addr
           start == front \o slash
           path  == start \o id
           most  == path \o hash
           base  == most \o name
           query == <<Pass>> \o password
           text  == Printed(addr, u, name, password)
<1>1. u \in Tokens /\ u \notin {"/", "?", "#"}
  BY UrlAssumption DEF UrlAssumption
<1>2. One(slash, "/") /\ One(id, u) /\ One(hash, "#") /\ One(ask, "?")
  BY <1>1, MarksAreTokens, OneIs
<1>3. /\ slash \in Seq(Tokens) /\ id \in Seq(Tokens)
      /\ hash \in Seq(Tokens) /\ ask \in Seq(Tokens)
  BY <1>2 DEF One
<1>4. StartsWith(text, Prefix)
  BY <1>1, PrintedAddress
<1>5. text = base \o ask \o query
  BY DEF Printed
<1>6. front \in Seq(Tokens) /\ query \in Seq(Tokens)
  BY MarksAreTokens, PrefixIs, OneToken, Joined
<1>7. /\ \A mark \in {"?", "#"} : Places(front, {mark}) = {}
      /\ \A mark \in {"?", "#"} : Places(slash, {mark}) = {} /\ Places(id, {mark}) = {}
      /\ Places(hash, {"?"}) = {} /\ Places(id, {"/"}) = {}
  <2>1. \A mark \in {"?", "#"} : Places(addr, {mark}) = {}
    BY DEF Places
  <2>2. \A mark \in {"?", "#"} : Places(front, {mark}) = {}
    BY <2>1, PrefixIs, PlacesJoined
  <2>3. /\ \A mark \in {"?", "#"} : Places(slash, {mark}) = {} /\ Places(id, {mark}) = {}
        /\ Places(hash, {"?"}) = {} /\ Places(id, {"/"}) = {}
    BY <1>1, MarksAreTokens, PlacesOne
  <2> QED  BY <2>2, <2>3
<1>8. query = <<Pass>> \o password
  OBVIOUS
<1> HIDE DEF slash, id, hash, ask, front, query, text
<1>9. /\ start \in Seq(Tokens) /\ path \in Seq(Tokens)
      /\ most \in Seq(Tokens) /\ base \in Seq(Tokens)
  BY <1>3, <1>6, Joined
<1>10. /\ Places(path, {"#"}) = {} /\ Places(start, {"#"}) = {}
       /\ Places(base, {"?"}) = {}
  <2>1. \A mark \in {"?", "#"} : Places(start, {mark}) = {}
    BY <1>3, <1>6, <1>7, PlacesJoined
  <2> HIDE DEF start
  <2>2. \A mark \in {"?", "#"} : Places(path, {mark}) = {}
    BY <1>3, <1>7, <1>9, <2>1, PlacesJoined
  <2> HIDE DEF path
  <2>3. Places(most, {"?"}) = {}
    BY <1>3, <1>7, <1>9, <2>2, PlacesJoined
  <2> HIDE DEF most
  <2>4. Places(name, {"?"}) = {}
    BY DEF Sayable, Has
  <2>5. Places(base, {"?"}) = {}
    BY <1>9, <2>3, <2>4, PlacesJoined
  <2> QED  BY <2>1, <2>2, <2>5
<1> HIDE DEF base
<1>11. /\ Find(text, {"?"}) = Len(base) + 1
       /\ Before(text, Len(base) + 1) = base /\ Beyond(text, Len(base) + 1) = query
  <2>1. base \in Seq(Tokens) /\ query \in Seq(Tokens) /\ One(ask, "?")
    BY <1>2, <1>6, <1>9
  <2>2. Parts(text, base, "?", query)
    BY <1>5, <2>1, Parted
  <2>3. Find(text, {"?"}) = Len(base) + 1
    <3> DEFINE marks == {"?"}
    <3>1. base \in Seq(Tokens) /\ query \in Seq(Tokens)
      BY <2>1
    <3>2. "?" \in marks /\ Places(base, marks) = {}
      BY <1>10
    <3> HIDE DEF marks
    <3>3. Find(text, marks) = Len(base) + 1
      BY <2>2, <3>1, <3>2, FindParted
    <3> QED  BY <3>3 DEF marks
  <2> QED  BY <2>2, <2>3 DEF Parts
<1> HIDE DEF text
<1> DEFINE pass == {i \in Places(query, {Pass}) : i = 1 \/ query[i - 1] = "&"}
<1>12. query[1] = Pass /\ First(pass) = 1 /\ pass # {} /\ Beyond(query, 1) = password
  <2>1. One(<<Pass>>, Pass)
    BY MarksAreTokens, OneIs
  <2> DEFINE one == <<Pass>>
  <2> HIDE DEF one
  <2>2. one \in Seq(Tokens) /\ Len(one) = 1 /\ one[1] = Pass /\ query = one \o password
    BY <1>8, <2>1 DEF one, One
  <2>3. one \in Seq(Tokens)
    BY <2>2
  <2>4. /\ one \o password \in Seq(Tokens) /\ Len(one \o password) = Len(one) + Len(password)
        /\ \A j \in 1 .. Len(one) : (one \o password)[j] = one[j]
        /\ \A j \in 1 .. Len(password) : (one \o password)[Len(one) + j] = password[j]
    BY <2>3, Joined
  <2>5. Len(query) = 1 + Len(password) /\ Len(password) \in Nat /\ query[1] = Pass
        /\ \A j \in 1 .. Len(password) : query[1 + j] = password[j]
    BY <2>2, <2>4
  <2>6. 1 \in pass /\ pass \subseteq Nat /\ 0 \notin pass /\ pass # {}
    BY <1>6, <2>5 DEF Places
  <2> HIDE DEF pass
  <2>7. pass \subseteq Nat /\ pass # {}
    BY <2>6
  <2>8. First(pass) \in pass /\ \A j \in pass : First(pass) <= j
    BY <2>7, FirstIs
  <2>9. First(pass) = 1
    <3> DEFINE f == First(pass)
    <3> HIDE DEF f
    <3>1. f \in Nat /\ f # 0 /\ f <= 1
      BY <2>6, <2>8 DEF f
    <3>2. f = 1
      BY <3>1
    <3> QED  BY <3>2 DEF f
  <2>10. 1 \in 0 .. Len(query) /\ Len(query) - 1 = Len(password)
    BY <2>5
  <2>11. /\ Beyond(query, 1) \in Seq(Tokens) /\ Len(Beyond(query, 1)) = Len(query) - 1
        /\ \A j \in 1 .. Len(query) - 1 : Beyond(query, 1)[j] = query[1 + j]
    BY <1>6, <2>10, BeyondIs
  <2>12. /\ Len(Beyond(query, 1)) = Len(password)
         /\ \A j \in 1 .. Len(password) : Beyond(query, 1)[j] = password[j]
    BY <2>5, <2>10, <2>11
  <2>13. Beyond(query, 1) = password
    BY <2>11, <2>12, SeqEqual
  <2> QED  BY <2>5, <2>6, <2>9, <2>13
<1>13. StopAt(password, {"&"}) = password /\ password # <<>>
  BY StopAtNone DEF Sayable, Has
<1>14. ExtractPassword(text) = [ok |-> TRUE, base |-> base, text |-> password]
  <2>1. Find(text, {"?"}) # 0
    BY <1>9, <1>11
  <2> HIDE DEF pass
  <2> QED  BY <1>11, <1>12, <1>13, <2>1 DEF ExtractPassword, pass
<1>15. ExtractName(base) = [ok |-> TRUE, base |-> path, text |-> name]
  <2> HIDE DEF path
  <2>1. path \in Seq(Tokens) /\ name \in Seq(Tokens) /\ One(hash, "#")
    BY <1>2, <1>9
  <2>2. base = path \o hash \o name
    BY DEF base
  <2>3. Parts(base, path, "#", name)
    BY <2>1, <2>2, Parted
  <2>4. Find(base, {"#"}) = Len(path) + 1
    <3> DEFINE marks == {"#"}
    <3>1. path \in Seq(Tokens) /\ name \in Seq(Tokens)
      BY <2>1
    <3>2. "#" \in marks /\ Places(path, marks) = {}
      BY <1>10
    <3> HIDE DEF marks
    <3>3. Find(base, marks) = Len(path) + 1
      BY <2>3, <3>1, <3>2, FindParted
    <3> QED  BY <3>3 DEF marks
  <2>5. Len(path) \in Nat /\ Len(name) \in Nat /\ Len(name) # 0
    BY <2>1 DEF Sayable
  <2>6. Find(base, {"#"}) # 0 /\ Find(base, {"#"}) # Len(base)
    BY <2>3, <2>4, <2>5 DEF Parts
  <2> QED  BY <2>3, <2>4, <2>6 DEF ExtractName, NameAt, Parts
<1>16. ExtractUuid(path) = [ok |-> TRUE, uuid |-> UuidOf[u]]
  <2>1. front \in Seq(Tokens) /\ id \in Seq(Tokens) /\ One(slash, "/")
    BY <1>2, <1>3, <1>6
  <2>2. path = front \o slash \o id
    OBVIOUS
  <2> HIDE DEF path, start
  <2>3. Parts(path, front, "/", id)
    BY <2>1, <2>2, Parted
  <2>4. RFind(path, {"/"}) = Len(front) + 1
    <3> DEFINE marks == {"/"}
    <3>1. front \in Seq(Tokens) /\ id \in Seq(Tokens)
      BY <2>1
    <3>2. "/" \in marks /\ Places(id, marks) = {}
      BY <1>7
    <3> HIDE DEF marks
    <3>3. RFind(path, marks) = Len(front) + 1
      BY <2>3, <3>1, <3>2, RFindParted
    <3> QED  BY <3>3 DEF marks
  <2>5. Len(id) = 1 /\ id[1] = u
    BY <1>2 DEF One
  <2>6. Beyond(path, RFind(path, {"/"})) = id
    BY <2>3, <2>4 DEF Parts
  <2> QED  BY <2>5, <2>6 DEF ExtractUuid, UuidIn
<1> DEFINE asked == ExtractPassword(text)
           called == ExtractName(asked.base)
           known == ExtractUuid(called.base)
<1>17. asked.ok = TRUE /\ asked.base = base /\ asked.text = password
  BY <1>14
<1>18. called.ok = TRUE /\ called.base = path /\ called.text = name
  BY <1>15, <1>17
<1>19. known.ok = TRUE /\ known.uuid = UuidOf[u]
  BY <1>16, <1>18
<1>20. ParseValidate(text) = IF StartsWith(text, Prefix) /\ asked.ok /\ called.ok /\ known.ok
                             THEN [ok |-> TRUE, uuid |-> known.uuid, name |-> called.text,
                                   password |-> asked.text]
                             ELSE NoEntry
  BY Zenon DEF ParseValidate
<1> HIDE DEF asked, called, known
<1>21. ParseValidate(text) = [ok |-> TRUE, uuid |-> UuidOf[u], name |-> name,
                              password |-> password]
  BY <1>4, <1>17, <1>18, <1>19, <1>20
<1> QED  BY <1>21 DEF text

\* What the node finds in a URL can be said in one.
LEMMA ParsedIsSayable ==
    ASSUME NEW text \in Seq(Tokens), ParseValidate(text).ok
    PROVE  LET e == ParseValidate(text)
           IN  /\ e = [ok |-> TRUE, uuid |-> e.uuid, name |-> e.name, password |-> e.password]
               /\ e.name \in Seq(Tokens) /\ e.password \in Seq(Tokens)
               /\ Sayable(e.name, e.password)
<1> DEFINE asked  == ExtractPassword(text)
           called == ExtractName(asked.base)
           known  == ExtractUuid(called.base)
           e      == ParseValidate(text)
<1>1. e = IF StartsWith(text, Prefix) /\ asked.ok /\ called.ok /\ known.ok
          THEN [ok |-> TRUE, uuid |-> known.uuid, name |-> called.text, password |-> asked.text]
          ELSE NoEntry
  BY Zenon DEF ParseValidate
<1>2. /\ asked.ok /\ called.ok
      /\ e = [ok |-> TRUE, uuid |-> known.uuid, name |-> called.text, password |-> asked.text]
  <2> HIDE DEF asked, called, known, e
  <2>1. e.ok
    BY DEF e
  <2> QED  BY <1>1, <2>1 DEF NoEntry
<1>3. /\ asked.base \in Seq(Tokens) /\ Places(asked.base, {"?"}) = {}
      /\ asked.text \in Seq(Tokens) /\ Places(asked.text, {"&"}) = {} /\ asked.text # <<>>
  <2> DEFINE marks == {"?"}
             mark  == Find(text, marks)
             query == Beyond(text, mark)
             pass  == {i \in Places(query, {Pass}) : i = 1 \/ query[i - 1] = "&"}
             value == StopAt(Beyond(query, First(pass)), {"&"})
  <2>1. asked = IF mark = 0 \/ pass = {} \/ value = <<>> THEN NoEntry
                ELSE [ok |-> TRUE, base |-> Before(text, mark), text |-> value]
    BY Zenon DEF ExtractPassword
  <2>2. /\ mark # 0 /\ pass # {} /\ value # <<>>
        /\ asked.base = Before(text, mark) /\ asked.text = value
    <3> HIDE DEF asked, mark, pass, value
    <3> QED  BY <1>2, <2>1 DEF NoEntry
  <2>3. mark \in 1 .. Len(text) /\ \A j \in 1 .. mark - 1 : text[j] \notin marks
    <3> HIDE DEF marks
    <3> QED  BY <2>2, FindFirst
  <2>4. /\ Before(text, mark) \in Seq(Tokens) /\ Len(Before(text, mark)) = mark - 1
        /\ \A j \in 1 .. mark - 1 : Before(text, mark)[j] = text[j]
    <3> HIDE DEF mark
    <3>1. mark \in 1 .. Len(text) + 1
      BY <2>3
    <3> QED  BY <3>1, BeforeIs
  <2>5. Places(Before(text, mark), marks) = {}
    <3> HIDE DEF mark, marks
    <3> QED  BY <2>3, <2>4 DEF Places
  <2>6. query \in Seq(Tokens)
    <3>1. mark \in 0 .. Len(text)
      BY <2>3
    <3> HIDE DEF mark
    <3> QED  BY <3>1, BeyondIs
  <2>7. First(pass) \in 0 .. Len(query)
    <3> HIDE DEF query
    <3>1. pass \subseteq 1 .. Len(query) /\ Len(query) \in Nat
      BY <2>6 DEF Places
    <3> HIDE DEF pass
    <3>2. pass \subseteq Nat /\ pass # {}
      BY <2>2, <3>1
    <3>3. First(pass) \in pass /\ \A j \in pass : First(pass) <= j
      BY <3>2, FirstIs
    <3>4. First(pass) \in 1 .. Len(query)
      BY <3>1, <3>3
    <3> QED  BY <3>1, <3>4
  <2>8. Beyond(query, First(pass)) \in Seq(Tokens)
    <3> DEFINE f == First(pass)
    <3>1. f \in 0 .. Len(query)
      BY <2>7
    <3> HIDE DEF f, query
    <3>2. Beyond(query, f) \in Seq(Tokens)
      BY <2>6, <3>1, BeyondIs
    <3> QED  BY <3>2 DEF f
  <2>9. value \in Seq(Tokens) /\ Places(value, {"&"}) = {}
    <3> DEFINE rest == Beyond(query, First(pass))
    <3>1. rest \in Seq(Tokens)
      BY <2>8
    <3> HIDE DEF rest
    <3> QED  BY <3>1, StopAtNone DEF rest
  <2> QED  BY <2>2, <2>4, <2>5, <2>9
<1>4. /\ called.text \in Seq(Tokens) /\ called.text # <<>> /\ Places(called.text, {"?"}) = {}
  <2> DEFINE base == asked.base
             hash == Find(base, {"#"})
  <2>1. called = IF hash = 0 \/ hash = Len(base) THEN NoEntry
                 ELSE [ok |-> TRUE, base |-> Before(base, hash), text |-> Beyond(base, hash)]
    BY Zenon DEF ExtractName, NameAt
  <2>2. hash # 0 /\ hash # Len(base) /\ called.text = Beyond(base, hash)
    <3> HIDE DEF called, hash, base
    <3> QED  BY <1>2, <2>1 DEF NoEntry
  <2>3. base \in Seq(Tokens) /\ Places(base, {"?"}) = {}
    BY <1>3
  <2> HIDE DEF base
  <2>4. hash \in 1 .. Len(base)
    <3> DEFINE marks == {"#"}
    <3> HIDE DEF marks
    <3>1. Find(base, marks) # 0 => Find(base, marks) \in 1 .. Len(base)
      BY <2>3, FindFirst
    <3> QED  BY <2>2, <3>1 DEF marks
  <2> HIDE DEF hash
  <2>5. hash \in 0 .. Len(base) /\ Len(base) \in Nat /\ Len(base) - hash # 0
    BY <2>2, <2>3, <2>4
  <2> DEFINE r == Beyond(base, hash)
  <2>6. /\ r \in Seq(Tokens) /\ Len(r) = Len(base) - hash
        /\ \A j \in 1 .. Len(base) - hash : r[j] = base[hash + j]
    BY <2>3, <2>5, BeyondIs
  <2>7. \A i \in 1 .. Len(base) : base[i] # "?"
    BY <2>3 DEF Places
  <2> HIDE DEF r
  <2>8. r # <<>>
    BY <2>5, <2>6
  <2>9. \A j \in DOMAIN r : r[j] # "?"
    <3> SUFFICES ASSUME NEW j \in 1 .. Len(base) - hash PROVE r[j] # "?"
      BY <2>6
    <3>1. hash + j \in 1 .. Len(base)
      BY <2>4, <2>5
    <3> QED  BY <2>6, <2>7, <3>1
  <2>10. Places(r, {"?"}) = {}
    BY <2>9 DEF Places
  <2> QED  BY <2>2, <2>6, <2>8, <2>10 DEF r
<1> HIDE DEF asked, called, known, e
<1>5. /\ e.uuid = known.uuid /\ e.name = called.text /\ e.password = asked.text
  BY <1>2
<1>6. Sayable(e.name, e.password)
  BY <1>3, <1>4, <1>5 DEF Sayable, Has
<1> QED  BY <1>2, <1>3, <1>4, <1>5, <1>6 DEF e

\* With the address of a URL the client accepts, it accepts what is printed too.
LEMMA PrintedAccepted ==
    ASSUME NEW text \in Seq(Tokens), CreateValidate(text), NEW u \in DOMAIN UuidOf,
           NEW name \in Seq(Tokens), NEW password \in Seq(Tokens)
    PROVE  /\ Address(text) \in Seq(Tokens) /\ Places(Address(text), {"/", "?", "#"}) = {}
           /\ CreateValidate(Printed(Address(text), u, name, password))
<1> DEFINE addr  == Address(text)
           again == Printed(addr, u, name, password)
<1>1. 4 \in 0 .. Len(text)
  BY PrefixIs DEF CreateValidate, StartsWith
<1>2. Beyond(text, Len(Prefix)) \in Seq(Tokens)
  BY <1>1, PrefixIs, BeyondIs
<1>3. addr \in Seq(Tokens) /\ Places(addr, {"/", "?", "#"}) = {}
  <2> DEFINE tail == Beyond(text, Len(Prefix))
             marks == {"/", "?", "#"}
  <2>1. tail \in Seq(Tokens)
    BY <1>2
  <2> HIDE DEF tail, marks
  <2>2. StopAt(tail, marks) \in Seq(Tokens) /\ Places(StopAt(tail, marks), marks) = {}
    BY <2>1, StopAtNone
  <2> QED  BY <2>2 DEF tail, marks, Address
<1>4. u \in Tokens
  BY UrlAssumption DEF UrlAssumption
<1> HIDE DEF addr
<1>5. StartsWith(again, Prefix) /\ Address(again) = addr
  BY <1>3, <1>4, PrintedAddress
<1>6. addr # <<>> /\ IF addr[1] = "[" THEN Ipv6OK(addr) ELSE HostOK(addr)
  BY DEF CreateValidate, addr
<1> HIDE DEF again
<1>7. CreateValidate(again)
  BY <1>5, <1>6 DEF CreateValidate
<1> QED  BY <1>3, <1>7 DEF addr, again

-----------------------------------------------------------------------------
(* The URL and what the node made of it *)

\* The client sends a URL it accepts; the verdict follows from what the node reads.
EntryInv ==
    /\ url \in Seq(Tokens) /\ room.name \in Seq(Tokens) /\ room.password \in Seq(Tokens)
    /\ stage = "node" /\ msgs # <<>> => CreateValidate(url)
    /\ told \in {"nothing", "welcome", "refusal"}
    /\ told = "nothing" => entry = NoEntry
    /\ told # "nothing" => entry = ParseValidate(url) /\ CreateValidate(url)
    /\ told = "welcome" => IsRoom(entry)
    /\ told = "refusal" => ~IsRoom(entry)

\* What the node has read was sent.
LEMMA ReadWasSent ==
    ASSUME StreamInv, stage = "node", decoded # <<>>
    PROVE  msgs # <<>>
<1>1. Len(decoded) \in Nat /\ Len(decoded) # 0 /\ Len(decoded) <= Len(frames)
  BY EmptySeq, LenProperties DEF StreamInv, StreamTypeOK, AtFrame
<1>2. frames # <<>>
  BY <1>1, FramesFacts DEF StreamInv
<1> QED  BY <1>2 DEF StreamInv, Patient

LEMMA EntryInit == SessionInit => EntryInv
<1> SUFFICES ASSUME SessionInit PROVE EntryInv
  OBVIOUS
<1>1. PICK c \in Cases : room = c.room /\ url = c.url
  BY SessionAssumption DEF SessionInit, SessionAssumption
<1>2. url \in Seq(Tokens) /\ room.name \in Seq(Tokens) /\ room.password \in Seq(Tokens)
  BY <1>1, SessionAssumption DEF SessionAssumption
<1>3. msgs = <<>> /\ told = "nothing" /\ entry = NoEntry
  BY DEF SessionInit, Init
<1> QED  BY <1>2, <1>3 DEF EntryInv

\* A step that tells the client nothing, and after which the node has no message it
\* did not have.
LEMMA EntryKept ==
    ASSUME EntryInv, UNCHANGED <<room, url, entry, told>>,
           stage' = "node" /\ msgs' # <<>> => CreateValidate(url) \/ (stage = "node" /\ msgs # <<>>)
    PROVE  EntryInv'
<1>1. room' = room /\ url' = url /\ entry' = entry /\ told' = told
  OBVIOUS
<1>2. IsRoom(entry)' <=> IsRoom(entry)
  BY <1>1 DEF IsRoom
<1>3. stage' = "node" /\ msgs' # <<>> => CreateValidate(url)
  BY DEF EntryInv
<1> QED  BY <1>1, <1>2, <1>3 DEF EntryInv

LEMMA EntryStep ==
    ASSUME EntryInv, StreamInv, [SessionNext]_sessionVars
    PROVE  EntryInv'
<1>1. CASE Validate
  <2>1. CreateValidate(url) /\ UNCHANGED <<room, url, entry, told>>
    BY <1>1 DEF Validate
  <2>2. stage' = "node" /\ msgs' # <<>> =>
           CreateValidate(url) \/ (stage = "node" /\ msgs # <<>>)
    BY <2>1
  <2> QED  BY <2>1, <2>2, EntryKept
<1>2. CASE Enter
  <2>1. /\ stage = "node" /\ decoded # <<>> /\ stage' = "listener"
        /\ entry' = ParseValidate(url) /\ told' = "welcome"
        /\ url' = url /\ room' = room /\ IsRoom(entry')
    BY <1>2 DEF Enter, HandOver
  <2>2. CreateValidate(url)
    BY <2>1, ReadWasSent DEF EntryInv
  <2>3. IsRoom(entry)'
    BY <2>1 DEF IsRoom
  <2> QED  BY <2>1, <2>2, <2>3 DEF EntryInv
<1>3. CASE Refuse
  <2>1. /\ stage = "node" /\ decoded # <<>> /\ told' = "refusal"
        /\ entry' = ParseValidate(url) /\ url' = url /\ room' = room /\ ~IsRoom(entry')
    BY <1>3 DEF Refuse
  <2>2. CreateValidate(url)
    BY <2>1, ReadWasSent DEF EntryInv
  <2>3. ~IsRoom(entry)'
    BY <2>1 DEF IsRoom
  <2> QED  BY <2>1, <2>2, <2>3 DEF EntryInv
<1>4. CASE SendObject \/ SendNothing
  <2>1. stage # "node" /\ UNCHANGED <<room, url, entry, told>>
    BY <1>4 DEF SendObject, SendNothing
  <2>2. stage' = stage
    BY <1>4 DEF SendObject, SendNothing, Start, readerVars
  <2> QED  BY <2>1, <2>2, EntryKept
<1>5. CASE Receive
  BY <1>5, EntryKept DEF Receive, streamVars, encVars, readerVars
<1>6. CASE Carry(Cut) \/ Carry(Beat) \/ Carry(Arrive)
  <2>1. UNCHANGED <<room, url, entry, told>>
    BY <1>6 DEF Carry, textVars
  <2>2. stage' = stage /\ msgs' = msgs
    BY <1>6 DEF Carry, Cut, CutOff, Beat, Arrive, encVars, readerVars
  <2> QED  BY <2>1, <2>2, EntryKept
<1>7. CASE Carry(ReadHeader) \/ Carry(ReadBody) \/ Carry(DecodeBasic)
  <2>1. UNCHANGED <<room, url, entry, told>>
    BY <1>7 DEF Carry, textVars
  <2>2. msgs' = msgs /\ stage' \in {stage, "ended", "failed"}
    BY <1>7 DEF Carry, ReadHeader, ReadBody, ReadUpTo, DecodeBasic, Fail, encVars
  <2> QED  BY <2>1, <2>2, EntryKept
<1>8. CASE UNCHANGED sessionVars
  BY <1>8, EntryKept DEF sessionVars, textVars, streamVars, encVars, readerVars
<1> QED  BY <1>1, <1>2, <1>3, <1>4, <1>5, <1>6, <1>7, <1>8 DEF SessionNext

\* validate.rs, create_validate() and parse_validate(): whatever tokens a URL is made
\* of, the node lets its sender in only where name and password can be said in a URL,
\* and refuses no URL that was printed for such a room; and what it reads in a URL it
\* accepts, it reads again in the one printed for that.
THEOREM UrlsRoundTrip == Session => []UrlRoundTrip
<1>1. EntryInv => UrlRoundTrip
  <2> SUFFICES ASSUME EntryInv PROVE UrlRoundTrip
    OBVIOUS
  <2>1. url \in Seq(Tokens) /\ room.name \in Seq(Tokens) /\ room.password \in Seq(Tokens)
    BY DEF EntryInv
  <2>2. ASSUME told = "welcome"
        PROVE  Sayable(room.name, room.password)
    <3>1. entry = ParseValidate(url) /\ IsRoom(entry)
      BY <2>2 DEF EntryInv
    <3>2. entry.ok /\ entry.name = room.name /\ entry.password = room.password
      BY <3>1 DEF IsRoom
    <3>3. Sayable(entry.name, entry.password)
      BY <2>1, <3>1, <3>2, ParsedIsSayable
    <3> QED  BY <3>2, <3>3
  <2>3. ASSUME told = "refusal", Sayable(room.name, room.password),
               NEW u \in DOMAIN UuidOf, UuidOf[u] = room.uuid,
               url = Printed(Address(url), u, room.name, room.password)
        PROVE  FALSE
    <3> DEFINE addr == Address(url)
    <3>1. entry = ParseValidate(url) /\ CreateValidate(url) /\ ~IsRoom(entry)
      BY <2>3 DEF EntryInv
    <3>2. addr \in Seq(Tokens) /\ Places(addr, {"/", "?", "#"}) = {}
      BY <2>1, <3>1, PrintedAccepted
    <3> HIDE DEF addr
    <3>3. ParseValidate(Printed(addr, u, room.name, room.password)) =
            [ok |-> TRUE, uuid |-> UuidOf[u], name |-> room.name, password |-> room.password]
      BY <2>1, <2>3, <3>2, ParsePrinted
    <3>4. entry = [ok |-> TRUE, uuid |-> UuidOf[u],
                   name |-> room.name, password |-> room.password]
      BY <2>3, <3>1, <3>3 DEF addr
    <3>5. IsRoom(entry)
      BY <2>3, <3>4 DEF IsRoom
    <3> QED  BY <3>1, <3>5
  <2>4. ASSUME entry.ok, NEW u \in DOMAIN UuidOf, UuidOf[u] = entry.uuid
        PROVE  LET again == Printed(Address(url), u, entry.name, entry.password)
               IN CreateValidate(again) /\ ParseValidate(again) = entry
    <3> DEFINE addr == Address(url)
               again == Printed(addr, u, entry.name, entry.password)
    <3>1. told # "nothing"
      BY <2>4 DEF EntryInv, NoEntry
    <3>2. entry = ParseValidate(url) /\ CreateValidate(url)
      BY <3>1 DEF EntryInv
    <3>3. /\ entry = [ok |-> TRUE, uuid |-> entry.uuid,
                      name |-> entry.name, password |-> entry.password]
          /\ entry.name \in Seq(Tokens) /\ entry.password \in Seq(Tokens)
          /\ Sayable(entry.name, entry.password)
      BY <2>1, <2>4, <3>2, ParsedIsSayable
    <3>4. /\ addr \in Seq(Tokens) /\ Places(addr, {"/", "?", "#"}) = {}
          /\ CreateValidate(again)
      BY <2>1, <3>2, <3>3, PrintedAccepted
    <3> HIDE DEF addr
    <3>5. ParseValidate(again) = [ok |-> TRUE, uuid |-> UuidOf[u],
                                  name |-> entry.name, password |-> entry.password]
      BY <3>3, <3>4, ParsePrinted
    <3>6. ParseValidate(again) = entry
      BY <2>4, <3>3, <3>5
    <3> QED  BY <3>4, <3>6 DEF addr
  <2> QED  BY <2>2, <2>3, <2>4 DEF UrlRoundTrip
<1>2. EntryInv /\ StreamInv /\ [SessionNext]_sessionVars => EntryInv'
  BY EntryStep
<1>3. Spec => []StreamInv
  BY Inductive
<1>4. Session => Spec
  BY ImplementsStream
<1> QED  BY <1>1, <1>2, <1>3, <1>4, EntryInit, PTL DEF Session

-----------------------------------------------------------------------------
(* The objects, in the order of their messages *)

\* The objects decode_message() may be given.
ObjectType == [header_type : {"request", "response", Other},
               content_type : ContentTypes \cup {Other},
               path : Paths \cup {Absent, Other},
               state : Nat \cup {NoNumber}, body : Bodies \cup {Absent}]

\* One object for each message; the server sends responses of its own making; the
\* frames of one message come before those of the next.
ObjectsInv ==
    /\ objects \in Seq(ObjectType) /\ Len(objects) = Len(msgs)
    /\ stage = "client" => \A m \in DOMAIN objects :
          \/ objects[m] = NoObject
          \/ \E b \in Bodies : objects[m] = Response("json", NotFound, b)
    /\ \A j, k \in DOMAIN frames : j < k => frames[j].msg <= frames[k].msg

ReceivedType == [msg : Nat, as : {DecodeMessage(o) : o \in ObjectType}]

\* What was received was complete, and nothing that is complete was passed over.
ReceivedInv ==
    /\ received \in Seq(ReceivedType)
    /\ \A i \in DOMAIN received : received[i].as = DecodeMessage(objects[received[i].msg])
    /\ \A i, j \in DOMAIN received : i < j => received[i].msg < received[j].msg
    /\ Seen \subseteq Complete
    /\ \A m \in Complete \ Seen, s \in Seen : s < m

LEMMA AppendIs ==
    ASSUME NEW S, NEW s \in Seq(S), NEW e
    PROVE  /\ Len(Append(s, e)) = Len(s) + 1
           /\ DOMAIN Append(s, e) = 1 .. Len(s) + 1
           /\ \A i \in 1 .. Len(s) : Append(s, e)[i] = s[i]
           /\ Append(s, e)[Len(s) + 1] = e
<1> DEFINE T == S \cup {e}
<1>1. S \subseteq T /\ e \in T
  OBVIOUS
<1> HIDE DEF T
<1>2. s \in Seq(T)
  BY <1>1, SeqMonotonic
<1> QED  BY <1>1, <1>2, AppendProperties, LenProperties

LEMMA ObjectsTyped ==
    ASSUME NEW numbers, numbers \subseteq Nat
    PROVE  Objects(numbers) \subseteq ObjectType
<1> SUFFICES ASSUME NEW o \in Objects(numbers) PROVE o \in ObjectType
  OBVIOUS
<1> DEFINE types  == ContentTypes \cup {Other}
           bodies == Bodies \cup {Absent}
           paths  == Paths \cup {Absent, Other}
<1>1. CASE \E t \in types, p \in paths, b \in bodies : o = Request(t, p, b)
  BY <1>1 DEF Request, ObjectType
<1>2. CASE \E t \in types, n \in numbers \cup {NoNumber}, b \in bodies : o = Response(t, n, b)
  <2>1. PICK t \in types, n \in numbers \cup {NoNumber}, b \in bodies : o = Response(t, n, b)
    BY <1>2
  <2>2. n \in Nat \cup {NoNumber} /\ Absent \in paths
    OBVIOUS
  <2> QED  BY <2>1, <2>2 DEF Response, ObjectType
<1>3. CASE \E t \in types, p \in Paths :
              o = [Request(t, p, Absent) EXCEPT !.header_type = Other]
  <2>1. PICK t \in types, p \in Paths : o = [Request(t, p, Absent) EXCEPT !.header_type = Other]
    BY <1>3
  <2>2. o = [header_type |-> Other, content_type |-> t, path |-> p,
             state |-> NoNumber, body |-> Absent]
    BY <2>1 DEF Request
  <2> QED  BY <2>2 DEF ObjectType
<1> QED  BY <1>1, <1>2, <1>3 DEF Objects

LEMMA NoObjectTyped == NoObject \in ObjectType
  BY DEF NoObject, Request, ObjectType

\* What the server sends as it is not found.
LEMMA OwnResponses ==
    ASSUME NEW b \in Bodies
    PROVE  /\ EncodeResponse("json", NotFound, b).object = Response("json", NotFound, b)
           /\ Response("json", NotFound, b) \in ObjectType
<1>1. NotFound \in States
  BY SessionAssumption DEF SessionAssumption
<1>2. EncodeResponse("json", NotFound, b) =
        [ok |-> TRUE, object |-> Response("json", NotFound, b)]
  BY <1>1 DEF EncodeResponse, BodyOK
<1>3. NotFound \in Nat
  BY <1>1 DEF States
<1> QED  BY <1>2, <1>3 DEF Response, ObjectType, ContentTypes

LEMMA SendableTyped ==
    /\ Sendable \subseteq ObjectType
    /\ stage = "client" => \A o \in Sendable : \E b \in Bodies : o = Response("json", NotFound, b)
<1>1. Numbers \subseteq Nat
  BY SessionAssumption DEF SessionAssumption
<1>2. CASE stage = "client"
  BY <1>2, OwnResponses DEF Sendable
<1>3. CASE stage # "client"
  BY <1>1, <1>3, ObjectsTyped DEF Sendable
<1> QED  BY <1>2, <1>3

\* A message more is handed in, with its object.
LEMMA ObjectsStart ==
    ASSUME StreamInv, ObjectsInv, NEW size, NEW n, Start(size, n),
           NEW o \in ObjectType, objects' = Append(objects, o),
           stage = "client" => o = NoObject \/ \E b \in Bodies : o = Response("json", NotFound, b)
    PROVE  ObjectsInv'
<1>1. msgs' = Append(msgs, size) /\ frames' = frames /\ stage' = stage
  BY DEF Start, readerVars
<1>2. Len(msgs') = Len(msgs) + 1
  <2>1. msgs \in Seq(0 .. MaxStream)
    BY DEF StreamInv, StreamTypeOK
  <2> QED  BY <1>1, <2>1, AppendIs
<1>3. /\ objects \in Seq(ObjectType) /\ Len(objects) = Len(msgs) /\ Len(objects) \in Nat
      /\ DOMAIN objects = 1 .. Len(objects)
  BY LenProperties DEF ObjectsInv
<1>4. /\ objects' \in Seq(ObjectType) /\ Len(objects') = Len(objects) + 1
      /\ DOMAIN objects' = 1 .. Len(objects) + 1
      /\ \A m \in 1 .. Len(objects) : objects'[m] = objects[m]
      /\ objects'[Len(objects) + 1] = o
  BY <1>3, AppendProperties, LenProperties
<1>5. ASSUME stage = "client", NEW m \in DOMAIN objects'
      PROVE  \/ objects'[m] = NoObject
             \/ \E b \in Bodies : objects'[m] = Response("json", NotFound, b)
  <2>1. CASE m \in 1 .. Len(objects)
    BY <1>3, <1>4, <1>5, <2>1 DEF ObjectsInv
  <2>2. CASE m \notin 1 .. Len(objects)
    <3>1. m = Len(objects) + 1
      BY <1>3, <1>4, <2>2
    <3> QED  BY <1>4, <1>5, <3>1
  <2> QED  BY <2>1, <2>2
<1>6. \A j, k \in DOMAIN frames' : j < k => frames'[j].msg <= frames'[k].msg
  BY <1>1 DEF ObjectsInv
<1> QED  BY <1>1, <1>2, <1>3, <1>4, <1>5, <1>6 DEF ObjectsInv

\* A frame more, of the last message there is.
LEMMA ObjectsFrame ==
    ASSUME StreamInv, ObjectsInv, NEW f, frames' = Append(frames, f), f.msg = Len(msgs),
           msgs' = msgs, stage' = stage, objects' = objects
    PROVE  ObjectsInv'
<1>1. frames \in Seq(FrameType) /\ Len(frames) \in Nat /\ DOMAIN frames = 1 .. Len(frames)
  BY FramesFacts DEF StreamInv, StreamTypeOK
<1>2. /\ DOMAIN frames' = 1 .. Len(frames) + 1
      /\ \A i \in 1 .. Len(frames) : frames'[i] = frames[i]
      /\ frames'[Len(frames) + 1] = f
  BY <1>1, AppendIs
<1>3. \A i \in 1 .. Len(frames) : frames[i].msg <= f.msg
  BY <1>1 DEF StreamInv, Tiling
<1>4. ASSUME NEW j \in DOMAIN frames', NEW k \in DOMAIN frames', j < k
      PROVE  frames'[j].msg <= frames'[k].msg
  <2>1. j \in 1 .. Len(frames)
    BY <1>1, <1>2, <1>4
  <2>2. CASE k \in 1 .. Len(frames)
    BY <1>1, <1>2, <1>4, <2>1, <2>2 DEF ObjectsInv
  <2>3. CASE k = Len(frames) + 1
    BY <1>2, <1>3, <2>1, <2>3
  <2> QED  BY <1>2, <2>2, <2>3
<1> QED  BY <1>4 DEF ObjectsInv

LEMMA ObjectsKept ==
    ASSUME ObjectsInv, msgs' = msgs, frames' = frames, objects' = objects,
           stage' = "client" => stage = "client"
    PROVE  ObjectsInv'
  BY DEF ObjectsInv

LEMMA ObjectsStep ==
    ASSUME StreamInv, ObjectsInv, [SessionNext]_sessionVars
    PROVE  ObjectsInv'
<1>1. CASE Validate
  <2>1. PICK size \in 1 .. MaxStream, n \in NameLens : Start(size, n)
    BY <1>1 DEF Validate
  <2>2. objects' = Append(objects, NoObject)
    BY <1>1 DEF Validate
  <2> QED  BY <2>1, <2>2, NoObjectTyped, ObjectsStart
<1>2. CASE SendNothing
  <2>1. PICK n \in NameLens : Start(0, n)
    BY <1>2 DEF SendNothing
  <2>2. objects' = Append(objects, NoObject)
    BY <1>2 DEF SendNothing
  <2> QED  BY <2>1, <2>2, NoObjectTyped, ObjectsStart
<1>3. CASE SendObject
  <2>1. PICK size \in 1 .. MaxStream, n \in NameLens : Start(size, n)
    BY <1>3 DEF SendObject
  <2>2. PICK o \in Sendable : objects' = Append(objects, o)
    BY <1>3 DEF SendObject
  <2>3. o \in ObjectType
    BY SendableTyped
  <2>4. stage = "client" => \E b \in Bodies : o = Response("json", NotFound, b)
    BY SendableTyped
  <2> QED  BY <2>1, <2>2, <2>3, <2>4, ObjectsStart
<1>4. CASE Carry(Cut)
  <2>1. /\ \E f : frames' = Append(frames, f) /\ f.msg = Len(msgs)
        /\ msgs' = msgs /\ stage' = stage /\ objects' = objects
    BY <1>4 DEF Carry, Cut, CutOff, readerVars, textVars
  <2> QED  BY <2>1, ObjectsFrame
<1>5. CASE Carry(Beat)
  <2>1. /\ \E f : frames' = Append(frames, f) /\ f.msg = Len(msgs)
        /\ msgs' = msgs /\ stage' = stage /\ objects' = objects
    BY <1>5 DEF Carry, Beat, readerVars, textVars
  <2> QED  BY <2>1, ObjectsFrame
<1>6. CASE Enter
  BY <1>6, ObjectsKept DEF Enter, HandOver, encVars
<1>7. CASE Refuse \/ Receive \/ UNCHANGED sessionVars
  BY <1>7, ObjectsKept DEF Refuse, Receive, sessionVars, streamVars, encVars, readerVars, textVars
<1>8. CASE Carry(Arrive)
  BY <1>8, ObjectsKept DEF Carry, Arrive, encVars, readerVars, textVars
<1>9. CASE Carry(ReadHeader) \/ Carry(ReadBody) \/ Carry(DecodeBasic)
  <2>1. /\ UNCHANGED encVars /\ objects' = objects /\ stage' \in {stage, "ended", "failed"}
    BY <1>9 DEF Carry, ReadHeader, ReadBody, ReadUpTo, DecodeBasic, Fail, textVars
  <2> QED  BY <2>1, ObjectsKept DEF encVars
<1> QED  BY <1>1, <1>2, <1>3, <1>4, <1>5, <1>6, <1>7, <1>8, <1>9 DEF SessionNext

-----------------------------------------------------------------------------
(* What is decoded *)

\* message.rs: what decode_request() or decode_response() accepts, the encoders
\* accept, and it decodes to the same; a response keeps its state if that fits
\* into 16 bits, and then only (line 300).
THEOREM DecodedAgain ==
    ASSUME NEW o \in ObjectType, DecodeMessage(o).ok
    PROVE  LET m     == DecodeMessage(o).message
               again == Encode(m)
           IN /\ again.ok
              /\ DecodeMessage(again.object) = DecodeMessage(o)
              /\ m.header_type = o.header_type /\ m.content_type = o.content_type
              /\ m.body = o.body
              /\ o.header_type = "request" => m.path = o.path
              /\ o.header_type = "response" => (m.state = o.state <=> o.state < 65536)
<1> DEFINE m     == DecodeMessage(o).message
           again == Encode(m)
           Goal  == /\ again.ok
                    /\ DecodeMessage(again.object) = DecodeMessage(o)
                    /\ m.header_type = o.header_type /\ m.content_type = o.content_type
                    /\ m.body = o.body
                    /\ o.header_type = "request" => m.path = o.path
                    /\ o.header_type = "response" => (m.state = o.state <=> o.state < 65536)
<1> SUFFICES Goal
  OBVIOUS
<1>1. o.content_type \in ContentTypes /\ o.header_type \in {"request", "response"}
  BY DEF DecodeMessage, Failed
<1>2. CASE o.header_type = "request"
  <2>1. DecodeMessage(o) = DecodeRequest(o)
    BY <1>1, <1>2 DEF DecodeMessage
  <2>2. o.path \in Paths /\ BodyOK(o.content_type, o.body)
    BY <2>1 DEF DecodeRequest, Failed
  <2> DEFINE r == Request(o.content_type, o.path, o.body)
  <2>3. DecodeMessage(o) = [ok |-> TRUE, message |-> r]
    BY <2>1, <2>2 DEF DecodeRequest
  <2>4. /\ r.header_type = "request" /\ r.content_type = o.content_type
        /\ r.path = o.path /\ r.body = o.body
    BY DEF Request
  <2> HIDE DEF r
  <2>5. m = r
    BY <2>3
  <2>6. again = [ok |-> TRUE, object |-> r]
    <3>1. again = EncodeRequest(o.content_type, o.path, o.body)
      BY <2>4, <2>5 DEF Encode
    <3> QED  BY <2>2, <3>1 DEF EncodeRequest, r
  <2>7. DecodeMessage(r) = [ok |-> TRUE, message |-> r]
    <3>1. DecodeMessage(r) = DecodeRequest(r)
      BY <1>1, <2>4 DEF DecodeMessage
    <3>2. DecodeRequest(r) = [ok |-> TRUE, message |-> Request(r.content_type, r.path, r.body)]
      BY <2>2, <2>4 DEF DecodeRequest
    <3> QED  BY <2>4, <3>1, <3>2 DEF r
  <2>8. again.ok /\ again.object = r
    BY <2>6
  <2>9. DecodeMessage(again.object) = DecodeMessage(o)
    BY <2>3, <2>7, <2>8
  <2>10. /\ m.header_type = o.header_type /\ m.content_type = o.content_type
         /\ m.body = o.body /\ m.path = o.path /\ o.header_type # "response"
    BY <1>2, <2>4, <2>5
  <2> HIDE DEF again, m
  <2> QED  BY <2>8, <2>9, <2>10
<1>3. CASE o.header_type = "response"
  <2>1. DecodeMessage(o) = DecodeResponse(o)
    BY <1>1, <1>3 DEF DecodeMessage
  <2> DEFINE n == Narrow(o.state)
             r == Response(o.content_type, n, o.body)
  <2>2. o.state # NoNumber /\ n \in States /\ BodyOK(o.content_type, o.body)
    BY <2>1 DEF DecodeResponse, Failed
  <2>3. DecodeMessage(o) = [ok |-> TRUE, message |-> r]
    BY <2>1, <2>2 DEF DecodeResponse
  <2>4. /\ n = o.state <=> o.state < 65536
        /\ n # NoNumber /\ Narrow(n) = n
    <3>1. o.state \in Nat
      BY <2>2 DEF ObjectType
    <3>2. \A s \in Nat : s % 65536 = s <=> s < 65536
      OBVIOUS
    <3>3. n \in 100 .. 599
      BY <2>2 DEF States
    <3> QED  BY <3>1, <3>2, <3>3 DEF Narrow, NoNumber
  <2> HIDE DEF n
  <2>5. /\ r.header_type = "response" /\ r.content_type = o.content_type
        /\ r.state = n /\ r.body = o.body
    BY DEF Response
  <2> HIDE DEF r
  <2>6. m = r
    BY <2>3
  <2>7. again = [ok |-> TRUE, object |-> r]
    <3>1. again = EncodeResponse(o.content_type, n, o.body)
      BY <2>5, <2>6 DEF Encode
    <3> QED  BY <2>2, <3>1 DEF EncodeResponse, r
  <2>8. DecodeMessage(r) = [ok |-> TRUE, message |-> r]
    <3>1. DecodeMessage(r) = DecodeResponse(r)
      BY <1>1, <2>5 DEF DecodeMessage
    <3>2. DecodeResponse(r) =
            [ok |-> TRUE, message |-> Response(r.content_type, Narrow(r.state), r.body)]
      BY <2>2, <2>4, <2>5 DEF DecodeResponse
    <3> QED  BY <2>4, <2>5, <3>1, <3>2 DEF r
  <2>9. again.ok /\ again.object = r
    BY <2>7
  <2>10. m.state = o.state <=> o.state < 65536
    BY <2>4, <2>5, <2>6
  <2>11. /\ m.header_type = o.header_type /\ m.content_type = o.content_type
         /\ m.body = o.body /\ o.header_type # "request"
    BY <1>3, <2>5, <2>6
  <2>12. DecodeMessage(again.object) = DecodeMessage(o)
    BY <2>3, <2>8, <2>9
  <2> HIDE DEF again, m
  <2> QED  BY <2>9, <2>10, <2>12, <2>11
<1> QED  BY <1>1, <1>2, <1>3

-----------------------------------------------------------------------------
(* What is received *)

\* A message is complete when one of the frames read is its last.
LEMMA CompleteIs ==
    ASSUME StreamInv, ObjectsInv
    PROVE  /\ Complete = {m \in 1 .. Len(objects) :
                  /\ objects[m] # NoObject
                  /\ \E i \in 1 .. Len(decoded) :
                        /\ frames[i].kind = "message" /\ frames[i].msg = m /\ frames[i].end}
           /\ Len(objects) \in Nat
<1>1. DOMAIN objects = 1 .. Len(objects) /\ Len(objects) \in Nat
  BY LenProperties DEF ObjectsInv
<1>2. DOMAIN decoded = 1 .. Len(decoded) /\ \A i \in DOMAIN decoded : decoded[i] = i
  BY LenProperties DEF StreamInv, StreamTypeOK, AtFrame
<1> QED  BY <1>1, <1>2 DEF Complete

\* Messages come to their end in the order in which they were handed in.
LEMMA CompleteGrows ==
    ASSUME StreamInv, ObjectsInv, StreamInv', ObjectsInv',
           Len(decoded) <= Len(decoded'), Len(objects) <= Len(objects'),
           \A i \in 1 .. Len(frames) : i \in DOMAIN frames' /\ frames'[i] = frames[i],
           \A m \in 1 .. Len(objects) : objects'[m] = objects[m]
    PROVE  Complete \subseteq Complete' /\ \A m \in Complete' \ Complete, s \in Complete : s < m
<1>1. /\ Len(decoded) \in Nat /\ Len(decoded) <= Len(frames) /\ Len(frames) \in Nat
      /\ DOMAIN frames = 1 .. Len(frames)
      /\ \A k \in 1 .. Len(frames) : frames[k] \in FrameType /\ frames[k].msg <= Len(msgs)
  BY FramesFacts, LenProperties DEF StreamInv, StreamTypeOK, AtFrame, Tiling
<1>2. /\ Len(decoded') \in Nat /\ Len(decoded') <= Len(frames') /\ Len(frames') \in Nat
      /\ DOMAIN frames' = 1 .. Len(frames')
  <2>1. Len(frames') \in Nat /\ DOMAIN frames' = 1 .. Len(frames')
    BY LenProperties DEF StreamInv, StreamTypeOK
  <2>2. Len(decoded') \in Nat /\ Len(decoded') <= Len(frames')
    BY LenProperties DEF StreamInv, StreamTypeOK, AtFrame
  <2> QED  BY <2>1, <2>2
<1>3. /\ Complete = {m \in 1 .. Len(objects) :
             /\ objects[m] # NoObject
             /\ \E i \in 1 .. Len(decoded) :
                   /\ frames[i].kind = "message" /\ frames[i].msg = m /\ frames[i].end}
      /\ Len(objects) \in Nat /\ Len(objects) = Len(msgs)
  BY CompleteIs DEF ObjectsInv
<1>4. /\ Complete' = {m \in 1 .. Len(objects') :
             /\ objects'[m] # NoObject
             /\ \E i \in 1 .. Len(decoded') :
                   /\ frames'[i].kind = "message" /\ frames'[i].msg = m /\ frames'[i].end}
      /\ Len(objects') \in Nat
  <2>1. DOMAIN objects' = 1 .. Len(objects') /\ Len(objects') \in Nat
    BY LenProperties DEF ObjectsInv
  <2>2. DOMAIN decoded' = 1 .. Len(decoded') /\ \A i \in DOMAIN decoded' : decoded'[i] = i
    BY LenProperties DEF StreamInv, StreamTypeOK, AtFrame
  <2> QED  BY <2>1, <2>2 DEF Complete, NoObject, Request
<1>5. \A i \in 1 .. Len(decoded) :
         /\ i \in 1 .. Len(decoded') /\ i \in DOMAIN frames /\ i \in DOMAIN frames'
         /\ frames'[i] = frames[i] /\ frames[i].msg \in Nat /\ frames[i].msg <= Len(objects)
  BY <1>1, <1>2, <1>3 DEF FrameType
<1>6. Complete \subseteq Complete'
  <2> SUFFICES ASSUME NEW s \in Complete PROVE s \in Complete'
    OBVIOUS
  <2>1. s \in 1 .. Len(objects) /\ objects[s] # NoObject
    BY <1>3
  <2>2. PICK i \in 1 .. Len(decoded) :
           frames[i].kind = "message" /\ frames[i].msg = s /\ frames[i].end
    BY <1>3
  <2>3. s \in 1 .. Len(objects') /\ objects'[s] # NoObject
    BY <1>3, <1>4, <2>1
  <2>4. i \in 1 .. Len(decoded') /\ frames'[i] = frames[i]
    BY <1>5
  <2> QED  BY <1>4, <2>2, <2>3, <2>4
<1>7. ASSUME NEW m \in Complete', m \notin Complete, NEW s \in Complete
      PROVE  s < m
  <2>1. PICK j \in 1 .. Len(decoded') :
           frames'[j].kind = "message" /\ frames'[j].msg = m /\ frames'[j].end
    BY <1>4
  <2>2. m \in 1 .. Len(objects') /\ objects'[m] # NoObject
    BY <1>4
  <2>3. PICK i \in 1 .. Len(decoded) :
           frames[i].kind = "message" /\ frames[i].msg = s /\ frames[i].end
    BY <1>3
  <2>4. j \notin 1 .. Len(decoded)
    <3> SUFFICES ASSUME j \in 1 .. Len(decoded) PROVE FALSE
      OBVIOUS
    <3>1. frames'[j] = frames[j] /\ m <= Len(objects)
      BY <1>5, <2>1
    <3>2. m \in 1 .. Len(objects) /\ objects[m] # NoObject
      BY <1>3, <1>4, <2>2, <3>1
    <3>3. m \in Complete
      BY <1>3, <2>1, <3>1, <3>2
    <3> QED  BY <1>7, <3>3
  <2>5. i < j /\ i \in DOMAIN frames' /\ j \in DOMAIN frames'
    BY <1>1, <1>2, <1>5, <2>4
  <2>6. frames'[i].msg <= frames'[j].msg
    BY <2>5 DEF ObjectsInv
  <2>7. s <= m
    BY <1>5, <2>1, <2>3, <2>6
  <2>8. s # m /\ s \in Nat /\ m \in Nat
    BY <1>3, <1>4, <1>7
  <2> QED  BY <2>7, <2>8
<1> QED  BY <1>6, <1>7

\* A step that receives nothing.
LEMMA ReceivedKept ==
    ASSUME StreamInv, ObjectsInv, StreamInv', ObjectsInv', ReceivedInv,
           Len(decoded) <= Len(decoded'), Len(objects) <= Len(objects'),
           \A i \in 1 .. Len(frames) : i \in DOMAIN frames' /\ frames'[i] = frames[i],
           \A m \in 1 .. Len(objects) : objects'[m] = objects[m],
           received' = received
    PROVE  ReceivedInv'
<1>1. Complete \subseteq Complete' /\ \A m \in Complete' \ Complete, s \in Complete : s < m
  BY CompleteGrows
<1>2. Seen' = Seen /\ Seen \subseteq Complete
  BY DEF Seen, ReceivedInv
<1>3. \A i \in DOMAIN received : received[i].msg \in 1 .. Len(objects)
  BY <1>2, CompleteIs DEF Seen
<1>4. \A i \in DOMAIN received : received[i].as = DecodeMessage(objects'[received[i].msg])
  BY <1>3 DEF ReceivedInv
<1>5. \A m \in Complete' \ Seen', s \in Seen' : s < m
  <2> SUFFICES ASSUME NEW m \in Complete', m \notin Seen, NEW s \in Seen PROVE s < m
    BY <1>2
  <2>1. CASE m \in Complete
    BY <2>1 DEF ReceivedInv
  <2>2. CASE m \notin Complete
    BY <1>1, <1>2, <2>2
  <2> QED  BY <2>1, <2>2
<1> QED  BY <1>1, <1>2, <1>4, <1>5 DEF ReceivedInv

LEMMA ReceiveStep ==
    ASSUME StreamInv, ObjectsInv, ReceivedInv, Receive
    PROVE  ReceivedInv'
<1> DEFINE left == Complete \ Seen
           m == First(left)
           r == [msg |-> m, as |-> DecodeMessage(objects[m])]
<1>1. /\ Complete # Seen /\ received' = Append(received, r)
      /\ UNCHANGED <<streamVars, objects>>
  BY DEF Receive
<1>2. Complete' = Complete
  BY <1>1 DEF Complete, streamVars, encVars, readerVars
<1>3. m \in left /\ \A n \in left : m <= n
  <2>1. left \subseteq Nat /\ left # {}
    <3>1. Complete \subseteq Nat
      BY CompleteIs
    <3>2. Seen \subseteq Complete
      BY DEF ReceivedInv
    <3> QED  BY <1>1, <3>1, <3>2
  <2> HIDE DEF left
  <2> QED  BY <2>1, FirstIs
<1>4. m \in Complete /\ m \notin Seen /\ m \in Nat /\ objects[m] \in ObjectType
  <2>1. m \in Complete /\ m \notin Seen
    BY <1>3
  <2> HIDE DEF m
  <2>2. m \in 1 .. Len(objects) /\ Len(objects) \in Nat
    BY <2>1, CompleteIs
  <2>3. objects[m] \in ObjectType
    BY <2>2, ElementOfSeq DEF ObjectsInv
  <2> QED  BY <2>1, <2>2, <2>3
<1> HIDE DEF m
<1>5. \A n \in Complete : n \notin Seen => m <= n
  BY <1>3
<1> DEFINE n == Len(received)
<1>6. /\ received \in Seq(ReceivedType) /\ n \in Nat /\ DOMAIN received = 1 .. n
      /\ \A i \in 1 .. n : received[i].msg \in Seen
  BY LenProperties DEF ReceivedInv, Seen
<1>7. /\ received' \in Seq(ReceivedType) /\ Len(received') = n + 1
      /\ DOMAIN received' = 1 .. n + 1
      /\ \A i \in 1 .. n : received'[i] = received[i]
      /\ received'[n + 1] = r
  <2>1. r \in ReceivedType
    BY <1>4 DEF ReceivedType
  <2> HIDE DEF r
  <2> QED  BY <1>1, <1>6, <2>1, AppendProperties, LenProperties
<1>8. r.msg = m /\ r.as = DecodeMessage(objects[m])
  OBVIOUS
<1> HIDE DEF r
<1>9. Seen' = Seen \cup {m}
  <2>1. Seen' = {received'[i].msg : i \in 1 .. n + 1}
    BY <1>7 DEF Seen
  <2>2. Seen = {received[i].msg : i \in 1 .. n}
    BY <1>6 DEF Seen
  <2>3. 1 .. n + 1 = 1 .. n \cup {n + 1}
    BY <1>6
  <2> HIDE DEF n
  <2> QED  BY <1>7, <1>8, <2>1, <2>2, <2>3
<1>10. \A s \in Seen : s < m
  BY <1>4 DEF ReceivedInv
<1>11. ASSUME NEW i \in DOMAIN received'
       PROVE  received'[i].as = DecodeMessage(objects'[received'[i].msg])
  <2>1. objects' = objects
    BY <1>1
  <2>2. CASE i \in 1 .. n
    BY <1>6, <1>7, <2>1, <2>2 DEF ReceivedInv
  <2>3. CASE i = n + 1
    BY <1>7, <1>8, <2>1, <2>3
  <2> QED  BY <1>6, <1>7, <2>2, <2>3
<1>12. ASSUME NEW i \in DOMAIN received', NEW j \in DOMAIN received', i < j
       PROVE  received'[i].msg < received'[j].msg
  <2>1. i \in 1 .. n
    BY <1>6, <1>7, <1>12
  <2>2. CASE j \in 1 .. n
    BY <1>6, <1>7, <1>12, <2>1, <2>2 DEF ReceivedInv
  <2>3. CASE j = n + 1
    BY <1>6, <1>7, <1>8, <1>10, <2>1, <2>3
  <2> QED  BY <1>6, <1>7, <2>2, <2>3
<1>13. Seen' \subseteq Complete'
  BY <1>2, <1>4, <1>9 DEF ReceivedInv
<1>14. ASSUME NEW q \in Complete' \ Seen', NEW s \in Seen'
       PROVE  s < q
  <2>1. q \in Complete /\ q \notin Seen /\ q # m
    BY <1>2, <1>9
  <2>2. CASE s \in Seen
    BY <2>1, <2>2 DEF ReceivedInv
  <2>3. CASE s = m
    <3>1. m <= q /\ q \in Nat
      BY <1>5, <2>1, CompleteIs
    <3> QED  BY <1>4, <2>1, <2>3, <3>1
  <2> QED  BY <1>9, <2>2, <2>3
<1> QED  BY <1>7, <1>11, <1>12, <1>13, <1>14 DEF ReceivedInv

LEMMA ReceivedStep ==
    ASSUME StreamInv, StreamInv', ObjectsInv, ObjectsInv', ReceivedInv,
           [SessionNext]_sessionVars
    PROVE  ReceivedInv'
<1>1. /\ frames \in Seq(FrameType) /\ Len(frames) \in Nat /\ DOMAIN frames = 1 .. Len(frames)
      /\ decoded \in Seq(Nat) /\ Len(decoded) \in Nat
      /\ objects \in Seq(ObjectType) /\ Len(objects) \in Nat
  BY FramesFacts, LenProperties DEF StreamInv, StreamTypeOK, ObjectsInv
<1>2. ASSUME NEW o, objects' = Append(objects, o), frames' = frames, decoded' = decoded,
             received' = received
      PROVE  ReceivedInv'
  <2>1. Len(objects') = Len(objects) + 1 /\ \A m \in 1 .. Len(objects) : objects'[m] = objects[m]
    BY <1>1, <1>2, AppendIs
  <2>2. Len(objects) <= Len(objects') /\ Len(decoded) <= Len(decoded')
    BY <1>1, <1>2, <2>1
  <2>3. \A i \in 1 .. Len(frames) : i \in DOMAIN frames' /\ frames'[i] = frames[i]
    BY <1>1, <1>2
  <2> QED  BY <1>2, <2>1, <2>2, <2>3, ReceivedKept
<1>3. ASSUME NEW f, frames' = Append(frames, f), objects' = objects, decoded' = decoded,
             received' = received
      PROVE  ReceivedInv'
  <2>1. \A i \in 1 .. Len(frames) : i \in DOMAIN frames' /\ frames'[i] = frames[i]
    BY <1>1, <1>3, AppendIs
  <2>2. Len(objects) <= Len(objects') /\ Len(decoded) <= Len(decoded')
    BY <1>1, <1>3
  <2> QED  BY <1>3, <2>1, <2>2, ReceivedKept
<1>4. ASSUME decoded' = decoded \/ \E k : decoded' = Append(decoded, k),
             frames' = frames, objects' = objects, received' = received
      PROVE  ReceivedInv'
  <2>1. Len(decoded) <= Len(decoded')
    BY <1>1, <1>4, AppendIs
  <2>2. \A i \in 1 .. Len(frames) : i \in DOMAIN frames' /\ frames'[i] = frames[i]
    BY <1>1, <1>4
  <2>3. Len(objects) <= Len(objects')
    BY <1>1, <1>4
  <2> QED  BY <1>4, <2>1, <2>2, <2>3, ReceivedKept
<1>5. CASE Validate \/ SendObject \/ SendNothing
  <2>1. /\ \E o : objects' = Append(objects, o)
        /\ received' = received
    BY <1>5 DEF Validate, SendObject, SendNothing
  <2>2. frames' = frames /\ decoded' = decoded
    BY <1>5 DEF Validate, SendObject, SendNothing, Start, readerVars
  <2> QED  BY <1>2, <2>1, <2>2
<1>6. CASE Carry(Cut) \/ Carry(Beat)
  <2>1. /\ \E f : frames' = Append(frames, f)
        /\ objects' = objects /\ decoded' = decoded /\ received' = received
    BY <1>6 DEF Carry, Cut, CutOff, Beat, readerVars, textVars
  <2> QED  BY <1>3, <2>1
<1>7. CASE Carry(ReadHeader) \/ Carry(ReadBody) \/ Carry(DecodeBasic)
  <2>1. UNCHANGED encVars /\ objects' = objects /\ received' = received
    BY <1>7 DEF Carry, ReadHeader, ReadBody, ReadUpTo, DecodeBasic, textVars
  <2>2. decoded' = decoded \/ \E k : decoded' = Append(decoded, k)
    BY <1>7 DEF Carry, ReadHeader, ReadBody, ReadUpTo, DecodeBasic, Fail
  <2> QED  BY <1>4, <2>1, <2>2 DEF encVars
<1>8. CASE Enter
  <2>1. frames' = frames /\ decoded' = decoded /\ objects' = objects /\ received' = received
    BY <1>8 DEF Enter, HandOver, encVars
  <2> QED  BY <1>4, <2>1
<1>9. CASE Refuse \/ Carry(Arrive) \/ UNCHANGED sessionVars
  <2>1. frames' = frames /\ decoded' = decoded /\ objects' = objects /\ received' = received
    BY <1>9 DEF Refuse, Carry, Arrive, sessionVars, streamVars, encVars, readerVars, textVars
  <2> QED  BY <1>4, <2>1
<1>10. CASE Receive
  BY <1>10, ReceiveStep
<1> QED  BY <1>5, <1>6, <1>7, <1>8, <1>9, <1>10 DEF SessionNext

\* A response of the server's own is read as it was made.
LEMMA OwnResponseRead ==
    ASSUME NEW b \in Bodies
    PROVE  DecodeMessage(Response("json", NotFound, b)) =
              [ok |-> TRUE, message |-> Response("json", NotFound, b)]
<1> DEFINE o == Response("json", NotFound, b)
<1>1. /\ o.header_type = "response" /\ o.content_type = "json"
      /\ o.state = NotFound /\ o.body = b
  BY DEF Response
<1>2. NotFound \in States /\ NotFound # NoNumber /\ Narrow(NotFound) = NotFound
  <2>1. NotFound \in 100 .. 599
    BY SessionAssumption DEF SessionAssumption, States
  <2> QED  BY <2>1 DEF States, NoNumber, Narrow
<1> HIDE DEF o
<1>3. DecodeMessage(o) = DecodeResponse(o)
  BY <1>1 DEF DecodeMessage, ContentTypes
<1>4. DecodeResponse(o) = [ok |-> TRUE, message |-> Response(o.content_type, Narrow(o.state), o.body)]
  BY <1>1, <1>2 DEF DecodeResponse, BodyOK
<1> QED  BY <1>1, <1>2, <1>3, <1>4 DEF o

\* message.rs, decode_from_bytes() and the encoders: whatever objects are sent, they
\* are read in the order of their messages; what is accepted can be encoded again and
\* decodes to the same, nothing of it changed but a state that does not fit into 16
\* bits; and every response the server makes is understood.
THEOREM MessagesRoundTrip == Session => []MessageRoundTrip
<1> DEFINE Inv == ObjectsInv /\ ReceivedInv
<1>1. SessionInit => Inv
  <2> SUFFICES ASSUME SessionInit PROVE Inv
    OBVIOUS
  <2>1. /\ msgs = <<>> /\ objects = <<>> /\ received = <<>>
        /\ frames = <<>> /\ decoded = <<>>
    BY DEF SessionInit, Init
  <2>2. ObjectsInv
    BY <2>1, LenEmpty DEF ObjectsInv
  <2>3. Complete = {} /\ Seen = {}
    BY <2>1, LenEmpty DEF Complete, Seen
  <2>4. ReceivedInv
    BY <2>1, <2>3, LenEmpty DEF ReceivedInv
  <2> QED  BY <2>2, <2>4
<1>2. StreamInv /\ StreamInv' /\ Inv /\ [SessionNext]_sessionVars => Inv'
  BY ObjectsStep, ReceivedStep
<1>3. StreamInv /\ Inv => MessageRoundTrip
  <2> SUFFICES ASSUME StreamInv, ObjectsInv, ReceivedInv, NEW i \in DOMAIN received
               PROVE  LET m == received[i].msg
                          o == objects[m]
                          r == received[i].as
                      IN /\ \A j \in 1 .. i - 1 : received[j].msg < m
                         /\ stage = "client" => r.ok /\ r.message = o
                         /\ r.ok =>
                              LET again == Encode(r.message)
                              IN /\ again.ok
                                 /\ DecodeMessage(again.object) = r
                                 /\ r.message.header_type = o.header_type
                                 /\ r.message.content_type = o.content_type
                                 /\ r.message.body = o.body
                                 /\ o.header_type = "request" => r.message.path = o.path
                                 /\ o.header_type = "response" =>
                                       (r.message.state = o.state <=> o.state < 65536)
    BY DEF MessageRoundTrip
  <2> DEFINE m == received[i].msg
             o == objects[m]
             r == received[i].as
  <2>1. \A j \in 1 .. i - 1 : received[j].msg < m
    <3>1. DOMAIN received = 1 .. Len(received) /\ Len(received) \in Nat
      BY LenProperties DEF ReceivedInv
    <3>2. \A j \in 1 .. i - 1 : j \in DOMAIN received /\ j < i
      BY <3>1
    <3> QED  BY <3>2 DEF ReceivedInv
  <2>2. m \in Complete /\ r = DecodeMessage(o)
    BY DEF ReceivedInv, Seen
  <2>3. m \in DOMAIN objects /\ o # NoObject
    BY <2>2 DEF Complete
  <2>4. o \in ObjectType
    <3>1. DOMAIN objects = 1 .. Len(objects)
      BY LenProperties DEF ObjectsInv
    <3> HIDE DEF m
    <3> QED  BY <2>3, <3>1, ElementOfSeq DEF ObjectsInv
  <2>5. ASSUME stage = "client" PROVE r.ok /\ r.message = o
    <3>1. PICK b \in Bodies : o = Response("json", NotFound, b)
      <4> HIDE DEF m
      <4> QED  BY <2>3, <2>5 DEF ObjectsInv
    <3>2. r = [ok |-> TRUE, message |-> o]
      BY <2>2, <3>1, OwnResponseRead
    <3> HIDE DEF r, o
    <3> QED  BY <3>2
  <2>6. ASSUME r.ok
        PROVE  LET again == Encode(r.message)
               IN /\ again.ok
                  /\ DecodeMessage(again.object) = r
                  /\ r.message.header_type = o.header_type
                  /\ r.message.content_type = o.content_type
                  /\ r.message.body = o.body
                  /\ o.header_type = "request" => r.message.path = o.path
                  /\ o.header_type = "response" =>
                        (r.message.state = o.state <=> o.state < 65536)
    <3> HIDE DEF o, r
    <3>1. DecodeMessage(o).ok
      BY <2>2, <2>6
    <3> QED  BY <2>2, <2>4, <3>1, DecodedAgain
  <2> QED  BY <2>1, <2>5, <2>6
<1> HIDE DEF Inv
<1>4. Session => []StreamInv
  BY SessionIntact, PTL
<1> QED  BY <1>1, <1>2, <1>3, <1>4, PTL DEF Session
=============================================================================
