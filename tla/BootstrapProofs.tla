--------------------------- MODULE BootstrapProofs ---------------------------
(***************************************************************************)
(* Proofs about Bootstrap and what it is composed of, for any connections, *)
(* migration output and handlers: serving, the masked output of the        *)
(* migrations, the audit trail of the requests, and the service, in which  *)
(* each of them behaves as its own module says.                            *)
(***************************************************************************)
EXTENDS Bootstrap, SequenceTheorems, WellFoundedInduction, TLAPS

AP == INSTANCE AuditProofs WITH Requests <- Audited

----------------------------------------------------------------------------
(* Serving. *)

\* Until Serve has returned, only a signal ends the context or the listener.
OnlySignals ==
    /\ main \in {"start", "serve"} /\ (done \/ ~listening) => signalled
    /\ err = "closed" => signalled

\* No connection is accepted any more, and none is left when it is over
\* unless the timeout ran out.
Drained ==
    /\ main = "start" => listening /\ busy = {} /\ \A c \in Connections : conn[c] = "none"
    /\ shutdown # "waiting" => main = "start" \/ ~listening
    /\ shutdown = "over" => main # "serve" /\ (busy = {} \/ timedOut)

\* The order of the end.
Ordered ==
    /\ main = "returned" => shutdown = "over"
    /\ result # "none" => main = "returned" /\ result = resultOf(err)

Inv == TypeOK /\ OnlySignals /\ Drained /\ Ordered

\* Nothing has happened yet.
LEMMA InvInit == Init => Inv
BY DEF Init, Inv, TypeOK, OnlySignals, Drained, Ordered, busy

\* A connection step leaves the rest alone, and opens none without a listener.
LEMMA ConnectionKept ==
    ASSUME Inv, NEW c \in Connections, Connect(c) \/ Request(c) \/ Finish(c)
    PROVE  Inv'
<1> USE DEF Inv
<1>1. /\ conn' \in [Connections -> {"none", "new", "active", "closed"}]
      /\ UNCHANGED <<main, err, result, done, signalled, shutdown, timedOut, listening>>
  BY DEF Connect, Request, Finish, TypeOK
<1>2. main # "serve" \/ ~listening => busy' \subseteq busy
  BY DEF Connect, Request, Finish, TypeOK, busy
<1>3. main # "start"
  BY DEF Connect, Request, Finish, Drained
<1> QED
  BY <1>1, <1>2, <1>3 DEF TypeOK, OnlySignals, Drained, Ordered, resultOf

\* Whatever the goroutines, signals and connections do next.
LEMMA InvKept == Inv /\ [Next]_vars => Inv'
<1> SUFFICES ASSUME Inv, [Next]_vars PROVE Inv'
  OBVIOUS
<1> USE DEF Inv, TypeOK, OnlySignals, Drained, Ordered
<1>1. CASE \E c \in Connections : Connect(c) \/ Request(c) \/ Finish(c)
  BY <1>1, ConnectionKept
<1>2. CASE Signal
  BY <1>2 DEF Signal, busy, resultOf
<1>3. CASE ServeFails
  BY <1>3 DEF ServeFails, busy, resultOf
<1>4. CASE ServeCloses
  BY <1>4 DEF ServeCloses, busy, resultOf
<1>5. CASE Cancel
  BY <1>5 DEF Cancel, cancel, busy, resultOf
<1>6. CASE Return
  BY <1>6 DEF Return, shutdownDone, busy, resultOf
<1>7. CASE StartServe
  BY <1>7 DEF StartServe, busy, resultOf
<1>8. CASE BeginShutdown
  BY <1>8 DEF BeginShutdown, contextDone, busy, resultOf
<1>9. CASE EndShutdown
  BY <1>9 DEF EndShutdown, busy, resultOf
<1>10. CASE UNCHANGED vars
  BY <1>10 DEF vars, busy, resultOf
<1> QED
  BY <1>1, <1>2, <1>3, <1>4, <1>5, <1>6, <1>7, <1>8, <1>9, <1>10 DEF Next, MainStep

\* So it holds throughout any run of Serve.
LEMMA InvAlways == SafeSpec => []Inv
BY InvInit, InvKept, PTL DEF SafeSpec

----------------------------------------------------------------------------
(* The output of the migrations: numbers first. *)

\* A set of numbers has a smallest element, and a largest when it is bounded.
LEMMA SmallestOf ==
    ASSUME NEW S \in SUBSET Nat, S # {}
    PROVE  \E m \in S : \A k \in S : m <= k
<1>1. PICK m \in S : \A k \in S : <<k, m>> \notin OpToRel(<, Nat)
  BY WFMin, NatLessThanWellFounded, Zenon
<1>2. \A k \in S : ~(k < m)
  BY <1>1, Zenon DEF OpToRel
<1> QED
  BY <1>2

\* Of numbers up to a bound one is the largest.
LEMMA LargestOf ==
    ASSUME NEW N \in Nat, NEW S \in SUBSET (0 .. N), S # {}
    PROVE  \E m \in S : \A k \in S : k <= m
<1> DEFINE T == {N - k : k \in S}
<1>1. T \in SUBSET Nat /\ T # {}
  <2>1. \A k \in S : k \in 0 .. N /\ N - k \in Nat /\ N - k \in T
    OBVIOUS
  <2> QED
    BY <2>1
<1>2. PICK d \in T : \A e \in T : d <= e
  BY <1>1, SmallestOf
<1>3. PICK m \in S : d = N - m
  BY <1>2
<1>4. ASSUME NEW k \in S PROVE k <= m
  <2>1. N - k \in T
    OBVIOUS
  <2>2. d <= N - k
    BY <1>2, <2>1
  <2> QED
    BY <1>3, <2>2
<1> QED
  BY <1>4

----------------------------------------------------------------------------
(* Masking line by line is masking the whole. *)

\* A segment of s is empty, or begins and ends where lines do.
Segment(s, a, b) ==
    /\ a \in Nat \ {0} /\ b \in Nat /\ a <= b + 1 /\ b <= Len(s)
    /\ a <= b => /\ a = 1 \/ s[a - 1] = "\n"
                 /\ b = Len(s) \/ s[b] = "\n"

\* The text from a to b, token by token.
LEMMA SegmentText ==
    ASSUME NEW S, NEW s \in Seq(S), NEW a \in Nat \ {0}, NEW b \in Nat, a <= b + 1, b <= Len(s)
    PROVE  /\ SubSeq(s, a, b) \in Seq(S) /\ Len(SubSeq(s, a, b)) = b - a + 1
           /\ \A k \in 1 .. b - a + 1 : SubSeq(s, a, b)[k] = s[a + k - 1]
<1>1. \A i \in a .. b : s[i] \in S
  OBVIOUS
<1> QED
  BY <1>1, SubSeqProperties

\* The expression does not match across the end of a line.
LEMMA SegmentPassword ==
    ASSUME NEW s \in Seq(Tokens), NEW a, NEW b, Segment(s, a, b), NEW i \in a .. b
    PROVE  isPassword(SubSeq(s, a, b), i - a + 1) <=> isPassword(s, i)
<1> DEFINE t == SubSeq(s, a, b)
<1>1. /\ a \in Nat \ {0} /\ b \in Nat /\ a <= b /\ b <= Len(s) /\ Len(s) \in Nat /\ i \in Nat
      /\ a = 1 \/ s[a - 1] = "\n"
      /\ b = Len(s) \/ s[b] = "\n"
  BY DEF Segment
<1>2. /\ DOMAIN t = 1 .. b - a + 1 /\ DOMAIN s = 1 .. Len(s)
      /\ \A k \in 1 .. b - a + 1 : t[k] = s[a + k - 1]
  <2>1. t \in Seq(Tokens) /\ Len(t) = b - a + 1 /\ \A k \in 1 .. b - a + 1 : t[k] = s[a + k - 1]
    BY <1>1, SegmentText
  <2> QED
    BY <2>1
<1> HIDE DEF t
<1>3. ASSUME isPassword(t, i - a + 1) PROVE isPassword(s, i)
  <2>1. PICK scheme, colon, at \in 1 .. b - a + 1 :
        /\ scheme + 1 < colon /\ colon < i - a + 1 /\ i - a + 1 < at
        /\ t[scheme] = "postgres://" /\ t[colon] = ":" /\ t[at] = "@"
        /\ \A k \in scheme + 1 .. colon - 1 : t[k] \in {"w", "p"}
        /\ \A k \in colon + 1 .. at - 1 : t[k] \in {"w", "p", ":"}
    BY <1>2, <1>3 DEF isPassword
  <2> DEFINE x == a + scheme - 1
             y == a + colon - 1
             z == a + at - 1
  <2>2. /\ x \in 1 .. Len(s) /\ y \in 1 .. Len(s) /\ z \in 1 .. Len(s)
        /\ x + 1 < y /\ y < i /\ i < z
    BY <1>1, <2>1
  <2>5. s[x] = "postgres://" /\ s[y] = ":" /\ s[z] = "@"
    BY <1>2, <2>1
  <2>3. ASSUME NEW k \in x + 1 .. y - 1 PROVE s[k] \in {"w", "p"}
    <3>1. k - a + 1 \in scheme + 1 .. colon - 1 /\ k - a + 1 \in 1 .. b - a + 1
          /\ a + (k - a + 1) - 1 = k
      BY <1>1, <2>1
    <3> QED
      BY <1>2, <2>1, <3>1
  <2>4. ASSUME NEW k \in y + 1 .. z - 1 PROVE s[k] \in {"w", "p", ":"}
    <3>1. k - a + 1 \in colon + 1 .. at - 1 /\ k - a + 1 \in 1 .. b - a + 1
          /\ a + (k - a + 1) - 1 = k
      BY <1>1, <2>1
    <3> QED
      BY <1>2, <2>1, <3>1
  <2> HIDE DEF x, y, z
  <2> QED
    BY <1>2, <2>2, <2>3, <2>4, <2>5 DEF isPassword
<1>4. ASSUME isPassword(s, i) PROVE isPassword(t, i - a + 1)
  <2>1. PICK scheme, colon, at \in 1 .. Len(s) :
        /\ scheme + 1 < colon /\ colon < i /\ i < at
        /\ s[scheme] = "postgres://" /\ s[colon] = ":" /\ s[at] = "@"
        /\ \A k \in scheme + 1 .. colon - 1 : s[k] \in {"w", "p"}
        /\ \A k \in colon + 1 .. at - 1 : s[k] \in {"w", "p", ":"}
    BY <1>2, <1>4 DEF isPassword
  <2>2. \A k \in scheme .. at : s[k] # "\n"
    <3> SUFFICES ASSUME NEW k \in scheme .. at PROVE s[k] # "\n"
      OBVIOUS
    <3>1. \/ k \in {scheme, colon, at}
          \/ k \in scheme + 1 .. colon - 1 \/ k \in colon + 1 .. at - 1
      BY <2>1
    <3> QED
      BY <2>1, <3>1
  <2>3. a <= scheme
    BY <1>1, <2>1, <2>2
  <2>4. at <= b
    BY <1>1, <2>1, <2>2
  <2> DEFINE x == scheme - a + 1
             y == colon - a + 1
             z == at - a + 1
  <2>5. /\ x \in 1 .. b - a + 1 /\ y \in 1 .. b - a + 1 /\ z \in 1 .. b - a + 1
        /\ a + x - 1 = scheme /\ a + y - 1 = colon /\ a + z - 1 = at
        /\ x + 1 < y /\ y < i - a + 1 /\ i - a + 1 < z
    BY <1>1, <2>1, <2>3, <2>4
  <2>6. t[x] = "postgres://" /\ t[y] = ":" /\ t[z] = "@"
    BY <1>2, <2>1, <2>5
  <2>7. ASSUME NEW k \in x + 1 .. y - 1 PROVE t[k] \in {"w", "p"}
    <3>1. k \in 1 .. b - a + 1 /\ a + k - 1 \in scheme + 1 .. colon - 1
      BY <1>1, <2>1, <2>5
    <3> QED
      BY <1>2, <2>1, <3>1
  <2>8. ASSUME NEW k \in y + 1 .. z - 1 PROVE t[k] \in {"w", "p", ":"}
    <3>1. k \in 1 .. b - a + 1 /\ a + k - 1 \in colon + 1 .. at - 1
      BY <1>1, <2>1, <2>5
    <3> QED
      BY <1>2, <2>1, <3>1
  <2> HIDE DEF x, y, z
  <2> QED
    BY <1>2, <2>5, <2>6, <2>7, <2>8 DEF isPassword
<1> QED
  BY <1>3, <1>4 DEF t

lineStart(s, i) == CHOOSE j \in 1 .. i :
                     /\ j = 1 \/ s[j - 1] = "\n"
                     /\ \A k \in j .. i - 1 : s[k] # "\n"
newlines(s, i) == {k \in i .. Len(s) : s[k] = "\n"}
lineEnd(s, i) == CHOOSE k \in newlines(s, i) \cup {Len(s)} : \A m \in newlines(s, i) : k <= m

\* The line of token i.
LEMMA LineIsSegment ==
    ASSUME NEW s \in Seq(Tokens), NEW i \in 1 .. Len(s)
    PROVE  /\ Segment(s, lineStart(s, i), lineEnd(s, i))
           /\ i \in lineStart(s, i) .. lineEnd(s, i)
<1>1. /\ lineStart(s, i) \in 1 .. i
      /\ lineStart(s, i) = 1 \/ s[lineStart(s, i) - 1] = "\n"
  <2> DEFINE starts == {j \in 1 .. i : j = 1 \/ s[j - 1] = "\n"}
  <2>1. i \in Nat /\ starts \in SUBSET (0 .. i) /\ starts # {}
    <3>1. Len(s) \in Nat
      OBVIOUS
    <3>2. i \in Nat /\ 1 \in 1 .. i
      BY <3>1
    <3>3. 1 .. i \subseteq 0 .. i
      BY <3>2
    <3>4. 1 \in starts
      BY <3>2
    <3> QED
      BY <3>2, <3>3, <3>4
  <2>2. PICK m \in starts : \A j \in starts : j <= m
    BY <2>1, LargestOf
  <2>3. \A k \in m .. i - 1 : s[k] # "\n"
    <3> SUFFICES ASSUME NEW k \in m .. i - 1, s[k] = "\n" PROVE FALSE
      OBVIOUS
    <3>1. k + 1 \in 1 .. i /\ (k + 1) - 1 = k
      BY <2>2
    <3>2. k + 1 \in starts
      BY <3>1
    <3> QED
      BY <2>2, <3>1, <3>2
  <2>4. \E j \in 1 .. i : (j = 1 \/ s[j - 1] = "\n") /\ \A k \in j .. i - 1 : s[k] # "\n"
    BY <2>2, <2>3
  <2> QED
    BY <2>4 DEF lineStart
<1>2. /\ lineEnd(s, i) \in newlines(s, i) \cup {Len(s)}
      /\ \A m \in newlines(s, i) : lineEnd(s, i) <= m
  <2>1. \E k \in newlines(s, i) \cup {Len(s)} : \A m \in newlines(s, i) : k <= m
    <3>1. CASE newlines(s, i) = {}
      BY <3>1
    <3>2. CASE newlines(s, i) # {}
      <4>1. newlines(s, i) \in SUBSET Nat
        BY DEF newlines
      <4> QED
        BY <3>2, <4>1, SmallestOf
    <3> QED
      BY <3>1, <3>2
  <2> QED
    BY <2>1 DEF lineEnd
<1>3. lineEnd(s, i) \in i .. Len(s) /\ (lineEnd(s, i) = Len(s) \/ s[lineEnd(s, i)] = "\n")
  BY <1>2 DEF newlines
<1> QED
  BY <1>1, <1>3 DEF Segment

\* Masking the lines of a segment is masking it in its place.
LEMMA MaskedInPlace ==
    ASSUME NEW s \in Seq(Tokens), NEW a, NEW b, Segment(s, a, b)
    PROVE  /\ lineByLine(SubSeq(s, a, b)) \in Seq(Tokens \cup {"***"})
           /\ Len(lineByLine(SubSeq(s, a, b))) = b - a + 1
           /\ \A k \in 1 .. b - a + 1 :
                 lineByLine(SubSeq(s, a, b))[k] = SanitizeDatabaseURL(s)[a + k - 1]
<1> DEFINE t == SubSeq(s, a, b)
<1>1. /\ a \in Nat \ {0} /\ b \in Nat /\ a <= b + 1 /\ b <= Len(s) /\ b - a + 1 \in Nat
      /\ Len(s) \in Nat
  BY DEF Segment
<1>2. /\ t \in Seq(Tokens) /\ Len(t) = b - a + 1 /\ DOMAIN t = 1 .. b - a + 1
      /\ \A k \in 1 .. b - a + 1 : t[k] = s[a + k - 1]
  BY <1>1, SegmentText
<1> HIDE DEF t
<1>3. lineByLine(t) = [i \in DOMAIN t |->
          SanitizeDatabaseURL(SubSeq(t, lineStart(t, i), lineEnd(t, i)))[i - lineStart(t, i) + 1]]
  BY DEF lineByLine, lineStart, lineEnd, newlines
<1>4. ASSUME NEW k \in 1 .. b - a + 1
      PROVE  /\ lineByLine(t)[k] = SanitizeDatabaseURL(s)[a + k - 1]
             /\ lineByLine(t)[k] \in Tokens \cup {"***"}
  <2> DEFINE x == lineStart(t, k)
             y == lineEnd(t, k)
             u == SubSeq(t, x, y)
  <2>1. Segment(t, x, y) /\ k \in x .. y
    BY <1>2, LineIsSegment
  <2> HIDE DEF x, y
  <2>2. x \in Nat \ {0} /\ y \in Nat /\ x <= y + 1 /\ y <= Len(t)
    BY <2>1 DEF Segment
  <2>3. u \in Seq(Tokens) /\ Len(u) = y - x + 1 /\ \A j \in 1 .. y - x + 1 : u[j] = t[x + j - 1]
    BY <1>2, <2>2, SegmentText
  <2>4. k - x + 1 \in 1 .. y - x + 1 /\ x + (k - x + 1) - 1 = k
    BY <2>1, <2>2
  <2>5. k - x + 1 \in DOMAIN u /\ u[k - x + 1] = t[k]
    BY <2>3, <2>4
  <2>6. isPassword(u, k - x + 1) <=> isPassword(t, k)
    BY <1>2, <2>1, SegmentPassword
  <2>7. a + k - 1 \in a .. b /\ (a + k - 1) - a + 1 = k /\ a + k - 1 \in 1 .. Len(s)
    BY <1>1
  <2>8. isPassword(t, k) <=> isPassword(s, a + k - 1)
    BY <2>7, SegmentPassword DEF t
  <2>9. lineByLine(t)[k] = SanitizeDatabaseURL(u)[k - x + 1]
    BY <1>2, <1>3 DEF x, y
  <2> HIDE DEF u
  <2>10. lineByLine(t)[k] = IF isPassword(u, k - x + 1) THEN "***" ELSE u[k - x + 1]
    BY <2>5, <2>9 DEF SanitizeDatabaseURL
  <2>11. SanitizeDatabaseURL(s)[a + k - 1] =
            IF isPassword(s, a + k - 1) THEN "***" ELSE s[a + k - 1]
    BY <2>7 DEF SanitizeDatabaseURL
  <2>12. t[k] \in Tokens /\ t[k] = s[a + k - 1]
    BY <1>2, ElementOfSeq
  <2> QED
    BY <2>5, <2>6, <2>8, <2>10, <2>11, <2>12
<1>5. lineByLine(t) \in [1 .. b - a + 1 -> Tokens \cup {"***"}]
  <2>1. DOMAIN lineByLine(t) = 1 .. b - a + 1
    BY <1>2, <1>3
  <2> DEFINE f == lineByLine(t)
  <2>2. f = [i \in 1 .. b - a + 1 |-> f[i]]
    BY <1>2, <1>3
  <2> HIDE DEF f
  <2>3. \A i \in 1 .. b - a + 1 : f[i] \in Tokens \cup {"***"}
    BY <1>4 DEF f
  <2>4. f \in [1 .. b - a + 1 -> Tokens \cup {"***"}]
    BY <2>2, <2>3
  <2> QED
    BY <2>4 DEF f
<1>6. lineByLine(t) \in Seq(Tokens \cup {"***"}) /\ Len(lineByLine(t)) = b - a + 1
  BY <1>1, <1>5, SeqDef
<1> QED
  BY <1>4, <1>6 DEF t

\* What completeLines leaves is the beginning of a line.
LEMMA CompleteLines ==
    ASSUME NEW s \in Seq(Tokens)
    PROVE  \E e \in 0 .. Len(s) :
              /\ completeLines(s) = SubSeq(s, 1, e)
              /\ e = 0 \/ s[e] = "\n"
              /\ \A k \in e + 1 .. Len(s) : s[k] # "\n"
<1> DEFINE ends == {i \in DOMAIN s : s[i] = "\n"}
           last == CHOOSE i \in ends \cup {0} : \A j \in ends : j <= i
<1>1. DOMAIN s = 1 .. Len(s) /\ Len(s) \in Nat
  OBVIOUS
<1>2. ends \cup {0} \in SUBSET (0 .. Len(s)) /\ ends \cup {0} # {}
  BY <1>1
<1>3. \E i \in ends \cup {0} : \A j \in ends \cup {0} : j <= i
  BY <1>1, <1>2, LargestOf
<1>4. last \in ends \cup {0} /\ \A j \in ends : j <= last
  BY <1>3
<1>5. completeLines(s) = SubSeq(s, 1, last)
  BY DEF completeLines
<1> HIDE DEF last
<1>6. last \in 0 .. Len(s) /\ (last = 0 \/ s[last] = "\n")
  BY <1>1, <1>4
<1>7. \A k \in last + 1 .. Len(s) : s[k] # "\n"
  BY <1>1, <1>4, <1>6
<1> QED
  BY <1>5, <1>6, <1>7

----------------------------------------------------------------------------
(* What the writer has printed and what it holds back. *)

\* The tokens of s between two positions.
LEMMA Slice ==
    ASSUME NEW S, NEW s \in Seq(S), NEW l \in Nat, NEW h \in Nat, l <= h, h <= Len(s)
    PROVE  /\ SubSeq(s, l + 1, h) \in Seq(S) /\ Len(SubSeq(s, l + 1, h)) = h - l
           /\ \A k \in 1 .. h - l : SubSeq(s, l + 1, h)[k] = s[l + k]
<1>1. /\ l + 1 \in Nat \ {0} /\ l + 1 <= h + 1 /\ h - (l + 1) + 1 = h - l
  OBVIOUS
<1>2. /\ SubSeq(s, l + 1, h) \in Seq(S) /\ Len(SubSeq(s, l + 1, h)) = h - l
      /\ \A k \in 1 .. h - l : SubSeq(s, l + 1, h)[k] = s[(l + 1) + k - 1]
  BY <1>1, SegmentText
<1>3. \A k \in 1 .. h - l : (l + 1) + k - 1 = l + k
  OBVIOUS
<1> QED
  BY <1>2, <1>3

\* Two slices that meet make one.
LEMMA SlicesJoined ==
    ASSUME NEW S, NEW s \in Seq(S), NEW a \in Nat, NEW b \in Nat, NEW c \in Nat,
           a <= b, b <= c, c <= Len(s)
    PROVE  SubSeq(s, a + 1, b) \o SubSeq(s, b + 1, c) = SubSeq(s, a + 1, c)
<1> DEFINE x == SubSeq(s, a + 1, b)
           y == SubSeq(s, b + 1, c)
           z == SubSeq(s, a + 1, c)
<1>1. /\ x \in Seq(S) /\ Len(x) = b - a /\ \A k \in 1 .. b - a : x[k] = s[a + k]
      /\ y \in Seq(S) /\ Len(y) = c - b /\ \A k \in 1 .. c - b : y[k] = s[b + k]
      /\ z \in Seq(S) /\ Len(z) = c - a /\ \A k \in 1 .. c - a : z[k] = s[a + k]
  <2>1. b <= Len(s) /\ a <= c
    OBVIOUS
  <2> QED
    BY <2>1, Slice
<1> HIDE DEF x, y, z
<1>2. /\ x \o y \in Seq(S) /\ Len(x \o y) = c - a
      /\ \A k \in 1 .. c - a : (x \o y)[k] = IF k <= b - a THEN x[k] ELSE y[k - (b - a)]
  <2>1. (b - a) + (c - b) = c - a
    OBVIOUS
  <2>2. /\ x \o y \in Seq(S) /\ Len(x \o y) = Len(x) + Len(y)
        /\ \A k \in 1 .. Len(x) + Len(y) :
              (x \o y)[k] = IF k <= Len(x) THEN x[k] ELSE y[k - Len(x)]
    BY <1>1, ConcatProperties
  <2>3. Len(x) = b - a /\ Len(x) + Len(y) = c - a
    BY <1>1, <2>1
  <2> QED
    BY <2>2, <2>3
<1>3. ASSUME NEW k \in 1 .. c - a PROVE (x \o y)[k] = z[k]
  <2>1. CASE k <= b - a
    <3>1. k \in 1 .. b - a
      BY <2>1
    <3> QED
      BY <1>1, <1>2, <2>1, <3>1
  <2>2. CASE ~(k <= b - a)
    <3>1. k - (b - a) \in 1 .. c - b /\ b + (k - (b - a)) = a + k
      BY <2>2
    <3> QED
      BY <1>1, <1>2, <2>2, <3>1
  <2> QED
    BY <2>1, <2>2
<1>4. x \o y = z
  BY <1>1, <1>2, <1>3, SeqEqual
<1> QED
  BY <1>4 DEF x, y, z

\* A slice of a slice is a slice of the whole.
LEMMA SliceOfSlice ==
    ASSUME NEW S, NEW s \in Seq(S), NEW p \in Nat, NEW n \in Nat, p <= n, n <= Len(s),
           NEW c \in Nat, NEW d \in Nat, c <= d, d <= n - p
    PROVE  SubSeq(SubSeq(s, p + 1, n), c + 1, d) = SubSeq(s, (p + c) + 1, p + d)
<1> DEFINE t == SubSeq(s, p + 1, n)
           u == SubSeq(t, c + 1, d)
           v == SubSeq(s, (p + c) + 1, p + d)
<1>1. t \in Seq(S) /\ Len(t) = n - p /\ \A k \in 1 .. n - p : t[k] = s[p + k]
  BY Slice
<1> HIDE DEF t
<1>2. u \in Seq(S) /\ Len(u) = d - c /\ \A k \in 1 .. d - c : u[k] = t[c + k]
  BY <1>1, Slice
<1>3. /\ p + c \in Nat /\ p + d \in Nat /\ p + c <= p + d /\ p + d <= Len(s)
      /\ (p + d) - (p + c) = d - c
  OBVIOUS
<1>4. v \in Seq(S) /\ Len(v) = d - c /\ \A k \in 1 .. d - c : v[k] = s[(p + c) + k]
  BY <1>3, Slice
<1> HIDE DEF u, v
<1>5. ASSUME NEW k \in 1 .. d - c PROVE u[k] = v[k]
  <2>1. c + k \in 1 .. n - p /\ p + (c + k) = (p + c) + k
    OBVIOUS
  <2> QED
    BY <1>1, <1>2, <1>4, <2>1
<1>6. u = v
  BY <1>2, <1>4, <1>5, SeqEqual
<1> QED
  BY <1>6 DEF t, u, v

\* The log has the beginning of the masked output, up to the end of a line;
\* what the writer holds back has been written after that.
Masked ==
    /\ output \in Outputs \cup {<<>>} /\ written \in 0 .. Len(output)
    /\ printed \in Seq(Tokens \cup {"***"}) /\ Len(printed) <= written
    /\ \A i \in 1 .. Len(printed) : printed[i] = SanitizeDatabaseURL(output)[i]
    /\ Len(printed) \in {0, Len(output)} \/ output[Len(printed)] = "\n"
    /\ pending = SubSeq(output, Len(printed) + 1, written)
    /\ \A i \in DOMAIN pending : pending[i] # "\n"

\* What is printed next continues the masked output.
LEMMA PrintedOn ==
    ASSUME Masked, NEW e \in Nat, Len(printed) + e <= Len(output),
           Segment(output, Len(printed) + 1, Len(printed) + e),
           printed' = printed \o lineByLine(SubSeq(output, Len(printed) + 1, Len(printed) + e))
    PROVE  /\ printed' \in Seq(Tokens \cup {"***"}) /\ Len(printed') = Len(printed) + e
           /\ \A i \in 1 .. Len(printed') : printed'[i] = SanitizeDatabaseURL(output)[i]
<1> DEFINE P == Len(printed)
           more == lineByLine(SubSeq(output, P + 1, P + e))
<1>1. P \in Nat /\ printed \in Seq(Tokens \cup {"***"}) /\ output \in Seq(Tokens)
  BY OutputsAssumption DEF Masked
<1>2. (P + e) - (P + 1) + 1 = e
  BY <1>1
<1>3. /\ more \in Seq(Tokens \cup {"***"}) /\ Len(more) = e
      /\ \A k \in 1 .. e : more[k] = SanitizeDatabaseURL(output)[P + 1 + k - 1]
  <2>1. Segment(output, P + 1, P + e)
    OBVIOUS
  <2>2. /\ more \in Seq(Tokens \cup {"***"}) /\ Len(more) = (P + e) - (P + 1) + 1
        /\ \A k \in 1 .. (P + e) - (P + 1) + 1 :
              more[k] = SanitizeDatabaseURL(output)[P + 1 + k - 1]
    <3> DEFINE lo == P + 1
               hi == P + e
    <3>1. output \in Seq(Tokens) /\ Segment(output, lo, hi)
      BY <1>1, <2>1
    <3> HIDE DEF lo, hi
    <3>2. LET line == lineByLine(SubSeq(output, lo, hi)) IN
          /\ line \in Seq(Tokens \cup {"***"}) /\ Len(line) = hi - lo + 1
          /\ \A k \in 1 .. hi - lo + 1 : line[k] = SanitizeDatabaseURL(output)[lo + k - 1]
      BY <3>1, MaskedInPlace
    <3> QED
      BY <3>2 DEF lo, hi
  <2> HIDE DEF P, more
  <2> QED
    BY <1>2, <2>2
<1> HIDE DEF more
<1>4. printed' = printed \o more
  BY DEF more
<1>5. /\ printed' \in Seq(Tokens \cup {"***"}) /\ Len(printed') = P + e
      /\ \A i \in 1 .. P + e : printed'[i] = IF i <= P THEN printed[i] ELSE more[i - P]
  <2>1. /\ printed \o more \in Seq(Tokens \cup {"***"})
        /\ Len(printed \o more) = Len(printed) + Len(more)
        /\ \A i \in 1 .. Len(printed) + Len(more) :
              (printed \o more)[i] = IF i <= Len(printed) THEN printed[i] ELSE more[i - Len(printed)]
    BY <1>1, <1>3, ConcatProperties
  <2> QED
    BY <1>3, <1>4, <2>1
<1>6. ASSUME NEW i \in 1 .. P + e PROVE printed'[i] = SanitizeDatabaseURL(output)[i]
  <2>1. CASE i <= P
    BY <1>1, <1>5, <2>1 DEF Masked
  <2>2. CASE ~(i <= P)
    <3>1. i - P \in 1 .. e /\ P + 1 + (i - P) - 1 = i
      BY <1>1, <2>2
    <3> QED
      BY <1>3, <1>5, <2>2, <3>1
  <2> QED
    BY <2>1, <2>2
<1> QED
  BY <1>5, <1>6

\* A write prints the lines it completes and holds back the rest.
LEMMA WriteMasked ==
    ASSUME Masked, NEW n \in 1 .. Len(output), Write(n)
    PROVE  Masked'
<1> DEFINE P == Len(printed)
           text == pending \o SubSeq(output, written + 1, n)
<1>1. /\ P \in Nat /\ written \in Nat /\ P <= written /\ n \in Nat /\ written < n
      /\ n <= Len(output) /\ Len(output) \in Nat /\ output \in Seq(Tokens)
  <2>1. output \in Seq(Tokens) /\ printed \in Seq(Tokens \cup {"***"})
    BY OutputsAssumption DEF Masked
  <2>2. written \in 0 .. Len(output) /\ P <= written /\ n > written
    BY DEF Masked, Write
  <2> QED
    BY <2>1, <2>2
<1>2. text = SubSeq(output, P + 1, n)
  <2>1. pending = SubSeq(output, P + 1, written)
    BY DEF Masked
  <2> HIDE DEF P
  <2>2. written <= n
    BY <1>1
  <2>3. SubSeq(output, P + 1, written) \o SubSeq(output, written + 1, n) = SubSeq(output, P + 1, n)
    BY <1>1, <2>2, SlicesJoined
  <2> QED
    BY <2>1, <2>3
<1>3. text \in Seq(Tokens) /\ Len(text) = n - P /\ \A k \in 1 .. n - P : text[k] = output[P + k]
  <2> HIDE DEF P, text
  <2>1. P <= n /\ P \in Nat /\ n \in Nat /\ n <= Len(output) /\ output \in Seq(Tokens)
    BY <1>1
  <2>2. /\ SubSeq(output, P + 1, n) \in Seq(Tokens) /\ Len(SubSeq(output, P + 1, n)) = n - P
        /\ \A k \in 1 .. n - P : SubSeq(output, P + 1, n)[k] = output[P + k]
    BY <2>1, Slice
  <2> QED
    BY <1>2, <2>2
<1>4. /\ printed' = printed \o lineByLine(completeLines(text))
      /\ pending' = SubSeq(text, Len(completeLines(text)) + 1, Len(text))
      /\ written' = n /\ output' = output
  BY DEF Write
<1> HIDE DEF text
<1>5. PICK e \in 0 .. Len(text) :
          /\ completeLines(text) = SubSeq(text, 1, e)
          /\ e = 0 \/ text[e] = "\n"
          /\ \A k \in e + 1 .. Len(text) : text[k] # "\n"
  BY <1>3, CompleteLines
<1>6. e \in Nat /\ e <= n - P /\ P + e <= n /\ P + e <= Len(output)
  BY <1>1, <1>3, <1>5
<1>7. completeLines(text) = SubSeq(output, P + 1, P + e) /\ Len(completeLines(text)) = e
  <2>1. SubSeq(text, 0 + 1, e) = SubSeq(output, (P + 0) + 1, P + e)
    BY <1>1, <1>2, <1>6, SliceOfSlice
  <2>2. Len(SubSeq(text, 0 + 1, e)) = e - 0
    BY <1>3, <1>6, Slice
  <2> QED
    BY <1>1, <1>5, <1>6, <2>1, <2>2
<1>8. e # 0 => output[P + e] = "\n"
  BY <1>3, <1>5, <1>6
<1>9. Segment(output, P + 1, P + e)
  <2>1. P + 1 \in Nat \ {0} /\ P + e \in Nat /\ P + 1 <= P + e + 1 /\ (P + 1) - 1 = P
    BY <1>1, <1>6
  <2>2. P = 0 \/ output[P] = "\n"
    BY <1>1 DEF Masked
  <2>3. P + 1 <= P + e => e # 0
    BY <1>1, <1>6
  <2> QED
    BY <1>6, <1>8, <2>1, <2>2, <2>3 DEF Segment
<1>10. /\ printed' \in Seq(Tokens \cup {"***"}) /\ Len(printed') = P + e
       /\ \A i \in 1 .. P + e : printed'[i] = SanitizeDatabaseURL(output)[i]
  BY <1>4, <1>6, <1>7, <1>9, PrintedOn
<1>11. pending' = SubSeq(output, (P + e) + 1, n)
  <2>1. SubSeq(text, e + 1, n - P) = SubSeq(output, (P + e) + 1, P + (n - P))
    BY <1>1, <1>2, <1>6, SliceOfSlice
  <2>2. P + (n - P) = n
    BY <1>1
  <2>3. pending' = SubSeq(text, e + 1, n - P)
    BY <1>3, <1>4, <1>7
  <2> QED
    BY <2>1, <2>2, <2>3
<1>12. \A i \in DOMAIN pending' : pending'[i] # "\n"
  <2>1. pending' = SubSeq(text, e + 1, Len(text))
    BY <1>4, <1>7
  <2>2. /\ pending' \in Seq(Tokens) /\ Len(pending') = Len(text) - e
        /\ \A k \in 1 .. Len(text) - e : pending'[k] = text[e + k]
    <3> DEFINE h == Len(text)
    <3>1. h \in Nat /\ e <= h /\ h <= Len(text) /\ pending' = SubSeq(text, e + 1, h)
      BY <1>1, <1>3, <1>6, <2>1
    <3> HIDE DEF h
    <3>2. /\ pending' \in Seq(Tokens) /\ Len(pending') = h - e
          /\ \A k \in 1 .. h - e : pending'[k] = text[e + k]
      BY <1>3, <1>6, <3>1, Slice
    <3> QED
      BY <3>2 DEF h
  <2>3. ASSUME NEW k \in 1 .. Len(text) - e PROVE pending'[k] # "\n"
    <3>1. e + k \in e + 1 .. Len(text)
      BY <1>3, <1>6
    <3> QED
      BY <1>5, <2>2, <3>1
  <2> QED
    BY <2>2, <2>3
<1>13. P + e \in {0, Len(output)} \/ output[P + e] = "\n"
  BY <1>1, <1>6, <1>8 DEF Masked
<1>14. /\ output' \in Outputs \cup {<<>>} /\ written' \in 0 .. Len(output')
       /\ P + e <= written'
  BY <1>1, <1>4, <1>6 DEF Masked
<1> HIDE DEF P
<1> QED
  BY <1>4, <1>10, <1>11, <1>12, <1>13, <1>14 DEF Masked

\* The flush prints the incomplete line at the end.
LEMMA FlushMasked ==
    ASSUME Masked, flush
    PROVE  Masked'
<1> DEFINE P == Len(printed)
           L == Len(output)
<1>1. P \in Nat /\ P <= L /\ written = L /\ L \in Nat /\ output \in Seq(Tokens) /\ L - P \in Nat
      /\ P + (L - P) = L
  BY OutputsAssumption DEF Masked, flush
<1>2. Segment(output, P + 1, P + (L - P))
  <2>1. P + 1 \in Nat \ {0} /\ P + 1 <= L + 1 /\ (P + 1) - 1 = P /\ (P + 1 <= L => P # L)
    BY <1>1
  <2> QED
    BY <1>1, <2>1 DEF Masked, Segment
<1>3. printed' = printed \o lineByLine(SubSeq(output, P + 1, P + (L - P)))
  BY <1>1 DEF Masked, flush
<1>4. /\ printed' \in Seq(Tokens \cup {"***"}) /\ Len(printed') = L
      /\ \A i \in 1 .. L : printed'[i] = SanitizeDatabaseURL(output)[i]
  <2>1. /\ printed' \in Seq(Tokens \cup {"***"}) /\ Len(printed') = P + (L - P)
        /\ \A i \in 1 .. Len(printed') : printed'[i] = SanitizeDatabaseURL(output)[i]
    <3> DEFINE e == L - P
    <3>1. /\ e \in Nat /\ Len(printed) + e <= Len(output)
          /\ Segment(output, Len(printed) + 1, Len(printed) + e)
          /\ printed' = printed \o lineByLine(SubSeq(output, Len(printed) + 1, Len(printed) + e))
      BY <1>1, <1>2, <1>3
    <3> HIDE DEF e
    <3>2. /\ printed' \in Seq(Tokens \cup {"***"}) /\ Len(printed') = Len(printed) + e
          /\ \A i \in 1 .. Len(printed') : printed'[i] = SanitizeDatabaseURL(output)[i]
      BY <3>1, PrintedOn
    <3> QED
      BY <3>2 DEF e
  <2> QED
    BY <1>1, <2>1
<1>5. SubSeq(output, L + 1, L) = <<>>
  BY <1>1, SubSeqEmpty
<1>6. DOMAIN << >> = {}
  OBVIOUS
<1> QED
  BY <1>1, <1>4, <1>5, <1>6 DEF Masked, flush

----------------------------------------------------------------------------
(* The connection string. *)

\* Where its parts are.
Reads(url, u, p) ==
    /\ url \in Seq(Tokens) /\ Len(url) = u + p + 8
    /\ url[1] = "postgres://" /\ url[u + 2] = ":" /\ url[u + p + 3] = "@"
    /\ \A k \in 2 .. u + 1 : url[k] = "w"
    /\ \A k \in u + 3 .. u + p + 2 : url[k] = "p"
    /\ \A k \in u + p + 4 .. u + p + 8 : url[k] # "p"

\* A connection string token by token.
LEMMA URLText ==
    ASSUME NEW u \in Nat \ {0}, NEW p \in Nat \ {0}
    PROVE  Reads(connectionString(u, p), u, p)
<1> DEFINE name == [k \in 1 .. u |-> "w"]
           password == [k \in 1 .. p |-> "p"]
           rest == <<"@", "w", ":", "w", "/", "w">>
           b1 == <<"postgres://">> \o name
           b2 == b1 \o <<":">>
           b3 == b2 \o password
           b4 == b3 \o rest
<1>1. name \in Seq(Tokens) /\ Len(name) = u /\ \A k \in 1 .. u : name[k] = "w"
  <2>1. name \in [1 .. u -> Tokens]
    BY DEF Tokens
  <2> QED
    BY <2>1, SeqDef
<1>2. password \in Seq(Tokens) /\ Len(password) = p /\ \A k \in 1 .. p : password[k] = "p"
  <2>1. password \in [1 .. p -> Tokens]
    BY DEF Tokens
  <2> QED
    BY <2>1, SeqDef
<1>3. /\ <<"postgres://">> \in Seq(Tokens) /\ Len(<<"postgres://">>) = 1
      /\ <<":">> \in Seq(Tokens) /\ Len(<<":">>) = 1
      /\ rest \in Seq(Tokens) /\ Len(rest) = 6
      /\ rest[1] = "@" /\ \A k \in 1 .. 6 : rest[k] # "p"
  BY DEF Tokens
<1> HIDE DEF name, password, rest
<1>4. /\ b1 \in Seq(Tokens) /\ Len(b1) = 1 + u /\ b1[1] = "postgres://"
      /\ \A k \in 2 .. u + 1 : b1[k] = "w"
  BY <1>1, <1>3, ConcatProperties
<1> HIDE DEF b1
<1>5. /\ b2 \in Seq(Tokens) /\ Len(b2) = u + 2
      /\ b2[1] = "postgres://" /\ b2[u + 2] = ":" /\ \A k \in 2 .. u + 1 : b2[k] = "w"
  BY <1>3, <1>4, ConcatProperties
<1> HIDE DEF b2
<1>6. /\ b3 \in Seq(Tokens) /\ Len(b3) = u + p + 2
      /\ b3[1] = "postgres://" /\ b3[u + 2] = ":" /\ \A k \in 2 .. u + 1 : b3[k] = "w"
      /\ \A k \in u + 3 .. u + p + 2 : b3[k] = "p"
  <2>1. /\ b3 \in Seq(Tokens) /\ Len(b3) = (u + 2) + p
        /\ \A k \in 1 .. (u + 2) + p : b3[k] = IF k <= u + 2 THEN b2[k] ELSE password[k - (u + 2)]
    <3>1. /\ b3 \in Seq(Tokens) /\ Len(b3) = Len(b2) + Len(password)
          /\ \A k \in 1 .. Len(b2) + Len(password) :
                b3[k] = IF k <= Len(b2) THEN b2[k] ELSE password[k - Len(b2)]
      <4>1. b2 \in Seq(Tokens) /\ password \in Seq(Tokens)
        BY <1>2, <1>5
      <4> QED
        BY <4>1, ConcatProperties
    <3> HIDE DEF b3
    <3> QED
      BY <1>2, <1>5, <3>1
  <2> HIDE DEF b3
  <2>2. ASSUME NEW k \in u + 3 .. u + p + 2 PROVE b3[k] = "p"
    <3>1. k \in 1 .. (u + 2) + p /\ ~(k <= u + 2) /\ k - (u + 2) \in 1 .. p
      OBVIOUS
    <3> QED
      BY <1>2, <2>1, <3>1
  <2>3. \A k \in 1 .. u + 2 : b3[k] = b2[k]
    BY <2>1
  <2> QED
    BY <1>5, <2>1, <2>2, <2>3
<1> HIDE DEF b3
<1>7. /\ b4 \in Seq(Tokens) /\ Len(b4) = u + p + 8
      /\ \A k \in 1 .. u + p + 2 : b4[k] = b3[k]
      /\ b4[u + p + 3] = "@" /\ \A k \in u + p + 4 .. u + p + 8 : b4[k] # "p"
  <2>1. /\ b4 \in Seq(Tokens) /\ Len(b4) = (u + p + 2) + 6
        /\ \A k \in 1 .. (u + p + 2) + 6 :
              b4[k] = IF k <= u + p + 2 THEN b3[k] ELSE rest[k - (u + p + 2)]
    <3>1. /\ b4 \in Seq(Tokens) /\ Len(b4) = Len(b3) + Len(rest)
          /\ \A k \in 1 .. Len(b3) + Len(rest) :
                b4[k] = IF k <= Len(b3) THEN b3[k] ELSE rest[k - Len(b3)]
      <4>1. b3 \in Seq(Tokens) /\ rest \in Seq(Tokens)
        BY <1>3, <1>6
      <4> QED
        BY <4>1, ConcatProperties
    <3> HIDE DEF b4
    <3> QED
      BY <1>3, <1>6, <3>1
  <2> HIDE DEF b4
  <2>2. ASSUME NEW k \in u + p + 4 .. u + p + 8 PROVE b4[k] # "p"
    <3>1. k \in 1 .. (u + p + 2) + 6 /\ ~(k <= u + p + 2) /\ k - (u + p + 2) \in 1 .. 6
      OBVIOUS
    <3> QED
      BY <1>3, <2>1, <3>1
  <2>3. \A k \in 1 .. u + p + 2 : b4[k] = b3[k]
    BY <2>1
  <2>4. b4[u + p + 3] = "@"
    <3>1. /\ u + p + 3 \in 1 .. (u + p + 2) + 6 /\ ~(u + p + 3 <= u + p + 2)
          /\ u + p + 3 - (u + p + 2) = 1
      OBVIOUS
    <3> QED
      BY <1>3, <2>1, <3>1
  <2> QED
    BY <2>1, <2>2, <2>3, <2>4
<1>8. connectionString(u, p) = b4
  BY DEF connectionString, buildDatabaseURL, b1, b2, b3, rest, name, password
<1> HIDE DEF b4
<1>9. /\ 1 \in 1 .. u + p + 2 /\ u + 2 \in 1 .. u + p + 2
      /\ \A k \in 2 .. u + 1 : k \in 1 .. u + p + 2
      /\ \A k \in u + 3 .. u + p + 2 : k \in 1 .. u + p + 2
  OBVIOUS
<1>10. Reads(b4, u, p)
  BY <1>6, <1>7, <1>9 DEF Reads
<1> QED
  BY <1>8, <1>10

\* An echoed password lies in a match of the expression.
LEMMA EchoIsPassword ==
    ASSUME NEW s \in Outputs \cup {<<>>}, NEW i \in DOMAIN s, s[i] = "p"
    PROVE  isPassword(s, i)
<1>1. s \in Outputs /\ s \in Seq(Tokens) /\ DOMAIN s = 1 .. Len(s) /\ Len(s) \in Nat
  BY OutputsAssumption
<1>2. PICK first \in 1 .. Len(s), last \in 1 .. Len(s), u \in 1 .. Len(s), p \in 1 .. Len(s) :
          first <= i /\ i <= last /\ SubSeq(s, first, last) = connectionString(u, p)
  <2>1. \E first, last \in DOMAIN s, u, p \in 1 .. Len(s) :
            first <= i /\ i <= last /\ SubSeq(s, first, last) = connectionString(u, p)
    BY <1>1, EchoAssumption, Zenon
  <2> QED
    BY <1>1, <2>1, Zenon
<1> DEFINE url == SubSeq(s, first, last)
<1>3. /\ url \in Seq(Tokens) /\ Len(url) = last - first + 1
      /\ \A k \in 1 .. last - first + 1 : url[k] = s[first + k - 1]
  <2>1. first \in Nat \ {0} /\ last \in Nat /\ first <= last + 1 /\ last <= Len(s)
    BY <1>1, <1>2
  <2> QED
    BY <1>1, <2>1, SegmentText
<1>4. /\ url \in Seq(Tokens) /\ Len(url) = u + p + 8
      /\ url[1] = "postgres://" /\ url[u + 2] = ":" /\ url[u + p + 3] = "@"
      /\ \A k \in 2 .. u + 1 : url[k] = "w"
      /\ \A k \in u + 3 .. u + p + 2 : url[k] = "p"
      /\ \A k \in u + p + 4 .. u + p + 8 : url[k] # "p"
  <2>1. u \in Nat \ {0} /\ p \in Nat \ {0} /\ url = connectionString(u, p)
    BY <1>1, <1>2
  <2> HIDE DEF url
  <2>2. Reads(url, u, p)
    BY <2>1, URLText
  <2> QED
    BY <2>2 DEF Reads
<1> HIDE DEF url
<1>5. /\ last = first + u + p + 7 /\ first \in Nat \ {0} /\ u \in Nat \ {0} /\ p \in Nat \ {0}
      /\ \A j \in first .. last : j - first + 1 \in 1 .. u + p + 8 /\ s[j] = url[j - first + 1]
  <2>1. last = first + u + p + 7
    BY <1>1, <1>2, <1>3, <1>4
  <2>2. ASSUME NEW j \in first .. last
        PROVE  j - first + 1 \in 1 .. last - first + 1 /\ first + (j - first + 1) - 1 = j
    BY <1>1, <1>2
  <2> QED
    BY <1>1, <1>2, <1>3, <2>1, <2>2
<1>6. i \in first + u + 2 .. first + u + p + 1
  <2>1. url[i - first + 1] = "p" /\ i - first + 1 \in 1 .. u + p + 8
    BY <1>1, <1>2, <1>5
  <2>2. i - first + 1 \in u + 3 .. u + p + 2
    <3> DEFINE k == i - first + 1
    <3>1. k \in 1 .. u + p + 8 /\ url[k] = "p"
      BY <2>1
    <3> HIDE DEF k
    <3>2. \/ k = 1 \/ k \in 2 .. u + 1 \/ k = u + 2
          \/ k \in u + 3 .. u + p + 2 \/ k = u + p + 3
          \/ k \in u + p + 4 .. u + p + 8
      BY <1>5, <3>1
    <3>3. k \in u + 3 .. u + p + 2
      BY <1>4, <3>1, <3>2
    <3> QED
      BY <3>3 DEF k
  <2> QED
    BY <1>1, <1>5, <2>2
<1> DEFINE colon == first + u + 1
           at == first + u + p + 2
<1>7. /\ first \in 1 .. Len(s) /\ colon \in 1 .. Len(s) /\ at \in 1 .. Len(s)
      /\ first + 1 < colon /\ colon < i /\ i < at
  BY <1>1, <1>2, <1>5, <1>6
<1>8. s[first] = "postgres://" /\ s[colon] = ":" /\ s[at] = "@"
  <2>1. colon - first + 1 = u + 2 /\ at - first + 1 = u + p + 3 /\ first - first + 1 = 1
        /\ colon \in first .. last /\ at \in first .. last /\ first \in first .. last
    BY <1>5
  <2> QED
    BY <1>4, <1>5, <2>1
<1>9. ASSUME NEW k \in first + 1 .. colon - 1 PROVE s[k] \in {"w", "p"}
  <2>1. k \in first .. last /\ k - first + 1 \in 2 .. u + 1
    BY <1>5
  <2> QED
    BY <1>4, <1>5, <2>1
<1>10. ASSUME NEW k \in colon + 1 .. at - 1 PROVE s[k] \in {"w", "p", ":"}
  <2>1. k \in first .. last /\ k - first + 1 \in u + 3 .. u + p + 2
    BY <1>5
  <2> QED
    BY <1>4, <1>5, <2>1
<1> HIDE DEF colon, at
<1> QED
  BY <1>1, <1>7, <1>8, <1>9, <1>10 DEF isPassword

\* What is masked and printed in its place shows no password.
LEMMA MaskedHides == Masked => MigrationTypeOK /\ CredentialHidden
<1> SUFFICES ASSUME Masked PROVE MigrationTypeOK /\ CredentialHidden
  OBVIOUS
<1> DEFINE P == Len(printed)
           whole == SanitizeDatabaseURL(output)
<1>1. /\ output \in Seq(Tokens) /\ DOMAIN output = 1 .. Len(output) /\ Len(output) \in Nat
      /\ printed \in Seq(Tokens \cup {"***"}) /\ DOMAIN printed = 1 .. P /\ P \in Nat
      /\ written \in Nat /\ P <= written /\ written <= Len(output)
  BY OutputsAssumption DEF Masked
<1>2. pending \in Seq(Tokens) /\ Len(pending) = written - P
  <2>1. pending = SubSeq(output, P + 1, written)
    BY DEF Masked
  <2> HIDE DEF P
  <2> QED
    BY <1>1, <2>1, Slice
<1>3. ASSUME NEW i \in 1 .. P PROVE printed[i] # "p" /\ whole[i] = printed[i]
                                    /\ printed[i] \in Tokens \cup {"***"}
  <2>1. i \in DOMAIN output /\ printed[i] = whole[i]
    <3>1. printed[i] = whole[i]
      BY DEF Masked
    <3>2. i \in 1 .. Len(output)
      BY <1>1
    <3> QED
      BY <1>1, <3>1, <3>2
  <2>2. whole[i] = IF isPassword(output, i) THEN "***" ELSE output[i]
    BY <2>1 DEF SanitizeDatabaseURL
  <2>3. output[i] = "p" => isPassword(output, i)
    BY <2>1, EchoIsPassword DEF Masked
  <2> QED
    BY <1>1, <2>1, <2>2, <2>3, ElementOfSeq
<1>4. printed = SubSeq(whole, 1, P)
  <2> HIDE DEF whole
  <2>1. \A i \in 1 .. P : whole[i] \in Tokens \cup {"***"}
    BY <1>3
  <2>2. /\ SubSeq(whole, 1, P) \in Seq(Tokens \cup {"***"}) /\ Len(SubSeq(whole, 1, P)) = P
        /\ \A i \in 1 .. P : SubSeq(whole, 1, P)[i] = whole[i]
    <3>1. /\ SubSeq(whole, 1, P) \in Seq(Tokens \cup {"***"})
          /\ Len(SubSeq(whole, 1, P)) = IF 1 <= P THEN P - 1 + 1 ELSE 0
          /\ \A i \in 1 .. P - 1 + 1 : SubSeq(whole, 1, P)[i] = whole[1 + i - 1]
      BY <1>1, <2>1, SubSeqProperties
    <3>2. P - 1 + 1 = P /\ \A i \in 1 .. P : 1 + i - 1 = i
      BY <1>1
    <3> QED
      BY <1>1, <3>1, <3>2
  <2> QED
    BY <1>1, <1>3, <2>2, SeqEqual
<1>5. P + Len(pending) = written
  BY <1>1, <1>2
<1> QED
  BY <1>1, <1>2, <1>3, <1>4, <1>5 DEF Masked, MigrationTypeOK, CredentialHidden

----------------------------------------------------------------------------
(* The service: serving inside it is serving. *)

\* What each step does to the variables of Serve.
LEMMA StepServes ==
    ASSUME [BootNext]_bootVars
    PROVE  /\ [Next]_vars
           /\ phase \notin {"listen", "serving"} /\ main \in {"start", "returned"} => main' = main
           /\ phase = "listen" => main' = main
<1>1. CASE Startup
  <2>1. UNCHANGED vars
    BY <1>1 DEF Startup, Validate, InitSentry, MigrationWrites, MigrationEnds, RunMigrations,
                NewPool, InitPhaseKeycloak, RegisterRoutes, Listen, step
  <2> QED
    BY <2>1 DEF vars
<1>2. CASE CatchSignal
  BY <1>2 DEF CatchSignal, Next, Signal
<1>3. CASE ServeStep
  BY <1>3 DEF ServeStep, Next
<1>4. CASE End
  <2>1. UNCHANGED vars
    BY <1>4 DEF End, Stop, BeginClose, EndClose, Flush, EndFlush, Main, Fatal, Exit
  <2> QED
    BY <2>1 DEF vars
<1>5. CASE Kill
  BY <1>5 DEF Kill, vars
<1>6. CASE \E c \in Connections : Accepted(c) \/ Handle(c) \/ CloseConnection(c)
  <2> PICK c \in Connections : Accepted(c) \/ Handle(c) \/ CloseConnection(c)
    BY <1>6
  <2>1. Connect(c) \/ Request(c) \/ Finish(c)
    BY DEF Accepted, Handle, CloseConnection
  <2> QED
    BY <2>1 DEF Next, Connect, Request, Finish
<1>7. CASE \E c \in Connections : AcquireConnection(c) \/ ReleaseConnection(c)
  BY <1>7 DEF AcquireConnection, ReleaseConnection, vars
<1>8. CASE \E c \in Audited : HandlerStep(c) \/ JobStep(c)
  BY <1>8 DEF HandlerStep, JobStep, vars
<1>9. CASE \E id \in A!EventIds : DeliveryStep(id)
  BY <1>9 DEF DeliveryStep, vars
<1>10. CASE UNCHANGED bootVars
  BY <1>10 DEF bootVars, vars
<1>11. CASE \E e \in Errors : Post(e)
  BY <1>11 DEF Post, vars
<1> QED
  BY <1>1, <1>2, <1>3, <1>4, <1>5, <1>6, <1>7, <1>8, <1>9, <1>10, <1>11 DEF BootNext

\* Whatever happens around it, serveUntil behaves as Serve says.
THEOREM ImplementsServe == BootSpec => SafeSpec
<1>1. BootInit => Init
  BY DEF BootInit
<1>2. [BootNext]_bootVars => [Next]_vars
  BY StepServes
<1> QED
  BY <1>1, <1>2, PTL DEF BootSpec, SafeSpec

----------------------------------------------------------------------------
(* The audit trail: what AuditProofs shows holds inside the service.       *)

\* The two instances of Audit are one.
LEMMA SameAudit == A!SafeSpec <=> AP!SafeSpec
<1> USE DEF A!None, AP!None, A!EventIds, AP!EventIds, A!request, AP!request
<1>1. A!Init <=> AP!Init
  BY DEF A!Init, AP!Init, A!NoCopy, AP!NoCopy, A!NoEvent, AP!NoEvent
<1>2. A!Next <=> AP!Next
  BY DEF A!Next, AP!Next, A!write, AP!write, A!outcomeFor, AP!outcomeFor,
         A!outcomeForStatus, AP!outcomeForStatus, A!isMutating, AP!isMutating,
         A!Arrive, AP!Arrive, A!Authenticate, AP!Authenticate, A!Suppress, AP!Suppress,
         A!Respond, AP!Respond, A!StartJob, AP!StartJob, A!Record, AP!Record,
         A!JobRecord, AP!JobRecord, A!HandlerReturns, AP!HandlerReturns,
         A!HandlerPanics, AP!HandlerPanics, A!Flush, AP!Flush, A!Backstop, AP!Backstop,
         A!backstopDue, AP!backstopDue, A!SinkReturns, AP!SinkReturns, A!Release, AP!Release
<1>3. [A!Next]_(A!vars) <=> [AP!Next]_(AP!vars)
  BY <1>2 DEF A!vars, AP!vars
<1> QED
  BY <1>1, <1>3, PTL DEF A!SafeSpec, AP!SafeSpec

\* What each step does to the variables of Audit.
LEMMA StepAudits == [BootNext]_bootVars => [A!Next]_(A!vars)
<1> SUFFICES ASSUME [BootNext]_bootVars PROVE A!Next \/ UNCHANGED auditVars
  BY DEF A!vars, A!request, auditVars
<1>1. CASE Startup
  BY <1>1 DEF Startup, Validate, InitSentry, MigrationWrites, MigrationEnds, RunMigrations,
              NewPool, InitPhaseKeycloak, RegisterRoutes, Listen, step
<1>2. CASE CatchSignal \/ ServeStep
  BY <1>2 DEF CatchSignal, ServeStep
<1>3. CASE End
  BY <1>3 DEF End, Stop, BeginClose, EndClose, Flush, EndFlush, Main, Fatal, Exit
<1>4. CASE Kill
  BY <1>4 DEF Kill
<1>5. ASSUME NEW c \in Connections, Accepted(c) \/ CloseConnection(c)
      PROVE  UNCHANGED auditVars
  BY <1>5 DEF Accepted, CloseConnection
<1>6. ASSUME NEW c \in Connections, Handle(c)
      PROVE  A!Next \/ UNCHANGED auditVars
  BY <1>6 DEF Handle, A!Next
<1>7. CASE \E c \in Connections : AcquireConnection(c) \/ ReleaseConnection(c)
  BY <1>7 DEF AcquireConnection, ReleaseConnection
<1>8. ASSUME NEW c \in Audited, HandlerStep(c) \/ JobStep(c)
      PROVE  A!Next
  BY <1>8 DEF HandlerStep, JobStep, A!Next
<1>9. ASSUME NEW id \in A!EventIds, DeliveryStep(id)
      PROVE  A!Next
  BY <1>9 DEF DeliveryStep, A!Next
<1>10. CASE UNCHANGED bootVars
  BY <1>10 DEF bootVars
<1>11. CASE \E e \in Errors : Post(e)
  BY <1>11 DEF Post
<1> QED
  BY <1>1, <1>2, <1>3, <1>4, <1>5, <1>6, <1>7, <1>8, <1>9, <1>10, <1>11 DEF BootNext

\* Whatever happens around it, the audit middleware behaves as Audit says.
THEOREM ImplementsAudit == BootSpec => A!SafeSpec
<1>1. BootInit => A!Init
  BY DEF BootInit
<1> QED
  BY <1>1, StepAudits, PTL DEF BootSpec, A!SafeSpec

----------------------------------------------------------------------------

\* Which phase holds which resource, and where serveUntil is meanwhile.
PhaseInv ==
    /\ phase \in Starting \cup {"listen", "serving"} \cup Ending \cup {"ended"}
    /\ pool \in {"none", "open", "closing", "closed"}
    /\ holders \subseteq Connections
    /\ phase \in {"validate", "sentry", "migrate", "migrated", "pool"} => pool = "none"
    /\ phase \in {"keycloak", "routes", "listen", "serving"} => pool = "open"
    /\ phase = "closing" => pool \in {"open", "closing"}
    /\ phase \in {"flush", "flushing", "main", "fatal", "exiting"} => pool \in {"none", "closed"}
    /\ phase = "ended" /\ exit # "killed" => pool \in {"none", "closed"}
    /\ pool \in {"none", "closed"} => holders = {}
    /\ phase # "serving" => main \in {"start", "returned"}
    /\ phase \in Starting \cup {"listen"} => main = "start"
    /\ sentry \in BOOLEAN /\ failure \in {"none", "error", "panic"}
    /\ exit \in {"none", "0", "1", "2", "killed"} /\ (exit = "none" <=> phase # "ended")

\* At the start nothing is set up.
LEMMA PhaseInit == BootInit => PhaseInv
BY DEF BootInit, PhaseInv, Starting, Ending, Init

\* The steps of the start and the end, which move the phase.
LEMMA PhaseMoved ==
    ASSUME PhaseInv, Startup \/ End \/ Kill
    PROVE  PhaseInv'
<1> USE DEF PhaseInv, Starting, Ending
<1>1. CASE Validate
  BY <1>1 DEF Validate, vars
<1>2. CASE InitSentry
  BY <1>2 DEF InitSentry, step, vars
<1>3. CASE MigrationWrites
  BY <1>3 DEF MigrationWrites, startVars, vars
<1>4. CASE MigrationEnds
  BY <1>4 DEF MigrationEnds, startVars, vars
<1>5. CASE RunMigrations
  BY <1>5 DEF RunMigrations, step, unwind, vars
<1>6. CASE NewPool
  BY <1>6 DEF NewPool, step, unwind, vars
<1>7. CASE InitPhaseKeycloak
  BY <1>7 DEF InitPhaseKeycloak, step, unwind, vars
<1>8. CASE RegisterRoutes
  BY <1>8 DEF RegisterRoutes, step, unwind, vars
<1>9. CASE Listen
  BY <1>9 DEF Listen, step, unwind, vars
<1>10. CASE Stop
  BY <1>10 DEF Stop, unwind, vars
<1>11. CASE BeginClose
  BY <1>11 DEF BeginClose, vars
<1>12. CASE EndClose
  BY <1>12 DEF EndClose, vars
<1>13. CASE Flush
  BY <1>13 DEF Flush, vars
<1>14. CASE Main
  BY <1>14 DEF Main, vars
<1>15. CASE Fatal
  BY <1>15 DEF Fatal, vars
<1>16. CASE Kill
  BY <1>16 DEF Kill, vars
<1>17. CASE EndFlush
  BY <1>17 DEF EndFlush, vars
<1>18. CASE Exit
  BY <1>18 DEF Exit, vars
<1> QED
  BY <1>1, <1>2, <1>3, <1>4, <1>5, <1>6, <1>7, <1>8, <1>9, <1>10, <1>11, <1>12, <1>13, <1>14,
     <1>15, <1>16, <1>17, <1>18 DEF Startup, End

\* Handlers, jobs, deliveries and reports touch nothing of it but the holders.
LEMMA PhaseKept == PhaseInv /\ [BootNext]_bootVars => PhaseInv'
<1> SUFFICES ASSUME PhaseInv, [BootNext]_bootVars PROVE PhaseInv'
  OBVIOUS
<1>1. CASE Startup \/ End \/ Kill
  BY <1>1, PhaseMoved
<1>2. CASE \E c \in Connections : AcquireConnection(c) \/ ReleaseConnection(c)
  BY <1>2 DEF AcquireConnection, ReleaseConnection, PhaseInv, Starting, Ending, vars
<1>3. CASE UNCHANGED <<phase, pool, holders, failure, exit, sentry>>
  BY <1>3, StepServes DEF PhaseInv, Starting, Ending
<1>4. CASE CatchSignal \/ ServeStep
  BY <1>3, <1>4 DEF CatchSignal, ServeStep, others, startVars
<1>5. CASE \E c \in Connections : Accepted(c) \/ Handle(c) \/ CloseConnection(c)
  BY <1>3, <1>5 DEF Accepted, Handle, CloseConnection, others, startVars
<1>6. CASE \E c \in Audited : HandlerStep(c) \/ JobStep(c)
  BY <1>3, <1>6 DEF HandlerStep, JobStep, others, startVars
<1>7. CASE \E id \in A!EventIds : DeliveryStep(id)
  BY <1>3, <1>7 DEF DeliveryStep
<1>8. CASE UNCHANGED bootVars
  BY <1>3, <1>8 DEF bootVars, startVars
<1>9. CASE \E e \in Errors : Post(e)
  BY <1>3, <1>9 DEF Post
<1> QED
  BY <1>1, <1>2, <1>4, <1>5, <1>6, <1>7, <1>8, <1>9 DEF BootNext

\* So each phase finds what the earlier ones left.
LEMMA PhaseAlways == BootSpec => []PhaseInv
BY PhaseInit, PhaseKept, PTL DEF BootSpec

----------------------------------------------------------------------------
(* The migrations inside the service. *)

\* Nothing is printed before the tool starts.
Logged ==
    /\ Masked
    /\ phase \in {"validate", "sentry"} =>
          output = <<>> /\ written = 0 /\ pending = <<>> /\ printed = <<>>

\* The state of a writer nobody has written to.
LEMMA FreshWriter ==
    ASSUME NEW o \in Outputs \cup {<<>>},
           output' = o, written' = 0, pending' = <<>>, printed' = <<>>
    PROVE  Masked'
<1>1. o \in Seq(Tokens) /\ Len(o) \in Nat /\ <<>> \in Seq(Tokens \cup {"***"}) /\ Len(<<>>) = 0
  BY OutputsAssumption, EmptySeq
<1>2. SubSeq(o, 1, 0) = <<>>
  BY SubSeqEmpty
<1>3. DOMAIN << >> = {}
  OBVIOUS
<1>4. pending' = SubSeq(output', Len(printed') + 1, written')
  BY <1>1, <1>2
<1> QED
  BY <1>1, <1>3, <1>4 DEF Masked

\* At the start nothing is printed.
LEMMA LoggedInit == BootInit => Logged
<1> SUFFICES ASSUME BootInit PROVE Logged
  OBVIOUS
<1>1. output = <<>> /\ written = 0 /\ pending = <<>> /\ printed = <<>>
  BY DEF BootInit, MigrationInit
<1>2. /\ output \in Seq(Tokens) /\ Len(output) = 0 /\ Len(printed) = 0
      /\ printed \in Seq(Tokens \cup {"***"})
  BY <1>1, EmptySeq
<1>3. SubSeq(output, 1, 0) = <<>>
  BY SubSeqEmpty
<1>4. pending = SubSeq(output, Len(printed) + 1, written) /\ DOMAIN pending = {}
  BY <1>1, <1>2, <1>3
<1> QED
  BY <1>1, <1>2, <1>4 DEF Logged, Masked

\* Only the migrations write through the masking writer.
LEMMA LoggedKept == PhaseInv /\ Logged /\ [BootNext]_bootVars => Logged'
<1> SUFFICES ASSUME PhaseInv, Logged, [BootNext]_bootVars PROVE Logged'
  OBVIOUS
<1> USE DEF Logged
<1>1. CASE UNCHANGED migrationVars /\ (phase' \in {"validate", "sentry"} =>
                                          phase \in {"validate", "sentry"})
  BY <1>1 DEF migrationVars, Masked
<1>2. CASE InitSentry
  <2>1. phase = "sentry" /\ phase' = "migrate"
    BY <1>2 DEF InitSentry, step
  <2>2. PICK o \in Outputs : output' = o
    BY <1>2 DEF InitSentry, StartMigrations
  <2>3. written' = 0 /\ pending' = <<>> /\ printed' = <<>>
    BY <1>2, <2>1 DEF InitSentry
  <2> QED
    BY <2>1, <2>2, <2>3, FreshWriter
<1>3. CASE MigrationWrites
  <2>1. phase = "migrate" /\ phase' = "migrate" /\ \E n \in 1 .. Len(output) : Write(n)
    BY <1>3 DEF MigrationWrites
  <2> QED
    BY <2>1, WriteMasked
<1>4. CASE MigrationEnds
  <2>1. phase' = "migrated" /\ flush
    BY <1>4 DEF MigrationEnds
  <2> QED
    BY <2>1, FlushMasked
<1>5. CASE RunMigrations
  <2>1. phase' \notin {"validate", "sentry"}
    BY <1>5 DEF RunMigrations, step, unwind
  <2>2. output' = <<>> /\ written' = 0 /\ pending' = <<>> /\ printed' = <<>>
    BY <1>5 DEF RunMigrations
  <2> QED
    BY <2>1, <2>2, FreshWriter
<1>6. CASE Validate \/ NewPool \/ InitPhaseKeycloak \/ RegisterRoutes \/ Listen
  BY <1>1, <1>6 DEF Validate, NewPool, InitPhaseKeycloak, RegisterRoutes, Listen, step, unwind
<1>7. CASE End \/ Kill
  BY <1>1, <1>7 DEF End, Stop, BeginClose, EndClose, Flush, EndFlush, Main, Fatal, Exit, Kill,
                    unwind
<1>8. CASE CatchSignal \/ ServeStep
  BY <1>1, <1>8 DEF CatchSignal, ServeStep, others
<1>9. ASSUME NEW c \in Connections,
             \/ Accepted(c) \/ Handle(c) \/ CloseConnection(c)
             \/ AcquireConnection(c) \/ ReleaseConnection(c)
      PROVE  Logged'
  BY <1>1, <1>9 DEF Accepted, Handle, CloseConnection, AcquireConnection, ReleaseConnection, others
<1>10. CASE \E c \in Audited : HandlerStep(c) \/ JobStep(c)
  BY <1>1, <1>10 DEF HandlerStep, JobStep, others
<1>11. CASE \E id \in A!EventIds : DeliveryStep(id)
  BY <1>1, <1>11 DEF DeliveryStep
<1>12. CASE UNCHANGED bootVars
  BY <1>1, <1>12 DEF bootVars
<1>13. CASE \E e \in Errors : Post(e)
  BY <1>1, <1>13 DEF Post
<1> QED
  BY <1>2, <1>3, <1>4, <1>5, <1>6, <1>7, <1>8, <1>9, <1>10, <1>11, <1>12, <1>13
  DEF BootNext, Startup

\* So the log is masked throughout.
LEMMA LoggedAlways == BootSpec => []Logged
BY PhaseInit, PhaseKept, LoggedInit, LoggedKept, PTL DEF BootSpec

----------------------------------------------------------------------------
(* The requests inside the service. *)

Trail == AP!Bookkeeping /\ AP!Traces

\* The inductive invariant of AuditProofs, for the audited connections.
LEMMA TrailAlways == BootSpec => []Trail
<1>1. AP!SafeSpec => [](AP!Bookkeeping /\ AP!Traces)
  BY AP!TracesInvariant, AuditedAssumption, AuditAssumption
  DEF IsFiniteSet, AP!IsFiniteSet, A!StatusClasses, AP!StatusClasses,
      A!Outcomes, AP!Outcomes, A!None, AP!None
<1> QED
  BY <1>1, ImplementsAudit, SameAudit, PTL DEF Trail

\* A request is with its handlers while its connection is active, and has
\* recorded nothing and started no job before.
Handlers == \A c \in Audited :
    /\ conn[c] \in {"none", "new"} => pc[c] = "idle"
    /\ conn[c] = "closed" => pc[c] \in {"idle", "done", "panicked"}
    /\ pc[c] = "idle" => buffer[c] = <<>> /\ made[c] = 0 /\ ~copy[c].taken

\* A step of a handler does not concern other requests, nor an idle one.
LEMMA HandlerAlone ==
    ASSUME AP!TypeOK, NEW c \in Audited, HandlerStep(c)
    PROVE  /\ conn[c] = "active" /\ conn' = conn /\ pc'[c] # "idle"
           /\ \A d \in Audited \ {c} : /\ pc'[d] = pc[d] /\ buffer'[d] = buffer[d]
                                       /\ made'[d] = made[d] /\ copy'[d] = copy[d]
<1>1. DOMAIN pc = Audited /\ DOMAIN buffer = Audited /\ DOMAIN made = Audited /\ DOMAIN copy = Audited
  BY DEF AP!TypeOK
<1>2. conn[c] = "active" /\ conn' = conn
  BY DEF HandlerStep, vars
<1>3. \/ A!Authenticate(c) \/ A!Respond(c) \/ A!StartJob(c)
      \/ A!HandlerReturns(c) \/ A!HandlerPanics(c) \/ A!Flush(c) \/ A!Backstop(c)
      \/ \E supplied \in GivenActors, o \in GivenOutcomes : A!Record(c, supplied, o)
  BY DEF HandlerStep
<1>4. /\ pc[c] # "idle"
      /\ pc' = pc \/ \E v : v # "idle" /\ pc' = [pc EXCEPT ![c] = v]
      /\ buffer' = buffer \/ \E v : buffer' = [buffer EXCEPT ![c] = v]
      /\ made' = made \/ \E v : made' = [made EXCEPT ![c] = v]
      /\ copy' = copy \/ \E v : copy' = [copy EXCEPT ![c] = v]
  BY <1>3 DEF A!Authenticate, A!Respond, A!StartJob, A!HandlerReturns, A!HandlerPanics,
              A!Flush, A!Backstop, A!Record, A!request
<1> QED
  BY <1>1, <1>2, <1>4

\* A handler starts on an active connection, which closes after it.
LEMMA HandlersKept == Inv /\ AP!TypeOK /\ Handlers /\ [BootNext]_bootVars => Handlers'
<1> SUFFICES ASSUME Inv, AP!TypeOK, Handlers, [BootNext]_bootVars PROVE Handlers'
  OBVIOUS
<1>1. CASE UNCHANGED <<conn, pc, buffer, made, copy>>
  BY <1>1 DEF Handlers
<1>2. /\ conn \in [Connections -> {"none", "new", "active", "closed"}]
      /\ DOMAIN pc = Audited /\ DOMAIN buffer = Audited /\ Audited \subseteq Connections
      /\ DOMAIN made = Audited
  BY AuditedAssumption DEF Inv, TypeOK, AP!TypeOK
<1>3. CASE Startup
  BY <1>1, <1>3 DEF Startup, Validate, InitSentry, MigrationWrites, MigrationEnds, RunMigrations,
                    NewPool, InitPhaseKeycloak, RegisterRoutes, Listen, step, vars, auditVars
<1>4. CASE CatchSignal \/ ServeStep
  BY <1>1, <1>4 DEF CatchSignal, ServeStep, MainStep, Signal, ServeFails, StartServe, ServeCloses,
                    Cancel, Return, BeginShutdown, EndShutdown, auditVars
<1>5. CASE End \/ Kill
  BY <1>1, <1>5 DEF End, Stop, BeginClose, EndClose, Flush, EndFlush, Main, Fatal, Exit, Kill,
                    vars, auditVars
<1>6. ASSUME NEW c \in Connections, Accepted(c) \/ CloseConnection(c)
      PROVE  Handlers'
  BY <1>2, <1>6 DEF Accepted, CloseConnection, Connect, Finish, auditVars, Handlers
<1>7. ASSUME NEW c \in Connections, Handle(c)
      PROVE  Handlers'
  <2>1. conn[c] = "new" /\ conn' = [conn EXCEPT ![c] = "active"]
    BY <1>7 DEF Handle, Request
  <2>2. CASE c \in Audited
    <3>1. /\ pc' = [pc EXCEPT ![c] = "handling"] /\ buffer' = buffer
          /\ made' = made /\ copy' = copy
      BY <1>7, <2>2 DEF Handle, A!Arrive
    <3> QED
      BY <1>2, <2>1, <3>1 DEF Handlers
  <2>3. CASE c \notin Audited
    <3>1. pc' = pc /\ buffer' = buffer /\ made' = made /\ copy' = copy
      BY <1>7, <2>3 DEF Handle, auditVars
    <3> QED
      BY <1>2, <2>1, <2>3, <3>1 DEF Handlers
  <2> QED
    BY <2>2, <2>3
<1>8. CASE \E c \in Connections : AcquireConnection(c) \/ ReleaseConnection(c)
  BY <1>1, <1>8 DEF AcquireConnection, ReleaseConnection, vars, auditVars
<1>9. ASSUME NEW c \in Audited, HandlerStep(c)
      PROVE  Handlers'
  BY <1>9, HandlerAlone DEF Handlers
<1>10. ASSUME NEW c \in Audited, JobStep(c)
       PROVE  Handlers'
  <2>1. /\ copy[c].taken /\ conn' = conn /\ pc' = pc /\ buffer' = buffer /\ copy' = copy
        /\ made' = made \/ \E v : made' = [made EXCEPT ![c] = v]
    BY <1>10 DEF JobStep, A!JobRecord, A!request, vars
  <2> QED
    BY <1>2, <2>1 DEF Handlers
<1>11. CASE \E id \in A!EventIds : DeliveryStep(id)
  BY <1>1, <1>11 DEF DeliveryStep, A!SinkReturns, A!Release, A!request, vars
<1>12. CASE UNCHANGED bootVars
  BY <1>1, <1>12 DEF bootVars, vars, auditVars
<1>13. CASE \E e \in Errors : Post(e)
  BY <1>1, <1>13 DEF Post, vars, auditVars
<1> QED
  BY <1>3, <1>4, <1>5, <1>6, <1>7, <1>8, <1>9, <1>10, <1>11, <1>12, <1>13 DEF BootNext

\* So no request is inside the middleware without a connection.
LEMMA HandlersAlways == BootSpec => []Handlers
<1>1. BootInit => Handlers
  BY AuditedAssumption DEF BootInit, Init, A!Init, A!NoCopy, Handlers
<1>2. Trail => AP!TypeOK
  BY DEF Trail, AP!Bookkeeping
<1> QED
  BY <1>1, <1>2, HandlersKept, TrailAlways, ImplementsServe, InvAlways, PTL DEF BootSpec

----------------------------------------------------------------------------
(* Errors on their way to Sentry. *)

Failed == {id \in A!EventIds : fate[id] = "failed"}

\* A logged error is with the transport or sent.  Once the last flush runs, it
\* awaits what is left of them, and when it is over nothing is left that is
\* not excused.
Tracked ==
    /\ Failed \subseteq report.captured \cup report.sent
    /\ phase = "fatal" => FatalError \in report.captured \cup report.sent
    /\ phase = "flushing" /\ failure # "error" =>
          Failed \subseteq report.awaited \cup report.sent \cup report.excused
    /\ phase = "main" /\ failure # "error" => Failed \subseteq report.sent \cup report.excused
    /\ phase = "exiting" => Failed \cup {FatalError}
                                \subseteq report.awaited \cup report.sent \cup report.excused
    /\ phase = "ended" /\ exit # "killed" =>
          /\ Failed \subseteq report.sent \cup report.excused
          /\ exit = "1" => FatalError \in report.sent \cup report.excused

ReportInv == report \in Reports /\ (sentry => Tracked)

\* Capturing adds to what is with the transport and takes nothing away.
LEMMA CaptureAdds ==
    ASSUME report \in Reports, NEW e \in Errors, NEW late \in BOOLEAN, capture(e, late)
    PROVE  /\ report' \in Reports
           /\ sentry => /\ report'.captured = report.captured \cup {e}
                        /\ report'.sent = report.sent /\ report'.awaited = report.awaited
                        /\ report'.excused = report.excused \cup (IF late THEN {e} ELSE {})
<1>1. CASE sentry
  <2>1. report' = [captured |-> report.captured \cup {e}, sent |-> report.sent,
                   awaited |-> report.awaited,
                   excused |-> IF late THEN report.excused \cup {e} ELSE report.excused]
    BY <1>1 DEF capture, Reports
  <2> QED
    BY <2>1 DEF Reports
<1>2. CASE ~sentry
  BY <1>2 DEF capture
<1> QED
  BY <1>1, <1>2

\* A flush begins with all that is with the transport.
LEMMA FlushBegins ==
    ASSUME report \in Reports, beginFlush
    PROVE  /\ report' \in Reports /\ report'.captured = report.captured
           /\ report'.sent = report.sent /\ report'.awaited = report.captured
           /\ report'.excused = report.excused
BY DEF beginFlush, Reports

\* A flush that ends excuses what it has not seen leave.
LEMMA FlushEnds ==
    ASSUME report \in Reports, endFlush
    PROVE  /\ report' \in Reports /\ report'.captured = report.captured
           /\ report'.sent = report.sent
           /\ report'.excused = report.excused \cup (report.awaited \ report.sent)
BY DEF endFlush, Reports

\* Only a delivery goroutine makes a delivery fail.
LEMMA OthersFail ==
    ASSUME AP!TypeOK, NEW c \in Audited, A!Arrive(c) \/ HandlerStep(c) \/ JobStep(c)
    PROVE  Failed' \subseteq Failed
<1>1. \/ fate' = fate
      \/ \E id, f : f \in {"recording", "dropped", "buffered"} /\ fate' = [fate EXCEPT ![id] = f]
  <2>1. CASE A!Arrive(c)
    BY <2>1 DEF A!Arrive
  <2>2. CASE \/ A!Authenticate(c) \/ A!Respond(c) \/ A!StartJob(c)
             \/ A!HandlerReturns(c) \/ A!HandlerPanics(c)
    BY <2>2 DEF A!Authenticate, A!Respond, A!StartJob, A!HandlerReturns, A!HandlerPanics
  <2>3. CASE A!Flush(c) \/ A!Backstop(c)
    BY <2>3 DEF A!Flush, A!Backstop, A!write
  <2>4. CASE \E supplied \in GivenActors, o \in GivenOutcomes :
                 A!Record(c, supplied, o) \/ A!JobRecord(c, supplied, o)
    BY <2>4 DEF A!Record, A!JobRecord, A!write
  <2> QED
    BY <2>1, <2>2, <2>3, <2>4 DEF HandlerStep, JobStep
<1>2. DOMAIN fate = A!EventIds
  BY DEF AP!TypeOK, AP!EventIds, A!EventIds
<1> QED
  BY <1>1, <1>2 DEF Failed

\* Nothing has failed while the service starts.
LEMMA StartsClean ==
    Inv /\ Trail /\ Handlers /\ main = "start" => Failed = {}
<1> SUFFICES ASSUME Inv, Trail, Handlers, main = "start", NEW id \in A!EventIds
             PROVE  fate[id] # "failed"
  BY DEF Failed
<1>1. /\ id[1] \in Audited /\ id[2] \in 1 .. MaxRecords + 1 /\ id = <<id[1], id[2]>>
  BY DEF A!EventIds
<1>2. conn[id[1]] = "none"
  BY <1>1, AuditedAssumption DEF Inv, Drained
<1>3. made[id[1]] = 0
  BY <1>1, <1>2 DEF Handlers
<1>4. id[2] > made[id[1]]
  BY <1>1, <1>3, AuditAssumption
<1> QED
  BY <1>1, <1>4 DEF Trail, AP!Bookkeeping, AP!Fresh, AP!None

\* At the start nothing is captured.
LEMMA ReportInit == BootInit => ReportInv
BY DEF BootInit, ReportInv, Reports

\* The steps of the start and the end.
LEMMA ReportMoved ==
    ASSUME ReportInv, PhaseInv, Inv, Trail, Handlers, Startup \/ End \/ Kill
    PROVE  ReportInv'
<1> USE DEF ReportInv, Starting
<1>1. Failed' = Failed
  BY DEF Startup, Validate, InitSentry, MigrationWrites, MigrationEnds, RunMigrations,
         NewPool, InitPhaseKeycloak, RegisterRoutes, Listen, step, End, Stop, BeginClose,
         EndClose, Flush, EndFlush, Main, Fatal, Exit, Kill, auditVars, Failed
<1>2. CASE InitSentry
  <2>1. phase = "sentry" /\ phase' = "migrate" /\ report' = report
    BY <1>2 DEF InitSentry, step
  <2>2. Failed = {}
    BY <2>1, StartsClean DEF PhaseInv
  <2> QED
    BY <1>1, <2>1, <2>2 DEF Tracked
<1>3. CASE MigrationWrites \/ MigrationEnds
  BY <1>1, <1>3 DEF MigrationWrites, MigrationEnds, startVars, Tracked
<1>4. CASE Validate
  BY <1>1, <1>4 DEF Validate, Tracked
<1>5. CASE RunMigrations \/ NewPool \/ InitPhaseKeycloak \/ RegisterRoutes \/ Listen
  <2>1. /\ sentry' = sentry /\ report' = report
        /\ phase' \in {"pool", "keycloak", "routes", "listen", "serving", "closing", "flush"}
    BY <1>5 DEF RunMigrations, NewPool, InitPhaseKeycloak, RegisterRoutes, Listen, step, unwind
  <2> QED
    BY <1>1, <2>1 DEF Tracked
<1>6. CASE Stop \/ BeginClose \/ EndClose
  <2>1. sentry' = sentry /\ report' = report /\ phase' \in {"closing", "flush"}
    BY <1>6 DEF Stop, BeginClose, EndClose, unwind
  <2> QED
    BY <1>1, <2>1 DEF Tracked
<1>7. CASE Flush
  <2>1. phase' = "flushing" /\ sentry' = sentry /\ beginFlush
    BY <1>7 DEF Flush
  <2> QED
    BY <1>1, <2>1, FlushBegins DEF Tracked
<1>8. CASE EndFlush
  <2>1. /\ phase = "flushing" /\ phase' \in {"ended", "main"} /\ sentry' = sentry
        /\ failure' = failure /\ endFlush
        /\ phase' = "ended" => failure = "panic" /\ exit' = "2"
    BY <1>8 DEF EndFlush
  <2> QED
    BY <1>1, <2>1, FlushEnds DEF Tracked
<1>9. CASE Main
  <2>1. phase = "main" /\ sentry' = sentry
    BY <1>9 DEF Main
  <2>2. CASE failure = "none" /\ phase' = "ended" /\ exit' = "0" /\ report' = report
    BY <1>1, <2>1, <2>2 DEF Tracked
  <2>3. CASE phase' = "fatal" /\ capture(FatalError, FALSE)
    <3>1. FatalError \in Errors
      BY DEF Errors
    <3> QED
      BY <1>1, <2>1, <2>3, <3>1, CaptureAdds DEF Tracked
  <2> QED
    BY <1>9, <2>2, <2>3 DEF Main
<1>10. CASE Fatal
  <2>1. phase = "fatal" /\ phase' = "exiting" /\ sentry' = sentry /\ beginFlush
    BY <1>10 DEF Fatal, exitHandlers
  <2> QED
    BY <1>1, <2>1, FlushBegins DEF Tracked
<1>11. CASE Exit
  <2>1. phase = "exiting" /\ phase' = "ended" /\ sentry' = sentry /\ endFlush
    BY <1>11 DEF Exit
  <2> QED
    BY <1>1, <2>1, FlushEnds DEF Tracked
<1>12. CASE Kill
  BY <1>1, <1>12 DEF Kill, Tracked
<1> QED
  BY <1>2, <1>3, <1>4, <1>5, <1>6, <1>7, <1>8, <1>9, <1>10, <1>11, <1>12 DEF Startup, End

\* Whoever logs, and whatever the transport has posted by then.
LEMMA ReportKept ==
    ReportInv /\ PhaseInv /\ Inv /\ Trail /\ Handlers /\ [BootNext]_bootVars => ReportInv'
<1> SUFFICES ASSUME ReportInv, PhaseInv, Inv, Trail, Handlers, [BootNext]_bootVars
             PROVE  ReportInv'
  OBVIOUS
<1>0. AP!TypeOK
  BY DEF Trail, AP!Bookkeeping
<1>1. CASE Startup \/ End \/ Kill
  BY <1>1, ReportMoved
<1>2. CASE UNCHANGED <<phase, failure, exit, sentry, report>> /\ Failed' \subseteq Failed
  BY <1>2 DEF ReportInv, Tracked
<1>3. CASE CatchSignal \/ ServeStep
  BY <1>2, <1>3 DEF CatchSignal, ServeStep, others, startVars, auditVars, Failed
<1>4. ASSUME NEW c \in Connections, Accepted(c) \/ CloseConnection(c)
      PROVE  ReportInv'
  BY <1>2, <1>4 DEF Accepted, CloseConnection, others, startVars, auditVars, Failed
<1>5. ASSUME NEW c \in Connections, Handle(c)
      PROVE  ReportInv'
  <2>1. UNCHANGED <<phase, failure, exit, sentry, report>>
    BY <1>5 DEF Handle, others, startVars
  <2>2. Failed' \subseteq Failed
    BY <1>0, <1>5, OthersFail DEF Handle, auditVars, Failed
  <2> QED
    BY <1>2, <2>1, <2>2
<1>6. CASE \E c \in Connections : AcquireConnection(c) \/ ReleaseConnection(c)
  BY <1>2, <1>6 DEF AcquireConnection, ReleaseConnection, auditVars, Failed
<1>7. ASSUME NEW c \in Audited, HandlerStep(c) \/ JobStep(c)
      PROVE  ReportInv'
  <2>1. UNCHANGED <<phase, failure, exit, sentry, report>>
    BY <1>7 DEF HandlerStep, JobStep, others, startVars
  <2> QED
    BY <1>0, <1>2, <1>7, <2>1, OthersFail
<1>8. ASSUME NEW id \in A!EventIds, DeliveryStep(id)
      PROVE  ReportInv'
  <2>1. UNCHANGED <<phase, failure, exit, sentry>> /\ phase # "ended"
    BY <1>8 DEF DeliveryStep
  <2>2. DOMAIN fate = A!EventIds
    BY <1>0 DEF AP!TypeOK, AP!EventIds, A!EventIds
  <2>3. CASE report' = report /\ (A!SinkReturns(id) \/ (fate[id] = "recorded" /\ A!Release(id)))
    <3>1. fate' = fate \/ \E f : f # "failed" /\ fate' = [fate EXCEPT ![id] = f]
      BY <2>3 DEF A!SinkReturns, A!Release
    <3>2. Failed' \subseteq Failed
      BY <2>2, <3>1 DEF Failed
    <3> QED
      BY <1>2, <2>1, <2>3, <3>2
  <2>4. CASE fate[id] = "errored" /\ A!Release(id) /\ capture(id, lastFlushBegun)
    <3>1. fate' = [fate EXCEPT ![id] = "failed"]
      BY <2>4 DEF A!Release
    <3>2. Failed' = Failed \cup {id}
      BY <2>2, <3>1 DEF Failed
    <3>3. id \in Errors /\ lastFlushBegun \in BOOLEAN
      BY DEF Errors, lastFlushBegun
    <3>4. /\ report' \in Reports
          /\ sentry => /\ report'.captured = report.captured \cup {id}
                       /\ report'.sent = report.sent /\ report'.awaited = report.awaited
                       /\ report'.excused = report.excused \cup (IF lastFlushBegun THEN {id} ELSE {})
      BY <2>4, <3>3, CaptureAdds DEF ReportInv
    <3> QED
      BY <2>1, <3>2, <3>4 DEF ReportInv, Tracked, lastFlushBegun
  <2> QED
    BY <1>8, <2>3, <2>4 DEF DeliveryStep
<1>9. ASSUME NEW e \in Errors, Post(e)
      PROVE  ReportInv'
  <2>1. UNCHANGED <<phase, failure, exit, sentry>> /\ Failed' = Failed
    BY <1>9 DEF Post, auditVars, Failed
  <2>2. /\ report' \in Reports
        /\ report'.captured = report.captured \ {e} /\ report'.sent = report.sent \cup {e}
        /\ report'.awaited = report.awaited /\ report'.excused = report.excused
    BY <1>9 DEF Post, ReportInv, Reports
  <2> QED
    BY <2>1, <2>2 DEF ReportInv, Tracked
<1>10. CASE UNCHANGED bootVars
  BY <1>2, <1>10 DEF bootVars, startVars, auditVars, Failed
<1> QED
  BY <1>1, <1>3, <1>4, <1>5, <1>6, <1>7, <1>8, <1>9, <1>10 DEF BootNext

\* So no logged error is forgotten.
LEMMA ReportAlways == BootSpec => []ReportInv
BY ReportInit, ReportKept, PhaseAlways, ImplementsServe, InvAlways, TrailAlways, HandlersAlways,
   PTL DEF BootSpec

----------------------------------------------------------------------------

\* serveUntil returns nil after a requested shutdown and only then.
THEOREM ResultsTrueInService == BootSpec => []ResultTruthful
<1>1. Inv => ResultTruthful
  BY DEF Inv, TypeOK, OnlySignals, Ordered, ResultTruthful, resultOf
<1> QED
  BY <1>1, ImplementsServe, InvAlways, PTL

\* The pool is taken from a running handler only after a timeout.
THEOREM PoolClosedLast == BootSpec => []ClosedWhenDrained
<1>1. PhaseInv /\ Inv => ClosedWhenDrained
  BY DEF PhaseInv, Inv, Drained, Ordered, ClosedWhenDrained, Starting, Ending
<1> QED
  BY <1>1, PhaseAlways, ImplementsServe, InvAlways, PTL

\* The pool is closed, and nobody cut off, on every path out of Bootstrap.
THEOREM Released == BootSpec => []ResourcesReleased
<1>1. PhaseInv => ResourcesReleased
  BY DEF PhaseInv, ResourcesReleased
<1> QED
  BY <1>1, PhaseAlways, PTL

\* Whatever order deliveries fail in, startup fails in and the transport posts
\* in: the two flushes between them leave no error behind but those they gave
\* up and those logged after the last one began.
THEOREM ErrorsReachSentry == BootSpec => []ErrorsReported
<1>1. ReportInv => ErrorsReported
  BY DEF ReportInv, Tracked, Failed, ErrorsReported
<1> QED
  BY <1>1, ReportAlways, PTL

\* The password is in no log line, and the rest of the output is in the log,
\* whatever the migration tool prints and in which pieces.
THEOREM CredentialsHidden == BootSpec => []CredentialHidden
<1>1. Logged => CredentialHidden
  BY MaskedHides DEF Logged
<1> QED
  BY <1>1, LoggedAlways, PTL

\* Every variable of the service keeps its type.
THEOREM BootTypes == BootSpec => []BootTypeOK
<1>1. AP!TypeOK <=> A!TypeOK
  BY DEF AP!TypeOK, A!TypeOK, AP!EventIds, A!EventIds, AP!None, A!None, AP!Event, A!Event,
         AP!Outcomes, A!Outcomes, AP!StatusClasses, A!StatusClasses, AP!Fates, A!Fates,
         AP!HandedOver, A!HandedOver, AP!Holding, A!Holding, AP!Settled, A!Settled
<1>2. PhaseInv /\ ReportInv /\ Inv /\ Logged /\ Trail => BootTypeOK
  BY <1>1, MaskedHides
  DEF PhaseInv, ReportInv, Inv, Logged, Trail, AP!Bookkeeping, BootTypeOK
<1> QED
  BY <1>2, PhaseAlways, ReportAlways, ImplementsServe, InvAlways, LoggedAlways, TrailAlways, PTL

\* Where the two instances of Audit and the service speak of the same numbers.
LEMMA SameCardinality == \A S : Cardinality(S) = AP!Cardinality(S)
BY DEF Cardinality, AP!Cardinality, IsFiniteSet, AP!IsFiniteSet

\* A service that was not hurried leaves no event behind in a request, and
\* loses silently at most the deliveries that hold the slots.
THEOREM LossesBounded == BootSpec => []LossBounded
<1> USE DEF A!EventIds, AP!EventIds, A!Holding, AP!Holding
<1>1. Inv /\ Trail /\ Handlers => LossBounded
  <2> SUFFICES ASSUME Inv, Trail, Handlers, main = "returned", ~timedOut
               PROVE  /\ \A id \in A!EventIds : fate[id] = "buffered" => pc[id[1]] = "panicked"
                      /\ Cardinality({id \in A!EventIds : fate[id] \in A!Holding}) <= MaxDeliveries
    BY DEF LossBounded
  <2>1. \A c \in Audited : conn[c] \in {"none", "closed"}
    <3>1. busy = {}
      BY DEF Inv, Ordered, Drained
    <3> QED
      BY <3>1, AuditedAssumption DEF Inv, TypeOK, busy
  <2>2. ASSUME NEW id \in A!EventIds, fate[id] = "buffered"
        PROVE  pc[id[1]] = "panicked"
    <3>1. id[1] \in Audited /\ id[2] \in AP!numbers /\ id = <<id[1], id[2]>>
      BY DEF AP!numbers
    <3>2. \E i \in 1 .. Len(buffer[id[1]]) : buffer[id[1]][i] = id[2]
      BY <2>2, <3>1 DEF Trail, AP!Traces, AP!InBuffer
    <3>3. buffer[id[1]] # <<>>
      BY <3>2
    <3>4. pc[id[1]] \notin {"idle", "done"}
      BY <3>1, <3>3 DEF Handlers, Trail, AP!Traces, AP!Ended
    <3> QED
      BY <2>1, <3>1, <3>4 DEF Handlers
  <2>3. Cardinality({id \in A!EventIds : fate[id] \in A!Holding}) = sem
    BY SameCardinality DEF Trail, AP!Bookkeeping, AP!SlotAccounting
  <2>4. sem <= MaxDeliveries
    BY AuditAssumption DEF Trail, AP!Bookkeeping, AP!TypeOK
  <2> QED
    BY <2>2, <2>3, <2>4
<1> QED
  BY <1>1, ImplementsServe, InvAlways, TrailAlways, HandlersAlways, PTL

\* What AuditProofs shows of the trail of a request holds in the service, up
\* to its end: nothing twice, nothing lost, nothing untrue, nothing overtaken.
THEOREM TrailInService ==
    BootSpec => /\ [](A!NoDuplicateEntry /\ A!NoRecordLost /\ A!AuditedOrLogged)
                /\ [](A!TruthfulOutcome /\ A!FlushedInOrder)
<1> USE AuditedAssumption, AuditAssumption
<1> USE DEF IsFiniteSet, AP!IsFiniteSet, A!StatusClasses, AP!StatusClasses,
            A!Outcomes, AP!Outcomes, A!None, AP!None
<1>1. /\ AP!SafeSpec => []AP!NoDuplicateEntry
      /\ AP!SafeSpec => []AP!NoRecordLost
      /\ AP!SafeSpec => []AP!AuditedOrLogged
  BY AP!NoDuplicates, AP!NothingLost, AP!Audited
<1>2. AP!SafeSpec => []AP!TruthfulOutcome
  BY AP!OutcomesTrue
<1>3. AP!SafeSpec => []AP!FlushedInOrder
  BY AP!OrderKept
<1>4. /\ A!NoDuplicateEntry <=> AP!NoDuplicateEntry
      /\ A!NoRecordLost <=> AP!NoRecordLost
      /\ A!AuditedOrLogged <=> AP!AuditedOrLogged
      /\ A!TruthfulOutcome <=> AP!TruthfulOutcome
      /\ A!FlushedInOrder <=> AP!FlushedInOrder
  BY DEF A!NoDuplicateEntry, AP!NoDuplicateEntry, A!NoRecordLost, AP!NoRecordLost,
         A!AuditedOrLogged, AP!AuditedOrLogged, A!TruthfulOutcome, AP!TruthfulOutcome,
         A!FlushedInOrder, AP!FlushedInOrder, A!eventsOf, AP!eventsOf, A!idsOf, AP!idsOf,
         A!isMutating, AP!isMutating, A!EventIds, AP!EventIds, A!HandedOver, AP!HandedOver,
         A!Holding, AP!Holding, A!Settled, AP!Settled
<1> QED
  BY <1>1, <1>2, <1>3, <1>4, ImplementsAudit, SameAudit, PTL

\* Nor do shutdown, the pool or a fatal end disturb a delivery: an event is
\* handed over once, and dropped only while every slot is truly in use.
THEOREM DeliveriesInService == BootSpec => A!HandedOverOnce /\ A!DroppedOnlyUnderLoad
<1> USE AuditedAssumption, AuditAssumption
<1> USE DEF IsFiniteSet, AP!IsFiniteSet, A!StatusClasses, AP!StatusClasses,
            A!Outcomes, AP!Outcomes, A!None, AP!None
<1>1. AP!SafeSpec => AP!HandedOverOnce
  BY AP!WrittenOnce
<1>2. AP!SafeSpec => AP!DroppedOnlyUnderLoad
  BY AP!DropsJustified
<1> USE DEF A!EventIds, AP!EventIds, A!HandedOver, AP!HandedOver, A!Holding, AP!Holding,
            A!Settled, AP!Settled, A!vars, AP!vars, A!request, AP!request
<1>3. A!HandedOverOnce <=> AP!HandedOverOnce
  <2> DEFINE Once == \A id \in A!EventIds : fate[id] \in A!HandedOver =>
                        /\ event'[id] = event[id]
                        /\ fate'[id] \in A!HandedOver
                        /\ (fate'[id] \in {"recording", "dropped"} => fate'[id] = fate[id])
  <2>1. [Once]_(A!vars) <=> [Once]_(AP!vars)
    OBVIOUS
  <2> QED
    BY <2>1, PTL DEF A!HandedOverOnce, AP!HandedOverOnce
<1>4. A!DroppedOnlyUnderLoad <=> AP!DroppedOnlyUnderLoad
  <2> DEFINE held == {other \in A!EventIds : fate[other] \in A!Holding}
             Justified == \A id \in A!EventIds :
                fate[id] # "dropped" /\ fate'[id] = "dropped" =>
                    A!Cardinality({other \in A!EventIds : fate[other] \in A!Holding})
                        = MaxDeliveries
             JustifiedAP == \A id \in A!EventIds :
                fate[id] # "dropped" /\ fate'[id] = "dropped" =>
                    AP!Cardinality({other \in A!EventIds : fate[other] \in A!Holding})
                        = MaxDeliveries
  <2>1. A!Cardinality(held) = AP!Cardinality(held)
    BY DEF A!Cardinality, AP!Cardinality, A!IsFiniteSet
  <2>2. Justified <=> JustifiedAP
    BY <2>1
  <2>3. [Justified]_(A!vars) <=> [JustifiedAP]_(AP!vars)
    <3> HIDE DEF Justified, JustifiedAP
    <3> QED
      BY <2>2
  <2> QED
    BY <2>3, PTL DEF A!DroppedOnlyUnderLoad, AP!DroppedOnlyUnderLoad
<1> QED
  BY <1>1, <1>2, <1>3, <1>4, ImplementsAudit, SameAudit, PTL
=============================================================================
