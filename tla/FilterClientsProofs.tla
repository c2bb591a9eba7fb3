------------------------ MODULE FilterClientsProofs ------------------------
(***************************************************************************)
(* Proofs about the device filter and its clients, for any devices,        *)
(* descriptors and policies.                                               *)
(***************************************************************************)
EXTENDS FilterClients, FiniteSetTheorems, SequenceTheorems, TLAPS

Bytes == Seq(0 .. 255)
-----------------------------------------------------------------------------
\* A set of numbers has a least one.
LEMMA LeastNumber ==
  ASSUME NEW T, T \subseteq Nat, T # {}
  PROVE  \E x \in T : \A y \in T : x <= y
  <1> DEFINE R == OpToRel(<, Nat)
  <1>1. PICK x \in T : \A y \in T : ~(<<y, x>> \in R)
    <2>1. IsWellFoundedOn(R, Nat) BY NatLessThanWellFounded
    <2> HIDE DEF R
    <2> QED BY <2>1, WFMin
  <1>2. \A y \in T : x <= y
    <2> TAKE y \in T
    <2>1. y \in Nat /\ x \in Nat BY <1>1
    <2>2. ~(y < x) BY <1>1, <2>1 DEF OpToRel
    <2> HIDE DEF R
    <2> QED BY <2>1, <2>2
  <1> QED BY <1>1, <1>2

\* A set with zero and every successor has all numbers.
LEMMA SetInduction ==
  ASSUME NEW S, 0 \in S, \A n \in Nat : n \in S => n + 1 \in S
  PROVE  Nat \subseteq S
  <1> SUFFICES ASSUME Nat \ S # {} PROVE FALSE
    OBVIOUS
  <1>1. PICK x \in Nat \ S : \A y \in Nat \ S : x <= y
    BY LeastNumber
  <1> QED BY <1>1

-----------------------------------------------------------------------------
\* The bytes of a descriptor are integers.
LEMMA ByteType ==
  ASSUME NEW b \in Bytes, NEW o \in Int, 0 <= o, o < Len(b)
  PROVE  Byte(b, o) \in 0 .. 255 /\ Len(b) \in Nat
  <1>1. Len(b) \in Nat
    BY LenProperties DEF Bytes
  <1>2. o + 1 \in 1 .. Len(b)
    BY <1>1
  <1> QED BY <1>1, <1>2, ElementOfSeq DEF Bytes, Byte

\* The bodies of the recursive functions of Descriptors and find_all.
Visit(b, f) ==
  [o \in 0 .. Len(b) |->
     IF o = Len(b) THEN {}
     ELSE IF ~HasHeader(b, o) \/ ~HasUsableLength(b, o) THEN {o}
     ELSE {o} \cup f[o + Byte(b, o)]]

Find(b, type, f) ==
  [o \in 0 .. Word(b, 2) |->
     IF o + 2 > Word(b, 2) \/ Byte(b, o) < 2 \/ o + Byte(b, o) > Word(b, 2) THEN {}
     ELSE (IF Byte(b, o + 1) = type THEN {o} ELSE {}) \cup f[o + Byte(b, o)]]

\* A descriptor with a usable length is followed by one inside the buffer.
LEMMA NextOffset ==
  ASSUME NEW b \in Bytes, NEW o \in 0 .. Len(b), o # Len(b), HasUsableLength(b, o)
  PROVE  /\ Byte(b, o) \in 2 .. 255
         /\ o + Byte(b, o) \in 0 .. Len(b)
         /\ o + Byte(b, o) > o
         /\ \A n \in Int : Len(b) - o <= n + 1 => Len(b) - (o + Byte(b, o)) <= n
  <1>0. Len(b) \in Nat
    BY LenProperties DEF Bytes
  <1>1. o \in Int /\ 0 <= o /\ o < Len(b)
    BY <1>0
  <1> DEFINE B == Byte(b, o)
  <1>2. B \in 0 .. 255 /\ B >= 2 /\ B <= Len(b) - o
    BY <1>1, ByteType DEF HasUsableLength
  <1> HIDE DEF B
  <1>3. B \in 2 .. 255 /\ o + B \in 0 .. Len(b) /\ o + B > o
    BY <1>0, <1>1, <1>2
  <1>4. \A n \in Int : Len(b) - o <= n + 1 => Len(b) - (o + B) <= n
    BY <1>0, <1>1, <1>2
  <1> QED BY <1>3, <1>4 DEF B

\* The loop of evaluate_configuration goes forward, so it is well defined.
LEMMA VisitExists ==
  ASSUME NEW b \in Bytes
  PROVE  \E f : f = Visit(b, f) /\ Descriptors(b) = f[0]
  <1>0. Len(b) \in Nat
    BY LenProperties DEF Bytes
  <1> DEFINE N == Len(b)
             S == {n \in Nat : \E h : /\ h = [o \in 0 .. N |-> h[o]]
                                   /\ \A o \in 0 .. N : N - o <= n => h[o] = Visit(b, h)[o]}
  <1>1. 0 \in S
    <2>1. \A h : Visit(b, h)[N] = {}
      BY <1>0 DEF Visit
    <2>2. \A o \in 0 .. N : N - o <= 0 => o = N
      BY <1>0
    <2>3. [o \in 0 .. N |-> {}][N] = {}
      BY <1>0
    <2> DEFINE e == [o \in 0 .. N |-> {}]
    <2>4. /\ e = [o \in 0 .. N |-> e[o]]
          /\ \A o \in 0 .. N : N - o <= 0 => e[o] = Visit(b, e)[o]
      BY <2>1, <2>2, <2>3
    <2> HIDE DEF e
    <2> QED BY <2>4
  <1>2. ASSUME NEW n \in Nat, n \in S
        PROVE  n + 1 \in S
    <2>1. PICK h : \A o \in 0 .. N : N - o <= n => h[o] = Visit(b, h)[o]
      BY <1>2
    <2> HIDE DEF S
    <2> DEFINE g == Visit(b, h)
    <2>2. ASSUME NEW o \in 0 .. N, N - o <= n + 1
          PROVE  g[o] = Visit(b, g)[o]
      <3>1. CASE o = N \/ ~HasHeader(b, o) \/ ~HasUsableLength(b, o)
        BY <3>1, <1>0 DEF Visit
      <3>2. CASE o # N /\ HasHeader(b, o) /\ HasUsableLength(b, o)
        <4>1. o + Byte(b, o) \in 0 .. N /\ N - (o + Byte(b, o)) <= n
          BY <3>2, <2>2, NextOffset
        <4>3. g[o + Byte(b, o)] = h[o + Byte(b, o)]
          BY <4>1, <2>1
        <4>4. g[o] = {o} \cup h[o + Byte(b, o)]
          BY <3>2, <1>0 DEF Visit
        <4>5. Visit(b, g)[o] = {o} \cup g[o + Byte(b, o)]
          BY <3>2, <1>0 DEF Visit
        <4> QED BY <4>3, <4>4, <4>5
      <3> QED BY <3>1, <3>2
    <2>3. g = [o \in 0 .. N |-> g[o]]
      BY DEF Visit
    <2> HIDE DEF g
    <2> QED BY <2>2, <2>3, <1>2 DEF S
  <1>3. N \in S
    <2> HIDE DEF S
    <2> QED BY <1>0, <1>1, <1>2, SetInduction
  <1>4. PICK h : /\ h = [o \in 0 .. N |-> h[o]]
                 /\ \A o \in 0 .. N : N - o <= N => h[o] = Visit(b, h)[o]
    BY <1>3
  <1>5. h = Visit(b, h)
    <2>1. \A o \in 0 .. N : h[o] = Visit(b, h)[o]
      BY <1>0, <1>4
    <2>2. Visit(b, h) = [o \in 0 .. N |-> Visit(b, h)[o]]
      BY DEF Visit
    <2> QED BY <1>4, <2>1, <2>2
  <1>6. \E f : f = Visit(b, f)
    BY <1>5
  <1> DEFINE f == CHOOSE f : f = Visit(b, f)
  <1>7. f = Visit(b, f)
    BY <1>6
  <1>8. Descriptors(b) = f[0]
    BY DEF Descriptors, Visit
  <1> QED BY <1>7, <1>8

\* What the loop visits: offsets in the buffer, each descriptor after the end of the
\* ones before it.
Separated(b, W) ==
  /\ W \subseteq 0 .. Len(b)
  /\ \A x, y \in W : x < y => x + Byte(b, x) <= y

\* The offsets that are visited from o on are separated, and none is before o.
LEMMA VisitedAreSeparated ==
  ASSUME NEW b \in Bytes, NEW f, f = Visit(b, f)
  PROVE  \A o \in 0 .. Len(b) : Separated(b, f[o]) /\ \A x \in f[o] : o <= x
  <1>0. Len(b) \in Nat
    BY LenProperties DEF Bytes
  <1> DEFINE N == Len(b)
             P(o) == Separated(b, f[o]) /\ \A x \in f[o] : o <= x
             S == {n \in Nat : \A o \in 0 .. N : N - o <= n => P(o)}
  <1>1. ASSUME NEW o \in 0 .. N,
               o = N \/ ~HasHeader(b, o) \/ ~HasUsableLength(b, o)
        PROVE  P(o)
    <2>1. f[o] = {} \/ f[o] = {o}
      BY <1>1, <1>0 DEF Visit
    <2> QED BY <2>1, <1>0 DEF Separated
  <1>2. ASSUME NEW o \in 0 .. N, o # N, HasHeader(b, o), HasUsableLength(b, o),
               P(o + Byte(b, o))
        PROVE  P(o)
    <2>1. f[o] = {o} \cup f[o + Byte(b, o)]
      BY <1>2, <1>0 DEF Visit
    <2>2. Byte(b, o) \in 2 .. 255 /\ o + Byte(b, o) > o
      BY <1>2, NextOffset
    <2> DEFINE q == f[o + Byte(b, o)]
               B == Byte(b, o)
    <2>3. q \subseteq 0 .. N /\ (\A x, y \in q : x < y => x + Byte(b, x) <= y)
          /\ (\A x \in q : o + B <= x)
      BY <1>2 DEF Separated
    <2> HIDE DEF q, B
    <2>4. f[o] = {o} \cup q
      BY <2>1 DEF q
    <2>5. B \in Int /\ B >= 2
      <3>1. B \in 2 .. 255
        BY <2>2 DEF B
      <3> QED BY <3>1
    <2>6. \A x \in f[o] : o <= x
      <3>1. \A x \in q : x \in Int /\ o <= x
        BY <2>3, <2>5, <1>0
      <3> QED BY <3>1, <2>4, <1>0
    <2>7. f[o] \subseteq 0 .. N
      BY <2>3, <2>4
    <2>8. ASSUME NEW x \in f[o], NEW y \in f[o], x < y
          PROVE  x + Byte(b, x) <= y
      <3>1. CASE x \in q /\ y \in q
        BY <3>1, <2>3, <2>8
      <3>2. CASE x = o /\ y \in q
        BY <3>2, <2>3, <2>4 DEF B
      <3>3. CASE y = o
        BY <3>3, <2>6, <2>7, <2>8, <1>0
      <3> QED BY <3>1, <3>2, <3>3, <2>4
    <2> QED BY <2>6, <2>7, <2>8 DEF Separated
  <1> HIDE DEF P
  <1>3. 0 \in S
    <2>1. \A o \in 0 .. N : N - o <= 0 => o = N
      BY <1>0
    <2> QED BY <2>1, <1>1
  <1>4. ASSUME NEW n \in Nat, n \in S
        PROVE  n + 1 \in S
    <2>1. ASSUME NEW o \in 0 .. N, N - o <= n + 1
          PROVE  P(o)
      <3>1. CASE o = N \/ ~HasHeader(b, o) \/ ~HasUsableLength(b, o)
        BY <3>1, <1>1
      <3>2. CASE o # N /\ HasHeader(b, o) /\ HasUsableLength(b, o)
        <4>1. o + Byte(b, o) \in 0 .. N /\ N - (o + Byte(b, o)) <= n
          BY <3>2, <2>1, NextOffset
        <4>2. P(o + Byte(b, o))
          BY <4>1, <1>4
        <4> QED BY <4>2, <3>2, <1>2
      <3> QED BY <3>1, <3>2
    <2> QED BY <2>1
  <1>5. N \in S
    <2> HIDE DEF S
    <2> QED BY <1>0, <1>3, <1>4, SetInduction
  <1>6. \A o \in 0 .. N : P(o)
    BY <1>0, <1>5
  <1> QED BY <1>6 DEF P

\* find_next goes forward in a buffer that is as long as it says.
LEMMA FindNextOffset ==
  ASSUME NEW b \in Bytes, Word(b, 2) = Len(b), NEW o \in 0 .. Len(b),
         ~(o + 2 > Len(b) \/ Byte(b, o) < 2 \/ o + Byte(b, o) > Len(b))
  PROVE  o # Len(b) /\ HasHeader(b, o) /\ HasUsableLength(b, o)
  <1>0. Len(b) \in Nat
    BY LenProperties DEF Bytes
  <1>1. o # Len(b) /\ o \in Int /\ 0 <= o /\ o < Len(b) /\ HasHeader(b, o)
    BY <1>0 DEF HasHeader
  <1>2. Byte(b, o) \in 0 .. 255
    BY <1>1, ByteType
  <1> DEFINE B == Byte(b, o)
  <1>3. B \in 0 .. 255 /\ ~(B < 2 \/ o + B > Len(b))
    BY <1>2
  <1> HIDE DEF B
  <1>4. B >= 2 /\ B <= Len(b) - o
    BY <1>0, <1>1, <1>3
  <1> QED BY <1>1, <1>4 DEF HasUsableLength, B

\* The recursive function of find_all exists.
LEMMA FindExists ==
  ASSUME NEW b \in Bytes, NEW type, Word(b, 2) = Len(b)
  PROVE  \E f : f = Find(b, type, f) /\ find_all(b, type) = f[0]
  <1>0. Len(b) \in Nat
    BY LenProperties DEF Bytes
  <1> DEFINE N == Len(b)
             Ends(o) == o + 2 > N \/ Byte(b, o) < 2 \/ o + Byte(b, o) > N
             S == {n \in Nat : \E h : /\ h = [o \in 0 .. N |-> h[o]]
                                      /\ \A o \in 0 .. N : N - o <= n => h[o] = Find(b, type, h)[o]}
  <1>1. 0 \in S
    <2>1. \A h : Find(b, type, h)[N] = {}
      BY <1>0 DEF Find
    <2>2. \A o \in 0 .. N : N - o <= 0 => o = N
      BY <1>0
    <2>3. [o \in 0 .. N |-> {}][N] = {}
      BY <1>0
    <2> DEFINE e == [o \in 0 .. N |-> {}]
    <2>4. /\ e = [o \in 0 .. N |-> e[o]]
          /\ \A o \in 0 .. N : N - o <= 0 => e[o] = Find(b, type, e)[o]
      BY <2>1, <2>2, <2>3
    <2> HIDE DEF e
    <2> QED BY <2>4
  <1>2. ASSUME NEW n \in Nat, n \in S
        PROVE  n + 1 \in S
    <2>1. PICK h : \A o \in 0 .. N : N - o <= n => h[o] = Find(b, type, h)[o]
      BY <1>2
    <2> HIDE DEF S
    <2> DEFINE g == Find(b, type, h)
    <2>2. ASSUME NEW o \in 0 .. N, N - o <= n + 1
          PROVE  g[o] = Find(b, type, g)[o]
      <3>1. CASE Ends(o)
        BY <3>1, <1>0 DEF Find
      <3>2. CASE ~Ends(o)
        <4>1. o + Byte(b, o) \in 0 .. N /\ N - (o + Byte(b, o)) <= n
          BY <3>2, <2>2, FindNextOffset, NextOffset
        <4>2. g[o + Byte(b, o)] = h[o + Byte(b, o)]
          BY <4>1, <2>1
        <4> DEFINE m == IF Byte(b, o + 1) = type THEN {o} ELSE {}
        <4>3. g[o] = m \cup h[o + Byte(b, o)]
          BY <3>2, <1>0 DEF Find
        <4>4. Find(b, type, g)[o] = m \cup g[o + Byte(b, o)]
          BY <3>2, <1>0 DEF Find
        <4> QED BY <4>2, <4>3, <4>4
      <3> QED BY <3>1, <3>2
    <2>3. g = [o \in 0 .. N |-> g[o]]
      BY DEF Find
    <2> HIDE DEF g
    <2> QED BY <2>2, <2>3, <1>2 DEF S
  <1>3. N \in S
    <2> HIDE DEF S
    <2> QED BY <1>0, <1>1, <1>2, SetInduction
  <1>4. PICK h : /\ h = [o \in 0 .. N |-> h[o]]
                 /\ \A o \in 0 .. N : N - o <= N => h[o] = Find(b, type, h)[o]
    BY <1>3
  <1>5. h = Find(b, type, h)
    <2>1. \A o \in 0 .. N : h[o] = Find(b, type, h)[o]
      BY <1>0, <1>4
    <2>2. Find(b, type, h) = [o \in 0 .. N |-> Find(b, type, h)[o]]
      BY DEF Find
    <2> QED BY <1>4, <2>1, <2>2
  <1>6. \E f : f = Find(b, type, f)
    BY <1>5
  <1> DEFINE f == CHOOSE f : f = Find(b, type, f)
  <1>7. f = Find(b, type, f)
    BY <1>6
  <1>8. find_all(b, type) = f[0]
    BY DEF find_all, Find
  <1> QED BY <1>7, <1>8

-----------------------------------------------------------------------------
\* What evaluate_configuration establishes when it reports no error.
Walked(b, p, W) ==
  /\ Separated(b, W)
  /\ \A x \in W : /\ HasHeader(b, x) /\ HasUsableLength(b, x)
                  /\ DescriptorError(b, p, x) = "none"
  /\ \E x \in W : IsInterface(b, x)

\* A configuration that the policy accepts has the descriptors that were judged.
LEMMA AcceptedIsWalked ==
  ASSUME NEW b \in Bytes, NEW p, evaluate_configuration(b, p) = "none"
  PROVE  /\ Walked(b, p, Descriptors(b)) /\ 0 \in Descriptors(b)
         /\ Len(b) >= ConfigurationSize /\ Word(b, 2) = Len(b)
         /\ Byte(b, 0) = ConfigurationSize /\ Byte(b, 1) = ConfigurationType
  <1> DEFINE W == Descriptors(b)
             bad == {o \in W : DescriptorError(b, p, o) # "none"}
             interfaces == {o \in W : IsInterface(b, o)}
             mismatch == Cardinality({Byte(b, o + 2) : o \in interfaces}) # Byte(b, 4)
  <1>0. Len(b) \in Nat
    BY LenProperties DEF Bytes
  <1>1. /\ ~(Len(b) < ConfigurationSize)
        /\ Byte(b, 0) = ConfigurationSize /\ Byte(b, 1) = ConfigurationType /\ Word(b, 2) = Len(b)
        /\ "none" = IF bad # {} THEN DescriptorError(b, p, Min(bad))
                    ELSE IF interfaces = {} THEN "no_interfaces"
                    ELSE IF mismatch THEN "interface_count_mismatch" ELSE "none"
    <2> HIDE DEF W
    <2> QED BY DEF evaluate_configuration, W
  <1>2. Separated(b, W) /\ 0 \in W
    <2>1. PICK f : f = Visit(b, f) /\ W = f[0]
      BY VisitExists
    <2>2. 0 \in f[0]
      BY <2>1, <1>0, <1>1 DEF Visit, ConfigurationSize
    <2> QED BY <2>1, <2>2, <1>0, VisitedAreSeparated
  <1> HIDE DEF W
  <1>3. bad = {}
    <2> SUFFICES ASSUME bad # {} PROVE FALSE
      OBVIOUS
    <2>1. bad \subseteq Nat
      <3>1. W \subseteq 0 .. Len(b)
        BY <1>2 DEF Separated
      <3>2. bad \subseteq W
        OBVIOUS
      <3> HIDE DEF bad
      <3> QED BY <3>1, <3>2, <1>0
    <2>2. \E x \in bad : \A y \in bad : x <= y
      <3> HIDE DEF bad
      <3> QED BY <2>1, LeastNumber
    <2>3. Min(bad) \in bad
      <3> HIDE DEF bad
      <3> QED BY <2>2 DEF Min
    <2>4. DescriptorError(b, p, Min(bad)) # "none"
      BY <2>3
    <2> QED BY <2>4, <1>1
  <1>4. interfaces # {}
    BY <1>1, <1>3
  <1>5. \A x \in W : DescriptorError(b, p, x) = "none"
    BY <1>3
  <1>6. \A x \in W : HasHeader(b, x) /\ HasUsableLength(b, x)
    <2> TAKE x \in W
    <2>1. ~HasHeader(b, x) => DescriptorError(b, p, x) = "descriptor_header_truncated"
      BY DEF DescriptorError
    <2>2. HasHeader(b, x) /\ ~HasUsableLength(b, x)
             => DescriptorError(b, p, x) = "invalid_descriptor_length"
      BY DEF DescriptorError
    <2> QED BY <2>1, <2>2, <1>5
  <1> QED BY <1>0, <1>1, <1>2, <1>4, <1>5, <1>6 DEF Walked, W, ConfigurationSize

\* Two buffers with the same descriptor headers.
SameHeaders(b, c, W) ==
  /\ c \in Bytes /\ Len(c) = Len(b) /\ Word(c, 2) = Len(c)
  /\ \A x \in W : Byte(c, x) = Byte(b, x) /\ Byte(c, x + 1) = Byte(b, x + 1)

\* In a buffer with the headers of one that was accepted, the operating system finds exactly
\* the descriptors that evaluate_configuration looked at.
LEMMA FindsWhatWasWalked ==
  ASSUME NEW b \in Bytes, NEW p, evaluate_configuration(b, p) = "none",
         NEW c, SameHeaders(b, c, Descriptors(b)), NEW type
  PROVE  find_all(c, type) = {x \in Descriptors(b) : Byte(b, x + 1) = type}
  <1> DEFINE N == Len(b)
             W == Descriptors(b)
  <1>0. N \in Nat /\ c \in Bytes /\ Len(c) = N /\ Word(c, 2) = N
    BY LenProperties DEF Bytes, SameHeaders
  <1>1. PICK f : f = Visit(b, f) /\ W = f[0]
    BY VisitExists
  <1>2. PICK g : g = Find(c, type, g) /\ find_all(c, type) = g[0]
    BY <1>0, FindExists
  <1>3. \A x \in W : /\ x \in 0 .. N /\ HasHeader(b, x) /\ HasUsableLength(b, x)
                    /\ Byte(c, x) = Byte(b, x) /\ Byte(c, x + 1) = Byte(b, x + 1)
    BY AcceptedIsWalked DEF Walked, Separated, SameHeaders
  <1> HIDE DEF W
  <1> DEFINE P(o) == f[o] \subseteq W => g[o] = {x \in f[o] : Byte(b, x + 1) = type}
             S == {n \in Nat : \A o \in 0 .. N : N - o <= n => P(o)}
  <1>4. P(N)
    <2>1. f[N] = {}
      BY <1>0, <1>1 DEF Visit
    <2>2. g[N] = {}
      BY <1>0, <1>2 DEF Find
    <2> QED BY <2>1, <2>2
  <1>5. ASSUME NEW o \in 0 .. N, o # N, HasUsableLength(b, o) => P(o + Byte(b, o))
        PROVE  P(o)
    <2> SUFFICES ASSUME f[o] \subseteq W
                 PROVE  g[o] = {x \in f[o] : Byte(b, x + 1) = type}
      OBVIOUS
    <2>1. o \in f[o]
      BY <1>0, <1>1, <1>5 DEF Visit
    <2>2. /\ HasHeader(b, o) /\ HasUsableLength(b, o)
          /\ Byte(c, o) = Byte(b, o) /\ Byte(c, o + 1) = Byte(b, o + 1)
      BY <2>1, <1>3
    <2>3. f[o] = {o} \cup f[o + Byte(b, o)]
      BY <2>2, <1>0, <1>1, <1>5 DEF Visit
    <2>4. /\ Byte(b, o) \in 2 .. 255 /\ o + Byte(b, o) \in 0 .. N
      BY <2>2, <1>5, NextOffset
    <2>5. ~(o + 2 > N \/ Byte(c, o) < 2 \/ o + Byte(c, o) > N)
      <3> DEFINE B == Byte(c, o)
      <3>1. B \in 2 .. 255 /\ o + B \in 0 .. N
        BY <2>2, <2>4
      <3>2. N - o >= 2
        BY <2>2 DEF HasHeader
      <3> HIDE DEF B
      <3>3. ~(o + 2 > N)
        BY <3>2, <1>0
      <3>4. ~(B < 2) /\ ~(o + B > N)
        BY <3>1, <1>0
      <3> QED BY <3>3, <3>4 DEF B
    <2>6. g[o] = (IF Byte(c, o + 1) = type THEN {o} ELSE {}) \cup g[o + Byte(c, o)]
      BY <2>5, <1>0, <1>2 DEF Find
    <2>7. g[o + Byte(b, o)] = {x \in f[o + Byte(b, o)] : Byte(b, x + 1) = type}
      BY <2>2, <2>3, <1>5
    <2> QED BY <2>2, <2>3, <2>6, <2>7
  <1> HIDE DEF P
  <1>6. 0 \in S
    <2>1. \A o \in 0 .. N : N - o <= 0 => o = N
      BY <1>0
    <2> QED BY <2>1, <1>4
  <1>7. ASSUME NEW n \in Nat, n \in S
        PROVE  n + 1 \in S
    <2>1. ASSUME NEW o \in 0 .. N, N - o <= n + 1
          PROVE  P(o)
      <3>1. CASE o = N
        BY <3>1, <1>4
      <3>2. CASE o # N
        <4>1. HasUsableLength(b, o) => o + Byte(b, o) \in 0 .. N /\ N - (o + Byte(b, o)) <= n
          BY <3>2, <2>1, NextOffset
        <4>2. HasUsableLength(b, o) => P(o + Byte(b, o))
          BY <4>1, <1>7
        <4> QED BY <4>2, <3>2, <1>5
      <3> QED BY <3>1, <3>2
    <2> QED BY <2>1
  <1>8. N \in S
    <2> HIDE DEF S
    <2> QED BY <1>0, <1>6, <1>7, SetInduction
  <1>9. P(0)
    BY <1>0, <1>8
  <1> QED BY <1>1, <1>2, <1>9 DEF P, W

-----------------------------------------------------------------------------
\* What no error means for an interface and for an endpoint descriptor.
LEMMA WalkedInterface ==
  ASSUME NEW b, NEW p, NEW W, Walked(b, p, W), NEW x \in W, IsInterface(b, x)
  PROVE  ~(Byte(b, x) < InterfaceSize) /\ is_allowed(p, InterfaceClass(b, x))
  <1>1. HasHeader(b, x) /\ HasUsableLength(b, x) /\ DescriptorError(b, p, x) = "none"
    BY DEF Walked
  <1>2. DescriptorError(b, p, x) =
          IF Byte(b, x) < InterfaceSize THEN "invalid_interface_descriptor"
          ELSE IF is_allowed(p, InterfaceClass(b, x)) THEN "none"
          ELSE "interface_not_allowed"
    BY <1>1, Zenon DEF DescriptorError
  <1> QED BY <1>1, <1>2

\* No endpoint descriptor among them is too short.
LEMMA WalkedEndpoint ==
  ASSUME NEW b, NEW p, NEW W, Walked(b, p, W), NEW x \in W, Byte(b, x + 1) = EndpointType
  PROVE  ~(Byte(b, x) < EndpointSize)
  <1>1. HasHeader(b, x) /\ HasUsableLength(b, x) /\ DescriptorError(b, p, x) = "none"
    BY DEF Walked
  <1>2. ~IsInterface(b, x)
    BY DEF IsInterface, InterfaceType, EndpointType
  <1>3. DescriptorError(b, p, x) =
          IF Byte(b, x + 1) = EndpointType /\ Byte(b, x) < EndpointSize
          THEN "invalid_endpoint_descriptor" ELSE "none"
    BY <1>1, <1>2, Zenon DEF DescriptorError
  <1> QED BY <1>1, <1>3

\* The new interval is a byte.
LEMMA HighSpeedInterval ==
  ASSUME NEW i
  PROVE  to_high_speed_interval(i) \in 0 .. 255
  <1> DEFINE fits == {j \in 1 .. 16 : 2 ^ (j - 1) >= 8 * i}
             least == CHOOSE j \in fits : \A k \in fits : j <= k
  <1>1. CASE fits # {}
    <2>1. fits \subseteq 1 .. 16
      OBVIOUS
    <2> HIDE DEF fits
    <2>2. fits \subseteq Nat
      BY <2>1
    <2>3. \E j \in fits : \A k \in fits : j <= k
      BY <1>1, <2>2, LeastNumber
    <2>4. least \in fits
      BY <2>3
    <2>5. to_high_speed_interval(i) = least
      BY <1>1 DEF to_high_speed_interval, fits
    <2> HIDE DEF least
    <2> QED BY <2>1, <2>4, <2>5
  <1>2. CASE fits = {}
    BY <1>2 DEF to_high_speed_interval
  <1> QED BY <1>1, <1>2

\* The patch of one endpoint changes nothing but its wMaxPacketSize and bInterval.
Differ(a, c, e) ==
  /\ c \in Bytes /\ Len(c) = Len(a)
  /\ \A i \in 0 .. Len(a) - 1 : i \notin e + 4 .. e + 6 => Byte(c, i) = Byte(a, i)

\* A patched endpoint descriptor differs in its interval and packet size only.
LEMMA PatchOne ==
  ASSUME NEW a \in Bytes, NEW e \in Nat, e + EndpointSize <= Len(a)
  PROVE  Differ(a, PatchEndpoint(a, e), e)
  <1>0. Len(a) \in Nat /\ DOMAIN a = 1 .. Len(a) /\ a = [i \in 1 .. Len(a) |-> a[i]]
        /\ (\A i \in 1 .. Len(a) : a[i] \in 0 .. 255)
    BY LenProperties, ElementOfSeq DEF Bytes
  <1>1. {e + 4, e + 5, e + 6, e + 7} \subseteq 1 .. Len(a)
    BY <1>0 DEF EndpointSize
  <1>2. Differ(a, a, e)
    BY DEF Differ
  <1>3. ASSUME NEW u \in 0 .. 255, NEW v \in 0 .. 255
        PROVE  Differ(a, [a EXCEPT ![e + 5] = u, ![e + 6] = v], e)
    <2> DEFINE c == [a EXCEPT ![e + 5] = u, ![e + 6] = v]
    <2>1. DOMAIN c = 1 .. Len(a) /\ c = [i \in 1 .. Len(a) |-> c[i]]
      BY <1>0
    <2>2. \A i \in 1 .. Len(a) : c[i] \in 0 .. 255
      BY <1>0, <1>1
    <2>3. \A i \in 0 .. Len(a) - 1 : i \notin e + 4 .. e + 6 => c[i + 1] = a[i + 1]
      BY <1>0, <1>1
    <2> HIDE DEF c
    <2>4. c \in Seq(0 .. 255) /\ Len(c) = Len(a)
      BY <1>0, <2>1, <2>2, SeqDef, LenProperties
    <2>5. Differ(a, c, e)
      BY <2>3, <2>4 DEF Differ, Bytes, Byte
    <2> QED BY <2>5 DEF c
  <1>4. ASSUME NEW u \in 0 .. 255
        PROVE  Differ(a, [a EXCEPT ![e + 7] = u], e)
    <2> DEFINE c == [a EXCEPT ![e + 7] = u]
    <2>1. DOMAIN c = 1 .. Len(a) /\ c = [i \in 1 .. Len(a) |-> c[i]]
      BY <1>0
    <2>2. \A i \in 1 .. Len(a) : c[i] \in 0 .. 255
      BY <1>0, <1>1
    <2>3. \A i \in 0 .. Len(a) - 1 : i \notin e + 4 .. e + 6 => c[i + 1] = a[i + 1]
      BY <1>0, <1>1
    <2> HIDE DEF c
    <2>4. c \in Seq(0 .. 255) /\ Len(c) = Len(a)
      BY <1>0, <2>1, <2>2, SeqDef, LenProperties
    <2>5. Differ(a, c, e)
      BY <2>3, <2>4 DEF Differ, Bytes, Byte
    <2> QED BY <2>5 DEF c
  <1> DEFINE k == EndpointKind(a, e)
             isoc == [a EXCEPT ![e + 7] = IF @ + 3 < 16 THEN @ + 3 ELSE 16]
             intr == [a EXCEPT ![e + 7] = to_high_speed_interval(@)]
  <1>5. k \in {"control", "isochronous", "bulk", "interrupt"}
    <2> DEFINE B == Byte(a, e + 3)
    <2>1. B \in 0 .. 255
      <3>1. e + 3 \in Int /\ 0 <= e + 3 /\ e + 3 < Len(a)
        BY <1>0 DEF EndpointSize
      <3> QED BY <3>1, ByteType
    <2> HIDE DEF B
    <2>2. B % 4 \in 0 .. 3
      BY <2>1
    <2>3. (B % 4) + 1 \in {1, 2, 3, 4}
      BY <2>2
    <2> QED BY <2>3 DEF EndpointKind, B
  <1>6. Differ(a, isoc, e)
    <2>1. a[e + 7] \in 0 .. 255
      BY <1>0, <1>1
    <2> DEFINE u == IF a[e + 7] + 3 < 16 THEN a[e + 7] + 3 ELSE 16
    <2>2. u \in 0 .. 255
      <3>1. \A n \in 0 .. 255 : (IF n + 3 < 16 THEN n + 3 ELSE 16) \in 0 .. 255
        OBVIOUS
      <3> QED BY <2>1, <3>1, Zenon
    <2>3. isoc = [a EXCEPT ![e + 7] = u]
      OBVIOUS
    <2> HIDE DEF u, isoc
    <2> QED BY <2>2, <2>3, <1>4
  <1>7. Differ(a, intr, e)
    <2> DEFINE u == to_high_speed_interval(a[e + 7])
    <2>1. u \in 0 .. 255
      BY HighSpeedInterval
    <2>2. intr = [a EXCEPT ![e + 7] = u]
      OBVIOUS
    <2> HIDE DEF u, intr
    <2> QED BY <2>1, <2>2, <1>4
  <1>8. Differ(a, [a EXCEPT ![e + 5] = 0, ![e + 6] = 2], e)
    <2>1. 0 \in 0 .. 255 /\ 2 \in 0 .. 255
      OBVIOUS
    <2> QED BY <2>1, <1>3, Zenon
  <1>9. PatchEndpoint(a, e) \in {a, isoc, intr, [a EXCEPT ![e + 5] = 0, ![e + 6] = 2]}
    <2> HIDE DEF k
    <2>1. PatchEndpoint(a, e) =
            IF Byte(a, e) < EndpointSize THEN a
            ELSE CASE k = "bulk" -> [a EXCEPT ![e + 5] = 0, ![e + 6] = 2]
                   [] k = "isochronous" -> isoc
                   [] k = "interrupt" -> intr
                   [] k = "control" -> a
      BY DEF PatchEndpoint, k
    <2> HIDE DEF isoc, intr
    <2> QED BY <2>1, <1>5
  <1> HIDE DEF isoc, intr
  <1> QED BY <1>2, <1>6, <1>7, <1>8, <1>9

-----------------------------------------------------------------------------
\* The body of the fold in patch_configuration_for_udecx.
Chosen(s) == CHOOSE x \in s : TRUE

PatchAll(b, E, f) ==
  [s \in SUBSET E |-> IF s = {} THEN b ELSE PatchEndpoint(f[s \ {Chosen(s)}], Chosen(s))]

\* A set gets smaller by the element that is chosen.
LEMMA ChosenIsRemoved ==
  ASSUME NEW s, IsFiniteSet(s), s # {}
  PROVE  /\ Chosen(s) \in s /\ IsFiniteSet(s \ {Chosen(s)})
         /\ \A n \in Nat : Cardinality(s) <= n + 1 => Cardinality(s \ {Chosen(s)}) <= n
  <1>1. Chosen(s) \in s
    BY DEF Chosen
  <1>2. /\ IsFiniteSet(s \ {Chosen(s)})
        /\ Cardinality(s \ {Chosen(s)}) = Cardinality(s) - 1
    BY <1>1, FS_RemoveElement
  <1>3. Cardinality(s) \in Nat
    BY FS_CardinalityType
  <1> QED BY <1>1, <1>2, <1>3

\* The recursive function that patches one endpoint after the other exists.
LEMMA PatchAllExists ==
  ASSUME NEW b, NEW E, IsFiniteSet(E), find_all(b, EndpointType) = E
  PROVE  \E f : f = PatchAll(b, E, f) /\ patch_configuration_for_udecx(b, FALSE) = f[E]
  <1>0. /\ \A s \in SUBSET E : IsFiniteSet(s) /\ Cardinality(s) \in Nat
                               /\ Cardinality(s) <= Cardinality(E)
        /\ Cardinality(E) \in Nat
    BY FS_Subset, FS_CardinalityType
  <1> DEFINE S == {n \in Nat : \E h :
                     /\ h = [s \in SUBSET E |-> h[s]]
                     /\ \A s \in SUBSET E : Cardinality(s) <= n => h[s] = PatchAll(b, E, h)[s]}
  <1>1. 0 \in S
    <2>1. \A s \in SUBSET E : Cardinality(s) <= 0 => s = {}
      BY <1>0, FS_EmptySet
    <2> DEFINE e == [s \in SUBSET E |-> b]
    <2>2. e[{}] = b /\ PatchAll(b, E, e)[{}] = b
      BY DEF PatchAll
    <2>3. e = [s \in SUBSET E |-> e[s]]
      OBVIOUS
    <2> HIDE DEF e
    <2> QED BY <2>1, <2>2, <2>3
  <1>2. ASSUME NEW n \in Nat, n \in S
        PROVE  n + 1 \in S
    <2>1. PICK h : \A s \in SUBSET E : Cardinality(s) <= n => h[s] = PatchAll(b, E, h)[s]
      BY <1>2
    <2> HIDE DEF S
    <2> DEFINE g == PatchAll(b, E, h)
    <2>2. ASSUME NEW s \in SUBSET E, Cardinality(s) <= n + 1
          PROVE  g[s] = PatchAll(b, E, g)[s]
      <3>1. CASE s = {}
        BY <3>1 DEF PatchAll
      <3>2. CASE s # {}
        <4> DEFINE r == s \ {Chosen(s)}
        <4>1. r \in SUBSET E /\ Cardinality(r) <= n
          BY <3>2, <2>2, <1>0, ChosenIsRemoved
        <4>2. g[r] = h[r]
          BY <4>1, <2>1
        <4> HIDE DEF r
        <4>3. g[s] = PatchEndpoint(h[r], Chosen(s))
          BY <3>2 DEF PatchAll, r
        <4>4. PatchAll(b, E, g)[s] = PatchEndpoint(g[r], Chosen(s))
          <5> HIDE DEF g
          <5> QED BY <3>2 DEF PatchAll, r
        <4> QED BY <4>2, <4>3, <4>4
      <3> QED BY <3>1, <3>2
    <2>3. g = [s \in SUBSET E |-> g[s]]
      BY DEF PatchAll
    <2> HIDE DEF g
    <2>4. \A s \in SUBSET E : Cardinality(s) <= n + 1 => g[s] = PatchAll(b, E, g)[s]
      BY <2>2
    <2>5. n + 1 \in Nat
      OBVIOUS
    <2> QED BY <2>3, <2>4, <2>5, Zenon DEF S
  <1>3. Cardinality(E) \in S
    <2> HIDE DEF S
    <2> QED BY <1>0, <1>1, <1>2, SetInduction
  <1>4. PICK h : /\ h = [s \in SUBSET E |-> h[s]]
                 /\ \A s \in SUBSET E : Cardinality(s) <= Cardinality(E) => h[s] = PatchAll(b, E, h)[s]
    BY <1>3
  <1>5. h = PatchAll(b, E, h)
    <2>1. \A s \in SUBSET E : h[s] = PatchAll(b, E, h)[s]
      BY <1>0, <1>4
    <2>2. PatchAll(b, E, h) = [s \in SUBSET E |-> PatchAll(b, E, h)[s]]
      BY DEF PatchAll
    <2> QED BY <1>4, <2>1, <2>2
  <1>6. \E f : f = PatchAll(b, E, f)
    BY <1>5
  <1> DEFINE f == CHOOSE f : f = PatchAll(b, E, f)
  <1>7. f = PatchAll(b, E, f)
    BY <1>6
  <1>8. patch_configuration_for_udecx(b, FALSE) = f[E]
    BY DEF patch_configuration_for_udecx, FoldSet, MapThenFoldSet, PatchAll, Chosen
  <1> QED BY <1>7, <1>8

\* What the patch of the endpoints in s may have changed.
PatchedAt(b, s, a) ==
  /\ a \in Bytes /\ Len(a) = Len(b)
  /\ \A i \in 0 .. Len(b) - 1 :
        (\A e \in s : i \notin e + 4 .. e + 6) => Byte(a, i) = Byte(b, i)

\* The patch changes nothing outside of the endpoint descriptors it found.
LEMMA PatchIsLocal ==
  ASSUME NEW b \in Bytes, NEW E, E = find_all(b, EndpointType), IsFiniteSet(E), E \subseteq Nat,
         \A e \in E : e + EndpointSize <= Len(b)
  PROVE  PatchedAt(b, E, patch_configuration_for_udecx(b, FALSE))
  <1>1. PICK f : f = PatchAll(b, E, f) /\ patch_configuration_for_udecx(b, FALSE) = f[E]
    BY PatchAllExists
  <1>2. /\ \A s \in SUBSET E : IsFiniteSet(s) /\ Cardinality(s) \in Nat
                               /\ Cardinality(s) <= Cardinality(E)
        /\ Cardinality(E) \in Nat
    BY FS_Subset, FS_CardinalityType
  <1> DEFINE P(s) == PatchedAt(b, s, f[s])
             S == {n \in Nat : \A s \in SUBSET E : Cardinality(s) <= n => P(s)}
  <1>3. P({})
    <2>1. f[{}] = b
      BY <1>1 DEF PatchAll
    <2> QED BY <2>1 DEF PatchedAt
  <1>4. ASSUME NEW s \in SUBSET E, s # {}, P(s \ {Chosen(s)})
        PROVE  P(s)
    <2> DEFINE e == Chosen(s)
               a == f[s \ {Chosen(s)}]
    <2>1. e \in s /\ e \in Nat /\ e + EndpointSize <= Len(b)
      BY <1>4 DEF Chosen
    <2>2. a \in Bytes /\ Len(a) = Len(b)
      BY <1>4 DEF PatchedAt
    <2>3. Differ(a, PatchEndpoint(a, e), e)
      <3> HIDE DEF a, e
      <3> QED BY <2>1, <2>2, PatchOne
    <2>4. f[s] = PatchEndpoint(a, e)
      BY <1>1, <1>4 DEF PatchAll
    <2>5. \A i \in 0 .. Len(b) - 1 :
             (\A x \in s \ {e} : i \notin x + 4 .. x + 6) => Byte(a, i) = Byte(b, i)
      BY <1>4 DEF PatchedAt
    <2> HIDE DEF a, e
    <2>6. \A i \in 0 .. Len(b) - 1 :
             (\A x \in s : i \notin x + 4 .. x + 6) => Byte(f[s], i) = Byte(b, i)
      <3> TAKE i \in 0 .. Len(b) - 1
      <3> HAVE \A x \in s : i \notin x + 4 .. x + 6
      <3>1. Byte(a, i) = Byte(b, i)
        BY <2>5
      <3>2. Byte(f[s], i) = Byte(a, i)
        BY <2>1, <2>2, <2>3, <2>4 DEF Differ
      <3> QED BY <3>1, <3>2
    <2> QED BY <2>2, <2>3, <2>4, <2>6 DEF PatchedAt, Differ
  <1> HIDE DEF P
  <1>5. 0 \in S
    <2>1. \A s \in SUBSET E : Cardinality(s) <= 0 => s = {}
      BY <1>2, FS_EmptySet
    <2> QED BY <2>1, <1>3
  <1>6. ASSUME NEW n \in Nat, n \in S
        PROVE  n + 1 \in S
    <2>1. ASSUME NEW s \in SUBSET E, Cardinality(s) <= n + 1
          PROVE  P(s)
      <3>1. CASE s # {}
        <4> DEFINE r == s \ {Chosen(s)}
        <4>1. r \in SUBSET E /\ Cardinality(r) <= n
          BY <3>1, <2>1, <1>2, ChosenIsRemoved
        <4>2. P(r)
          BY <4>1, <1>6
        <4> QED BY <4>2, <3>1, <1>4
      <3> QED BY <3>1, <1>3
    <2> QED BY <2>1
  <1>7. Cardinality(E) \in S
    <2> HIDE DEF S
    <2> QED BY <1>2, <1>5, <1>6, SetInduction
  <1>8. P(E)
    BY <1>2, <1>7
  <1> QED BY <1>1, <1>8 DEF P

\* The patched form of an accepted configuration has the same headers and interfaces.
LEMMA PatchKeepsInterfaces ==
  ASSUME NEW b \in Bytes, NEW p, evaluate_configuration(b, p) = "none", NEW h \in BOOLEAN
  PROVE  LET c == patch_configuration_for_udecx(b, h)
         IN  /\ SameHeaders(b, c, Descriptors(b))
             /\ \A x \in Descriptors(b) :
                   IsInterface(b, x) => InterfaceClass(c, x) = InterfaceClass(b, x)
  <1> DEFINE W == Descriptors(b)
             N == Len(b)
             E == {x \in W : Byte(b, x + 1) = EndpointType}
             c == patch_configuration_for_udecx(b, h)
  <1>0. N \in Nat
    BY LenProperties DEF Bytes
  <1>1. Walked(b, p, W) /\ Len(b) >= ConfigurationSize /\ Word(b, 2) = N
        /\ 0 \in W /\ Byte(b, 0) = ConfigurationSize /\ Byte(b, 1) = ConfigurationType
    BY AcceptedIsWalked
  <1>2. SameHeaders(b, b, W)
    BY <1>1 DEF SameHeaders
  <1>3. find_all(b, EndpointType) = E
    BY <1>2, FindsWhatWasWalked
  <1>4. CASE h = TRUE
    <2>1. c = b
      BY <1>4 DEF patch_configuration_for_udecx
    <2> QED BY <1>2, <2>1
  <1>5. CASE h = FALSE
    <2> DEFINE L(x) == Byte(b, x)
    <2> HIDE DEF W, L
    <2>1. \A x \in W : /\ x \in 0 .. N /\ L(x) \in 2 .. 255 /\ x + L(x) <= N /\ x + 2 <= N
      <3> TAKE x \in W
      <3>1. x \in 0 .. N /\ HasHeader(b, x) /\ HasUsableLength(b, x)
        BY <1>1 DEF Walked, Separated
      <3>2. x + 2 <= N /\ x # N
        BY <3>1, <1>0 DEF HasHeader
      <3>3. Byte(b, x) \in 2 .. 255 /\ x + Byte(b, x) \in 0 .. N
        BY <3>1, <3>2, NextOffset
      <3> QED BY <3>1, <3>2, <3>3, <1>0 DEF L
    <2>2. \A x, y \in W : x < y => x + L(x) <= y
      BY <1>1 DEF Walked, Separated, L
    <2>3. \A x \in E : x \in W /\ L(x) >= EndpointSize
      <3> TAKE x \in E
      <3>1. x \in W /\ ~(L(x) < EndpointSize)
        BY <1>1, WalkedEndpoint DEF L
      <3>2. L(x) \in 2 .. 255
        BY <3>1, <2>1
      <3> QED BY <3>1, <3>2 DEF EndpointSize
    <2>4. \A x \in W : IsInterface(b, x) => L(x) >= InterfaceSize
      <3> TAKE x \in W
      <3> HAVE IsInterface(b, x)
      <3>1. ~(L(x) < InterfaceSize)
        BY <1>1, WalkedInterface DEF L
      <3>2. L(x) \in 2 .. 255
        BY <2>1
      <3> QED BY <3>1, <3>2 DEF InterfaceSize
    <2>5. IsFiniteSet(E) /\ E \subseteq Nat /\ \A e \in E : e + EndpointSize <= N
      <3> HIDE DEF E
      <3>1. E \subseteq 0 .. N
        BY <2>1, <2>3
      <3>2. IsFiniteSet(0 .. N)
        BY <1>0, FS_Interval
      <3>3. ASSUME NEW e \in E
            PROVE  e + EndpointSize <= N
        <4> DEFINE n == L(e)
        <4>1. e \in 0 .. N /\ n \in 2 .. 255 /\ e + n <= N /\ n >= EndpointSize
          BY <2>1, <2>3
        <4> HIDE DEF n
        <4> QED BY <4>1, <1>0 DEF EndpointSize
      <3>4. IsFiniteSet(E)
        BY <3>1, <3>2, FS_Subset
      <3>5. E \subseteq Nat
        BY <3>1, <1>0
      <3> QED BY <3>3, <3>4, <3>5
    <2>6. PatchedAt(b, E, c)
      <3> HIDE DEF E
      <3> QED BY <1>3, <1>5, <2>5, PatchIsLocal
    \* The bytes of another descriptor are not touched.
    <2>7. ASSUME NEW x \in W, NEW i \in Int, x <= i, i < x + L(x), x \notin E \/ i <= x + 3
          PROVE  i \in 0 .. N - 1 /\ Byte(c, i) = Byte(b, i)
      <3>1. x \in 0 .. N /\ L(x) \in 2 .. 255 /\ x + L(x) <= N
        BY <2>1
      <3>2. i \in 0 .. N - 1
        <4> DEFINE n == L(x)
        <4>1. n \in 2 .. 255 /\ x + n <= N /\ i < x + n /\ x \in 0 .. N
          BY <3>1, <2>7
        <4> HIDE DEF n
        <4> QED BY <4>1, <2>7, <1>0
      <3>3. ASSUME NEW e \in E
            PROVE  i \notin e + 4 .. e + 6
        <4> DEFINE n == L(x)
                   m == L(e)
        <4>1. /\ e \in W /\ e \in 0 .. N /\ m \in 2 .. 255 /\ m >= EndpointSize
              /\ x \in 0 .. N /\ n \in 2 .. 255 /\ i < x + n
          BY <2>1, <2>3, <2>7
        <4>2. (x < e => x + n <= e) /\ (e < x => e + m <= x)
          BY <2>2, <4>1
        <4> HIDE DEF n, m
        <4>3. CASE x < e
          BY <4>1, <4>2, <4>3
        <4>4. CASE e < x
          BY <4>1, <4>2, <4>4, <2>7 DEF EndpointSize
        <4>5. CASE e = x
          BY <4>1, <4>5, <2>7
        <4> QED BY <4>1, <4>3, <4>4, <4>5
      <3> QED BY <3>2, <3>3, <2>6 DEF PatchedAt
    <2>8. \A x \in W : Byte(c, x) = Byte(b, x) /\ Byte(c, x + 1) = Byte(b, x + 1)
      <3> TAKE x \in W
      <3> DEFINE n == L(x)
      <3>1. x \in 0 .. N /\ n \in 2 .. 255
        BY <2>1
      <3> HIDE DEF n
      <3>2. /\ x \in Int /\ x + 1 \in Int /\ x <= x + 1 /\ x < x + n /\ x + 1 < x + n
            /\ x <= x + 3 /\ x + 1 <= x + 3 /\ x <= x
        BY <3>1
      <3> QED BY <3>2, <2>7 DEF n
    <2>9. Word(c, 2) = N
      <3>1. 0 \in W /\ L(0) = 9
        BY <1>1 DEF L, ConfigurationSize
      <3>2. Byte(c, 2) = Byte(b, 2)
        BY <3>1, <2>7
      <3>3. Byte(c, 2 + 1) = Byte(b, 2 + 1)
        BY <3>1, <2>7
      <3> QED BY <3>2, <3>3, <1>1 DEF Word
    <2>10. ASSUME NEW x \in W, IsInterface(b, x)
           PROVE  InterfaceClass(c, x) = InterfaceClass(b, x)
      <3>1. x \notin E
        BY <2>10 DEF IsInterface, InterfaceType, EndpointType
      <3> DEFINE n == L(x)
      <3>2. x \in 0 .. N /\ n \in 2 .. 255 /\ n >= InterfaceSize
        BY <2>1, <2>4, <2>10
      <3> HIDE DEF n
      <3>3. \A k \in {5, 6, 7} : x + k \in Int /\ x <= x + k /\ x + k < x + n
        BY <3>2 DEF InterfaceSize
      <3>4. \A k \in {5, 6, 7} : Byte(c, x + k) = Byte(b, x + k)
        BY <3>1, <3>3, <2>7 DEF n
      <3> QED BY <3>4 DEF InterfaceClass
    <2>11. SameHeaders(b, c, W)
      BY <2>6, <2>8, <2>9 DEF SameHeaders, PatchedAt
    <2> HIDE DEF c
    <2> QED BY <2>10, <2>11 DEF W, c
  <1> QED BY <1>4, <1>5

-----------------------------------------------------------------------------
Patched == {patch_configuration_for_udecx(b, h) : b \in Bytes, h \in BOOLEAN}

FilterTypes ==
    /\ DOMAIN snapshot = {"device", "count", "configurations", "ready"}
    /\ snapshot.configurations \in Seq(Patched)
    /\ given \in Seq(Bytes)
    /\ high \in BOOLEAN
    /\ total \in Int

\* What holds between the steps of a check: nothing is in the snapshot before the
\* device descriptor is, the number of configurations to come is the one that was
\* imported, and every configuration that was accepted is in it.
Progress ==
    /\ pc \in {"idle", "device"} => given = <<>> /\ snapshot = EmptySnapshot
    /\ pc = "device" => DeviceClassAllowed(policy, udev)
    /\ pc \notin {"idle", "device"} => snapshot.count = udev.bNumConfigurations
    /\ Len(given) = Len(snapshot.configurations)

IInv == FilterTypes /\ Progress /\ EverythingWasJudged

-----------------------------------------------------------------------------
\* get_descriptor returns bytes, whatever the reply says of its length.
LEMMA DescriptorIsBytes ==
  ASSUME NEW len \in Int, NEW rep \in Replies(Configurations, len),
         get_descriptor(rep, len) # Failed
  PROVE  get_descriptor(rep, len) \in Bytes
  <1>1. rep.data \in Configurations /\ rep.actual_length \in Int
    BY DEF Replies
  <1>2. rep.data \in Bytes
    BY <1>1, FilterAssumption DEF Bytes
  <1>3. /\ rep.actual_length >= 0 /\ rep.actual_length <= Len(rep.data)
        /\ get_descriptor(rep, len) = SubSeq(rep.data, 1, rep.actual_length)
    BY <1>1, <1>2 DEF get_descriptor, Bytes
  <1>4. SubSeq(rep.data, 1, rep.actual_length) \in Seq(0 .. 255)
    <2>1. \A i \in 1 .. rep.actual_length : rep.data[i] \in 0 .. 255
      <3> TAKE i \in 1 .. rep.actual_length
      <3>1. Len(rep.data) \in Nat
        BY <1>2, LenProperties DEF Bytes
      <3>2. i \in 1 .. Len(rep.data)
        BY <1>1, <1>3, <3>1
      <3> QED BY <1>2, <3>2, ElementOfSeq DEF Bytes
    <2> QED BY <1>1, <2>1, SubSeqProperties
  <1> QED BY <1>3, <1>4 DEF Bytes

\* The two bytes of a length make an integer.
LEMMA WordIsInt ==
  ASSUME NEW b \in Bytes, Len(b) >= ConfigurationSize
  PROVE  Word(b, 2) \in Int
  <1>1. Len(b) \in Nat /\ 3 \in 1 .. Len(b) /\ 4 \in 1 .. Len(b)
    BY DEF Bytes, ConfigurationSize
  <1>2. b[3] \in 0 .. 255 /\ b[4] \in 0 .. 255
    BY <1>1, ElementOfSeq DEF Bytes
  <1>3. Byte(b, 2) = b[3] /\ Byte(b, 2 + 1) = b[4]
    BY DEF Byte
  <1>4. Word(b, 2) = b[3] + 256 * b[4]
    BY <1>3 DEF Word
  <1>5. \A x, y \in 0 .. 255 : x + 256 * y \in Int
    OBVIOUS
  <1> QED BY <1>2, <1>4, <1>5

\* Every way an attach ends leaves nothing behind.
LEMMA RejectKeeps ==
  ASSUME Reject
  PROVE  IInv'
  <1>1. <<>> \in Seq(Patched) /\ <<>> \in Seq(Bytes) /\ Len(<<>>) = 0
    BY EmptySeq
  <1>2. FilterTypes'
    <2>1. DOMAIN EmptySnapshot = {"device", "count", "configurations", "ready"}
      BY DEF EmptySnapshot
    <2>2. snapshot'.configurations \in Seq(Patched)
      BY <1>1 DEF Reject, EmptySnapshot
    <2>3. high' \in BOOLEAN
      BY Zenon DEF Reject
    <2> QED BY <1>1, <2>1, <2>2, <2>3 DEF Reject, FilterTypes
  <1>3. Progress'
    <2>1. snapshot'.configurations = <<>>
      BY DEF Reject, EmptySnapshot
    <2> QED BY <1>1, <2>1 DEF Reject, Progress
  <1>4. EverythingWasJudged'
    <2>1. DOMAIN given' = {}
      BY DEF Reject
    <2> QED BY <1>1, <2>1 DEF Reject, EverythingWasJudged, EmptySnapshot
  <1> QED BY <1>2, <1>3, <1>4 DEF IInv

\* Nothing is in the snapshot before the first check.
LEMMA Initially ==
  ASSUME Init
  PROVE  IInv
  <1>1. <<>> \in Seq(Patched) /\ <<>> \in Seq(Bytes) /\ Len(<<>>) = 0
    BY EmptySeq
  <1>2. snapshot.configurations = <<>> /\ snapshot.ready = FALSE
    BY DEF Init, EmptySnapshot
  <1>3. FilterTypes
    <2>1. DOMAIN EmptySnapshot = {"device", "count", "configurations", "ready"}
      BY DEF EmptySnapshot
    <2>2. high \in BOOLEAN
      BY Zenon DEF Init
    <2> QED BY <1>1, <1>2, <2>1, <2>2 DEF Init, FilterTypes
  <1>4. Progress
    BY <1>1, <1>2 DEF Init, Progress
  <1>5. EverythingWasJudged
    <2>1. DOMAIN given = {}
      BY DEF Init
    <2> QED BY <1>2, <2>1 DEF Init, EverythingWasJudged
  <1> QED BY <1>3, <1>4, <1>5 DEF IInv

\* Steps that leave the session alone keep the invariant.
LEMMA SessionKeeps ==
  ASSUME IInv, UNCHANGED session
  PROVE  IInv'
  <1>1. FilterTypes'
    BY DEF IInv, session, FilterTypes
  <1>2. Progress'
    BY DEF IInv, session, Progress
  <1>3. EverythingWasJudged'
    BY DEF IInv, session, EverythingWasJudged
  <1> QED BY <1>1, <1>2, <1>3 DEF IInv

\* The policy and the identity are fixed while the snapshot is empty.
LEMMA CheckDeviceKeeps ==
  ASSUME IInv, check_device
  PROVE  IInv'
  <1>1. PICK d \in Devices, h \in BOOLEAN, s \in BOOLEAN :
          /\ DeviceClassAllowed(load(registry), d)
          /\ pc' = "device" /\ policy' = load(registry) /\ udev' = d /\ high' = h
    BY DEF check_device
  <1>2. UNCHANGED <<total, snapshot, given>> /\ pc = "idle"
    BY DEF check_device
  <1>3. given = <<>> /\ snapshot = EmptySnapshot
    BY <1>2 DEF IInv, Progress
  <1>4. FilterTypes'
    BY <1>1, <1>2 DEF IInv, FilterTypes
  <1>5. Progress'
    BY <1>1, <1>2, <1>3 DEF IInv, Progress
  <1>6. EverythingWasJudged'
    <2>1. DOMAIN given' = {} /\ snapshot'.ready = FALSE
      BY <1>2, <1>3 DEF EmptySnapshot
    <2> QED BY <1>1, <2>1 DEF EverythingWasJudged
  <1> QED BY <1>4, <1>5, <1>6 DEF IInv

\* The device descriptor has the identity of the import, so its class is the one that was
\* allowed; the serial number that may be put in does not change it.
LEMMA SnapshotDeviceKeeps ==
  ASSUME IInv, snapshot_device_descriptor
  PROVE  IInv'
  <1>1. PICK d \in Devices :
          /\ Consistent(d, udev)
          /\ snapshot' = [snapshot EXCEPT
                 !.device = [d EXCEPT !.iSerialNumber = IF serial /\ @ = 0 THEN 255 ELSE @],
                 !.count = udev.bNumConfigurations]
    BY DEF snapshot_device_descriptor
  <1>2. UNCHANGED <<policy, udev, high, total, given>> /\ pc = "device" /\ pc' = "head"
    BY DEF snapshot_device_descriptor
  <1>3. /\ given = <<>> /\ snapshot = EmptySnapshot /\ DeviceClassAllowed(policy, udev)
        /\ DOMAIN snapshot = {"device", "count", "configurations", "ready"}
    BY <1>2 DEF IInv, Progress, FilterTypes
  <1> DEFINE e == [d EXCEPT !.iSerialNumber = IF serial /\ @ = 0 THEN 255 ELSE @]
  <1>4. d.id = udev.id /\ d.tuple = udev.tuple /\ d.bNumConfigurations = udev.bNumConfigurations
    BY <1>1 DEF Consistent, Identity
  <1>5. e.id = d.id /\ e.tuple = d.tuple /\ e.bNumConfigurations = d.bNumConfigurations
    BY FilterAssumption
  <1> HIDE DEF e
  <1>6. /\ DOMAIN snapshot' = DOMAIN snapshot /\ snapshot'.device = e
        /\ snapshot'.count = udev.bNumConfigurations
        /\ snapshot'.configurations = <<>> /\ snapshot'.ready = FALSE
    BY <1>1, <1>3 DEF EmptySnapshot, e
  <1>7. FilterTypes'
    BY <1>2, <1>3, <1>6, EmptySeq DEF IInv, FilterTypes
  <1>8. Progress'
    BY <1>2, <1>3, <1>6 DEF Progress
  <1>9. EverythingWasJudged'
    <2>1. DOMAIN given' = {}
      BY <1>2, <1>3
    <2>2. Identity(e) = Identity(udev) /\ DeviceClassAllowed(policy, e)
      BY <1>3, <1>4, <1>5 DEF Identity, DeviceClassAllowed, HasDeviceClass
    <2> QED BY <1>2, <1>6, <2>1, <2>2 DEF EverythingWasJudged
  <1> QED BY <1>7, <1>8, <1>9 DEF IInv

\* The header only says how much is to be fetched.
LEMMA HeaderKeeps ==
  ASSUME IInv, check_configuration_header
  PROVE  IInv'
  <1> DEFINE b(rep) == get_descriptor(rep, ConfigurationSize)
  <1>1. PICK rep \in Replies(Configurations, ConfigurationSize) :
          IF b(rep) = Failed \/ Len(b(rep)) < ConfigurationSize \/ ~is_valid(b(rep))
          THEN Reject
          ELSE /\ total' = Word(b(rep), 2)
               /\ pc' = "full"
               /\ UNCHANGED <<policy, udev, high, snapshot, given>>
    BY DEF check_configuration_header
  <1>2. CASE Reject
    BY <1>2, RejectKeeps
  <1>3. CASE /\ b(rep) # Failed /\ ~(Len(b(rep)) < ConfigurationSize)
             /\ total' = Word(b(rep), 2)
             /\ pc' = "full"
             /\ UNCHANGED <<policy, udev, high, snapshot, given>>
    <2>1. ConfigurationSize \in Int
      BY DEF ConfigurationSize
    <2>2. b(rep) \in Bytes
      BY <1>3, <2>1, DescriptorIsBytes
    <2> HIDE DEF b
    <2>3. Len(b(rep)) >= ConfigurationSize
      BY <1>3, <2>1, <2>2 DEF Bytes
    <2>4. total' \in Int
      BY <1>3, <2>2, <2>3, WordIsInt
    <2>5. pc = "head"
      BY DEF check_configuration_header
    <2>6. FilterTypes'
      BY <1>3, <2>4 DEF IInv, FilterTypes
    <2>7. Progress'
      BY <1>3, <2>5 DEF IInv, Progress
    <2>8. EverythingWasJudged'
      BY <1>3, <2>5 DEF IInv, EverythingWasJudged
    <2> QED BY <2>6, <2>7, <2>8 DEF IInv
  <1> QED BY <1>1, <1>2, <1>3

\* A configuration comes into the snapshot as the patched form of what was accepted.
LEMMA ConfigurationKeeps ==
  ASSUME IInv, check_configuration
  PROVE  IInv'
  <1> DEFINE b(rep) == get_descriptor(rep, total)
             New(rep) == patch_configuration_for_udecx(b(rep), high)
             Accepted(rep) ==
               /\ snapshot' = Publish(Append(snapshot.configurations, New(rep)))
               /\ given' = Append(given, b(rep))
               /\ pc' = IF Len(given') = snapshot.count THEN "create" ELSE "head"
               /\ total' = 0
               /\ UNCHANGED <<policy, udev, high>>
  <1>1. PICK rep \in Replies(Configurations, total) :
          IF b(rep) = Failed \/ Len(b(rep)) < total \/ evaluate_configuration(b(rep), policy) # "none"
          THEN Reject
          ELSE Accepted(rep)
    BY DEF check_configuration
  <1>2. CASE Reject
    BY <1>2, RejectKeeps
  <1>3. CASE b(rep) # Failed /\ evaluate_configuration(b(rep), policy) = "none" /\ Accepted(rep)
    <2>0. pc = "full" /\ total \in Int /\ high \in BOOLEAN
      BY DEF check_configuration, IInv, FilterTypes
    <2>1. b(rep) \in Bytes
      BY <1>3, <2>0, DescriptorIsBytes
    <2> HIDE DEF b
    <2>2. New(rep) \in Patched
      BY <2>0, <2>1 DEF Patched
    <2> HIDE DEF New
    <2>3. /\ given \in Seq(Bytes) /\ snapshot.configurations \in Seq(Patched)
          /\ Len(given) = Len(snapshot.configurations)
          /\ DOMAIN snapshot = {"device", "count", "configurations", "ready"}
      BY DEF IInv, FilterTypes, Progress
    <2>4. /\ given' \in Seq(Bytes)
          /\ Len(given') = Len(given) + 1
          /\ \A i \in 1 .. Len(given) : given'[i] = given[i]
          /\ given'[Len(given) + 1] = b(rep)
      BY <1>3, <2>1, <2>3, AppendProperties
    <2> DEFINE c == Append(snapshot.configurations, New(rep))
    <2>5. /\ c \in Seq(Patched)
          /\ Len(c) = Len(given) + 1
          /\ \A i \in 1 .. Len(given) : c[i] = snapshot.configurations[i]
          /\ c[Len(given) + 1] = New(rep)
      BY <2>2, <2>3, AppendProperties
    <2> HIDE DEF c
    <2>6. /\ DOMAIN snapshot' = DOMAIN snapshot /\ snapshot'.device = snapshot.device
          /\ snapshot'.count = snapshot.count /\ snapshot'.configurations = c
          /\ snapshot'.ready = (Len(c) = snapshot.count)
      BY <1>3, <2>3 DEF Publish, c
    <2>7. FilterTypes'
      BY <1>3, <2>0, <2>3, <2>4, <2>5, <2>6 DEF FilterTypes
    <2>8. Progress'
      BY <1>3, <2>0, <2>4, <2>5, <2>6 DEF IInv, Progress
    <2>9. EverythingWasJudged'
      <3>1. ASSUME NEW i \in DOMAIN given'
            PROVE  /\ evaluate_configuration(given'[i], policy) = "none"
                   /\ c[i] = patch_configuration_for_udecx(given'[i], high)
        <4>1. Len(given) \in Nat /\ i \in 1 .. Len(given) + 1
          BY <3>1, <2>3, <2>4, LenProperties
        <4>2. CASE i \in 1 .. Len(given)
          <5>1. i \in DOMAIN given
            BY <4>2, <2>3, LenProperties
          <5> QED BY <4>2, <5>1, <2>4, <2>5 DEF IInv, EverythingWasJudged
        <4>3. CASE i = Len(given) + 1
          BY <4>3, <1>3, <2>4, <2>5 DEF New
        <4> QED BY <4>1, <4>2, <4>3
      <3>2. Identity(snapshot'.device) = Identity(udev) /\ DeviceClassAllowed(policy, snapshot'.device)
        BY <2>0, <2>6 DEF IInv, EverythingWasJudged
      <3>3. snapshot'.ready => Len(snapshot'.configurations) = udev.bNumConfigurations
        BY <2>0, <2>6 DEF IInv, Progress
      <3>4. pc' \in {"create", "plugged"} => snapshot'.ready
        BY <1>3, <2>4, <2>5, <2>6
      <3> QED BY <1>3, <2>6, <3>1, <3>2, <3>3, <3>4 DEF EverythingWasJudged
    <2> QED BY <2>7, <2>8, <2>9 DEF IInv
  <1> QED BY <1>1, <1>2, <1>3

\* device::create and the reads of Windows change nothing of the snapshot.
LEMMA PresentKeeps ==
  ASSUME IInv, create \/ enumerate
  PROVE  IInv'
  <1>1. /\ UNCHANGED <<policy, udev, high, total, snapshot, given>>
        /\ pc \in {"create", "plugged"} /\ pc' \in {"create", "plugged"}
    BY DEF create, enumerate
  <1>2. FilterTypes'
    BY <1>1 DEF IInv, FilterTypes
  <1>3. Progress'
    BY <1>1 DEF IInv, Progress
  <1>4. EverythingWasJudged'
    BY <1>1 DEF IInv, EverythingWasJudged
  <1> QED BY <1>2, <1>3, <1>4 DEF IInv

\* A step of the driver keeps the invariant of the check.
LEMMA DriverKeeps ==
  ASSUME IInv, Next
  PROVE  IInv'
  <1>1. CASE AnyClient
    BY <1>1, SessionKeeps DEF AnyClient, set_device_filter
  <1>2. CASE check_device
    BY <1>2, CheckDeviceKeeps
  <1>3. CASE snapshot_device_descriptor
    BY <1>3, SnapshotDeviceKeeps
  <1>4. CASE reject_device_descriptor \/ no_memory \/ create_failed \/ detach
    BY <1>4, RejectKeeps DEF reject_device_descriptor, no_memory, create_failed, detach
  <1>5. CASE check_configuration_header
    BY <1>5, HeaderKeeps
  <1>6. CASE check_configuration
    BY <1>6, ConfigurationKeeps
  <1>7. CASE create \/ enumerate
    BY <1>7, PresentKeeps
  <1> QED BY <1>1, <1>2, <1>3, <1>4, <1>5, <1>6, <1>7 DEF Next

\* The clients only store policies and read them.
LEMMA ClientsKeep ==
  ASSUME IInv, ClientsNext
  PROVE  IInv'
  <1>1. CASE Next
    BY <1>1, DriverKeeps
  <1>2. CASE UNCHANGED filterVars
    BY <1>2, SessionKeeps DEF filterVars, vars, session
  <1>3. CASE OkPressed \/ cmd_filter
    <2>1. UNCHANGED session
      BY <1>3 DEF OkPressed, cmd_filter, vhci_set_device_filter, set_device_filter
    <2> QED BY <2>1, SessionKeeps
  <1> QED BY <1>1, <1>2, <1>3 DEF ClientsNext, on_edit_device_filter, add_exported_devices, begin,
            vhci_get_device_filter, get_device_filter_failed, on_enable, Check, CancelPressed,
            mark_blocked

-----------------------------------------------------------------------------
\* The inductive invariant of the check (device_filter.cpp: check_device,
\* snapshot_device_descriptor, check_configuration) holds beside any clients.
THEOREM Invariance == ClientsSpec => []IInv
  <1>1. ClientsInit => IInv
    BY Initially DEF ClientsInit
  <1>2. IInv /\ [ClientsNext]_<<clientVars, filterVars>> => IInv'
    <2> SUFFICES ASSUME IInv, [ClientsNext]_<<clientVars, filterVars>>
                 PROVE  IInv'
      OBVIOUS
    <2>1. CASE ClientsNext
      BY <2>1, ClientsKeep
    <2>2. CASE UNCHANGED <<clientVars, filterVars>>
      BY <2>2, SessionKeeps DEF filterVars, vars, session
    <2> QED BY <2>1, <2>2
  <1> QED BY <1>1, <1>2, PTL DEF ClientsSpec

\* Whatever the server answers and whoever stores a policy meanwhile, the snapshot that is
\* registered with UdeCx consists of descriptors that were judged, under the policy that
\* was loaded at the start of the check, and of all of them.
THEOREM EverythingWasJudgedHolds == ClientsSpec => []EverythingWasJudged
  <1>1. IInv => EverythingWasJudged
    BY DEF IInv
  <1> QED BY <1>1, Invariance, PTL

-----------------------------------------------------------------------------
\* What Windows finds in the patched form of a configuration that was accepted.
LEMMA PatchedIsAllowed ==
  ASSUME NEW b \in Bytes, NEW p, evaluate_configuration(b, p) = "none", NEW h \in BOOLEAN,
         NEW c, c = patch_configuration_for_udecx(b, h)
  PROVE  /\ \A o \in find_all(c, InterfaceType) :
              Byte(c, o) >= InterfaceSize /\ is_allowed(p, InterfaceClass(c, o))
         /\ \A o \in find_all(c, EndpointType) : Byte(c, o) >= EndpointSize
         /\ find_all(c, InterfaceType) # {}
  <1> DEFINE W == Descriptors(b)
  <1>1. Walked(b, p, W)
    BY AcceptedIsWalked
  <1>2. SameHeaders(b, c, W) /\ \A x \in W : IsInterface(b, x) => InterfaceClass(c, x) = InterfaceClass(b, x)
    BY PatchKeepsInterfaces
  <1>3. \A type : find_all(c, type) = {x \in W : Byte(b, x + 1) = type}
    BY <1>2, FindsWhatWasWalked
  <1> HIDE DEF W
  <1>4. \A x \in W : Byte(c, x) = Byte(b, x) /\ Byte(b, x) \in 2 .. 255
    <2> TAKE x \in W
    <2>0. Len(b) \in Nat
      BY LenProperties DEF Bytes
    <2>1. x \in 0 .. Len(b) /\ HasHeader(b, x) /\ HasUsableLength(b, x)
      BY <1>1 DEF Walked, Separated
    <2>2. x # Len(b)
      BY <2>0, <2>1 DEF HasHeader
    <2> QED BY <2>1, <2>2, <1>2, NextOffset DEF SameHeaders
  <1>5. ASSUME NEW o \in find_all(c, InterfaceType)
        PROVE  Byte(c, o) >= InterfaceSize /\ is_allowed(p, InterfaceClass(c, o))
    <2>1. o \in W /\ IsInterface(b, o)
      BY <1>3, <1>5 DEF IsInterface
    <2>2. ~(Byte(c, o) < InterfaceSize) /\ is_allowed(p, InterfaceClass(c, o))
      BY <1>1, <1>2, <1>4, <2>1, WalkedInterface
    <2> DEFINE B == Byte(c, o)
    <2>3. B \in 2 .. 255 /\ ~(B < InterfaceSize)
      BY <1>4, <2>1, <2>2
    <2> HIDE DEF B
    <2>4. B >= InterfaceSize
      BY <2>3 DEF InterfaceSize
    <2> QED BY <2>2, <2>4 DEF B
  <1>6. ASSUME NEW o \in find_all(c, EndpointType)
        PROVE  Byte(c, o) >= EndpointSize
    <2>1. o \in W /\ Byte(b, o + 1) = EndpointType
      BY <1>3, <1>6
    <2> DEFINE B == Byte(c, o)
    <2>2. B \in 2 .. 255 /\ ~(B < EndpointSize)
      BY <1>1, <1>4, <2>1, WalkedEndpoint
    <2> HIDE DEF B
    <2>3. B >= EndpointSize
      BY <2>2 DEF EndpointSize
    <2> QED BY <2>3 DEF B
  <1>7. find_all(c, InterfaceType) # {}
    BY <1>1, <1>3 DEF Walked, IsInterface
  <1> QED BY <1>5, <1>6, <1>7

-----------------------------------------------------------------------------
\* What Windows has read is in the snapshot, and the device is plugged by then.
Shown ==
  /\ seen = <<>> \/ pc = "plugged"
  /\ seen \in Seq(Patched)
  /\ \A i \in DOMAIN seen : i \in DOMAIN given /\ seen[i] = snapshot.configurations[i]

\* A value in the registry has a length and a count.
ValueType(v) == v = NoPolicy \/ (v.room \in Int /\ v.count \in Nat)

\* The policy is the one that was loaded at the start of the check.
Loaded ==
  /\ ValueType(registry) /\ ValueType(source)
  /\ pc # "idle" => policy = load(source)

\* The dialog shows the policy it was opened with until the user edits it.
FormShows ==
  /\ DOMAIN form = {"enable", "checked"} /\ form.checked \subseteq Category
  /\ gui = "dialog" /\ ~edited => form = FilterDialog(opened)

\* A device that is gone shows nothing.
LEMMA NothingShown ==
  ASSUME seen' = <<>>
  PROVE  Shown'
  <1>1. <<>> \in Seq(Patched) /\ DOMAIN seen' = {}
    BY EmptySeq
  <1> QED BY <1>1 DEF Shown

\* Windows reads a configuration from the snapshot.
LEMMA EnumerateShows ==
  ASSUME IInv, Shown, enumerate
  PROVE  Shown'
  <1>1. /\ pc = "plugged" /\ pc' = "plugged"
        /\ UNCHANGED <<snapshot, given>>
        /\ Len(seen) < udev.bNumConfigurations
    BY DEF enumerate
  <1>2. snapshot.ready /\ Len(snapshot.configurations) = udev.bNumConfigurations
    BY <1>1 DEF IInv, EverythingWasJudged
  <1> DEFINE k == Len(seen) + 1
             c == snapshot.configurations
  <1>3. /\ given \in Seq(Bytes) /\ c \in Seq(Patched) /\ Len(given) = Len(c)
        /\ seen \in Seq(Patched) /\ Len(seen) \in Nat /\ Len(c) \in Nat
    BY LenProperties DEF IInv, FilterTypes, Progress, Shown
  <1>4. k \in 1 .. Len(c)
    BY <1>1, <1>2, <1>3
  <1>5. seen' = Append(seen, c[k])
    BY <1>2 DEF enumerate
  <1>6. c[k] \in Patched
    BY <1>3, <1>4, ElementOfSeq
  <1>7. /\ seen' \in Seq(Patched) /\ Len(seen') = k
        /\ \A i \in 1 .. Len(seen) : seen'[i] = seen[i]
        /\ seen'[k] = c[k]
    BY <1>3, <1>5, <1>6, AppendProperties
  <1>8. ASSUME NEW i \in DOMAIN seen'
        PROVE  i \in DOMAIN given /\ seen'[i] = c[i]
    <2>1. i \in 1 .. k /\ DOMAIN given = 1 .. Len(c) /\ DOMAIN seen = 1 .. Len(seen)
      BY <1>3, <1>7, LenProperties
    <2>2. CASE i \in 1 .. Len(seen)
      BY <2>1, <2>2, <1>7 DEF Shown
    <2>3. CASE i = k
      BY <2>1, <2>3, <1>4, <1>7
    <2> QED BY <2>1, <2>2, <2>3, <1>3
  <1> QED BY <1>1, <1>7, <1>8 DEF Shown

\* The driver takes nothing back that was shown.
LEMMA ShownNext ==
  ASSUME IInv, Shown, Next
  PROVE  Shown'
  <1>1. CASE AnyClient
    BY <1>1 DEF AnyClient, set_device_filter, session, Shown
  <1>2. CASE Reject
    BY <1>2, NothingShown DEF Reject
  <1>3. CASE check_device \/ snapshot_device_descriptor \/ create
    <2>1. seen' = <<>>
      BY <1>3 DEF check_device, snapshot_device_descriptor, create, Shown
    <2> QED BY <2>1, NothingShown
  <1>4. CASE check_configuration_header
    <2>1. seen = <<>> /\ (Reject \/ UNCHANGED seen)
      BY <1>4 DEF check_configuration_header, Shown
    <2> QED BY <2>1, NothingShown DEF Reject
  <1>5. CASE check_configuration
    <2>1. seen = <<>> /\ (Reject \/ UNCHANGED seen)
      BY <1>5 DEF check_configuration, Shown
    <2> QED BY <2>1, NothingShown DEF Reject
  <1>6. CASE enumerate
    BY <1>6, EnumerateShows
  <1> QED BY <1>1, <1>2, <1>3, <1>4, <1>5, <1>6 DEF Next, reject_device_descriptor, no_memory,
            create_failed, detach

\* The calls that store a policy write its length and count, and touch nothing else.
LEMMA StoreLoads ==
  ASSUME Loaded, NEW in, in.count \in Nat, set_device_filter(in)
  PROVE  Loaded'
  <1>1. UNCHANGED <<pc, policy, source>>
    BY DEF set_device_filter, session
  <1>2. ValueType(registry')
    <2>1. CASE UNCHANGED registry
      BY <2>1 DEF Loaded
    <2>2. CASE registry' = store([mode |-> in.mode, count |-> in.count, entries |-> in.entries])
      <3>1. registry'.room = SmallerOf(in.count, Capacity) /\ registry'.count = SmallerOf(in.count, Capacity)
        BY <2>2 DEF store, serialized, sanitize_policy_for_store
      <3>2. SmallerOf(in.count, Capacity) \in Nat
        BY FilterAssumption DEF SmallerOf
      <3> QED BY <3>1, <3>2 DEF ValueType
    <2> QED BY <2>1, <2>2 DEF set_device_filter
  <1> QED BY <1>1, <1>2 DEF Loaded

\* The driver keeps the policy it has loaded until the check ends.
LEMMA LoadedNext ==
  ASSUME Loaded, Next
  PROVE  Loaded'
  <1>1. CASE AnyClient
    BY <1>1, StoreLoads, FilterAssumption DEF AnyClient
  <1>2. CASE Reject
    BY <1>2 DEF Reject, Loaded, ValueType
  <1>3. CASE check_device
    BY <1>3 DEF check_device, Loaded
  <1>4. CASE pc # "idle" /\ UNCHANGED <<registry, source, policy>>
    BY <1>4 DEF Loaded
  <1>5. CASE snapshot_device_descriptor \/ create \/ enumerate
    BY <1>4, <1>5 DEF snapshot_device_descriptor, create, enumerate
  <1>6. CASE check_configuration_header
    <2>1. pc # "idle" /\ (Reject \/ UNCHANGED <<registry, source, policy>>)
      BY <1>6 DEF check_configuration_header
    <2> QED BY <2>1, <1>2, <1>4
  <1>7. CASE check_configuration
    <2>1. pc # "idle" /\ (Reject \/ UNCHANGED <<registry, source, policy>>)
      BY <1>7 DEF check_configuration
    <2> QED BY <2>1, <1>2, <1>4
  <1> QED BY <1>1, <1>2, <1>3, <1>5, <1>6, <1>7 DEF Next, reject_device_descriptor, no_memory,
            create_failed, detach

\* The entries that a client stores are entries of the categories it was asked for.
LEMMA EntriesOfCategories ==
  ASSUME NEW cs, cs \subseteq Category
  PROVE  EntriesOf(cs) \in Seq(UNION {Range(device_type_categories[c].entries) : c \in cs})
  <1> DEFINE U == UNION {Range(device_type_categories[c].entries) : c \in cs}
             All == UNION {Range(device_type_categories[c].entries) : c \in DOMAIN device_type_categories}
  <1>1. IsFiniteSet(All) /\ U \subseteq All
    BY FilterClientsAssumption DEF Category
  <1> HIDE DEF U, All
  <1>2. IsFiniteSet(U)
    BY <1>1, FS_Subset
  <1>3. Cardinality(U) \in Nat /\ ExistsBijection(1 .. Cardinality(U), U)
    BY <1>2, FS_CardinalityType
  <1>4. \E f \in [1 .. Cardinality(U) -> U] : IsInjective(f)
    BY <1>3 DEF ExistsBijection, Bijection, Injection
  <1>5. EntriesOf(cs) \in [1 .. Cardinality(U) -> U]
    BY <1>4 DEF EntriesOf, SetToSeq, U
  <1>6. EntriesOf(cs) \in Seq(U)
    BY <1>3, <1>5, SeqDef
  <1> QED BY <1>6 DEF U

\* What the dialog stores has a number of entries.
LEMMA ClientPolicyType ==
  ASSUME FormShows
  PROVE  Len(policy_of(form).entries) \in Nat
  <1>1. EntriesOf(form.checked) \in Seq(UNION {Range(device_type_categories[c].entries) : c \in form.checked})
    BY EntriesOfCategories DEF FormShows
  <1>2. Len(EntriesOf(form.checked)) \in Nat /\ Len(<<>>) \in Nat
    BY <1>1, LenProperties
  <1>3. policy_of(form).entries \in {EntriesOf(form.checked), <<>>}
    BY DEF policy_of
  <1> QED BY <1>2, <1>3

\* Clients change the registry and not what was loaded.
LEMMA ClientsLoad ==
  ASSUME Loaded, FormShows, ClientsNext
  PROVE  Loaded'
  <1>1. CASE Next
    BY <1>1, LoadedNext
  <1>2. CASE UNCHANGED filterVars
    BY <1>2 DEF filterVars, vars, Loaded
  <1>3. ASSUME NEW p, Len(p.entries) \in Nat, vhci_set_device_filter(p)
        PROVE  Loaded'
    <2> DEFINE in == [mode |-> p.mode, count |-> Len(p.entries), entries |-> p.entries,
                      avail |-> IF p.entries = <<>> THEN 1 ELSE Len(p.entries)]
    <2>1. set_device_filter(in) /\ in.count \in Nat
      BY <1>3 DEF vhci_set_device_filter
    <2> HIDE DEF in
    <2> QED BY <2>1, StoreLoads
  <1>4. CASE OkPressed
    <2> DEFINE p == policy_of(form)
    <2>1. Len(p.entries) \in Nat /\ vhci_set_device_filter(p)
      BY <1>4, ClientPolicyType DEF OkPressed
    <2> HIDE DEF p
    <2> QED BY <2>1, <1>3
  <1>5. CASE cmd_filter
    <2>1. PICK args \in add_cmd_filter :
            /\ \A c \in args.categories : find_category(c)
            /\ vhci_set_device_filter([mode |-> args.mode, entries |-> EntriesOf(args.categories)])
      BY <1>5 DEF cmd_filter
    <2> DEFINE p == [mode |-> args.mode, entries |-> EntriesOf(args.categories)]
    <2>2. args.categories \subseteq Category
      BY <2>1 DEF find_category
    <2>3. Len(p.entries) \in Nat
      BY <2>2, EntriesOfCategories, LenProperties
    <2>4. vhci_set_device_filter(p)
      BY <2>1
    <2> HIDE DEF p
    <2> QED BY <2>3, <2>4, <1>3
  <1> QED BY <1>1, <1>2, <1>4, <1>5 DEF ClientsNext, on_edit_device_filter, add_exported_devices,
            begin, vhci_get_device_filter, get_device_filter_failed, on_enable, Check,
            CancelPressed, mark_blocked

\* And not what Windows has read.
LEMMA ClientsShow ==
  ASSUME IInv, Shown, ClientsNext
  PROVE  Shown'
  <1>1. CASE Next
    BY <1>1, ShownNext
  <1>2. CASE UNCHANGED <<pc, given, snapshot, seen>>
    BY <1>2 DEF Shown
  <1>3. CASE UNCHANGED filterVars
    BY <1>3, <1>2 DEF filterVars, vars
  <1>4. CASE OkPressed \/ cmd_filter
    BY <1>2, <1>4 DEF OkPressed, cmd_filter, vhci_set_device_filter, set_device_filter, session
  <1> QED BY <1>1, <1>3, <1>4 DEF ClientsNext, on_edit_device_filter, add_exported_devices,
            begin, vhci_get_device_filter, get_device_filter_failed, on_enable, Check,
            CancelPressed, mark_blocked

\* The form changes when the dialog is opened or edited.
LEMMA FormNext ==
  ASSUME FormShows, ClientsNext
  PROVE  FormShows'
  <1>1. CASE UNCHANGED <<gui, opened, form, edited>>
    BY <1>1 DEF FormShows, FilterDialog
  <1>2. CASE on_edit_device_filter \/ add_exported_devices
    BY <1>2 DEF on_edit_device_filter, add_exported_devices, begin, FormShows
  <1>3. CASE vhci_get_device_filter
    <2>1. PICK p : \/ UNCHANGED <<gui, opened, form, edited>>
                   \/ opened' = p /\ gui' = "dialog" /\ form' = FilterDialog(p)
                   \/ gui' = "marks" /\ UNCHANGED form
      BY <1>3 DEF vhci_get_device_filter, GotPolicy
    <2>2. CASE opened' = p /\ gui' = "dialog" /\ form' = FilterDialog(p)
      <3>1. DOMAIN form' = {"enable", "checked"} /\ form'.checked \subseteq Category
        BY <2>2 DEF FilterDialog
      <3>2. form' = FilterDialog(opened')
        BY <2>2
      <3> QED BY <3>1, <3>2 DEF FormShows
    <2>3. CASE gui' = "marks" /\ UNCHANGED form
      BY <2>3 DEF FormShows
    <2> QED BY <2>1, <2>2, <2>3, <1>1
  <1>4. CASE get_device_filter_failed
    BY <1>4 DEF get_device_filter_failed, FormShows
  <1>5. CASE on_enable
    <2>1. form' = [form EXCEPT !.enable = ~@] /\ edited' = TRUE
      BY <1>5 DEF on_enable
    <2>2. DOMAIN form' = {"enable", "checked"} /\ form'.checked = form.checked
      BY <2>1, Zenon DEF FormShows
    <2> QED BY <2>1, <2>2 DEF FormShows
  <1>6. CASE Check
    <2>1. PICK c \in Category :
            form' = [form EXCEPT !.checked = IF c \in @ THEN @ \ {c} ELSE @ \cup {c}]
      BY <1>6 DEF Check
    <2>2. edited' = TRUE
      BY <1>6 DEF Check
    <2>3. DOMAIN form' = {"enable", "checked"} /\ form'.checked \subseteq form.checked \cup {c}
      BY <2>1 DEF FormShows
    <2> QED BY <2>2, <2>3 DEF FormShows
  <1>7. CASE Close
    <2>1. DOMAIN form' = {"enable", "checked"} /\ form'.checked \subseteq Category
      BY <1>7 DEF Close, EmptyForm
    <2> QED BY <1>7, <2>1 DEF Close, FormShows
  <1>8. CASE Next /\ UNCHANGED clientVars
    BY <1>1, <1>8 DEF clientVars
  <1>9. CASE cmd_filter
    BY <1>1, <1>9 DEF cmd_filter, clientVars
  <1> QED BY <1>2, <1>3, <1>4, <1>5, <1>6, <1>7, <1>8, <1>9
          DEF ClientsNext, OkPressed, CancelPressed, mark_blocked

-----------------------------------------------------------------------------
\* The rest of the inductive invariant: what was read, the policy and the dialog.
THEOREM ClientsInvariance == ClientsSpec => [](IInv /\ Shown /\ Loaded /\ FormShows)
  <1> DEFINE Inv == Shown /\ Loaded /\ FormShows
  <1>1. ClientsInit => Inv
    <2> SUFFICES ASSUME ClientsInit PROVE Inv
      OBVIOUS
    <2>1. Shown
      <3>1. seen = <<>> /\ <<>> \in Seq(Patched) /\ DOMAIN seen = {}
        BY EmptySeq DEF ClientsInit, Init
      <3> QED BY <3>1 DEF Shown
    <2>2. Loaded
      BY FilterAssumption DEF ClientsInit, Init, Loaded, ValueType
    <2>3. FormShows
      BY DEF ClientsInit, FormShows, EmptyForm
    <2> QED BY <2>1, <2>2, <2>3
  <1>2. IInv /\ Inv /\ [ClientsNext]_<<clientVars, filterVars>> => Inv'
    <2> SUFFICES ASSUME IInv, Inv, [ClientsNext]_<<clientVars, filterVars>>
                 PROVE  Inv'
      OBVIOUS
    <2>1. CASE ClientsNext
      BY <2>1, ClientsShow, ClientsLoad, FormNext
    <2>2. CASE UNCHANGED <<clientVars, filterVars>>
      BY <2>2 DEF clientVars, filterVars, vars, Shown, Loaded, FormShows, FilterDialog
    <2> QED BY <2>1, <2>2
  <1> QED BY <1>1, <1>2, Invariance, PTL DEF ClientsSpec

\* The purpose of the filter (device_filter.cpp: evaluate_configuration, descriptor_patch.cpp:
\* patch_configuration_for_udecx): whatever bytes the server sends, for every descriptor that
\* it can form of them, what Windows finds when it walks the configurations of a plugged
\* device is allowed by the policy and long enough to be read.
THEOREM PresentedIsAllowedHolds == ClientsSpec => []PresentedIsAllowed
  <1>1. IInv /\ Shown => PresentedIsAllowed
    <2> SUFFICES ASSUME IInv, Shown, NEW i \in DOMAIN seen
                 PROVE  /\ \A o \in find_all(seen[i], InterfaceType) :
                              /\ Byte(seen[i], o) >= InterfaceSize
                              /\ is_allowed(policy, InterfaceClass(seen[i], o))
                        /\ \A o \in find_all(seen[i], EndpointType) : Byte(seen[i], o) >= EndpointSize
                        /\ find_all(seen[i], InterfaceType) # {}
      BY DEF PresentedIsAllowed
    <2>1. i \in DOMAIN given /\ seen[i] = snapshot.configurations[i]
      BY DEF Shown
    <2>2. /\ evaluate_configuration(given[i], policy) = "none"
          /\ seen[i] = patch_configuration_for_udecx(given[i], high)
      BY <2>1 DEF IInv, EverythingWasJudged
    <2>3. given[i] \in Bytes /\ high \in BOOLEAN
      BY <2>1, LenProperties, ElementOfSeq DEF IInv, FilterTypes
    <2> QED BY <2>2, <2>3, PatchedIsAllowed
  <1> QED BY <1>1, ClientsInvariance, PTL

\* A policy that lets an interface pass is not the one that load falls back to.
LEMMA AllowsIsLoaded ==
  ASSUME NEW v, ValueType(v), NEW t, is_allowed(load(v), t)
  PROVE  /\ Usable(v)
         /\ load(v).mode = "disabled" => v.mode = "disabled"
         /\ \A i \in DOMAIN load(v).entries : i <= v.room /\ i <= v.count
  <1>1. ~is_allowed(fail_closed_policy, t)
    BY DEF is_allowed, fail_closed_policy
  <1>2. /\ v # NoPolicy /\ ~(v.room > Capacity) /\ v.type = "binary" /\ ~(v.room < 0)
        /\ load(v) = sanitize_loaded_policy(v)
    BY <1>1 DEF load, sanitize_loaded_policy
  <1>3. v.room \in Int /\ v.count \in Nat /\ Capacity \in Nat
    BY <1>2, FilterAssumption DEF ValueType
  <1>4. Usable(v)
    BY <1>2, <1>3 DEF Usable
  <1> DEFINE k == SmallerOf(SmallerOf(v.count, v.room), Capacity)
             e == SubSeq(v.entries, 1, k)
  <1>5. /\ load(v).mode = IF v.mode = "disabled" THEN "disabled" ELSE "whitelist"
        /\ load(v).entries = e
    <2>1. sanitize_loaded_policy(v) =
            [mode |-> IF v.mode = "disabled" THEN "disabled" ELSE "whitelist", entries |-> e]
      BY <1>2, Zenon DEF sanitize_loaded_policy
    <2> HIDE DEF e
    <2> QED BY <1>2, <2>1
  <1>6. k \in Int /\ k >= 0 /\ k <= v.room /\ k <= v.count
    BY <1>2, <1>3 DEF SmallerOf
  <1> HIDE DEF k
  <1>7. DOMAIN e = 1 .. k
    <2> DEFINE S == {v.entries[i] : i \in 1 .. k}
    <2>1. \A i \in 1 .. k : v.entries[i] \in S
      OBVIOUS
    <2> HIDE DEF S
    <2>2. e \in Seq(S) /\ Len(e) = IF 1 <= k THEN k - 1 + 1 ELSE 0
      BY <1>6, <2>1, SubSeqProperties
    <2>3. Len(e) = k
      BY <1>6, <2>2
    <2> QED BY <2>2, <2>3, LenProperties
  <1>8. \A i \in DOMAIN e : i <= v.room /\ i <= v.count
    BY <1>3, <1>6, <1>7
  <1> QED BY <1>4, <1>5, <1>8

\* Fail-closed (device_filter.cpp: load, sanitize_loaded_policy): a device is created only
\* under a value of the registry that is there, has the right type and length and says so.
THEOREM FailClosedHolds == ClientsSpec => []FailClosed
  <1>1. IInv /\ Loaded => FailClosed
    <2> SUFFICES ASSUME IInv, Loaded, pc \in {"create", "plugged"}
                 PROVE  /\ Usable(source)
                        /\ policy.mode = "disabled" => source.mode = "disabled"
                        /\ \A i \in DOMAIN policy.entries : i <= source.room /\ i <= source.count
      BY DEF FailClosed
    <2>1. policy = load(source) /\ ValueType(source)
      BY DEF Loaded
    <2>2. /\ snapshot.ready /\ Len(snapshot.configurations) = udev.bNumConfigurations
          /\ Identity(snapshot.device) = Identity(udev) /\ DeviceClassAllowed(policy, snapshot.device)
      BY DEF IInv, EverythingWasJudged
    <2>3. Len(given) > 0
      BY <2>2 DEF IInv, Progress, Identity, DeviceClassAllowed
    <2>4. 1 \in DOMAIN given /\ given[1] \in Bytes
      BY <2>3, LenProperties, ElementOfSeq DEF IInv, FilterTypes
    <2>5. evaluate_configuration(given[1], policy) = "none"
      BY <2>4 DEF IInv, EverythingWasJudged
    <2>6. PICK x \in Descriptors(given[1]) : IsInterface(given[1], x)
      BY <2>4, <2>5, AcceptedIsWalked DEF Walked
    <2>7. is_allowed(policy, InterfaceClass(given[1], x))
      BY <2>4, <2>5, <2>6, AcceptedIsWalked, WalkedInterface
    <2> QED BY <2>1, <2>7, AllowsIsLoaded
  <1> QED BY <1>1, ClientsInvariance, PTL

\* A device that the client marks as blocked with the policy that a check loaded would not
\* have passed that check (wusbip.cpp: add_exported_devices; device_filter.cpp: check_device).
THEOREM MarkedIsRefusedHolds == ClientsSpec => []MarkedIsRefused
  <1>1. IInv => MarkedIsRefused
    <2> SUFFICES ASSUME IInv, pc = "plugged", opened = policy, NEW i \in DOMAIN given
                 PROVE  ~Blocked(policy, udev, {InterfaceClass(given[i], o) :
                                                  o \in find_all(given[i], InterfaceType)})
      BY DEF MarkedIsRefused
    <2> DEFINE b == given[i]
    <2>1. b \in Bytes /\ evaluate_configuration(b, policy) = "none"
      BY LenProperties, ElementOfSeq DEF IInv, FilterTypes, EverythingWasJudged
    <2>2. Identity(snapshot.device) = Identity(udev) /\ DeviceClassAllowed(policy, snapshot.device)
      BY DEF IInv, EverythingWasJudged
    <2> HIDE DEF b
    <2>3. Walked(b, policy, Descriptors(b)) /\ SameHeaders(b, b, Descriptors(b))
      BY <2>1, AcceptedIsWalked DEF SameHeaders
    <2>4. find_all(b, InterfaceType) = {x \in Descriptors(b) : Byte(b, x + 1) = InterfaceType}
      BY <2>1, <2>3, FindsWhatWasWalked
    <2>5. \A o \in find_all(b, InterfaceType) : is_allowed(policy, InterfaceClass(b, o))
      BY <2>3, <2>4, WalkedInterface DEF IsInterface
    <2>6. udev.tuple[1] \notin {0, 239} => is_allowed(policy, udev.tuple)
      BY <2>2 DEF Identity, DeviceClassAllowed, HasDeviceClass
    <2> QED BY <2>5, <2>6 DEF Blocked, b
  <1> QED BY <1>1, Invariance, PTL

\* The policy that a client stores comes back from the registry as it was.
LEMMA StoredComesBack ==
  ASSUME NEW p, NEW S, p.entries \in Seq(S), Len(p.entries) <= Capacity,
         p.mode \in {"disabled", "whitelist"}, NEW in,
         in = [mode |-> p.mode, count |-> Len(p.entries), entries |-> p.entries]
  PROVE  store(in) # NoPolicy =>
           /\ load(store(in)).mode = p.mode
           /\ load(store(in)).entries = p.entries
  <1> DEFINE n == Len(p.entries)
             v == store(in)
  <1>0. n \in Nat /\ Capacity \in Nat /\ n <= Capacity
        /\ SmallerOf(n, Capacity) = n /\ SmallerOf(n, n) = n
    BY LenProperties, FilterAssumption DEF SmallerOf
  <1>1. /\ v.type = "binary" /\ v.room = n /\ v.mode = p.mode /\ v.count = n
        /\ v.entries = SubSeq(p.entries, 1, n)
    BY <1>0 DEF store, serialized, sanitize_policy_for_store
  <1>2. SubSeq(p.entries, 1, n) = p.entries
    BY SubSeqFull
  <1> HIDE DEF v, n
  <1>3. v # NoPolicy => load(v) = sanitize_loaded_policy(v)
    BY <1>0, <1>1 DEF load
  <1>4. /\ sanitize_loaded_policy(v).mode = p.mode
        /\ sanitize_loaded_policy(v).entries = p.entries
    <2>1. ~(v.type # "binary" \/ v.room < 0)
      BY <1>0, <1>1
    <2>2. SubSeq(v.entries, 1, SmallerOf(SmallerOf(v.count, v.room), Capacity)) = p.entries
      BY <1>0, <1>1, <1>2
    <2>3. sanitize_loaded_policy(v) =
            [mode |-> IF v.mode = "disabled" THEN "disabled" ELSE "whitelist", entries |-> p.entries]
      BY <2>1, <2>2, Zenon DEF sanitize_loaded_policy
    <2> QED BY <1>1, <2>3
  <1> QED BY <1>3, <1>4 DEF v

\* Pressing OK in a dialog that was not edited (filter_dialog.cpp: policy, category_enabled;
\* wusbip.cpp: on_edit_device_filter) admits nothing that was refused before, for every table
\* of categories and every policy, also one that the table cannot express.
THEOREM DialogNeverWidensHolds == ClientsSpec => DialogNeverWidens
  <1>1. FormShows /\ [ClientsNext]_<<clientVars, filterVars>> =>
          [gui = "dialog" /\ ~edited /\ registry' # registry /\ gui' = "idle" =>
             \A t \in Classes : is_allowed(load(registry'), t) => is_allowed(opened, t)
          ]_<<clientVars, filterVars>>
    <2> SUFFICES ASSUME FormShows, ClientsNext, gui = "dialog", ~edited,
                        registry' # registry, gui' = "idle",
                        NEW t \in Classes, is_allowed(load(registry'), t)
                 PROVE  is_allowed(opened, t)
      OBVIOUS
    <2>1. OkPressed
      BY DEF ClientsNext, clientVars, filterVars, vars, on_edit_device_filter, add_exported_devices,
             begin, vhci_get_device_filter, get_device_filter_failed, on_enable, Check, CancelPressed,
             mark_blocked, cmd_filter
    <2> DEFINE p == policy_of(form)
               in == [mode |-> p.mode, count |-> Len(p.entries), entries |-> p.entries]
               U == UNION {Range(device_type_categories[c].entries) : c \in form.checked}
    <2>2. registry' = store(in) /\ Len(p.entries) <= Capacity
      BY <2>1 DEF OkPressed, vhci_set_device_filter, set_device_filter
    <2>3. form = FilterDialog(opened)
      BY DEF FormShows
    <2>4. /\ p.mode = (IF form.enable THEN "whitelist" ELSE "disabled")
          /\ p.entries = IF form.enable THEN EntriesOf(form.checked) ELSE <<>>
      BY DEF policy_of
    <2>5. p.entries \in Seq(U)
      <3>1. EntriesOf(form.checked) \in Seq(U)
        BY EntriesOfCategories DEF FormShows
      <3>2. <<>> \in Seq(U)
        BY EmptySeq
      <3> HIDE DEF U, p
      <3> QED BY <3>1, <3>2, <2>4
    <2> HIDE DEF p, U
    <2>6. p.mode \in {"disabled", "whitelist"}
      BY <2>4
    <2>7. store(in) # NoPolicy => load(store(in)).mode = p.mode /\ load(store(in)).entries = p.entries
      BY <2>2, <2>5, <2>6, StoredComesBack
    <2>8. store(in) # NoPolicy
      <3>1. load(NoPolicy) = fail_closed_policy
        BY DEF load
      <3>2. ~is_allowed(fail_closed_policy, t)
        BY DEF is_allowed, fail_closed_policy
      <3> QED BY <2>2, <3>1, <3>2
    <2>9. p.mode = "disabled" \/ \E i \in DOMAIN p.entries : Matches(p.entries[i], t)
      BY <2>2, <2>7, <2>8 DEF is_allowed
    <2>10. CASE p.mode = "disabled"
      <3>1. ~form.enable
        BY <2>4, <2>10
      <3>2. form.enable = (opened.mode # "disabled")
        BY <2>3 DEF FilterDialog
      <3> QED BY <3>1, <3>2 DEF is_allowed
    <2>11. CASE \E i \in DOMAIN p.entries : Matches(p.entries[i], t)
      <3>1. PICK i \in DOMAIN p.entries : Matches(p.entries[i], t)
        BY <2>11
      <3>2. p.entries[i] \in U
        BY <2>5, <3>1, LenProperties, ElementOfSeq
      <3>3. PICK c \in form.checked : p.entries[i] \in Range(device_type_categories[c].entries)
        BY <3>2 DEF U
      <3>4. category_enabled(opened, c)
        BY <2>3, <3>3 DEF FilterDialog
      <3>5. contains(opened.entries, p.entries[i])
        BY <3>3, <3>4 DEF category_enabled, Range
      <3>6. PICK j \in DOMAIN opened.entries : opened.entries[j] = p.entries[i]
        BY <3>5 DEF contains
      <3> QED BY <3>1, <3>6 DEF is_allowed
    <2> QED BY <2>9, <2>10, <2>11
  <1> QED BY <1>1, ClientsInvariance, PTL DEF ClientsSpec, DialogNeverWidens
=============================================================================
