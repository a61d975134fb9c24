--------------------------- MODULE WipcChannelProofs ---------------------------
(***************************************************************************)
(* For any magic, payloads and output: the channel loses no byte, however  *)
(* the stream is cut.  Every step of the reader gives the first bytes of   *)
(* the buffer away, and First(s, n) \o Rest(s, n) = s is half of it; the   *)
(* other half is that a frame, spelled out from what the reader took it    *)
(* for, is just the bytes that stood there (DispatchSpells).               *)
(*                                                                         *)
(* That the frames and the output come apart again needs where they stand  *)
(* in the stream.  The stream is laid out as text, frame, text, frame ...  *)
(* text and perhaps the beginning of a frame with anything behind it       *)
(* (Layout, on the writer's side); the reader stands in the text after the *)
(* last frame it has dispatched (Position).  From there it neither passes  *)
(* the magic of the next frame on (NotPast) nor takes a frame before it    *)
(* (InText), and there it takes exactly that frame (AtFrame).  Where a     *)
(* torn frame stands it may take anything, but by then it has dispatched   *)
(* and passed on all that was sent ahead (Past).                           *)
(***************************************************************************)
EXTENDS WipcChannel, SequenceTheorems, FiniteSetTheorems, WellFoundedInduction, TLAPS

-------------------------------------------------------------------------------
(* Bytes, the magic and frames *)

Bytes == Seq(Nat)

\* Concatenation.
LEMMA Concat ==
  \A r, s \in Bytes : /\ r \o s \in Bytes
                      /\ \A t \in Bytes : (r \o s) \o t = r \o (s \o t)
<1> SUFFICES ASSUME NEW r \in Bytes, NEW s \in Bytes
             PROVE  /\ r \o s \in Bytes
                    /\ \A t \in Bytes : (r \o s) \o t = r \o (s \o t)
  OBVIOUS
<1>1. r \o s \in Bytes
  BY ConcatProperties DEF Bytes
<1>2. ASSUME NEW t \in Bytes PROVE (r \o s) \o t = r \o (s \o t)
  <2>1. r \in Seq(Nat) /\ s \in Seq(Nat) /\ t \in Seq(Nat)
    BY DEF Bytes
  <2>. QED  BY <2>1, ConcatAssociative, SMTT(30)
<1>. QED  BY <1>1, <1>2

\* A sequence is a beginning of it and the rest.
LEMMA Split ==
  ASSUME NEW s \in Bytes, NEW n \in 0..Len(s)
  PROVE  /\ First(s, n) \in Bytes /\ Rest(s, n) \in Bytes
         /\ First(s, n) \o Rest(s, n) = s
<1>1. \A i \in 1..Len(s) : s[i] \in Nat
  BY ElementOfSeq DEF Bytes
<1>2. Len(s) \in Nat
  BY LenProperties DEF Bytes
<1>3. First(s, n) \in Bytes
  <2>1. \A i \in 1..n : s[i] \in Nat
    BY <1>1, <1>2
  <2>. QED  BY <1>2, <2>1, SubSeqProperties DEF Bytes, First
<1>4. Rest(s, n) \in Bytes
  <2>1. \A i \in (n + 1)..Len(s) : s[i] \in Nat
    BY <1>1, <1>2
  <2>. QED  BY <1>2, <2>1, SubSeqProperties DEF Bytes, Rest
<1>5. SubSeq(s, 1, n) \o SubSeq(s, n + 1, Len(s)) = SubSeq(s, 1, Len(s))
  <2>1. 1 \in 1..(Len(s) + 1) /\ n \in (1 - 1)..Len(s) /\ Len(s) \in n..Len(s)
    BY <1>2
  <2>. QED  BY <2>1, ConcatAdjacentSubSeq DEF Bytes
<1>6. SubSeq(s, 1, Len(s)) = s
  BY SubSeqFull DEF Bytes
<1>. QED  BY <1>3, <1>4, <1>5, <1>6 DEF First, Rest

\* The frames the runtime writes are bytes.
LEMMA EncodeTypes ==
  ASSUME NEW type \in Type, NEW payload \in Bytes
  PROVE  Encode(type, payload) \in Bytes
<1>1. Magic \in Bytes /\ type \in Nat /\ Len(payload) \in Nat
  BY MagicAssumption, LenProperties DEF Bytes, Type, OPEN, CLOSE, CALL, DATA
<1>2. <<type, Len(payload)>> \in Bytes
  BY <1>1 DEF Bytes
<1>3. Magic \o <<type, Len(payload)>> \in Bytes
  BY <1>1, <1>2, ConcatProperties DEF Bytes
<1>4. (Magic \o <<type, Len(payload)>>) \o payload \in Bytes
  <2>1. payload \in Bytes
    OBVIOUS
  <2>. QED  BY <1>3, <2>1, Concat, Zenon
<1>. QED  BY <1>4 DEF Encode

\* Concatenation, byte by byte.
LEMMA Appended ==
  ASSUME NEW s \in Bytes, NEW b \in Bytes
  PROVE  /\ Len(s) \in Nat /\ Len(b) \in Nat /\ s \o b \in Bytes
         /\ Len(s \o b) = Len(s) + Len(b)
         /\ \A i \in 1..Len(s) : (s \o b)[i] = s[i]
         /\ \A i \in 1..Len(b) : (s \o b)[Len(s) + i] = b[i]
<1> DEFINE c == s \o b
<1>1. s \in Seq(Nat) /\ b \in Seq(Nat)
  BY DEF Bytes
<1>2. Len(s) \in Nat /\ Len(b) \in Nat
  BY <1>1, LenProperties
<1>3. /\ c \in Seq(Nat) /\ Len(c) = Len(s) + Len(b)
      /\ \A i \in 1..(Len(s) + Len(b)) : c[i] = IF i <= Len(s) THEN s[i] ELSE b[i - Len(s)]
  BY <1>1, ConcatProperties
<1> HIDE DEF c
<1>4. ASSUME NEW i \in 1..Len(s) PROVE c[i] = s[i]
  <2>1. i \in 1..(Len(s) + Len(b)) /\ i <= Len(s)
    BY <1>2
  <2>. QED  BY <1>3, <2>1
<1>5. ASSUME NEW i \in 1..Len(b) PROVE c[Len(s) + i] = b[i]
  <2>1. Len(s) + i \in 1..(Len(s) + Len(b)) /\ ~(Len(s) + i <= Len(s)) /\ (Len(s) + i) - Len(s) = i
    BY <1>2
  <2>. QED  BY <1>3, <2>1
<1>. QED  BY <1>2, <1>3, <1>4, <1>5 DEF Bytes, c

\* A beginning and the rest, byte by byte.
LEMMA Pieces ==
  ASSUME NEW s \in Bytes, NEW n \in 0..Len(s)
  PROVE  /\ First(s, n) \in Bytes /\ Len(First(s, n)) = n
         /\ \A i \in 1..n : First(s, n)[i] = s[i]
         /\ Rest(s, n) \in Bytes /\ Len(Rest(s, n)) = Len(s) - n
<1>1. s \in Seq(Nat) /\ Len(s) \in Nat
  BY LenProperties DEF Bytes
<1>2. \A i \in 1..Len(s) : s[i] \in Nat
  BY <1>1, ElementOfSeq
<1>3. First(s, n) \in Bytes /\ Len(First(s, n)) = n /\ \A i \in 1..n : First(s, n)[i] = s[i]
  <2>1. \A i \in 1..n : s[i] \in Nat
    BY <1>1, <1>2
  <2> DEFINE t == SubSeq(s, 1, n)
  <2>2. /\ t \in Seq(Nat) /\ Len(t) = IF 1 <= n THEN n - 1 + 1 ELSE 0
        /\ \A i \in 1..(n - 1 + 1) : t[i] = s[1 + i - 1]
    BY <1>1, <2>1, SubSeqProperties
  <2> HIDE DEF t
  <2>3. t \in Seq(Nat) /\ Len(t) = n /\ \A i \in 1..n : t[i] = s[i]
    <3>1. \A i \in 1..n : 1 + i - 1 = i
      BY <1>1
    <3>. QED  BY <1>1, <2>2, <3>1
  <2>. QED  BY <2>3 DEF First, Bytes, t
<1>4. Rest(s, n) \in Bytes /\ Len(Rest(s, n)) = Len(s) - n
  <2> DEFINE len == Len(s)
             t == SubSeq(s, n + 1, len)
  <2>1. \A i \in (n + 1)..len : s[i] \in Nat
    BY <1>1, <1>2
  <2>2. n + 1 \in Int /\ len \in Int /\ n \in Nat /\ n <= len
    BY <1>1
  <2> HIDE DEF len
  <2>3. t \in Seq(Nat) /\ Len(t) = IF n + 1 <= len THEN len - (n + 1) + 1 ELSE 0
    BY <2>1, <2>2, SubSeqProperties
  <2> HIDE DEF t
  <2>4. t \in Seq(Nat) /\ Len(t) = len - n
    BY <2>2, <2>3
  <2>. QED  BY <2>4 DEF Rest, Bytes, t, len
<1>. QED  BY <1>3, <1>4

\* A set of positions has a first one.
LEMMA FirstOne ==
  ASSUME NEW n \in Nat, NEW T \in SUBSET (1..n), T # {}
  PROVE  \E x \in T : \A y \in T : x <= y
<1> DEFINE Below(x) == {i \in 1..n : i < x}
           R == StrictSubsetOrdering(1..n)
           A == {Below(x) : x \in T}
<1>1. IsFiniteSet(1..n)
  BY FS_Interval
<1>2. IsWellFoundedOn(R, SUBSET (1..n))
  BY <1>1, FS_StrictSubsetOrderingWellFounded, FS_FiniteSubsetsOfFinite
<1>3. A \subseteq SUBSET (1..n) /\ A # {}
  OBVIOUS
<1>4. PICK a \in A : \A c \in A : ~(<<c, a>> \in R)
  <2> HIDE DEF A, R
  <2>. QED  BY <1>2, <1>3, WFMin
<1>5. PICK x \in T : a = Below(x)
  OBVIOUS
<1>6. ASSUME NEW y \in T, y < x PROVE FALSE
  <2>1. Below(y) \subseteq Below(x) /\ y \in Below(x) /\ y \notin Below(y)
    BY <1>6
  <2>2. Below(y) \in A /\ Below(y) \subseteq 1..n /\ Below(x) \subseteq 1..n
    OBVIOUS
  <2>3. <<Below(y), Below(x)>> \in R
    <3> HIDE DEF Below
    <3>. QED  BY <2>1, <2>2 DEF StrictSubsetOrdering
  <2>. QED  BY <1>4, <1>5, <2>2, <2>3
<1>. QED  BY <1>6

\* The magic stands at p.
Spelled(s, p) == \A i \in 1..Len(Magic) : s[p + i - 1] = Magic[i]
\* The frames a runtime writes.
Good == {f \in Frame : Len(f.payload) <= MaxFrame /\ (f.type = CALL => f.payload \in Json)}
\* The bytes of a frame, and how many they are.
Code(f) == Encode(f.type, f.payload)
Load(f) == Len(f.payload)
Size(f) == HEADER_SIZE + Load(f)

\* Types and numbers.
LEMMA MagicBytes ==
  /\ Magic \in Bytes
  /\ \A i \in 1..Len(Magic) : Magic[i] \in Nat
<1>1. Magic \in Bytes
  BY MagicAssumption DEF Bytes
<1>. QED  BY <1>1, ElementOfSeq DEF Bytes

LEMMA Numbers ==
  /\ Len(Magic) \in Nat /\ Len(Magic) >= 1
  /\ HEADER_SIZE = Len(Magic) + 2 /\ HEADER_SIZE \in Nat
<1>1. Len(Magic) \in Nat /\ Len(Magic) >= 1
  BY MagicAssumption, LenProperties
<1>. QED  BY <1>1 DEF HEADER_SIZE

LEMMA TypeNumbers == Type \subseteq Nat /\ MaxFrame \in Nat
BY BoundAssumption DEF Type, OPEN, CLOSE, CALL, DATA

LEMMA Pair ==
  ASSUME NEW m \in Nat, NEW n \in Nat
  PROVE  <<m, n>> \in Bytes /\ Len(<<m, n>>) = 2 /\ <<m, n>>[1] = m /\ <<m, n>>[2] = n
BY DEF Bytes

LEMMA LoadFacts ==
  ASSUME NEW f \in Frame
  PROVE  /\ f.payload \in Bytes /\ f.type \in Type /\ Load(f) \in Nat
         /\ Size(f) \in Nat /\ Size(f) = Len(Magic) + 2 + Load(f)
<1>1. f.payload \in Bytes /\ f.type \in Type
  BY DEF Frame, Bytes
<1>2. Load(f) \in Nat
  BY <1>1, LenProperties DEF Load, Bytes
<1>. QED  BY <1>1, <1>2, Numbers DEF Size

\* The bytes of a frame.
LEMMA CodeFacts ==
  ASSUME NEW f \in Frame
  PROVE  /\ Code(f) \in Bytes /\ Len(Code(f)) = Size(f)
         /\ \A i \in 1..Len(Magic) : Code(f)[i] = Magic[i]
         /\ Code(f)[Len(Magic) + 1] = f.type
         /\ Code(f)[Len(Magic) + 2] = Load(f)
         /\ \A i \in 1..Load(f) : Code(f)[HEADER_SIZE + i] = f.payload[i]
<1> DEFINE t == f.type
           p == f.payload
           n == Load(f)
           h == <<t, n>>
           m == Magic \o h
<1>1. p \in Bytes /\ t \in Nat /\ n \in Nat /\ n = Len(p)
  BY LoadFacts, TypeNumbers DEF Load
<1> HIDE DEF t, p, n
<1>2. h \in Bytes /\ Len(h) = 2 /\ h[1] = t /\ h[2] = n
  BY <1>1, Pair
<1> HIDE DEF h
<1>3. /\ m \in Bytes /\ Len(m) = Len(Magic) + 2
      /\ \A i \in 1..(Len(Magic) + 2) : m[i] = IF i <= Len(Magic) THEN Magic[i] ELSE h[i - Len(Magic)]
  <2>1. Magic \in Seq(Nat) /\ h \in Seq(Nat)
    BY <1>2, MagicBytes DEF Bytes
  <2>2. /\ m \in Seq(Nat) /\ Len(m) = Len(Magic) + Len(h)
        /\ \A i \in 1..(Len(Magic) + Len(h)) : m[i] = IF i <= Len(Magic) THEN Magic[i] ELSE h[i - Len(Magic)]
    BY <2>1, ConcatProperties
  <2> HIDE DEF m
  <2>. QED  BY <1>2, <2>2 DEF Bytes
<1> HIDE DEF m
<1>4. /\ \A i \in 1..Len(Magic) : m[i] = Magic[i]
      /\ m[Len(Magic) + 1] = t /\ m[Len(Magic) + 2] = n
  <2>1. /\ (Len(Magic) + 1) - Len(Magic) = 1 /\ (Len(Magic) + 2) - Len(Magic) = 2
        /\ Len(Magic) + 1 \in 1..(Len(Magic) + 2) /\ Len(Magic) + 2 \in 1..(Len(Magic) + 2)
        /\ \A i \in 1..Len(Magic) : i \in 1..(Len(Magic) + 2) /\ i <= Len(Magic)
        /\ ~(Len(Magic) + 1 <= Len(Magic)) /\ ~(Len(Magic) + 2 <= Len(Magic))
    BY Numbers
  <2>. QED  BY <1>2, <1>3, <2>1
<1>5. Code(f) = m \o p
  BY DEF Code, Encode, m, h, t, p, n, Load
<1>6. /\ m \o p \in Bytes /\ Len(m \o p) = Len(Magic) + 2 + n
      /\ \A i \in 1..(Len(Magic) + 2 + n) :
           (m \o p)[i] = IF i <= Len(Magic) + 2 THEN m[i] ELSE p[i - (Len(Magic) + 2)]
  <2>1. m \in Seq(Nat) /\ p \in Seq(Nat)
    BY <1>1, <1>3 DEF Bytes
  <2> DEFINE c == m \o p
  <2>2. /\ c \in Seq(Nat) /\ Len(c) = Len(m) + Len(p)
        /\ \A i \in 1..(Len(m) + Len(p)) : c[i] = IF i <= Len(m) THEN m[i] ELSE p[i - Len(m)]
    BY <2>1, ConcatProperties
  <2>3. Len(m) = Len(Magic) + 2 /\ Len(p) = n
    BY <1>1, <1>3
  <2> HIDE DEF c
  <2>4. /\ c \in Seq(Nat) /\ Len(c) = Len(Magic) + 2 + n
        /\ \A i \in 1..(Len(Magic) + 2 + n) : c[i] = IF i <= Len(Magic) + 2 THEN m[i] ELSE p[i - (Len(Magic) + 2)]
    BY <2>2, <2>3
  <2>. QED  BY <2>4 DEF c, Bytes
<1>7. \A i \in 1..(Len(Magic) + 2) : (m \o p)[i] = m[i]
  <2>1. \A i \in 1..(Len(Magic) + 2) : i \in 1..(Len(Magic) + 2 + n) /\ i <= Len(Magic) + 2
    BY <1>1, Numbers
  <2>. QED  BY <1>6, <2>1
<1>8. ASSUME NEW i \in 1..n PROVE (m \o p)[HEADER_SIZE + i] = p[i]
  <2>1. /\ HEADER_SIZE + i \in 1..(Len(Magic) + 2 + n) /\ ~(HEADER_SIZE + i <= Len(Magic) + 2)
        /\ (HEADER_SIZE + i) - (Len(Magic) + 2) = i
    BY <1>1, Numbers
  <2>. QED  BY <1>6, <2>1
<1>9. /\ \A i \in 1..Len(Magic) : (m \o p)[i] = Magic[i]
      /\ (m \o p)[Len(Magic) + 1] = t
      /\ (m \o p)[Len(Magic) + 2] = n
  <2>1. /\ Len(Magic) + 1 \in 1..(Len(Magic) + 2) /\ Len(Magic) + 2 \in 1..(Len(Magic) + 2)
        /\ \A i \in 1..Len(Magic) : i \in 1..(Len(Magic) + 2)
    BY Numbers
  <2>. QED  BY <1>4, <1>7, <2>1
<1>10. Len(Code(f)) = Size(f)
  BY <1>5, <1>6, LoadFacts DEF n
<1>. QED  BY <1>5, <1>6, <1>8, <1>9, <1>10 DEF t, p, n

\* MagicAt, byte by byte.
LEMMA MagicSpelled ==
  ASSUME NEW s \in Bytes, NEW p \in Nat, p >= 1
  PROVE  /\ p + Len(Magic) - 1 <= Len(s) => (MagicAt(s, p) <=> Spelled(s, p))
         /\ MagicAt(s, p) <=> SubSeq(s, p, p + Len(Magic) - 1) = Magic
<1> SUFFICES ASSUME p + Len(Magic) - 1 <= Len(s) PROVE MagicAt(s, p) <=> Spelled(s, p)
  BY DEF MagicAt
<1>1. Len(s) \in Nat /\ \A i \in 1..Len(s) : s[i] \in Nat
  BY LenProperties, ElementOfSeq DEF Bytes
<1> DEFINE q == p + Len(Magic) - 1
           t == SubSeq(s, p, q)
<1>2. q \in Int /\ \A i \in p..q : s[i] \in Nat
  BY <1>1, Numbers
<1>3. /\ t \in Bytes /\ Len(t) = IF p <= q THEN q - p + 1 ELSE 0
      /\ \A i \in 1..(q - p + 1) : t[i] = s[p + i - 1]
  <2> HIDE DEF q
  <2>. QED  BY <1>2, SubSeqProperties DEF Bytes
<1>4. q - p + 1 = Len(Magic) /\ p <= q
  BY Numbers
<1>5. Len(t) = Len(Magic) /\ \A i \in 1..Len(Magic) : t[i] = s[p + i - 1]
  <2> HIDE DEF q, t
  <2>. QED  BY <1>3, <1>4
<1>6. MagicAt(s, p) <=> t = Magic
  BY DEF MagicAt
<1> HIDE DEF t
<1>7. t = Magic <=> \A i \in 1..Len(Magic) : t[i] = Magic[i]
  <2>1. t \in Seq(Nat) /\ Magic \in Seq(Nat)
    BY <1>3, MagicBytes DEF Bytes
  <2>2. (\A i \in 1..Len(Magic) : t[i] = Magic[i]) => t = Magic
    BY <1>5, <2>1, SeqEqual
  <2>. QED  BY <2>2
<1>. QED  BY <1>5, <1>6, <1>7 DEF Spelled

-------------------------------------------------------------------------------
(* Types, and what moves *)

\* Giving the first n bytes of the buffer away only moves them.
Moves(n) ==
  /\ delivered' = delivered \o First(buffer, n)
  /\ buffer' = Rest(buffer, n)

LEMMA MovesKeep ==
  ASSUME TypeOK, Conserved, NEW n \in 0..Len(buffer), Moves(n), UNCHANGED <<wire, written>>
  PROVE  /\ Conserved'
         /\ First(buffer, n) \in Bytes
         /\ buffer' \in Bytes /\ delivered' \in Bytes
<1>1. {buffer, delivered, wire} \subseteq Bytes
  BY DEF TypeOK, Bytes
<1>2. First(buffer, n) \in Bytes /\ Rest(buffer, n) \in Bytes
  BY <1>1, Split
<1>3. buffer' \in Bytes /\ delivered' \in Bytes
  BY <1>1, <1>2, ConcatProperties DEF Moves, Bytes
<1>4. delivered' \o buffer' = delivered \o (First(buffer, n) \o Rest(buffer, n))
  <2>1. buffer \in Bytes /\ delivered \in Bytes
    BY <1>1
  <2>. QED  BY <1>2, <2>1, Concat, ZenonT(60) DEF Moves
<1>5. delivered' \o buffer' = delivered \o buffer
  BY <1>1, <1>4, Split
<1>. QED  BY <1>2, <1>3, <1>5 DEF Conserved

\* Passing them on puts them at the end of the output besides.
LEMMA PassOnMoves ==
  ASSUME TypeOK, Conserved, NEW n \in 0..Len(buffer), PassOn(n),
         UNCHANGED <<wire, senderVars>>, scanning' \in BOOLEAN
  PROVE  TypeOK' /\ Conserved'
<1>1. Conserved' /\ First(buffer, n) \in Bytes /\ buffer' \in Bytes /\ delivered' \in Bytes
  BY MovesKeep DEF PassOn, Moves, senderVars
<1>2. output' \in Bytes
  BY <1>1, ConcatProperties DEF PassOn, TypeOK, Bytes
<1>. QED  BY <1>1, <1>2 DEF PassOn, TypeOK, senderVars, Bytes

\* Writing puts bytes at the end of the pipe and of what was written.
LEMMA EmitAppends ==
  ASSUME TypeOK, Conserved, NEW b \in Bytes, Emit(b), UNCHANGED scanVars
  PROVE  /\ Conserved'
         /\ wire' \in Bytes /\ written' \in Bytes /\ items' \in 0..MaxItems
<1>1. {buffer, delivered, wire, written} \subseteq Bytes
  BY DEF TypeOK, Bytes
<1>2. wire' \in Bytes /\ written' \in Bytes
  BY <1>1, ConcatProperties DEF Emit, Bytes
<1>3. items' \in 0..MaxItems
  BY BoundAssumption DEF Emit, TypeOK
<1>4. delivered \o buffer \in Bytes
  BY <1>1, ConcatProperties DEF Bytes
<1>5. (delivered \o buffer) \o (wire \o b) = ((delivered \o buffer) \o wire) \o b
  <2>1. wire \in Bytes
    BY <1>1
  <2>. QED  BY <1>4, <2>1, Concat, Zenon
<1>. QED  BY <1>2, <1>3, <1>5 DEF Conserved, Emit, scanVars

\* What the runtime writes.
LEMMA WriteStep == TypeOK /\ Conserved /\ Write => TypeOK' /\ Conserved'
<1> SUFFICES ASSUME TypeOK, Conserved PROVE Write => TypeOK' /\ Conserved'
  OBVIOUS
<1>1. ASSUME NEW type \in Type, NEW p \in Bytes, WriteFrame(type, p)
      PROVE  TypeOK' /\ Conserved'
  <2>1. /\ Conserved' /\ wire' \in Bytes /\ written' \in Bytes /\ items' \in 0..MaxItems
    BY <1>1, EncodeTypes, EmitAppends DEF WriteFrame
  <2>2. [type |-> type, payload |-> p] \in Frame
    BY DEF Frame, Bytes
  <2>3. sentFrames' \in Seq(Frame)
    BY <1>1, <2>2, AppendProperties DEF WriteFrame, TypeOK
  <2>. QED  BY <1>1, <2>1, <2>3 DEF WriteFrame, Emit, TypeOK, scanVars, Bytes
<1>2. ASSUME NEW type \in Type, NEW p \in Bytes, TearFrame(type, p)
      PROVE  TypeOK' /\ Conserved'
  <2> DEFINE frame == Encode(type, p)
  <2>1. frame \in Bytes /\ Len(frame) \in Nat
    BY EncodeTypes, LenProperties DEF Bytes
  <2>2. PICK n \in 1..(Len(frame) - 1) : Emit(First(frame, n))
    BY <1>2 DEF TearFrame
  <2> HIDE DEF frame
  <2>3. First(frame, n) \in Bytes
    <3>1. n \in 0..Len(frame)
      BY <2>1
    <3>. QED  BY <2>1, <3>1, Split
  <2>4. /\ Conserved' /\ wire' \in Bytes /\ written' \in Bytes /\ items' \in 0..MaxItems
    BY <1>2, <2>2, <2>3, EmitAppends DEF TearFrame
  <2>. QED  BY <1>2, <2>4 DEF TearFrame, TypeOK, scanVars, Bytes
<1>3. ASSUME NEW b \in Output, Print_(b) PROVE TypeOK' /\ Conserved'
  <2>1. b \in Bytes
    BY PayloadAssumption DEF Bytes
  <2>2. /\ Conserved' /\ wire' \in Bytes /\ written' \in Bytes /\ items' \in 0..MaxItems
    BY <1>3, <2>1, EmitAppends DEF Print_
  <2>3. sentOutput' \in Bytes /\ text' \in Bytes
    BY <1>3, <2>1, ConcatProperties DEF Print_, TypeOK, Bytes
  <2>4. coincidence' \in BOOLEAN
    BY <1>3 DEF Print_, TypeOK
  <2>. QED  BY <1>3, <2>2, <2>3, <2>4 DEF Print_, Emit, TypeOK, scanVars, Bytes
<1>4. ASSUME NEW b \in Following, WriteOn(b) PROVE TypeOK' /\ Conserved'
  <2>1. b \in Bytes
    BY PayloadAssumption DEF Bytes
  <2>2. /\ Conserved' /\ wire' \in Bytes /\ written' \in Bytes /\ items' \in 0..MaxItems
    BY <1>4, <2>1, EmitAppends DEF WriteOn
  <2>. QED  BY <1>4, <2>2 DEF WriteOn, TypeOK, scanVars, Bytes
<1>5. /\ \A p \in Calls \cup Data : p \in Bytes
      /\ <<>> \in Bytes /\ {CALL, DATA, CLOSE} \subseteq Type
  BY PayloadAssumption DEF Bytes, Type
<1>. QED  BY <1>1, <1>2, <1>3, <1>4, <1>5 DEF Write

\* A chunk of the pipe goes to the end of the buffer.
LEMMA ReceiveStep ==
  ASSUME TypeOK, Conserved, NEW n \in 1..Len(wire), Receive(n)
  PROVE  TypeOK' /\ Conserved'
<1>1. {buffer, delivered, wire} \subseteq Bytes /\ Len(wire) \in Nat
  BY LenProperties DEF TypeOK, Bytes
<1>2. n \in 0..Len(wire)
  BY <1>1
<1>3. /\ First(wire, n) \in Bytes /\ Rest(wire, n) \in Bytes
      /\ First(wire, n) \o Rest(wire, n) = wire
  BY <1>1, <1>2, Split
<1>4. buffer' \in Bytes /\ wire' \in Bytes
  BY <1>1, <1>3, ConcatProperties DEF Receive, Bytes
<1>5. (delivered \o (buffer \o First(wire, n))) \o Rest(wire, n)
        = ((delivered \o buffer) \o First(wire, n)) \o Rest(wire, n)
  <2>1. buffer \in Bytes /\ delivered \in Bytes
    BY <1>1
  <2>. QED  BY <1>3, <2>1, Concat, ZenonT(60)
<1>6. ((delivered \o buffer) \o First(wire, n)) \o Rest(wire, n)
        = (delivered \o buffer) \o (First(wire, n) \o Rest(wire, n))
  <2>1. delivered \o buffer \in Bytes
    BY <1>1, ConcatProperties DEF Bytes
  <2>. QED  BY <1>3, <2>1, Concat, Zenon
<1>7. Conserved'
  BY <1>3, <1>5, <1>6 DEF Conserved, Receive, senderVars
<1>. QED  BY <1>4, <1>7 DEF Receive, senderVars, TypeOK, Bytes

\* A frame taken from the buffer, spelled out again, is what stood there.
LEMMA DispatchSpells ==
  ASSUME buffer \in Bytes, Complete
  PROVE  /\ FrameSize \in 0..Len(buffer) /\ [type |-> FrameType, payload |-> Payload] \in Frame
         /\ Encode(FrameType, Payload) = First(buffer, FrameSize)
<1>1. /\ FoundAt(1) /\ Len(buffer) >= HEADER_SIZE /\ Len(buffer) >= FrameSize /\ FrameType \in Type
  BY DEF Complete, HasHeader, Plausible
<1>2. Len(buffer) \in Nat /\ \A i \in 1..Len(buffer) : buffer[i] \in Nat
  BY LenProperties, ElementOfSeq DEF Bytes
<1>3. Length \in Nat
  <2>1. Len(Magic) + 2 \in 1..Len(buffer)
    BY <1>1, <1>2, Numbers
  <2>. QED  BY <1>2, <2>1 DEF Length
<1>4. HEADER_SIZE \in Nat /\ FrameSize = HEADER_SIZE + Length /\ FrameSize \in 0..Len(buffer)
  BY <1>1, <1>2, <1>3, Numbers DEF FrameSize
<1>5. /\ Payload \in Seq(Nat) /\ Len(Payload) = Length
      /\ \A i \in 1..Length : Payload[i] = buffer[HEADER_SIZE + i]
  <2> DEFINE lo == HEADER_SIZE + 1
             hi == FrameSize
             pay == SubSeq(buffer, lo, hi)
  <2>1. lo \in Int /\ hi \in Int /\ \A i \in lo..hi : buffer[i] \in Nat
    <3>1. \A i \in lo..hi : i \in 1..Len(buffer)
      BY <1>2, <1>4
    <3>. QED  BY <1>2, <1>4, <3>1
  <2>2. hi - lo + 1 = Length /\ (lo <= hi <=> Length >= 1) /\ \A i \in 1..Length : lo + i - 1 = HEADER_SIZE + i
    BY <1>3, <1>4
  <2> HIDE DEF lo, hi
  <2>3. /\ pay \in Seq(Nat) /\ Len(pay) = IF lo <= hi THEN hi - lo + 1 ELSE 0
        /\ \A i \in 1..(hi - lo + 1) : pay[i] = buffer[lo + i - 1]
    BY <2>1, SubSeqProperties
  <2>4. Len(pay) = Length /\ \A i \in 1..Length : pay[i] = buffer[lo + i - 1]
    <3> HIDE DEF pay
    <3>. QED  BY <1>3, <2>1, <2>2, <2>3
  <2> HIDE DEF pay
  <2>5. pay \in Seq(Nat) /\ Len(pay) = Length /\ \A i \in 1..Length : pay[i] = buffer[HEADER_SIZE + i]
    BY <2>2, <2>3, <2>4
  <2>. QED  BY <2>5 DEF Payload, pay, lo, hi
<1>6. PICK f : f = [type |-> FrameType, payload |-> Payload]
  OBVIOUS
<1>7. f \in Frame /\ f.type = FrameType /\ f.payload = Payload /\ Load(f) = Length
  BY <1>1, <1>5, <1>6 DEF Frame, Load
<1>8. Size(f) = FrameSize /\ Code(f) = Encode(FrameType, Payload)
  BY <1>4, <1>7 DEF Size, Code
<1>9. /\ Code(f) \in Bytes /\ Len(Code(f)) = FrameSize
      /\ \A i \in 1..Len(Magic) : Code(f)[i] = Magic[i]
      /\ Code(f)[Len(Magic) + 1] = FrameType /\ Code(f)[Len(Magic) + 2] = Length
      /\ \A i \in 1..Length : Code(f)[HEADER_SIZE + i] = Payload[i]
  BY <1>7, <1>8, CodeFacts
<1>10. \A i \in 1..Len(Magic) : buffer[i] = Magic[i]
  <2>1. MagicAt(buffer, 1)
    BY <1>1 DEF FoundAt
  <2>2. 1 + Len(Magic) - 1 <= Len(buffer) /\ \A i \in 1..Len(Magic) : 1 + i - 1 = i
    BY <1>1, <1>2, Numbers
  <2>3. Spelled(buffer, 1)
    BY <2>1, <2>2, MagicSpelled
  <2>. QED  BY <2>2, <2>3 DEF Spelled
<1>11. ASSUME NEW i \in 1..FrameSize PROVE Code(f)[i] = buffer[i]
  <2>1. CASE i \in 1..Len(Magic)
    BY <1>9, <1>10, <2>1
  <2>2. CASE i = Len(Magic) + 1
    BY <1>9, <2>2 DEF FrameType
  <2>3. CASE i = Len(Magic) + 2
    BY <1>9, <2>3 DEF Length
  <2>4. CASE i > Len(Magic) + 2
    <3>1. PICK j : j = i - HEADER_SIZE
      OBVIOUS
    <3>2. j \in 1..Length /\ i = HEADER_SIZE + j
      BY <1>3, <1>4, <2>4, <3>1, Numbers
    <3>. QED  BY <1>5, <1>9, <3>2
  <2>. QED  BY <1>4, <2>1, <2>2, <2>3, <2>4, Numbers
<1>12. PICK h : h = First(buffer, FrameSize)
  OBVIOUS
<1>13. h \in Bytes /\ Len(h) = FrameSize /\ \A i \in 1..FrameSize : h[i] = buffer[i]
  BY <1>4, <1>12, Pieces
<1>14. Code(f) = h
  <2>1. PICK c : c = Code(f)
    OBVIOUS
  <2>2. c \in Seq(Nat) /\ h \in Seq(Nat) /\ Len(c) = Len(h) /\ \A i \in 1..Len(c) : c[i] = h[i]
    BY <1>9, <1>11, <1>13, <2>1 DEF Bytes
  <2>3. c = h
    BY <2>2, SeqEqual
  <2>. QED  BY <2>1, <2>3
<1>. QED  BY <1>4, <1>6, <1>7, <1>8, <1>12, <1>14

\* One iteration of onData.
LEMMA ScanStep == TypeOK /\ Conserved /\ Scan => TypeOK' /\ Conserved'
<1> SUFFICES ASSUME TypeOK, Conserved, Scan PROVE TypeOK' /\ Conserved'
  OBVIOUS
<1>1. /\ buffer \in Bytes /\ Len(buffer) \in Nat
      /\ Magic \in Bytes /\ Len(Magic) \in Nat \ {0} /\ scanning \in BOOLEAN
  BY MagicAssumption, LenProperties DEF TypeOK, Bytes
<1>2. CASE NoMagic
  <2> DEFINE n == IF Len(buffer) < Len(Magic) THEN 0 ELSE Len(buffer) - (Len(Magic) - 1)
  <2>1. n \in 0..Len(buffer)
    BY <1>1
  <2>2. PassOn(n) /\ UNCHANGED <<wire, senderVars>> /\ scanning' \in BOOLEAN
    BY <1>2 DEF NoMagic
  <2> HIDE DEF n
  <2>. QED  BY <2>1, <2>2, PassOnMoves
<1>3. CASE SkipToMagic
  <2>1. PICK i \in 2..Len(buffer) : PassOn(i - 1)
    BY <1>3 DEF SkipToMagic
  <2>2. i - 1 \in 0..Len(buffer)
    BY <1>1
  <2>. QED  BY <1>1, <1>3, <2>1, <2>2, PassOnMoves DEF SkipToMagic
<1>4. CASE AwaitMore
  BY <1>4 DEF AwaitMore, TypeOK, Conserved, senderVars, scanVars
<1>5. CASE Resync
  <2>1. Len(Magic) \in 0..Len(buffer)
    BY <1>1, <1>5 DEF Resync, HasHeader, HEADER_SIZE
  <2>. QED  BY <1>1, <1>5, <2>1, PassOnMoves DEF Resync
<1>6. CASE Dispatch
  <2>1. Complete
    BY <1>6 DEF Dispatch
  <2>2. /\ FrameSize \in 0..Len(buffer) /\ [type |-> FrameType, payload |-> Payload] \in Frame
        /\ Encode(FrameType, Payload) = First(buffer, FrameSize)
    BY <1>1, <2>1, DispatchSpells
  <2>3. frames' \in Seq(Frame)
    BY <1>6, <2>2, AppendProperties DEF Dispatch, TypeOK
  <2>4. Moves(FrameSize) /\ UNCHANGED <<wire, written>>
    BY <1>6, <2>2 DEF Dispatch, Moves, senderVars
  <2>5. Conserved' /\ buffer' \in Bytes /\ delivered' \in Bytes
    BY <2>2, <2>4, MovesKeep
  <2>. QED  BY <1>6, <2>3, <2>5 DEF Dispatch, TypeOK, senderVars, Bytes
<1>. QED  BY <1>2, <1>3, <1>4, <1>5, <1>6 DEF Scan

LEMMA Initially == Init => TypeOK /\ Conserved
<1> SUFFICES ASSUME Init PROVE TypeOK /\ Conserved
  OBVIOUS
<1>1. <<>> \in Bytes /\ <<>> \in Seq(Frame) /\ <<>> \o <<>> = <<>>
  BY EmptySeq, ConcatEmptySeq DEF Bytes
<1>2. Conserved
  BY <1>1, Zenon DEF Init, Conserved
<1>3. TypeOK
  <2>1. /\ wire \in Bytes /\ buffer \in Bytes /\ output \in Bytes /\ sentOutput \in Bytes
        /\ written \in Bytes /\ delivered \in Bytes /\ text \in Bytes
        /\ frames \in Seq(Frame) /\ sentFrames \in Seq(Frame)
    BY <1>1, Zenon DEF Init
  <2>2. items \in 0..MaxItems /\ {scanning, coincidence} \subseteq BOOLEAN /\ stream \in {"whole", "torn", "mixed"}
    <3>1. items = 0 /\ stream = "whole" /\ scanning = FALSE /\ coincidence = FALSE
      BY Zenon DEF Init
    <3>2. items \in 0..MaxItems
      BY <3>1, BoundAssumption
    <3>3. {scanning, coincidence} \subseteq BOOLEAN /\ stream \in {"whole", "torn", "mixed"}
      BY <3>1, Zenon
    <3>. QED  BY <3>2, <3>3
  <2>. QED  BY <2>1, <2>2 DEF TypeOK, Bytes
<1>. QED  BY <1>2, <1>3

LEMMA Step == TypeOK /\ Conserved /\ [Next]_vars => TypeOK' /\ Conserved'
<1> SUFFICES ASSUME TypeOK, Conserved, [Next]_vars PROVE TypeOK' /\ Conserved'
  OBVIOUS
<1>1. CASE Next
  BY <1>1, WriteStep, ReceiveStep, ScanStep DEF Next
<1>2. CASE UNCHANGED vars
  BY <1>2 DEF vars, senderVars, scanVars, TypeOK, Conserved
<1>. QED  BY <1>1, <1>2

\* Frames and bytes keep their types: a header that passes the check of onData
\* names a known type, and its payload lies within the buffer.
THEOREM TypeCorrect == Spec => []TypeOK
<1>. QED  BY Initially, Step, PTL DEF Spec

\* Whatever the stream holds and however it is cut into chunks: what onPassthrough and
\* the handlers of frames were given, call after call, then the buffer, then the pipe,
\* are what was written.  No byte leaves the buffer but to one of them, and a frame is
\* made of the bytes that stood there.
THEOREM ConservedHolds == Spec => []Conserved
<1>. QED  BY Initially, Step, PTL DEF Spec

-------------------------------------------------------------------------------
(* What the reader finds in the buffer *)

\* The number of frames sent.
Sent == Len(sentFrames)

\* f, or the beginning of it that has been written, stands at e.
Begins(e, f) == \A i \in 1..Size(f) : e + i - 1 <= Len(written) => written[e + i - 1] = Code(f)[i]

\* What stands at e, if anything does, begins with the first byte of the magic.
Heads(e) == e <= Len(written) => written[e] = Magic[1]

\* A magic before e, whose header does not lie before e, says what no header says.
Harmless(b, e) ==
  \A p \in b..e : p + Len(Magic) + 1 < e /\ Spelled(written, p) =>
    ~(written[p + Len(Magic)] \in Type /\ written[p + Len(Magic) + 1] <= MaxFrame)

\* The buffer is the stretch of the stream after what was delivered.
LEMMA BufferFacts ==
  ASSUME TypeOK, Conserved
  PROVE  /\ buffer \in Bytes /\ written \in Bytes /\ output \in Bytes /\ sentOutput \in Bytes
         /\ delivered \in Bytes /\ wire \in Bytes
         /\ Len(buffer) \in Nat /\ Len(delivered) \in Nat /\ Len(wire) \in Nat /\ Len(written) \in Nat
         /\ Len(written) = Len(delivered) + Len(buffer) + Len(wire)
         /\ \A i \in 1..Len(buffer) : buffer[i] = written[Len(delivered) + i]
<1>1. /\ buffer \in Seq(Nat) /\ written \in Seq(Nat) /\ output \in Seq(Nat) /\ sentOutput \in Seq(Nat)
      /\ delivered \in Seq(Nat) /\ wire \in Seq(Nat)
  BY DEF TypeOK
<1>2. Len(buffer) \in Nat /\ Len(delivered) \in Nat /\ Len(wire) \in Nat /\ Len(written) \in Nat
  BY <1>1, LenProperties
<1> DEFINE m == delivered \o buffer
<1>3. /\ m \in Seq(Nat) /\ Len(m) = Len(delivered) + Len(buffer)
      /\ \A i \in 1..(Len(delivered) + Len(buffer)) :
           m[i] = IF i <= Len(delivered) THEN delivered[i] ELSE buffer[i - Len(delivered)]
  BY <1>1, ConcatProperties
<1>4. written = m \o wire
  BY DEF Conserved
<1> HIDE DEF m
<1>5. /\ Len(written) = Len(m) + Len(wire)
      /\ \A i \in 1..(Len(m) + Len(wire)) : written[i] = IF i <= Len(m) THEN m[i] ELSE wire[i - Len(m)]
  <2> DEFINE c == m \o wire
  <2>1. /\ Len(c) = Len(m) + Len(wire)
        /\ \A i \in 1..(Len(m) + Len(wire)) : c[i] = IF i <= Len(m) THEN m[i] ELSE wire[i - Len(m)]
    <3>1. m \in Seq(Nat) /\ wire \in Seq(Nat)
      BY <1>1, <1>3
    <3>. QED  BY <3>1, ConcatProperties
  <2>2. written = c
    BY <1>4
  <2> HIDE DEF c
  <2>. QED  BY <2>1, <2>2
<1>6. ASSUME NEW i \in 1..Len(buffer) PROVE buffer[i] = written[Len(delivered) + i]
  <2>1. /\ Len(delivered) + i \in 1..(Len(delivered) + Len(buffer))
        /\ Len(delivered) + i \in 1..(Len(m) + Len(wire)) /\ Len(delivered) + i <= Len(m)
        /\ ~(Len(delivered) + i <= Len(delivered)) /\ (Len(delivered) + i) - Len(delivered) = i
    BY <1>2, <1>3
  <2>. QED  BY <1>3, <1>5, <2>1
<1>7. Len(written) = Len(delivered) + Len(buffer) + Len(wire)
  BY <1>3, <1>5
<1>. QED  BY <1>1, <1>2, <1>6, <1>7 DEF Bytes

\* As a frame does, or the beginning of one.
LEMMA BeginsHeads ==
  ASSUME NEW e \in Nat, NEW f \in Frame, Begins(e, f)
  PROVE  Heads(e)
<1>1. 1 \in 1..Size(f) /\ e + 1 - 1 = e /\ 1 \in 1..Len(Magic)
  BY LoadFacts, Numbers
<1>2. e <= Len(written) => written[e] = Code(f)[1]
  BY <1>1 DEF Begins
<1>. QED  BY <1>1, <1>2, CodeFacts DEF Heads

\* The bytes of the magic are distinct: no magic before e reaches into what stands at e.
LEMMA Ahead ==
  ASSUME Len(written) \in Nat, NEW e \in Nat, Heads(e), NEW p \in Nat, p < e,
         Spelled(written, p), p + Len(Magic) - 1 <= Len(written)
  PROVE  p + Len(Magic) <= e
<1> SUFFICES ASSUME p + Len(Magic) > e PROVE FALSE
  BY Numbers
<1> DEFINE i == e - p + 1
<1>1. i \in 1..Len(Magic) /\ i # 1 /\ p + i - 1 = e /\ e <= Len(written) /\ 1 \in 1..Len(Magic)
  BY Numbers
<1>2. written[e] = Magic[i]
  BY <1>1 DEF Spelled
<1>3. written[e] = Magic[1]
  BY <1>1 DEF Heads
<1> HIDE DEF i
<1>. QED  BY <1>1, <1>2, <1>3, MagicAssumption

\* Nor does its header, if it is one.
LEMMA Unlikely ==
  ASSUME Len(written) \in Nat, NEW e \in Nat, Heads(e), NEW b \in Nat, Harmless(b, e),
         NEW p \in Nat, b <= p, p < e,
         Spelled(written, p), p + Len(Magic) + 1 <= Len(written)
  PROVE  ~(written[p + Len(Magic)] \in Type /\ written[p + Len(Magic) + 1] <= MaxFrame)
<1>1. p + Len(Magic) <= e
  BY Ahead, Numbers
<1>2. Magic[1] \in Nat
  BY MagicBytes, Numbers
<1>3. CASE p + Len(Magic) = e
  <2>1. written[p + Len(Magic)] = Magic[1]
    BY <1>3, Numbers DEF Heads
  <2>. QED  BY <2>1, HeaderAssumption
<1>4. CASE p + Len(Magic) + 1 = e
  <2>1. written[p + Len(Magic) + 1] = Magic[1]
    BY <1>4, Numbers DEF Heads
  <2>. QED  BY <1>2, <2>1, HeaderAssumption, TypeNumbers
<1>5. CASE p + Len(Magic) + 1 < e
  BY <1>5 DEF Harmless
<1>6. \/ p + Len(Magic) = e \/ p + Len(Magic) + 1 = e \/ p + Len(Magic) + 1 < e
  BY <1>1, Numbers
<1>. QED  BY <1>3, <1>4, <1>5, <1>6

\* Where the magic is looked for.
LEMMA MagicInBuffer ==
  ASSUME TypeOK, Conserved, NEW i \in Nat, i >= 1, i + Len(Magic) - 1 <= Len(buffer)
  PROVE  MagicAt(buffer, i) <=> Spelled(written, Len(delivered) + i)
<1>1. MagicAt(buffer, i) <=> Spelled(buffer, i)
  BY BufferFacts, MagicSpelled
<1>2. ASSUME NEW j \in 1..Len(Magic) PROVE buffer[i + j - 1] = written[Len(delivered) + i + j - 1]
  <2>1. i + j - 1 \in 1..Len(buffer) /\ Len(delivered) + (i + j - 1) = Len(delivered) + i + j - 1
    BY BufferFacts, Numbers
  <2>2. buffer[i + j - 1] = written[Len(delivered) + (i + j - 1)]
    BY <2>1, BufferFacts
  <2>. QED  BY <2>1, <2>2
<1>. QED  BY <1>1, <1>2 DEF Spelled

\* What indexOf(MAGIC) says of the buffer.
LEMMA FoundFacts ==
  ASSUME TypeOK, Conserved
  PROVE  /\ \A i : FoundAt(i) => /\ i \in Nat /\ i >= 1 /\ i + Len(Magic) - 1 <= Len(buffer)
                                 /\ MagicAt(buffer, i)
                                 /\ \A j \in 1..(i - 1) : ~MagicAt(buffer, j)
         /\ ~Found => \A i \in 1..(Len(buffer) - Len(Magic) + 1) : ~MagicAt(buffer, i)
<1>0. Len(buffer) \in Nat
  BY BufferFacts
<1>1. ASSUME NEW i, FoundAt(i)
      PROVE  /\ i \in Nat /\ i >= 1 /\ i + Len(Magic) - 1 <= Len(buffer)
             /\ MagicAt(buffer, i)
             /\ \A j \in 1..(i - 1) : ~MagicAt(buffer, j)
  BY <1>0, <1>1, Numbers DEF FoundAt
<1>2. ASSUME ~Found, NEW i \in 1..(Len(buffer) - Len(Magic) + 1), MagicAt(buffer, i) PROVE FALSE
  <2> DEFINE T == {j \in 1..(Len(buffer) - Len(Magic) + 1) : MagicAt(buffer, j)}
  <2>1. T \in SUBSET (1..Len(buffer)) /\ T # {}
    BY <1>0, <1>2, Numbers
  <2>2. PICK x \in T : \A y \in T : x <= y
    BY <1>0, <2>1, FirstOne
  <2>3. x \in 1..(Len(buffer) - Len(Magic) + 1) /\ MagicAt(buffer, x) /\ x \in 1..Len(buffer)
    BY <1>0, <2>1, <2>2, Numbers
  <2>4. ASSUME NEW j \in 1..(x - 1), MagicAt(buffer, j) PROVE FALSE
    <3>1. j \in T /\ ~(x <= j)
      BY <1>0, <2>3, <2>4, Numbers
    <3>. QED  BY <2>2, <3>1
  <2>. QED  BY <1>2, <2>3, <2>4 DEF Found, FoundAt
<1>. QED  BY <1>1, <1>2

\* What the header in the buffer says.
LEMMA HeaderFacts ==
  ASSUME TypeOK, Conserved, HasHeader
  PROVE  /\ FoundAt(1) /\ Len(buffer) >= Len(Magic) + 2
         /\ Spelled(written, Len(delivered) + 1)
         /\ FrameType = written[Len(delivered) + 1 + Len(Magic)]
         /\ Length = written[Len(delivered) + 1 + Len(Magic) + 1]
         /\ FrameType \in Nat /\ Length \in Nat
<1>1. FoundAt(1) /\ Len(buffer) >= Len(Magic) + 2
  BY DEF HasHeader, HEADER_SIZE
<1>2. Spelled(written, Len(delivered) + 1)
  BY <1>1, FoundFacts, MagicInBuffer, Numbers
<1>3. /\ Len(Magic) + 1 \in 1..Len(buffer) /\ Len(Magic) + 2 \in 1..Len(buffer)
      /\ Len(delivered) + (Len(Magic) + 1) = Len(delivered) + 1 + Len(Magic)
      /\ Len(delivered) + (Len(Magic) + 2) = Len(delivered) + 1 + Len(Magic) + 1
  BY <1>1, BufferFacts, Numbers
<1>4. /\ buffer[Len(Magic) + 1] = written[Len(delivered) + 1 + Len(Magic)]
      /\ buffer[Len(Magic) + 2] = written[Len(delivered) + 1 + Len(Magic) + 1]
  BY <1>3, BufferFacts
<1>5. buffer[Len(Magic) + 1] \in Nat /\ buffer[Len(Magic) + 2] \in Nat
  BY <1>3, BufferFacts, ElementOfSeq DEF Bytes
<1>. QED  BY <1>1, <1>2, <1>4, <1>5 DEF FrameType, Length

\* What the parser sees when a frame, or the beginning of one, stands at the head of
\* the buffer, and when something else does.
LEMMA AtFrame ==
  ASSUME TypeOK, Conserved, NEW f \in Good, Begins(Len(delivered) + 1, f), HasHeader
  PROVE  /\ Plausible /\ FrameType = f.type /\ Length = Load(f) /\ FrameSize = Size(f)
         /\ Len(buffer) >= FrameSize => Payload = f.payload
<1> DEFINE e == Len(delivered) + 1
           b == buffer
<1>1. f \in Frame /\ Load(f) <= MaxFrame
  BY DEF Good, Load
<1>2. /\ Len(b) \in Nat /\ Len(delivered) \in Nat /\ Len(written) \in Nat
      /\ Len(delivered) + Len(b) <= Len(written) /\ Len(b) >= Len(Magic) + 2
  BY BufferFacts, HeaderFacts
<1>3. /\ Len(Magic) + 1 \in 1..Size(f) /\ Len(Magic) + 2 \in 1..Size(f)
      /\ e + (Len(Magic) + 1) - 1 = Len(delivered) + 1 + Len(Magic)
      /\ e + (Len(Magic) + 2) - 1 = Len(delivered) + 1 + Len(Magic) + 1
      /\ Len(delivered) + 1 + Len(Magic) + 1 <= Len(written) /\ Len(delivered) + 1 + Len(Magic) <= Len(written)
  BY <1>1, <1>2, LoadFacts, Numbers
<1>4. /\ written[Len(delivered) + 1 + Len(Magic)] = Code(f)[Len(Magic) + 1]
      /\ written[Len(delivered) + 1 + Len(Magic) + 1] = Code(f)[Len(Magic) + 2]
  BY <1>3 DEF Begins
<1>5. FrameType = f.type /\ Length = Load(f)
  BY <1>1, <1>4, HeaderFacts, CodeFacts
<1>6. Plausible
  BY <1>1, <1>5, LoadFacts DEF Plausible
<1>7. FrameSize = Size(f)
  BY <1>5 DEF FrameSize, Size
<1>8. ASSUME Len(buffer) >= FrameSize PROVE Payload = f.payload
  <2>1. /\ Load(f) \in Nat /\ HEADER_SIZE \in Nat /\ FrameSize = HEADER_SIZE + Load(f) /\ Len(b) >= FrameSize
        /\ f.payload \in Seq(Nat) /\ Len(f.payload) = Load(f)
    <3>1. Load(f) \in Nat /\ HEADER_SIZE \in Nat
      BY <1>1, LoadFacts, Numbers DEF HEADER_SIZE
    <3>. QED  BY <1>1, <1>7, <1>8, <3>1, LoadFacts DEF Bytes, Size, Load
  <2> DEFINE lo == HEADER_SIZE + 1
             hi == FrameSize
             pay == SubSeq(buffer, lo, hi)
  <2>2. lo \in Int /\ hi \in Int /\ \A i \in lo..hi : buffer[i] \in Nat
    <3>1. \A i \in lo..hi : i \in 1..Len(buffer)
      BY <1>2, <2>1
    <3>2. \A i \in 1..Len(buffer) : buffer[i] \in Nat
      BY BufferFacts, ElementOfSeq DEF Bytes
    <3>. QED  BY <2>1, <3>1, <3>2
  <2>3. hi - lo + 1 = Load(f) /\ (lo <= hi <=> Load(f) >= 1)
    BY <2>1
  <2> HIDE DEF lo, hi
  <2>4. /\ pay \in Seq(Nat) /\ Len(pay) = IF lo <= hi THEN hi - lo + 1 ELSE 0
        /\ \A i \in 1..(hi - lo + 1) : pay[i] = buffer[lo + i - 1]
    BY <2>2, SubSeqProperties
  <2>5. Len(pay) = Load(f) /\ \A i \in 1..Load(f) : pay[i] = buffer[lo + i - 1]
    <3> HIDE DEF pay
    <3>. QED  BY <2>1, <2>3, <2>4
  <2>6. ASSUME NEW i \in 1..Load(f) PROVE buffer[lo + i - 1] = f.payload[i]
    <3>1. /\ HEADER_SIZE + i \in 1..Len(buffer) /\ lo + i - 1 = HEADER_SIZE + i
          /\ HEADER_SIZE + i \in 1..Size(f) /\ Len(delivered) + (HEADER_SIZE + i) = e + (HEADER_SIZE + i) - 1
          /\ e + (HEADER_SIZE + i) - 1 <= Len(written)
      BY <1>2, <1>7, <2>1 DEF lo
    <3>2. buffer[HEADER_SIZE + i] = written[Len(delivered) + (HEADER_SIZE + i)]
      BY <3>1, BufferFacts
    <3>3. written[e + (HEADER_SIZE + i) - 1] = Code(f)[HEADER_SIZE + i]
      BY <3>1 DEF Begins
    <3>4. Code(f)[HEADER_SIZE + i] = f.payload[i]
      BY <1>1, CodeFacts
    <3>. QED  BY <3>1, <3>2, <3>3, <3>4
  <2>7. Payload = pay
    BY DEF Payload, lo, hi
  <2>8. \A i \in 1..Len(pay) : pay[i] = f.payload[i]
    <3> HIDE DEF pay
    <3>. QED  BY <2>5, <2>6
  <2> HIDE DEF pay
  <2>. QED  BY <2>1, <2>4, <2>5, <2>7, <2>8, SeqEqual
<1>. QED  BY <1>5, <1>6, <1>7, <1>8

\* In the text before a frame: a header is none of a frame, and the magic ends before it.
LEMMA InText ==
  ASSUME TypeOK, Conserved, NEW e \in Nat, Heads(e), NEW b \in Nat, Harmless(b, e),
         b <= Len(delivered) + 1, Len(delivered) + 1 < e
  PROVE  /\ HasHeader => ~Plausible
         /\ FoundAt(1) => Len(delivered) + Len(Magic) < e
<1>0. Len(delivered) \in Nat /\ Len(written) \in Nat /\ Len(buffer) \in Nat /\ Len(delivered) + Len(buffer) <= Len(written)
  BY BufferFacts
<1>1. ASSUME HasHeader PROVE ~Plausible
  <2>1. Len(delivered) + 1 + Len(Magic) + 1 <= Len(written) /\ Len(delivered) + 1 \in Nat
    BY <1>0, <1>1, HeaderFacts, Numbers
  <2>2. ~(written[Len(delivered) + 1 + Len(Magic)] \in Type /\ written[Len(delivered) + 1 + Len(Magic) + 1] <= MaxFrame)
    BY <1>0, <1>1, <2>1, HeaderFacts, Unlikely
  <2>. QED  BY <1>1, <2>2, HeaderFacts DEF Plausible
<1>2. ASSUME FoundAt(1) PROVE Len(delivered) + Len(Magic) < e
  <2>1. /\ 1 + Len(Magic) - 1 <= Len(buffer) /\ Spelled(written, Len(delivered) + 1)
    BY <1>2, FoundFacts, MagicInBuffer, Numbers
  <2>2. Len(delivered) + 1 \in Nat /\ (Len(delivered) + 1) + Len(Magic) - 1 <= Len(written)
    BY <1>0, <2>1, Numbers
  <2>3. (Len(delivered) + 1) + Len(Magic) <= e
    BY <1>0, <2>1, <2>2, Ahead
  <2>. QED  BY <1>0, <2>3, Numbers
<1>. QED  BY <1>1, <1>2

-------------------------------------------------------------------------------
(* Where things stand in the stream *)

\* The k-th frame sent ends before B[k], its text after it lies in B[k]..E[k]-1, and G[k]
\* bytes of frames come before that.
Places(B, E, G) ==
  /\ \A k \in 0..Sent : /\ B[k] <= E[k] /\ G[k] < B[k]
                        /\ E[k] <= Len(written) + 1 /\ E[k] - G[k] <= Len(sentOutput) + 1
  /\ \A k \in 0..(Sent - 1) : /\ B[k + 1] = E[k] + Size(sentFrames[k + 1])
                              /\ G[k + 1] = G[k] + Size(sentFrames[k + 1])
  /\ E[Sent] - G[Sent] = Len(sentOutput) + 1
  /\ stream = "whole" => E[Sent] = Len(written) + 1

\* The frames stand where the text before them ends.  After the last text there is nothing
\* but the beginning of one, and what was written behind that.
Spans(E) ==
  /\ \A k \in 0..(Sent - 1) : sentFrames[k + 1] \in Good /\ Begins(E[k], sentFrames[k + 1])
  /\ stream # "mixed" => \E f \in Good : Begins(E[Sent], f) /\ E[Sent] + Size(f) > Len(written) + 1
  /\ stream # "whole" => E[Sent] <= Len(written) /\ written[E[Sent]] = Magic[1]

\* Between them stands the output.
Texts(B, E, G) ==
  \A k \in 0..Sent : \A p \in B[k]..(E[k] - 1) : written[p] = sentOutput[p - G[k]]

\* None of it looks like the start of a frame.
Quiet(B, E) == \A k \in 0..Sent : Harmless(B[k], E[k])

\* text is the last of it.
LastText(B, E) ==
  /\ Len(text) = E[Sent] - B[Sent]
  /\ \A i \in 1..Len(text) : text[i] = written[B[Sent] + i - 1]

\* The stream.
Layout(B, E, G) ==
  Places(B, E, G) /\ Spans(E) /\ Texts(B, E, G) /\ Quiet(B, E) /\ LastText(B, E)

\* How far the reader has come.
Position(B, E, G) ==
  /\ Len(frames) <= Sent
  /\ \A k \in 1..Len(frames) : frames[k] = sentFrames[k]
  /\ B[Len(frames)] <= Len(delivered) + 1 /\ Len(delivered) + 1 <= E[Len(frames)]
  /\ Len(output) = Len(delivered) - G[Len(frames)]
  /\ \A i \in 1..Len(output) : output[i] = sentOutput[i]

\* A position or a count for each frame.
Marks == [0..Sent -> Nat]
\* The frames dispatched and the bytes passed on are those before the reader.
Placed == \E B, E, G \in Marks : Layout(B, E, G) /\ Position(B, E, G)

\* More was written behind a torn frame, and the reader has come there: what was sent
\* ahead of it was dispatched and passed on first.
Past ==
  /\ stream = "mixed"
  /\ Sent <= Len(frames) /\ \A k \in 1..Sent : frames[k] = sentFrames[k]
  /\ Len(sentOutput) <= Len(output) /\ \A i \in 1..Len(sentOutput) : output[i] = sentOutput[i]

\* One or the other.
Exact == Placed \/ Past

\* What stands behind the text the reader is in can be told: it is a frame, or the
\* beginning of one and nothing else.
Told == Len(frames) # Sent \/ stream # "mixed"

\* Lengths are numbers.
LEMMA Counts ==
  ASSUME TypeOK
  PROVE  /\ Sent \in Nat /\ Len(frames) \in Nat /\ Len(text) \in Nat /\ Len(output) \in Nat
         /\ Len(sentOutput) \in Nat /\ Len(written) \in Nat /\ Len(delivered) \in Nat /\ Len(buffer) \in Nat
         /\ \A k \in 1..Sent : sentFrames[k] \in Frame
         /\ \A k \in 1..Len(frames) : frames[k] \in Frame
<1>1. /\ frames \in Seq(Frame) /\ sentFrames \in Seq(Frame)
      /\ text \in Seq(Nat) /\ output \in Seq(Nat) /\ sentOutput \in Seq(Nat) /\ written \in Seq(Nat)
      /\ delivered \in Seq(Nat) /\ buffer \in Seq(Nat)
  BY DEF TypeOK
<1>. QED  BY <1>1, LenProperties, ElementOfSeq DEF Sent

\* The numbers of one segment, and of the last.
LEMMA Ends ==
  ASSUME TypeOK, NEW B \in Marks, NEW E \in Marks, NEW G \in Marks, Layout(B, E, G)
  PROVE  /\ \A k \in 0..Sent : /\ B[k] \in Nat /\ E[k] \in Nat /\ G[k] \in Nat /\ B[k] <= E[k] /\ G[k] < B[k]
                               /\ E[k] <= Len(written) + 1 /\ E[k] - G[k] <= Len(sentOutput) + 1
         /\ Sent \in 0..Sent
         /\ E[Sent] - G[Sent] = Len(sentOutput) + 1
         /\ stream = "whole" => E[Sent] = Len(written) + 1
<1>1. ASSUME NEW k \in 0..Sent
      PROVE  /\ B[k] \in Nat /\ E[k] \in Nat /\ G[k] \in Nat /\ B[k] <= E[k] /\ G[k] < B[k]
             /\ E[k] <= Len(written) + 1 /\ E[k] - G[k] <= Len(sentOutput) + 1
  <2>1. B[k] \in Nat /\ E[k] \in Nat /\ G[k] \in Nat
    BY DEF Marks
  <2>. QED  BY <2>1 DEF Layout, Places
<1>2. Sent \in 0..Sent
  BY Counts
<1>. QED  BY <1>1, <1>2 DEF Layout, Places

\* What the reader has before it: text up to E[d], then a frame, or a torn one.
LEMMA Before ==
  ASSUME TypeOK, NEW B \in Marks, NEW E \in Marks, NEW G \in Marks,
         Layout(B, E, G), Position(B, E, G)
  PROVE  LET d == Len(frames)
         IN  /\ d \in 0..Sent /\ B[d] \in Nat /\ E[d] \in Nat /\ G[d] \in Nat
             /\ B[d] <= Len(delivered) + 1 /\ Len(delivered) + 1 <= E[d]
             /\ G[d] < B[d] /\ Harmless(B[d], E[d]) /\ Heads(E[d])
             /\ Told => \E f \in Good : /\ Begins(E[d], f)
                                        /\ d # Sent => d + 1 \in 1..Sent /\ f = sentFrames[d + 1]
                                        /\ d = Sent => E[d] + Size(f) > Len(written) + 1
<1> DEFINE d == Len(frames)
<1>1. d \in 0..Sent /\ Sent \in 0..Sent
  BY Counts DEF Position
<1>2. B[d] \in Nat /\ E[d] \in Nat /\ G[d] \in Nat
  BY <1>1 DEF Marks
<1>3. B[d] <= Len(delivered) + 1 /\ Len(delivered) + 1 <= E[d]
  BY DEF Position
<1>4. G[d] < B[d] /\ Harmless(B[d], E[d])
  BY <1>1 DEF Layout, Places, Quiet
<1>5. ASSUME d # Sent
      PROVE  /\ d + 1 \in 1..Sent
             /\ sentFrames[d + 1] \in Good /\ Begins(E[d], sentFrames[d + 1])
  <2>1. d \in 0..(Sent - 1) /\ d + 1 \in 1..Sent
    BY <1>1, <1>5, Counts
  <2>. QED  BY <2>1 DEF Layout, Spans
<1>6. Heads(E[d])
  <2>1. CASE d # Sent
    <3>1. PICK f \in Good : Begins(E[d], f)
      BY <1>5, <2>1
    <3>. QED  BY <1>2, <3>1, BeginsHeads DEF Good
  <2>2. CASE d = Sent /\ stream = "whole"
    <3>1. E[d] = Len(written) + 1
      BY <2>2 DEF Layout, Places
    <3>2. ~(E[d] <= Len(written))
      BY <3>1, Counts
    <3>. QED  BY <3>2 DEF Heads
  <2>3. CASE d = Sent /\ stream # "whole"
    BY <2>3 DEF Layout, Spans, Heads
  <2>. QED  BY <2>1, <2>2, <2>3
<1>7. ASSUME Told
      PROVE  \E f \in Good : /\ Begins(E[d], f)
                             /\ d # Sent => d + 1 \in 1..Sent /\ f = sentFrames[d + 1]
                             /\ d = Sent => E[d] + Size(f) > Len(written) + 1
  <2>1. CASE d = Sent
    BY <1>7, <2>1 DEF Layout, Spans, Told
  <2>2. CASE d # Sent
    BY <1>5, <2>2
  <2>. QED  BY <2>1, <2>2
<1>. QED  BY <1>1, <1>2, <1>3, <1>4, <1>6, <1>7

\* A frame whose magic lies in the buffer is found there.
LEMMA NotPast ==
  ASSUME TypeOK, Conserved, NEW e \in Nat, NEW f \in Frame, Begins(e, f), Len(delivered) + 1 <= e,
         NEW m \in Nat, m + Len(Magic) - 1 <= Len(buffer), \A j \in 1..m : ~MagicAt(buffer, j)
  PROVE  Len(delivered) + m + 1 <= e
<1> SUFFICES ASSUME Len(delivered) + m + 1 > e PROVE FALSE
  BY BufferFacts
<1> DEFINE j == e - Len(delivered)
<1>1. j \in 1..m /\ j \in Nat /\ j >= 1 /\ j + Len(Magic) - 1 <= Len(buffer) /\ Len(delivered) + j = e
  BY BufferFacts, Numbers
<1> HIDE DEF j
<1>2. ASSUME NEW i \in 1..Len(Magic) PROVE written[e + i - 1] = Magic[i]
  <2>1. i \in 1..Size(f) /\ e + i - 1 <= Len(written)
    <3>1. PICK l, z, n, c, w : /\ l = Len(Magic) /\ z = Size(f) /\ n = Len(buffer)
                               /\ c = Len(delivered) /\ w = Len(written)
      OBVIOUS
    <3>2. l \in Nat /\ z \in Nat /\ z >= l
      BY <3>1, LoadFacts, Numbers
    <3>3. n \in Nat /\ c \in Nat /\ w \in Nat /\ c + n <= w
      BY <3>1, BufferFacts
    <3>4. j \in Nat /\ j + l - 1 <= n /\ c + j = e /\ i \in 1..l
      BY <1>1, <3>1
    <3>5. i \in 1..z /\ e + i - 1 <= w
      BY <3>2, <3>3, <3>4
    <3>. QED  BY <3>1, <3>5
  <2>2. written[e + i - 1] = Code(f)[i]
    BY <2>1 DEF Begins
  <2>. QED  BY <2>2, CodeFacts
<1>3. Spelled(written, Len(delivered) + j)
  BY <1>1, <1>2 DEF Spelled
<1>4. MagicAt(buffer, j)
  BY <1>1, <1>3, MagicInBuffer
<1>. QED  BY <1>1, <1>4

-------------------------------------------------------------------------------
(* The reader: output *)

\* onData has returned: no magic but perhaps the beginning of one, or a frame that is
\* not complete.
Idle ==
  ~scanning => \/ Len(buffer) < Len(Magic)
               \/ FoundAt(1) /\ (HasHeader => Plausible /\ Len(buffer) < FrameSize)

\* The writer's side does not see the reader move.
LEMMA LayoutKept ==
  ASSUME NEW B, NEW E, NEW G, Layout(B, E, G), UNCHANGED senderVars
  PROVE  Layout(B, E, G)'
BY DEF Layout, Places, Spans, Texts, Quiet, LastText, Harmless, Spelled, Begins, Sent, senderVars

\* What giving away does to the lengths.
LEMMA MovesLengths ==
  ASSUME TypeOK, NEW n \in 0..Len(buffer), Moves(n)
  PROVE  /\ Len(delivered') = Len(delivered) + n
         /\ First(buffer, n) \in Seq(Nat) /\ Len(First(buffer, n)) = n
         /\ \A i \in 1..n : First(buffer, n)[i] = buffer[i]
         /\ Rest(buffer, n) \in Seq(Nat) /\ Len(Rest(buffer, n)) = Len(buffer) - n
<1> DEFINE h == First(buffer, n)
<1>1. buffer \in Bytes /\ delivered \in Seq(Nat)
  BY DEF TypeOK, Bytes
<1>2. /\ h \in Seq(Nat) /\ Len(h) = n
      /\ \A i \in 1..n : h[i] = buffer[i]
      /\ Rest(buffer, n) \in Seq(Nat) /\ Len(Rest(buffer, n)) = Len(buffer) - n
  BY <1>1, Pieces DEF Bytes
<1>3. Len(delivered') = Len(delivered) + n
  <2> HIDE DEF h
  <2> DEFINE c == delivered \o h
  <2>1. Len(c) = Len(delivered) + Len(h)
    BY <1>1, <1>2, ConcatProperties
  <2>2. delivered' = c
    BY DEF Moves, h
  <2> HIDE DEF c
  <2>. QED  BY <1>2, <2>1, <2>2
<1>. QED  BY <1>2, <1>3

\* Bytes passed on before the next frame are the next ones of the output.
LEMMA PassOnKeeps ==
  ASSUME TypeOK, Conserved, NEW B \in Marks, NEW E \in Marks, NEW G \in Marks,
         Layout(B, E, G), Position(B, E, G), UNCHANGED senderVars,
         NEW n \in 0..Len(buffer), PassOn(n), Len(delivered) + n + 1 <= E[Len(frames)]
  PROVE  Layout(B, E, G)' /\ Position(B, E, G)'
<1> DEFINE d == Len(frames)
           c == Len(delivered)
           h == First(buffer, n)
           b == B[d]
           e == E[d]
           g == G[d]
<1>1. Layout(B, E, G)'
  BY LayoutKept
<1>2. d \in 0..Sent /\ b \in Nat /\ e \in Nat /\ g \in Nat /\ b <= c + 1 /\ g < b /\ c + n + 1 <= e
  BY Before
<1>3. frames' = frames /\ output' = output \o h /\ Sent' = Sent /\ sentFrames' = sentFrames /\ sentOutput' = sentOutput
  BY DEF PassOn, Sent, senderVars
<1>4. /\ Len(delivered') = c + n /\ h \in Seq(Nat) /\ Len(h) = n
      /\ \A i \in 1..n : h[i] = buffer[i]
  BY MovesLengths DEF PassOn, Moves
<1>5. /\ output \in Seq(Nat) /\ Len(output) \in Nat /\ c \in Nat /\ Len(output) = c - g /\ Len(buffer) \in Nat
      /\ \A i \in 1..Len(output) : output[i] = sentOutput[i]
  BY Counts DEF Position, TypeOK
<1>6. \A p \in b..(e - 1) : written[p] = sentOutput[p - g]
  BY <1>2 DEF Layout, Texts
<1> HIDE DEF h
<1>7. /\ Len(output') = Len(output) + n
      /\ \A i \in 1..(Len(output) + n) : output'[i] = IF i <= Len(output) THEN output[i] ELSE h[i - Len(output)]
  <2> DEFINE o == output \o h
  <2>1. /\ Len(o) = Len(output) + Len(h)
        /\ \A i \in 1..(Len(output) + Len(h)) : o[i] = IF i <= Len(output) THEN output[i] ELSE h[i - Len(output)]
    BY <1>4, <1>5, ConcatProperties
  <2>2. output' = o
    BY <1>3
  <2> HIDE DEF o
  <2>. QED  BY <1>4, <2>1, <2>2
<1>8. ASSUME NEW i \in 1..(Len(output) + n) PROVE output'[i] = sentOutput[i]
  <2>1. CASE i <= Len(output)
    BY <1>5, <1>7, <2>1
  <2>2. CASE i > Len(output)
    <3> DEFINE j == i - Len(output)
    <3> HIDE DEF b, e, g, c, d
    <3>1. /\ j \in 1..n /\ j \in 1..Len(buffer) /\ c + j \in b..(e - 1) /\ (c + j) - g = i
          /\ ~(i <= Len(output))
      BY <1>2, <1>5, <2>2
    <3>2. output'[i] = buffer[j]
      BY <1>4, <1>7, <3>1
    <3>3. buffer[j] = written[c + j]
      BY <3>1, BufferFacts DEF c
    <3>4. written[c + j] = sentOutput[(c + j) - g]
      BY <1>6, <3>1
    <3>. QED  BY <3>1, <3>2, <3>3, <3>4
  <2>3. i <= Len(output) \/ i > Len(output)
    BY <1>5
  <2>. QED  BY <2>1, <2>2, <2>3
<1>9. Position(B, E, G)'
  <2>1. Len(frames') <= Sent' /\ \A k \in 1..Len(frames') : frames'[k] = sentFrames'[k]
    BY <1>3 DEF Position
  <2>2. B[Len(frames')] <= Len(delivered') + 1 /\ Len(delivered') + 1 <= E[Len(frames')]
    <3>1. b <= c + n + 1 /\ c + n + 1 <= e
      BY <1>2, <1>5
    <3>. QED  BY <1>3, <1>4, <3>1
  <2>3. Len(output') = Len(delivered') - G[Len(frames')]
    <3>1. (c - g) + n = (c + n) - g
      BY <1>2, <1>5
    <3>. QED  BY <1>3, <1>4, <1>5, <1>7, <3>1
  <2>4. \A i \in 1..Len(output') : output'[i] = sentOutput'[i]
    BY <1>3, <1>7, <1>8
  <2>. QED  BY <2>1, <2>2, <2>3, <2>4 DEF Position
<1>. QED  BY <1>1, <1>9

-------------------------------------------------------------------------------
(* The reader: frames *)

\* A frame dispatched is the next one sent: it stands where the text before it ends, and
\* a torn one is never complete.
LEMMA DispatchKeeps ==
  ASSUME TypeOK, Conserved, NEW B \in Marks, NEW E \in Marks, NEW G \in Marks,
         Layout(B, E, G), Position(B, E, G), Told, Dispatch
  PROVE  Layout(B, E, G)' /\ Position(B, E, G)'
<1> DEFINE d == Len(frames)
           c == Len(delivered)
           b == B[d]
           e == E[d]
           g == G[d]
<1>1. Layout(B, E, G)'
  BY LayoutKept DEF Dispatch
<1>2. PICK f \in Good : /\ Begins(e, f)
                        /\ d # Sent => d + 1 \in 1..Sent /\ f = sentFrames[d + 1]
                        /\ d = Sent => e + Size(f) > Len(written) + 1
  BY Before
<1>3. /\ d \in 0..Sent /\ b \in Nat /\ e \in Nat /\ g \in Nat /\ b <= c + 1 /\ c + 1 <= e /\ g < b
      /\ Harmless(b, e) /\ Heads(e)
  BY Before
<1>4. f \in Frame /\ c \in Nat /\ Len(written) \in Nat /\ Len(buffer) \in Nat /\ c + Len(buffer) <= Len(written)
  BY BufferFacts DEF Good
<1>5. HasHeader /\ Plausible /\ Len(buffer) >= FrameSize
  BY DEF Dispatch, Complete
<1>6. e = c + 1
  <2>1. c + 1 < e => ~Plausible
    BY <1>3, <1>4, <1>5, InText
  <2>. QED  BY <1>3, <1>4, <1>5, <2>1
<1>7. FrameType = f.type /\ Payload = f.payload /\ FrameSize = Size(f)
  BY <1>2, <1>5, <1>6, AtFrame
<1>8. Size(f) \in Nat /\ Size(f) \in 0..Len(buffer) /\ d # Sent
  <2>1. Size(f) \in Nat
    BY <1>4, LoadFacts
  <2> HIDE DEF d, c, e
  <2>2. ~(e + Size(f) > Len(written) + 1)
    BY <1>4, <1>5, <1>6, <1>7, <2>1
  <2>. QED  BY <1>2, <1>4, <1>5, <1>7, <2>1, <2>2
<1>9. f = sentFrames[d + 1] /\ d + 1 \in 1..Sent
  BY <1>2, <1>8
<1>10. frames' = Append(frames, f) /\ Moves(Size(f)) /\ output' = output
  <2>1. [type |-> FrameType, payload |-> Payload] = f
    BY <1>4, <1>7 DEF Frame
  <2>2. Encode(FrameType, Payload) = First(buffer, FrameSize)
    BY BufferFacts, DispatchSpells DEF Dispatch
  <2>. QED  BY <1>7, <2>1, <2>2 DEF Dispatch, Moves
<1>11. Len(delivered') = c + Size(f)
  BY <1>8, <1>10, MovesLengths
<1>12. Sent' = Sent /\ sentFrames' = sentFrames /\ sentOutput' = sentOutput
  BY DEF Dispatch, Sent, senderVars
<1>13. Len(frames') = d + 1 /\ \A k \in 1..(d + 1) : frames'[k] = IF k <= d THEN frames[k] ELSE f
  <2>1. frames \in Seq(Frame)
    BY DEF TypeOK
  <2>. QED  BY <1>4, <1>10, <2>1, AppendProperties
<1>14. d + 1 \in 0..Sent /\ d \in 0..(Sent - 1) /\ d \in Nat /\ Sent \in Nat
  BY <1>3, <1>9, Counts
<1>15. /\ B[d + 1] = e + Size(f) /\ G[d + 1] = g + Size(f) /\ B[d + 1] <= E[d + 1]
  BY <1>9, <1>14 DEF Layout, Places
<1>16. B[d + 1] \in Nat /\ E[d + 1] \in Nat /\ G[d + 1] \in Nat
  BY <1>14 DEF Marks
<1>17. Position(B, E, G)'
  <2>1. Len(frames') <= Sent'
    BY <1>12, <1>13, <1>14
  <2>2. ASSUME NEW k \in 1..(d + 1) PROVE frames'[k] = sentFrames[k]
    <3>1. CASE k <= d
      <4>1. k \in 1..d
        BY <1>14, <3>1
      <4>. QED  BY <1>13, <3>1, <4>1 DEF Position
    <3>2. CASE ~(k <= d)
      <4>1. k = d + 1
        BY <1>14, <3>2
      <4>. QED  BY <1>9, <1>13, <3>2, <4>1
    <3>. QED  BY <3>1, <3>2
  <2>3. B[d + 1] <= c + Size(f) + 1 /\ c + Size(f) + 1 <= E[d + 1]
    <3> HIDE DEF d, c, e, g
    <3>. QED  BY <1>4, <1>6, <1>8, <1>15, <1>16
  <2>4. Len(output) = (c + Size(f)) - G[d + 1]
    <3>1. Len(output) = c - g
      BY DEF Position
    <3> HIDE DEF d, c, e, g
    <3>. QED  BY <1>3, <1>4, <1>8, <1>15, <3>1
  <2>5. \A i \in 1..Len(output) : output[i] = sentOutput[i]
    BY DEF Position
  <2>. QED  BY <1>10, <1>11, <1>12, <1>13, <2>1, <2>2, <2>3, <2>4, <2>5 DEF Position
<1>. QED  BY <1>1, <1>17

\* Bytes passed on: the next ones of the output, or, where more follows a torn frame, all
\* that remained of it and some of what follows.
LEMMA PassOnExact ==
  ASSUME TypeOK, Conserved, NEW B \in Marks, NEW E \in Marks, NEW G \in Marks,
         Layout(B, E, G), Position(B, E, G), UNCHANGED senderVars,
         NEW n \in 0..Len(buffer), PassOn(n), Told => Len(delivered) + n + 1 <= E[Len(frames)]
  PROVE  Exact'
<1> DEFINE d == Len(frames)
           c == Len(delivered)
           h == First(buffer, n)
           b == B[d]
           e == E[d]
           g == G[d]
<1>1. CASE c + n + 1 <= e
  <2>1. Layout(B, E, G)' /\ Position(B, E, G)'
    BY <1>1, PassOnKeeps
  <2>2. Marks' = Marks
    BY DEF Marks, Sent, senderVars
  <2>. QED  BY <2>1, <2>2 DEF Exact, Placed
<1>2. CASE ~(c + n + 1 <= e)
  <2>1. d = Sent /\ stream = "mixed"
    BY <1>2 DEF Told
  <2>2. b \in Nat /\ e \in Nat /\ g \in Nat /\ b <= c + 1 /\ c + 1 <= e /\ g < b
    BY Before
  <2>3. /\ frames' = frames /\ output' = output \o h /\ stream' = stream
        /\ Sent' = Sent /\ sentFrames' = sentFrames /\ sentOutput' = sentOutput
    BY DEF PassOn, Sent, senderVars
  <2>4. h \in Bytes /\ Len(h) = n /\ \A i \in 1..n : h[i] = buffer[i]
    BY MovesLengths DEF PassOn, Moves, Bytes
  <2>5. PICK k, m : k = Len(output) /\ m = Len(sentOutput)
    OBVIOUS
  <2>6. k \in Nat /\ m \in Nat /\ c \in Nat /\ Len(buffer) \in Nat /\ output \in Bytes
    BY <2>5, Counts DEF TypeOK, Bytes
  <2>7. k = c - g /\ e - g = m + 1 /\ \A i \in 1..k : output[i] = sentOutput[i]
    <3>1. e - g = m + 1
      BY <2>1, <2>5, Ends
    <3>. QED  BY <2>5, <3>1 DEF Position
  <2>8. /\ Len(output') = k + n
        /\ \A i \in 1..k : output'[i] = output[i]
        /\ \A i \in 1..n : output'[k + i] = buffer[i]
    <3>1. PICK o : o = output \o h
      OBVIOUS
    <3>2. /\ Len(o) = Len(output) + Len(h)
          /\ \A i \in 1..Len(output) : o[i] = output[i]
          /\ \A i \in 1..Len(h) : o[Len(output) + i] = h[i]
      <4> HIDE DEF h
      <4>. QED  BY <2>4, <2>6, <3>1, Appended
    <3>3. output' = o
      BY <2>3, <3>1
    <3> HIDE DEF h
    <3>. QED  BY <2>4, <2>5, <3>2, <3>3
  <2>9. m <= k + n
    <3> HIDE DEF b, c, e, g, d
    <3>. QED  BY <1>2, <2>2, <2>6, <2>7
  <2>10. ASSUME NEW i \in 1..m PROVE output'[i] = sentOutput[i]
    <3>1. CASE i <= k
      BY <2>6, <2>7, <2>8, <3>1
    <3>2. CASE ~(i <= k)
      <4>1. PICK j : j = i - k
        OBVIOUS
      <4>2. j \in 1..n /\ j \in 1..Len(buffer) /\ i = k + j /\ c + j \in b..(e - 1) /\ (c + j) - g = i
        <5> HIDE DEF b, c, e, g, d
        <5>. QED  BY <2>2, <2>6, <2>7, <2>9, <3>2, <4>1
      <4>3. output'[i] = buffer[j]
        BY <2>8, <4>2
      <4>4. buffer[j] = written[c + j]
        BY <4>2, BufferFacts
      <4>5. written[c + j] = sentOutput[(c + j) - g]
        <5>1. d \in 0..Sent
          BY Before
        <5>. QED  BY <4>2, <5>1 DEF Layout, Texts
      <4>. QED  BY <4>2, <4>3, <4>4, <4>5
    <3>. QED  BY <3>1, <3>2
  <2>11. \A i \in 1..d : frames[i] = sentFrames[i]
    BY DEF Position
  <2>12. d <= d
    BY Counts
  <2>. QED  BY <2>1, <2>3, <2>5, <2>8, <2>9, <2>10, <2>11, <2>12 DEF Exact, Past
<1>. QED  BY <1>1, <1>2

\* Where more follows a torn frame the reader may find a frame at its head, but only after
\* everything that was sent ahead of it.
LEMMA DispatchExact ==
  ASSUME TypeOK, Conserved, NEW B \in Marks, NEW E \in Marks, NEW G \in Marks,
         Layout(B, E, G), Position(B, E, G), Dispatch
  PROVE  Exact'
<1> DEFINE d == Len(frames)
           c == Len(delivered)
           e == E[d]
           g == G[d]
<1>1. CASE Told
  <2>1. Layout(B, E, G)' /\ Position(B, E, G)'
    BY <1>1, DispatchKeeps
  <2>2. Marks' = Marks
    BY DEF Dispatch, Marks, Sent, senderVars
  <2>. QED  BY <2>1, <2>2 DEF Exact, Placed
<1>2. CASE ~Told
  <2>1. d = Sent /\ stream = "mixed"
    BY <1>2 DEF Told
  <2>2. B[d] \in Nat /\ e \in Nat /\ g \in Nat /\ B[d] <= c + 1 /\ c + 1 <= e /\ Harmless(B[d], e) /\ Heads(e)
    BY Before
  <2>3. HasHeader /\ Plausible
    BY DEF Dispatch, Complete
  <2>4. e = c + 1
    <3>1. c + 1 < e => ~Plausible
      BY <2>2, <2>3, InText
    <3>. QED  BY <2>2, <2>3, <3>1, Counts
  <2>5. /\ stream' = stream /\ output' = output
        /\ Sent' = Sent /\ sentFrames' = sentFrames /\ sentOutput' = sentOutput
    BY DEF Dispatch, Sent, senderVars
  <2>6. Len(sentOutput) <= Len(output) /\ \A i \in 1..Len(sentOutput) : output[i] = sentOutput[i]
    <3>1. PICK k, m : k = Len(output) /\ m = Len(sentOutput)
      OBVIOUS
    <3>2. e - g = m + 1
      BY <2>1, <3>1, Ends
    <3>3. k = c - g /\ \A i \in 1..k : output[i] = sentOutput[i]
      BY <3>1 DEF Position
    <3>4. k \in Nat /\ m \in Nat /\ c \in Nat
      BY <3>1, Counts
    <3>5. k = m
      <4> HIDE DEF c, e, g
      <4>. QED  BY <2>2, <2>4, <3>2, <3>3, <3>4
    <3>. QED  BY <3>1, <3>3, <3>4, <3>5
  <2>7. /\ Sent <= Len(frames') /\ \A k \in 1..Sent : frames'[k] = sentFrames[k]
    <3>1. PICK f \in Frame : frames' = Append(frames, f)
      BY BufferFacts, DispatchSpells DEF Dispatch
    <3>2. /\ frames \in Seq(Frame) /\ d \in Nat
      BY Counts DEF TypeOK
    <3>3. Len(frames') = d + 1 /\ \A k \in 1..(d + 1) : frames'[k] = IF k <= d THEN frames[k] ELSE f
      BY <3>1, <3>2, AppendProperties
    <3>4. \A k \in 1..d : k \in 1..(d + 1) /\ k <= d /\ frames[k] = sentFrames[k]
      BY <3>2 DEF Position
    <3>5. d <= d + 1
      BY <3>2
    <3>. QED  BY <2>1, <3>3, <3>4, <3>5
  <2>. QED  BY <2>1, <2>5, <2>6, <2>7 DEF Exact, Past
<1>. QED  BY <1>1, <1>2

\* What was dispatched and passed on stays so.
LEMMA PastStays ==
  ASSUME TypeOK, Conserved, Past, Scan
  PROVE  Past'
<1>1. UNCHANGED senderVars
  BY DEF Scan, NoMagic, SkipToMagic, AwaitMore, Resync, Dispatch
<1>2. stream' = stream /\ Sent' = Sent /\ sentFrames' = sentFrames /\ sentOutput' = sentOutput
  BY <1>1 DEF senderVars, Sent
<1>3. /\ Sent \in Nat /\ Len(sentOutput) \in Nat /\ Len(frames) \in Nat /\ Len(output) \in Nat
      /\ output \in Bytes /\ frames \in Seq(Frame) /\ buffer \in Bytes /\ Len(buffer) \in Nat
  BY Counts DEF TypeOK, Bytes
<1>4. ASSUME NEW n \in 0..Len(buffer), PassOn(n) PROVE Past'
  <2>1. PICK h, o : h = First(buffer, n) /\ o = output \o h
    OBVIOUS
  <2>2. h \in Bytes
    BY <1>3, <2>1, Pieces
  <2>3. /\ Len(o) = Len(output) + Len(h) /\ Len(h) \in Nat
        /\ \A i \in 1..Len(output) : o[i] = output[i]
    BY <1>3, <2>1, <2>2, Appended
  <2>4. output' = o /\ frames' = frames
    BY <1>4, <2>1 DEF PassOn
  <2>5. /\ Len(sentOutput) <= Len(o)
        /\ \A i \in 1..Len(sentOutput) : i \in 1..Len(output) /\ output[i] = sentOutput[i]
    BY <1>3, <2>3 DEF Past
  <2>. QED  BY <1>2, <2>3, <2>4, <2>5 DEF Past
<1>5. CASE NoMagic
  <2> DEFINE n == IF Len(buffer) < Len(Magic) THEN 0 ELSE Len(buffer) - (Len(Magic) - 1)
  <2>1. n \in 0..Len(buffer) /\ PassOn(n)
    BY <1>3, <1>5, Numbers DEF NoMagic
  <2> HIDE DEF n
  <2>. QED  BY <1>4, <2>1
<1>6. CASE SkipToMagic
  <2>1. PICK i \in 2..Len(buffer) : PassOn(i - 1)
    BY <1>6 DEF SkipToMagic
  <2>2. i - 1 \in 0..Len(buffer)
    BY <1>3
  <2>. QED  BY <1>4, <2>1, <2>2
<1>7. CASE AwaitMore
  BY <1>2, <1>7 DEF AwaitMore, scanVars, Past
<1>8. CASE Resync
  <2>1. Len(Magic) \in 0..Len(buffer) /\ PassOn(Len(Magic))
    BY <1>3, <1>8, HeaderFacts, Numbers DEF Resync
  <2>. QED  BY <1>4, <2>1
<1>9. CASE Dispatch
  <2>1. PICK f \in Frame : frames' = Append(frames, f) /\ output' = output
    BY <1>3, <1>9, DispatchSpells DEF Dispatch
  <2>2. PICK d : d = Len(frames)
    OBVIOUS
  <2>3. Len(frames') = d + 1 /\ \A k \in 1..(d + 1) : frames'[k] = IF k <= d THEN frames[k] ELSE f
    BY <1>3, <2>1, <2>2, AppendProperties
  <2>4. Sent <= d + 1 /\ \A k \in 1..Sent : k \in 1..(d + 1) /\ k <= d /\ frames[k] = sentFrames[k]
    BY <1>3, <2>2 DEF Past
  <2>. QED  BY <1>2, <2>1, <2>3, <2>4 DEF Past
<1>. QED  BY <1>5, <1>6, <1>7, <1>8, <1>9 DEF Scan

\* One iteration of onData, while no output looks like a frame.
LEMMA ScanExact ==
  ASSUME TypeOK, Conserved, Exact, Scan
  PROVE  Exact'
<1> SUFFICES ASSUME Placed PROVE Exact'
  BY PastStays DEF Exact
<1>1. PICK B \in Marks, E \in Marks, G \in Marks : Layout(B, E, G) /\ Position(B, E, G)
  BY DEF Placed
<1> DEFINE d == Len(frames)
           c == Len(delivered)
           b == B[d]
           e == E[d]
<1>2. Told => \E f \in Good : Begins(e, f)
  BY <1>1, Before
<1>3. b \in Nat /\ e \in Nat /\ b <= c + 1 /\ c + 1 <= e /\ Harmless(b, e) /\ Heads(e)
  BY <1>1, Before
<1>4. c \in Nat /\ Len(buffer) \in Nat /\ Len(Magic) \in Nat /\ Len(Magic) >= 1
  BY BufferFacts, Numbers
<1>5. ASSUME NEW n \in 0..Len(buffer), PassOn(n), Told => c + n + 1 <= e, UNCHANGED senderVars
      PROVE  Exact'
  BY <1>1, <1>5, PassOnExact
<1>6. ASSUME NEW n \in Nat, n + Len(Magic) - 1 <= Len(buffer), \A j \in 1..n : ~MagicAt(buffer, j), Told
      PROVE  c + n + 1 <= e
  <2>1. PICK f \in Good : Begins(e, f)
    BY <1>2, <1>6
  <2>2. f \in Frame
    BY DEF Good
  <2>. QED  BY <1>3, <1>6, <2>1, <2>2, NotPast
<1>7. CASE NoMagic
  <2> DEFINE n == IF Len(buffer) < Len(Magic) THEN 0 ELSE Len(buffer) - (Len(Magic) - 1)
  <2>1. n \in 0..Len(buffer) /\ PassOn(n) /\ UNCHANGED senderVars /\ ~Found
    BY <1>4, <1>7 DEF NoMagic
  <2>2. ASSUME Told PROVE c + n + 1 <= e
    <3>1. CASE n = 0
      BY <1>3, <1>4, <3>1
    <3>2. CASE n # 0
      <4>1. n \in Nat /\ n + Len(Magic) - 1 <= Len(buffer) /\ n <= Len(buffer) - Len(Magic) + 1
        BY <1>4, <3>2
      <4>2. \A j \in 1..n : ~MagicAt(buffer, j)
        <5>1. \A j \in 1..n : j \in 1..(Len(buffer) - Len(Magic) + 1)
          BY <1>4, <4>1
        <5>. QED  BY <2>1, <5>1, FoundFacts
      <4> HIDE DEF n
      <4>. QED  BY <1>6, <2>2, <4>1, <4>2
    <3>. QED  BY <3>1, <3>2
  <2> HIDE DEF n
  <2>. QED  BY <1>5, <2>1, <2>2
<1>8. CASE SkipToMagic
  <2>1. PICK i \in 2..Len(buffer) : FoundAt(i) /\ PassOn(i - 1)
    BY <1>8 DEF SkipToMagic
  <2> DEFINE n == i - 1
  <2>2. /\ n \in 0..Len(buffer) /\ n \in Nat /\ n + Len(Magic) - 1 <= Len(buffer)
        /\ \A j \in 1..n : ~MagicAt(buffer, j)
    <3>1. i + Len(Magic) - 1 <= Len(buffer) /\ \A j \in 1..n : ~MagicAt(buffer, j)
      BY <2>1, FoundFacts
    <3>. QED  BY <1>4, <3>1
  <2>3. PassOn(n) /\ UNCHANGED senderVars
    BY <1>8, <2>1 DEF SkipToMagic
  <2> HIDE DEF n
  <2>4. Told => c + n + 1 <= e
    BY <1>6, <2>2
  <2>. QED  BY <1>5, <2>2, <2>3, <2>4
<1>9. CASE AwaitMore
  <2>1. Layout(B, E, G)'
    BY <1>1, <1>9, LayoutKept DEF AwaitMore
  <2>2. Position(B, E, G)'
    BY <1>1, <1>9 DEF AwaitMore, Position, Sent, senderVars, scanVars
  <2>3. Marks' = Marks
    BY <1>9 DEF AwaitMore, Marks, Sent, senderVars
  <2>. QED  BY <2>1, <2>2, <2>3 DEF Exact, Placed
<1>10. CASE Resync
  <2>1. HasHeader /\ (~Plausible \/ (Complete /\ FrameType = CALL /\ Payload \notin Json))
    BY <1>10 DEF Resync
  <2>2. ASSUME Told PROVE c + Len(Magic) + 1 <= e
    <3>1. PICK f \in Good : Begins(e, f)
      BY <1>2, <2>2
    <3>2. c + 1 # e
      <4> SUFFICES ASSUME c + 1 = e PROVE FALSE
        OBVIOUS
      <4>1. Plausible /\ FrameType = f.type /\ (Len(buffer) >= FrameSize => Payload = f.payload)
        BY <2>1, <3>1, AtFrame
      <4>. QED  BY <2>1, <4>1 DEF Complete, Good
    <3>3. c + 1 < e /\ FoundAt(1)
      BY <1>3, <1>4, <2>1, <3>2 DEF HasHeader
    <3>4. c + Len(Magic) < e
      BY <1>3, <1>4, <3>3, InText
    <3>. QED  BY <1>3, <1>4, <3>4
  <2>3. Len(Magic) \in 0..Len(buffer)
    BY <1>4, <2>1, HeaderFacts
  <2>4. PassOn(Len(Magic)) /\ UNCHANGED senderVars
    BY <1>10 DEF Resync
  <2>. QED  BY <1>5, <2>2, <2>3, <2>4
<1>11. CASE Dispatch
  BY <1>1, <1>11, DispatchExact
<1>. QED  BY <1>7, <1>8, <1>9, <1>10, <1>11 DEF Scan

\* onData returns only when it has to wait for more.
LEMMA ScanIdle ==
  ASSUME TypeOK, Conserved, Scan
  PROVE  Idle'
<1>1. scanning /\ Len(buffer) \in Nat /\ Len(Magic) \in Nat /\ Len(Magic) >= 1
  BY BufferFacts, Numbers DEF Scan, NoMagic, SkipToMagic, AwaitMore, Resync, Dispatch
<1>2. CASE NoMagic
  <2> DEFINE n == IF Len(buffer) < Len(Magic) THEN 0 ELSE Len(buffer) - (Len(Magic) - 1)
  <2>1. n \in 0..Len(buffer) /\ PassOn(n) /\ Len(buffer) - n < Len(Magic)
    BY <1>1, <1>2 DEF NoMagic
  <2> HIDE DEF n
  <2>2. Len(buffer') = Len(buffer) - n
    BY <2>1, MovesLengths DEF PassOn, Moves
  <2>. QED  BY <2>1, <2>2 DEF Idle
<1>3. CASE AwaitMore
  BY <1>3 DEF AwaitMore, Idle, FoundAt, HasHeader, Plausible, FrameType, Length, FrameSize, senderVars, scanVars
<1>4. CASE SkipToMagic \/ Resync \/ Dispatch
  BY <1>1, <1>4 DEF SkipToMagic, Resync, Dispatch, Idle
<1>. QED  BY <1>2, <1>3, <1>4 DEF Scan

-------------------------------------------------------------------------------
(* The writer: what is there stays *)

\* The writer only adds to what there is.
Grown ==
  /\ Len(written') \in Nat /\ Len(written') >= Len(written)
  /\ \A i \in 1..Len(written) : written'[i] = written[i]
  /\ Len(sentOutput') \in Nat /\ Len(sentOutput') >= Len(sentOutput)
  /\ \A i \in 1..Len(sentOutput) : sentOutput'[i] = sentOutput[i]
  /\ Sent' \in Nat /\ Sent' >= Sent
  /\ \A k \in 1..Sent : sentFrames'[k] = sentFrames[k]

\* The segments there were stay where they are; only the end of the last moves.
Longer(B, E, G, B1, E1, G1) ==
  \A k \in 0..Sent : B1[k] = B[k] /\ G1[k] = G[k] /\ E1[k] \in Nat /\ E1[k] >= E[k]

\* A stretch of what was written says the same after it.
LEMMA SpelledKept ==
  ASSUME TypeOK, Grown, NEW p \in Nat, p >= 1, p + Len(Magic) - 1 <= Len(written)
  PROVE  Spelled(written', p) <=> Spelled(written, p)
<1>1. \A i \in 1..Len(Magic) : p + i - 1 \in 1..Len(written)
  <2>1. PICK l, w : l = Len(Magic) /\ w = Len(written)
    OBVIOUS
  <2>2. l \in Nat /\ w \in Nat /\ p + l - 1 <= w
    BY <2>1, Numbers, Counts
  <2>. QED  BY <2>1, <2>2
<1>2. \A i \in 1..Len(Magic) : written'[p + i - 1] = written[p + i - 1]
  BY <1>1 DEF Grown
<1>. QED  BY <1>2 DEF Spelled

\* So what looked like no frame looks like none,
LEMMA HarmlessKept ==
  ASSUME TypeOK, Grown, NEW b \in Nat, NEW e \in Nat, b >= 1, e <= Len(written) + 1, Harmless(b, e)
  PROVE  Harmless(b, e)'
<1> SUFFICES ASSUME NEW p \in b..e, p + Len(Magic) + 1 < e, Spelled(written', p)
             PROVE  ~(written'[p + Len(Magic)] \in Type /\ written'[p + Len(Magic) + 1] <= MaxFrame)
  BY DEF Harmless, Spelled
<1>1. /\ p \in Nat /\ p >= 1 /\ p + Len(Magic) - 1 <= Len(written)
      /\ p + Len(Magic) \in 1..Len(written) /\ p + Len(Magic) + 1 \in 1..Len(written)
  BY Numbers, Counts, SMTT(30)
<1>2. Spelled(written, p)
  BY <1>1, SpelledKept
<1>3. /\ written'[p + Len(Magic)] = written[p + Len(Magic)]
      /\ written'[p + Len(Magic) + 1] = written[p + Len(Magic) + 1]
  BY <1>1 DEF Grown
<1>. QED  BY <1>2, <1>3 DEF Harmless

\* and a complete frame stands where it stood.
LEMMA BeginsKept ==
  ASSUME TypeOK, Grown, NEW e \in Nat, e >= 1, NEW f \in Frame, e + Size(f) <= Len(written) + 1, Begins(e, f)
  PROVE  Begins(e, f)'
<1>1. \A i \in 1..Size(f) : e + i - 1 \in 1..Len(written) /\ e + i - 1 <= Len(written)
  BY LoadFacts, Counts, SMTT(30)
<1>2. \A i \in 1..Size(f) : written'[e + i - 1] = Code(f)[i]
  BY <1>1 DEF Grown, Begins
<1>. QED  BY <1>2 DEF Begins

\* What Layout says of the frames and the text that were there.
LEMMA PastKept ==
  ASSUME TypeOK, Grown, NEW B \in Marks, NEW E \in Marks, NEW G \in Marks, Layout(B, E, G)
  PROVE  /\ \A k \in 0..Sent : \A p \in B[k]..(E[k] - 1) : written'[p] = sentOutput'[p - G[k]]
         /\ \A k \in 0..Sent : Harmless(B[k], E[k])'
         /\ \A k \in 0..(Sent - 1) : sentFrames'[k + 1] \in Good /\ Begins(E[k], sentFrames[k + 1])'
<1>1. ASSUME NEW k \in 0..Sent
      PROVE  /\ B[k] \in Nat /\ E[k] \in Nat /\ G[k] \in Nat /\ B[k] >= 1 /\ B[k] <= E[k] /\ G[k] < B[k]
             /\ E[k] <= Len(written) + 1 /\ E[k] - G[k] <= Len(sentOutput) + 1
  <2>1. B[k] \in Nat /\ E[k] \in Nat /\ G[k] \in Nat
    BY DEF Marks
  <2>2. B[k] <= E[k] /\ G[k] < B[k] /\ E[k] <= Len(written) + 1 /\ E[k] - G[k] <= Len(sentOutput) + 1
    BY DEF Layout, Places
  <2>. QED  BY <2>1, <2>2
<1>2. ASSUME NEW k \in 0..Sent, NEW p \in B[k]..(E[k] - 1) PROVE written'[p] = sentOutput'[p - G[k]]
  <2> DEFINE b == B[k]
             e == E[k]
             g == G[k]
  <2>1. p \in b..(e - 1)
    OBVIOUS
  <2>2. b \in Nat /\ e \in Nat /\ g \in Nat /\ b >= 1 /\ g < b /\ e <= Len(written) + 1 /\ e - g <= Len(sentOutput) + 1
    BY <1>1
  <2>3. written[p] = sentOutput[p - g]
    BY DEF Layout, Texts
  <2> HIDE DEF b, e, g
  <2>4. p \in 1..Len(written) /\ p - g \in 1..Len(sentOutput)
    <3>1. PICK w, o : w = Len(written) /\ o = Len(sentOutput)
      OBVIOUS
    <3>2. w \in Nat /\ o \in Nat
      BY <3>1, Counts
    <3>3. b >= 1 /\ g < b /\ e <= w + 1 /\ e - g <= o + 1
      BY <2>2, <3>1
    <3>4. p \in 1..w /\ p - g \in 1..o
      BY <2>1, <2>2, <3>2, <3>3
    <3>. QED  BY <3>1, <3>4
  <2>5. written'[p] = sentOutput'[p - g]
    BY <2>3, <2>4 DEF Grown
  <2>. QED  BY <2>5 DEF g
<1>3. ASSUME NEW k \in 0..Sent PROVE Harmless(B[k], E[k])'
  <2>1. Harmless(B[k], E[k])
    BY DEF Layout, Quiet
  <2>. QED  BY <1>1, <2>1, HarmlessKept
<1>4. ASSUME NEW k \in 0..(Sent - 1)
      PROVE  sentFrames'[k + 1] \in Good /\ Begins(E[k], sentFrames[k + 1])'
  <2>1. k \in 0..Sent /\ k + 1 \in 0..Sent /\ k + 1 \in 1..Sent
    BY Counts
  <2>2. PICK f \in Good : f = sentFrames[k + 1] /\ Begins(E[k], f)
    BY DEF Layout, Spans
  <2>3. E[k] \in Nat /\ E[k] >= 1 /\ E[k] + Size(f) <= Len(written) + 1
    <3> DEFINE b == B[k]
               e == E[k]
               b1 == B[k + 1]
               e1 == E[k + 1]
               w == Len(written)
               z == Size(f)
    <3>1. e \in Nat /\ b >= 1 /\ b \in Nat /\ b <= e
      BY <1>1, <2>1
    <3>2. b1 \in Nat /\ e1 \in Nat /\ b1 <= e1 /\ e1 <= w + 1
      BY <1>1, <2>1
    <3>3. b1 = e + z
      BY <2>2 DEF Layout, Places
    <3>4. w \in Nat
      BY Counts
    <3> HIDE DEF b, e, b1, e1, w, z
    <3>5. e >= 1 /\ e + z <= w + 1
      BY <3>1, <3>2, <3>3, <3>4
    <3>. QED  BY <3>1, <3>5 DEF e, w, z
  <2>4. f \in Frame
    BY <2>2 DEF Good
  <2>5. sentFrames'[k + 1] = f
    BY <2>1, <2>2 DEF Grown
  <2>6. Begins(E[k], f)'
    BY <2>2, <2>3, <2>4, BeginsKept
  <2>. QED  BY <2>2, <2>5, <2>6 DEF Begins
<1>. QED  BY <1>2, <1>3, <1>4

\* The reader is where it was.
LEMMA PositionKept ==
  ASSUME TypeOK, Grown, UNCHANGED scanVars, NEW B \in Marks, NEW E \in Marks, NEW G \in Marks,
         Layout(B, E, G), Position(B, E, G),
         NEW B1, NEW E1, NEW G1, Longer(B, E, G, B1, E1, G1)
  PROVE  Position(B1, E1, G1)'
<1> DEFINE d == Len(frames)
           c == Len(delivered)
<1>1. frames' = frames /\ output' = output /\ delivered' = delivered
  BY DEF scanVars
<1>2. /\ d \in 0..Sent /\ B[d] \in Nat /\ E[d] \in Nat /\ G[d] \in Nat
      /\ B[d] <= c + 1 /\ c + 1 <= E[d] /\ c \in Nat
  BY Before, Counts
<1>3. Len(output) = c - G[d] /\ Len(output) \in 0..Len(sentOutput)
  <2> DEFINE n == Len(output)
             m == Len(sentOutput)
             e == E[d]
             g == G[d]
  <2>1. n = c - g /\ e - g <= m + 1
    BY <1>2 DEF Layout, Places, Position
  <2>2. n \in Nat /\ m \in Nat /\ e \in Nat /\ g \in Nat /\ c + 1 <= e
    BY <1>2, Counts
  <2> HIDE DEF c, d, n, m, e, g
  <2>3. n \in 0..m
    BY <1>2, <2>1, <2>2
  <2>. QED  BY <2>1, <2>3 DEF n, m, g
<1>4. d <= Sent' /\ \A k \in 1..d : frames[k] = sentFrames'[k]
  <2>1. d <= Sent' /\ \A k \in 1..d : k \in 1..Sent
    <3>1. PICK n, n1 : n = Sent /\ n1 = Sent'
      OBVIOUS
    <3>2. n \in Nat /\ n1 \in Nat /\ n1 >= n /\ d \in 0..n
      BY <1>2, <3>1, Counts DEF Grown
    <3> HIDE DEF d
    <3>3. d <= n1 /\ \A k \in 1..d : k \in 1..n
      BY <3>2
    <3>. QED  BY <3>1, <3>3
  <2>. QED  BY <2>1 DEF Grown, Position
<1>5. B1[d] <= c + 1 /\ c + 1 <= E1[d] /\ Len(output) = c - G1[d]
  <2>1. B1[d] = B[d] /\ G1[d] = G[d] /\ E1[d] \in Nat /\ E1[d] >= E[d]
    BY <1>2 DEF Longer
  <2> HIDE DEF c, d
  <2>. QED  BY <1>2, <1>3, <2>1
<1>6. ASSUME NEW i \in 1..Len(output) PROVE output[i] = sentOutput'[i]
  <2>1. i \in 1..Len(sentOutput)
    BY <1>3, Counts
  <2>2. output[i] = sentOutput[i]
    BY DEF Position
  <2>. QED  BY <2>1, <2>2 DEF Grown
<1>. QED  BY <1>1, <1>4, <1>5, <1>6 DEF Position

-------------------------------------------------------------------------------
(* The writer: a frame *)

\* There is a frame: CLOSE.
LEMMA SomeFrame == \E f \in Good : TRUE
<1> DEFINE f == [type |-> CLOSE, payload |-> <<>>]
<1>1. <<>> \in Seq(Nat) /\ Len(<<>>) = 0 /\ CLOSE \in Type /\ CLOSE # CALL
  BY EmptySeq DEF Type, CLOSE, CALL
<1>2. f \in Frame /\ f.type = CLOSE /\ f.payload = <<>>
  BY <1>1 DEF Frame
<1>3. f \in Good
  BY <1>1, <1>2, TypeNumbers DEF Good
<1>. QED  BY <1>3

\* One more frame, after the last text.
LEMMA FrameAdded ==
  ASSUME TypeOK, stream = "whole", NEW f \in Good, written' = written \o Code(f),
         sentFrames' = Append(sentFrames, f), text' = <<>>, UNCHANGED <<stream, sentOutput, scanVars>>,
         Placed
  PROVE  Placed'
<1>1. PICK B \in Marks, E \in Marks, G \in Marks : Layout(B, E, G) /\ Position(B, E, G)
  BY DEF Placed
<1>2. PICK N, w, z : N = Sent /\ w = Len(written) /\ z = Size(f)
  OBVIOUS
<1>3. /\ f \in Frame /\ z \in Nat /\ z = Len(Code(f)) /\ Code(f) \in Bytes
      /\ N \in Nat /\ w \in Nat /\ Len(sentOutput) \in Nat /\ written \in Bytes
  BY <1>2, LoadFacts, CodeFacts, Counts DEF Good, TypeOK, Bytes
<1>4. /\ Len(written') = w + z /\ written' \in Bytes
      /\ \A i \in 1..w : written'[i] = written[i]
      /\ \A i \in 1..z : written'[w + i] = Code(f)[i]
  <2>1. /\ written' \in Bytes /\ Len(written') = Len(written) + Len(Code(f))
        /\ \A i \in 1..Len(written) : written'[i] = written[i]
        /\ \A i \in 1..Len(Code(f)) : written'[Len(written) + i] = Code(f)[i]
    <3> DEFINE b == Code(f)
               t == written \o b
    <3>1. written \in Bytes /\ b \in Bytes /\ written' = t
      BY <1>3
    <3> HIDE DEF b
    <3>2. /\ t \in Bytes /\ Len(t) = Len(written) + Len(b)
          /\ \A i \in 1..Len(written) : t[i] = written[i]
          /\ \A i \in 1..Len(b) : t[Len(written) + i] = b[i]
      BY <3>1, Appended
    <3> HIDE DEF t
    <3>. QED  BY <3>1, <3>2 DEF b
  <2>. QED  BY <1>2, <1>3, <2>1
<1>5. /\ Sent' = N + 1 /\ sentFrames'[N + 1] = f
      /\ \A k \in 1..N : sentFrames'[k] = sentFrames[k]
  <2>1. sentFrames \in Seq(Frame)
    BY DEF TypeOK
  <2>2. /\ Len(sentFrames') = N + 1
        /\ \A k \in 1..(N + 1) : sentFrames'[k] = IF k <= N THEN sentFrames[k] ELSE f
    BY <1>2, <1>3, <2>1, AppendProperties DEF Sent
  <2>3. N + 1 \in 1..(N + 1) /\ ~(N + 1 <= N) /\ \A k \in 1..N : k \in 1..(N + 1) /\ k <= N
    BY <1>3
  <2>. QED  BY <2>2, <2>3 DEF Sent
<1>6. Grown
  <2>1. sentOutput' = sentOutput /\ Len(sentOutput') \in Nat /\ Len(sentOutput') >= Len(sentOutput)
    BY <1>3
  <2>2. Len(written') \in Nat /\ Len(written') >= Len(written) /\ Sent' \in Nat /\ Sent' >= Sent
    BY <1>2, <1>3, <1>4, <1>5
  <2>. QED  BY <1>2, <1>4, <1>5, <2>1, <2>2 DEF Grown
<1>7. PICK e, g : e = E[N] /\ g = G[N]
  OBVIOUS
<1>8. e = w + 1 /\ e - g = Len(sentOutput) + 1 /\ e \in Nat /\ g \in Nat /\ N \in 0..N
  BY <1>1, <1>2, <1>7, Ends
<1>9. \A k \in 0..N : /\ B[k] \in Nat /\ E[k] \in Nat /\ G[k] \in Nat /\ B[k] <= E[k] /\ G[k] < B[k]
                      /\ E[k] <= w + 1 /\ E[k] - G[k] <= Len(sentOutput) + 1
  BY <1>1, <1>2, Ends
<1>10. PICK B1 \in [0..(N + 1) -> Nat] : (\A k \in 0..N : B1[k] = B[k]) /\ B1[N + 1] = e + z
  <2>1. [k \in 0..(N + 1) |-> IF k <= N THEN B[k] ELSE e + z] \in [0..(N + 1) -> Nat]
    <3>1. \A k \in 0..(N + 1) : k <= N => k \in 0..N
      BY <1>3
    <3>2. e + z \in Nat
      BY <1>3, <1>8
    <3>. QED  BY <1>9, <3>1, <3>2
  <2>2. N + 1 \in 0..(N + 1) /\ ~(N + 1 <= N) /\ \A k \in 0..N : k \in 0..(N + 1) /\ k <= N
    BY <1>3
  <2>. QED  BY <2>1, <2>2
<1>11. PICK E1 \in [0..(N + 1) -> Nat] : (\A k \in 0..N : E1[k] = E[k]) /\ E1[N + 1] = e + z
  <2>1. [k \in 0..(N + 1) |-> IF k <= N THEN E[k] ELSE e + z] \in [0..(N + 1) -> Nat]
    <3>1. \A k \in 0..(N + 1) : k <= N => k \in 0..N
      BY <1>3
    <3>2. e + z \in Nat
      BY <1>3, <1>8
    <3>. QED  BY <1>9, <3>1, <3>2
  <2>2. N + 1 \in 0..(N + 1) /\ ~(N + 1 <= N) /\ \A k \in 0..N : k \in 0..(N + 1) /\ k <= N
    BY <1>3
  <2>. QED  BY <2>1, <2>2
<1>12. PICK G1 \in [0..(N + 1) -> Nat] : (\A k \in 0..N : G1[k] = G[k]) /\ G1[N + 1] = g + z
  <2>1. [k \in 0..(N + 1) |-> IF k <= N THEN G[k] ELSE g + z] \in [0..(N + 1) -> Nat]
    <3>1. \A k \in 0..(N + 1) : k <= N => k \in 0..N
      BY <1>3
    <3>2. g + z \in Nat
      BY <1>3, <1>8
    <3>. QED  BY <1>9, <3>1, <3>2
  <2>2. N + 1 \in 0..(N + 1) /\ ~(N + 1 <= N) /\ \A k \in 0..N : k \in 0..(N + 1) /\ k <= N
    BY <1>3
  <2>. QED  BY <2>1, <2>2
<1>13. \A k \in 0..(N + 1) : k \in 0..N \/ k = N + 1
  BY <1>3
<1>14. Position(B1, E1, G1)'
  <2>1. Longer(B, E, G, B1, E1, G1)
    BY <1>2, <1>9, <1>10, <1>11, <1>12 DEF Longer
  <2>2. UNCHANGED scanVars
    OBVIOUS
  <2>. QED  BY <1>1, <1>6, <2>1, <2>2, PositionKept
<1>15. Places(B1, E1, G1)'
  <2>1. ASSUME NEW k \in 0..(N + 1)
        PROVE  /\ B1[k] <= E1[k] /\ G1[k] < B1[k]
               /\ E1[k] <= Len(written') + 1 /\ E1[k] - G1[k] <= Len(sentOutput) + 1
    <3>1. CASE k \in 0..N
      <4>1. B1[k] = B[k] /\ E1[k] = E[k] /\ G1[k] = G[k] /\ E[k] \in Nat /\ E[k] <= w + 1
        BY <1>9, <1>10, <1>11, <1>12, <3>1
      <4>2. E[k] <= Len(written') + 1
        <5>1. PICK x : x = E[k]
          OBVIOUS
        <5>2. x \in Nat /\ x <= w + 1
          BY <4>1, <5>1
        <5>3. x <= w + z + 1
          BY <1>3, <5>2
        <5>. QED  BY <1>4, <5>1, <5>3
      <4>. QED  BY <1>9, <3>1, <4>1, <4>2
    <3>2. CASE k = N + 1
      <4>1. g < e /\ e + z <= w + z + 1 /\ (e + z) - (g + z) = e - g /\ g + z < e + z /\ e + z <= e + z
        <5>1. e \in Nat /\ g \in Nat /\ w \in Nat /\ z \in Nat /\ e = w + 1
          BY <1>3, <1>8
        <5>2. g < e
          BY <1>3, <1>8
        <5>. QED  BY <5>1, <5>2
      <4>2. e - g <= Len(sentOutput) + 1
        BY <1>3, <1>8
      <4>. QED  BY <1>4, <1>10, <1>11, <1>12, <3>2, <4>1, <4>2
    <3>. QED  BY <1>13, <3>1, <3>2
  <2>2. ASSUME NEW k \in 0..N
        PROVE  /\ B1[k + 1] = E1[k] + Size(sentFrames'[k + 1])
               /\ G1[k + 1] = G1[k] + Size(sentFrames'[k + 1])
    <3>1. CASE k = N
      BY <1>2, <1>5, <1>7, <1>8, <1>10, <1>11, <1>12, <3>1
    <3>2. CASE k # N
      <4>1. k \in 0..(N - 1) /\ k \in 0..N /\ k + 1 \in 0..N /\ k + 1 \in 1..N
        BY <1>3, <3>2
      <4>2. B[k + 1] = E[k] + Size(sentFrames[k + 1]) /\ G[k + 1] = G[k] + Size(sentFrames[k + 1])
        BY <1>1, <1>2, <4>1 DEF Layout, Places
      <4>. QED  BY <1>5, <1>10, <1>11, <1>12, <4>1, <4>2
    <3>. QED  BY <3>1, <3>2
  <2>3. (N + 1) - 1 = N
    BY <1>3
  <2>4. E1[N + 1] - G1[N + 1] = Len(sentOutput) + 1 /\ E1[N + 1] = Len(written') + 1
    <3>1. (e + z) - (g + z) = e - g /\ e + z = w + z + 1
      BY <1>3, <1>8
    <3>. QED  BY <1>4, <1>8, <1>11, <1>12, <3>1
  <2>5. sentOutput' = sentOutput
    OBVIOUS
  <2>. QED  BY <1>5, <2>1, <2>2, <2>3, <2>4, <2>5 DEF Places
<1>16. Spans(E1)'
  <2>1. ASSUME NEW k \in 0..N
        PROVE  sentFrames'[k + 1] \in Good /\ Begins(E1[k], sentFrames[k + 1])'
    <3>1. CASE k = N
      <4>1. \A i \in 1..z : w + i = e + i - 1
        BY <1>3, <1>8
      <4>2. \A i \in 1..Size(f) : written'[e + i - 1] = Code(f)[i]
        BY <1>2, <1>4, <4>1
      <4>3. E1[k] = e /\ sentFrames'[k + 1] = f
        BY <1>5, <1>7, <1>8, <1>11, <3>1
      <4>. QED  BY <4>2, <4>3 DEF Begins
    <3>2. CASE k # N
      <4>1. k \in 0..(N - 1)
        BY <1>3, <3>2
      <4>2. sentFrames'[k + 1] \in Good /\ Begins(E[k], sentFrames[k + 1])'
        BY <1>1, <1>2, <1>6, <4>1, PastKept
      <4>3. E1[k] = E[k]
        BY <1>11
      <4>. QED  BY <4>2, <4>3 DEF Begins
    <3>. QED  BY <3>1, <3>2
  <2>2. \E h \in Good : Begins(E1[N + 1], h)' /\ E1[N + 1] + Size(h) > Len(written') + 1
    <3>1. PICK h \in Good : TRUE
      BY SomeFrame
    <3>2. Size(h) \in Nat /\ Size(h) >= 1
      BY LoadFacts, Numbers DEF Good
    <3>3. E1[N + 1] = w + z + 1
      BY <1>3, <1>8, <1>11
    <3>4. w + z + 1 + Size(h) > w + z + 1 /\ \A i \in 1..Size(h) : ~(w + z + 1 + i - 1 <= w + z)
      BY <1>3, <3>2, SMTT(30)
    <3>. QED  BY <1>4, <3>3, <3>4 DEF Begins
  <2>3. (N + 1) - 1 = N
    BY <1>3
  <2>. QED  BY <1>5, <2>1, <2>2, <2>3 DEF Spans
<1>17. Texts(B1, E1, G1)'
  <2>1. ASSUME NEW k \in 0..(N + 1), NEW p \in B1[k]..(E1[k] - 1) PROVE written'[p] = sentOutput'[p - G1[k]]
    <3>1. CASE k \in 0..N
      <4>1. B1[k] = B[k] /\ E1[k] = E[k] /\ G1[k] = G[k]
        BY <1>10, <1>11, <1>12, <3>1
      <4>2. k \in 0..Sent /\ p \in B[k]..(E[k] - 1)
        BY <1>2, <3>1, <4>1
      <4>3. written'[p] = sentOutput'[p - G[k]]
        BY <1>1, <1>6, <4>2, PastKept, ZenonT(60)
      <4>. QED  BY <4>1, <4>3
    <3>2. CASE k = N + 1
      <4>1. p \in (e + z)..((e + z) - 1)
        BY <1>10, <1>11, <3>2
      <4>2. e + z \in Nat
        BY <1>3, <1>8
      <4>. QED  BY <4>1, <4>2
    <3>. QED  BY <1>13, <3>1, <3>2
  <2>. QED  BY <1>5, <2>1 DEF Texts
<1>18. Quiet(B1, E1)'
  <2>1. ASSUME NEW k \in 0..(N + 1) PROVE Harmless(B1[k], E1[k])'
    <3>1. CASE k \in 0..N
      <4>1. B1[k] = B[k] /\ E1[k] = E[k]
        BY <1>10, <1>11, <3>1
      <4>. QED  BY <1>1, <1>2, <1>6, <3>1, <4>1, PastKept
    <3>2. CASE k = N + 1
      <4>1. B1[k] = e + z /\ E1[k] = e + z
        BY <1>10, <1>11, <3>2
      <4>2. \A p \in (e + z)..(e + z) : ~(p + Len(Magic) + 1 < e + z)
        BY <1>3, <1>8, Numbers
      <4>. QED  BY <4>1, <4>2 DEF Harmless
    <3>. QED  BY <1>13, <3>1, <3>2
  <2>. QED  BY <1>5, <2>1 DEF Quiet
<1>19. LastText(B1, E1)'
  <2>1. Len(text') = 0 /\ (e + z) - (e + z) = 0
    BY <1>3, <1>8, EmptySeq
  <2>. QED  BY <1>5, <1>10, <1>11, <2>1 DEF LastText
<1>20. Marks' = [0..(N + 1) -> Nat]
  BY <1>5 DEF Marks
<1>. QED  BY <1>14, <1>15, <1>16, <1>17, <1>18, <1>19, <1>20 DEF Placed, Layout

-------------------------------------------------------------------------------
(* The writer: a torn frame, what follows it, and text *)

\* Bytes that are neither a frame nor output stand behind what was sent.
LEMMA BytesAdded ==
  ASSUME TypeOK, NEW B \in Marks, NEW E \in Marks, NEW G \in Marks, Layout(B, E, G), Position(B, E, G),
         NEW s \in Bytes, written' = written \o s, stream' \in {"torn", "mixed"},
         UNCHANGED <<sentFrames, sentOutput, text, scanVars>>,
         E[Sent] <= Len(written') /\ written'[E[Sent]] = Magic[1],
         stream' = "torn" => \E f \in Good : Begins(E[Sent], f)' /\ E[Sent] + Size(f) > Len(written') + 1
  PROVE  Placed'
<1>1. PICK N, w, n, e : N = Sent /\ w = Len(written) /\ n = Len(s) /\ e = E[Sent]
  OBVIOUS
<1>2. N \in Nat /\ w \in Nat /\ n \in Nat /\ Len(sentOutput) \in Nat /\ written \in Bytes
  BY <1>1, LenProperties, Counts DEF TypeOK, Bytes
<1>3. Len(written') = w + n /\ \A i \in 1..w : written'[i] = written[i]
  <2> DEFINE t == written \o s
  <2>1. written' = t
    OBVIOUS
  <2>2. /\ Len(t) = Len(written) + Len(s)
        /\ \A i \in 1..Len(written) : t[i] = written[i]
    BY <1>2, Appended
  <2> HIDE DEF t
  <2>. QED  BY <1>1, <2>1, <2>2
<1>4. Sent' = Sent /\ sentFrames' = sentFrames /\ sentOutput' = sentOutput /\ text' = text
  BY DEF Sent
<1>5. Grown
  <2>1. Len(written') \in Nat /\ Len(written') >= Len(written)
    BY <1>1, <1>2, <1>3
  <2>2. Sent' \in Nat /\ Sent' >= Sent /\ Len(sentOutput') >= Len(sentOutput)
    BY <1>1, <1>2, <1>4
  <2>. QED  BY <1>1, <1>2, <1>3, <1>4, <2>1, <2>2 DEF Grown
<1>6. \A k \in 0..N : /\ B[k] \in Nat /\ E[k] \in Nat /\ G[k] \in Nat /\ B[k] <= E[k] /\ G[k] < B[k]
                      /\ E[k] <= w + 1 /\ E[k] - G[k] <= Len(sentOutput) + 1
  BY <1>1, Ends
<1>7. N \in 0..N
  BY <1>2
<1>8. Position(B, E, G)'
  <2>1. Longer(B, E, G, B, E, G)
    BY <1>1, <1>6 DEF Longer
  <2>2. UNCHANGED scanVars
    OBVIOUS
  <2>. QED  BY <1>5, <2>1, <2>2, PositionKept
<1>9. Places(B, E, G)'
  <2>1. ASSUME NEW k \in 0..N PROVE E[k] <= Len(written') + 1
    <3>1. PICK x : x = E[k]
      OBVIOUS
    <3>2. x \in Nat /\ x <= w + 1
      BY <1>6, <3>1
    <3>3. x <= w + n + 1
      BY <1>2, <3>2
    <3>. QED  BY <1>3, <3>1, <3>3
  <2>2. Places(B, E, G)
    BY DEF Layout
  <2>3. stream' # "whole"
    OBVIOUS
  <2>. QED  BY <1>1, <1>4, <2>1, <2>2, <2>3 DEF Places
<1>10. Spans(E)'
  <2>1. \A k \in 0..(N - 1) : sentFrames'[k + 1] \in Good /\ Begins(E[k], sentFrames[k + 1])'
    BY <1>1, <1>5, PastKept
  <2>. QED  BY <1>1, <1>4, <2>1 DEF Spans
<1>11. Texts(B, E, G)'
  BY <1>4, <1>5, PastKept DEF Texts
<1>12. Quiet(B, E)'
  BY <1>4, <1>5, PastKept DEF Quiet
<1>13. LastText(B, E)'
  <2>1. PICK b, g : b = B[N] /\ g = G[N]
    OBVIOUS
  <2>2. b \in Nat /\ g \in Nat /\ e \in Nat /\ g < b /\ b <= e /\ e <= w + 1
    BY <1>1, <1>6, <1>7, <2>1
  <2>3. Len(text) = e - b /\ \A i \in 1..Len(text) : text[i] = written[b + i - 1]
    BY <1>1, <2>1 DEF Layout, LastText
  <2>4. ASSUME NEW i \in 1..Len(text) PROVE text[i] = written'[b + i - 1]
    <3>1. b + i - 1 \in 1..w
      BY <1>2, <2>2, <2>3
    <3>. QED  BY <1>3, <2>3, <3>1
  <2>. QED  BY <1>1, <1>4, <2>1, <2>3, <2>4 DEF LastText
<1>14. Marks' = Marks
  BY <1>4 DEF Marks
<1>. QED  BY <1>8, <1>9, <1>10, <1>11, <1>12, <1>13, <1>14 DEF Placed, Layout

\* The beginning of one more frame.
LEMMA FrameTorn ==
  ASSUME TypeOK, stream = "whole", NEW f \in Good, NEW n \in 1..(Len(Code(f)) - 1),
         written' = written \o First(Code(f), n), stream' = "torn",
         UNCHANGED <<sentFrames, sentOutput, text, scanVars>>,
         Placed
  PROVE  Placed'
<1>1. PICK B \in Marks, E \in Marks, G \in Marks : Layout(B, E, G) /\ Position(B, E, G)
  BY DEF Placed
<1>2. PICK w, z, s, e : w = Len(written) /\ z = Size(f) /\ s = First(Code(f), n) /\ e = E[Sent]
  OBVIOUS
<1>3. f \in Frame /\ z \in Nat /\ z = Len(Code(f)) /\ Code(f) \in Bytes /\ w \in Nat /\ written \in Bytes
  BY <1>2, LoadFacts, CodeFacts, Counts DEF Good, TypeOK, Bytes
<1>4. n \in Nat /\ n >= 1 /\ n < z /\ s \in Bytes /\ Len(s) = n /\ \A i \in 1..n : s[i] = Code(f)[i]
  <2>1. n \in 0..Len(Code(f)) /\ n \in Nat /\ n >= 1 /\ n < z
    BY <1>3
  <2>. QED  BY <1>2, <1>3, <2>1, Pieces
<1>5. Len(written') = w + n /\ \A i \in 1..n : written'[w + i] = Code(f)[i]
  <2> DEFINE t == written \o s
  <2>1. written' = t
    BY <1>2
  <2>2. /\ Len(t) = Len(written) + Len(s)
        /\ \A i \in 1..Len(s) : t[Len(written) + i] = s[i]
    BY <1>3, <1>4, Appended
  <2> HIDE DEF t
  <2>. QED  BY <1>2, <1>4, <2>1, <2>2
<1>6. e = w + 1
  BY <1>1, <1>2, Ends
<1>7. e <= Len(written') /\ written'[e] = Magic[1]
  <2>1. 1 \in 1..n /\ w + 1 <= w + n /\ 1 \in 1..Len(Magic)
    BY <1>3, <1>4, Numbers
  <2>2. Code(f)[1] = Magic[1]
    BY <1>3, <2>1, CodeFacts
  <2>. QED  BY <1>5, <1>6, <2>1, <2>2
<1>8. Begins(e, f)'
  <2>1. \A i \in 1..z : e + i - 1 <= w + n => i \in 1..n /\ e + i - 1 = w + i
    BY <1>3, <1>4, <1>6
  <2>. QED  BY <1>2, <1>5, <2>1 DEF Begins
<1>9. e + Size(f) > Len(written') + 1
  <2>1. e + z > w + n + 1
    BY <1>3, <1>4, <1>6
  <2>. QED  BY <1>2, <1>5, <2>1
<1>10. written' = written \o s /\ stream' \in {"torn", "mixed"}
  BY <1>2
<1>11. \E h \in Good : Begins(E[Sent], h)' /\ E[Sent] + Size(h) > Len(written') + 1
  <2>1. Sent' = Sent
    BY DEF Sent
  <2>. QED  BY <1>2, <1>8, <1>9, <2>1 DEF Begins
<1>. QED  BY <1>1, <1>2, <1>4, <1>7, <1>10, <1>11, BytesAdded

\* Whatever is written behind it: what was sent ahead of it stands where it stood.
LEMMA BytesFollow ==
  ASSUME TypeOK, stream # "whole", NEW s \in Bytes, written' = written \o s, stream' = "mixed",
         UNCHANGED <<sentFrames, sentOutput, text, scanVars>>,
         Placed
  PROVE  Placed'
<1>1. PICK B \in Marks, E \in Marks, G \in Marks : Layout(B, E, G) /\ Position(B, E, G)
  BY DEF Placed
<1>2. PICK e, w : e = E[Sent] /\ w = Len(written)
  OBVIOUS
<1>3. e <= w /\ written[e] = Magic[1]
  BY <1>1, <1>2 DEF Layout, Spans
<1>4. e \in 1..w /\ w \in Nat /\ written \in Bytes
  <2>1. PICK g, b : g = G[Sent] /\ b = B[Sent]
    OBVIOUS
  <2>2. e \in Nat /\ g \in Nat /\ b \in Nat /\ g < b /\ b <= e
    BY <1>1, <1>2, <2>1, Ends
  <2>3. w \in Nat /\ written \in Bytes
    BY <1>2, Counts DEF TypeOK, Bytes
  <2>. QED  BY <1>3, <2>2, <2>3
<1>5. e <= Len(written') /\ written'[e] = Magic[1]
  <2> DEFINE t == written \o s
  <2>1. written' = t
    OBVIOUS
  <2>2. /\ Len(t) = Len(written) + Len(s) /\ Len(s) \in Nat
        /\ \A i \in 1..Len(written) : t[i] = written[i]
    BY <1>4, Appended
  <2> HIDE DEF t
  <2>. QED  BY <1>2, <1>3, <1>4, <2>1, <2>2
<1>. QED  BY <1>1, <1>2, <1>5, BytesAdded

\* More text after the last frame, in which nothing looks like the start of a frame.
LEMMA TextAdded ==
  ASSUME TypeOK, stream = "whole", NEW t \in Bytes,
         written' = written \o t, sentOutput' = sentOutput \o t, text' = text \o t,
         UNCHANGED <<stream, sentFrames, scanVars>>,
         ~ \E i \in 1..(Len(text') - Len(Magic) - 1) :
             /\ MagicAt(text', i)
             /\ text'[i + Len(Magic)] \in Type /\ text'[i + Len(Magic) + 1] <= MaxFrame,
         Placed
  PROVE  Placed'
<1>1. PICK B \in Marks, E \in Marks, G \in Marks : Layout(B, E, G) /\ Position(B, E, G)
  BY DEF Placed
<1>2. PICK N, w, n, o : N = Sent /\ w = Len(written) /\ n = Len(t) /\ o = Len(sentOutput)
  OBVIOUS
<1>3. /\ n \in Nat /\ N \in Nat /\ w \in Nat /\ o \in Nat
      /\ written \in Bytes /\ sentOutput \in Bytes /\ text \in Bytes /\ Len(text) \in Nat
  BY <1>2, Appended, Counts DEF TypeOK, Bytes
<1>4. /\ Len(written') = w + n
      /\ \A i \in 1..w : written'[i] = written[i]
      /\ \A i \in 1..n : written'[w + i] = t[i]
  <2> DEFINE s == written \o t
  <2>1. written' = s
    OBVIOUS
  <2>2. /\ Len(s) = Len(written) + Len(t)
        /\ \A i \in 1..Len(written) : s[i] = written[i]
        /\ \A i \in 1..Len(t) : s[Len(written) + i] = t[i]
    BY <1>3, Appended
  <2> HIDE DEF s
  <2>. QED  BY <1>2, <2>1, <2>2
<1>5. /\ Len(sentOutput') = o + n
      /\ \A i \in 1..o : sentOutput'[i] = sentOutput[i]
      /\ \A i \in 1..n : sentOutput'[o + i] = t[i]
  <2> DEFINE s == sentOutput \o t
  <2>1. sentOutput' = s
    OBVIOUS
  <2>2. /\ Len(s) = Len(sentOutput) + Len(t)
        /\ \A i \in 1..Len(sentOutput) : s[i] = sentOutput[i]
        /\ \A i \in 1..Len(t) : s[Len(sentOutput) + i] = t[i]
    BY <1>3, Appended
  <2> HIDE DEF s
  <2>. QED  BY <1>2, <2>1, <2>2
<1>6. /\ Len(text') = Len(text) + n /\ text' \in Bytes
      /\ \A i \in 1..Len(text) : text'[i] = text[i]
      /\ \A i \in 1..n : text'[Len(text) + i] = t[i]
  <2> DEFINE s == text \o t
  <2>1. text' = s
    OBVIOUS
  <2>2. /\ Len(s) = Len(text) + Len(t) /\ s \in Bytes
        /\ \A i \in 1..Len(text) : s[i] = text[i]
        /\ \A i \in 1..Len(t) : s[Len(text) + i] = t[i]
    BY <1>3, Appended
  <2> HIDE DEF s
  <2>. QED  BY <1>2, <2>1, <2>2
<1>7. Sent' = Sent /\ sentFrames' = sentFrames
  BY DEF Sent
<1>8. Grown
  <2>1. /\ Len(written') \in Nat /\ Len(written') >= Len(written)
        /\ Len(sentOutput') \in Nat /\ Len(sentOutput') >= Len(sentOutput)
    BY <1>2, <1>3, <1>4, <1>5
  <2>2. Sent' \in Nat /\ Sent' >= Sent
    BY <1>2, <1>3, <1>7
  <2>. QED  BY <1>2, <1>4, <1>5, <1>7, <2>1, <2>2 DEF Grown
<1>9. PICK b, e, g : b = B[N] /\ e = E[N] /\ g = G[N]
  OBVIOUS
<1>10. /\ e = w + 1 /\ e - g = o + 1 /\ N \in 0..N
       /\ b \in Nat /\ e \in Nat /\ g \in Nat /\ b <= e /\ g < b
  BY <1>1, <1>2, <1>9, Ends
<1>11. \A k \in 0..N : /\ B[k] \in Nat /\ E[k] \in Nat /\ G[k] \in Nat /\ B[k] <= E[k] /\ G[k] < B[k]
                       /\ E[k] <= w + 1 /\ E[k] - G[k] <= o + 1
  BY <1>1, <1>2, Ends
<1>12. PICK E1 \in [0..N -> Nat] : (\A k \in 0..N : k # N => E1[k] = E[k]) /\ E1[N] = e + n
  <2>1. e + n \in Nat
    BY <1>3, <1>10
  <2>2. [k \in 0..N |-> IF k # N THEN E[k] ELSE e + n] \in [0..N -> Nat]
    BY <1>11, <2>1
  <2>. QED  BY <1>10, <2>2
<1>13. Position(B, E1, G)'
  <2>1. ASSUME NEW k \in 0..N PROVE E1[k] \in Nat /\ E1[k] >= E[k]
    <3>1. CASE k = N
      <4>1. e + n \in Nat /\ e + n >= e
        BY <1>3, <1>10
      <4>. QED  BY <1>9, <1>12, <3>1, <4>1
    <3>2. CASE k # N
      <4>1. PICK x : x = E[k]
        OBVIOUS
      <4>2. x \in Nat /\ x >= x
        BY <1>11, <4>1
      <4>. QED  BY <1>12, <3>2, <4>1, <4>2
    <3>. QED  BY <3>1, <3>2
  <2>2. Longer(B, E, G, B, E1, G)
    BY <1>2, <2>1 DEF Longer
  <2>3. UNCHANGED scanVars
    OBVIOUS
  <2>. QED  BY <1>1, <1>8, <2>2, <2>3, PositionKept
<1>14. Places(B, E1, G)'
  <2>1. ASSUME NEW k \in 0..N
        PROVE  /\ B[k] <= E1[k] /\ G[k] < B[k]
               /\ E1[k] <= Len(written') + 1 /\ E1[k] - G[k] <= Len(sentOutput') + 1
    <3>1. CASE k = N
      <4>1. b <= e + n /\ g < b /\ e + n <= w + n + 1 /\ (e + n) - g <= o + n + 1
        BY <1>3, <1>10
      <4>. QED  BY <1>4, <1>5, <1>9, <1>12, <3>1, <4>1
    <3>2. CASE k # N
      <4>1. PICK x, y, u : x = E[k] /\ y = G[k] /\ u = B[k]
        OBVIOUS
      <4>2. x \in Nat /\ y \in Nat /\ u \in Nat /\ u <= x /\ y < u /\ x <= w + 1 /\ x - y <= o + 1
        BY <1>11, <4>1
      <4>3. u <= x /\ y < u /\ x <= w + n + 1 /\ x - y <= o + n + 1
        BY <1>3, <4>2
      <4>. QED  BY <1>4, <1>5, <1>12, <3>2, <4>1, <4>3
    <3>. QED  BY <3>1, <3>2
  <2>2. ASSUME NEW k \in 0..(N - 1)
        PROVE  /\ B[k + 1] = E1[k] + Size(sentFrames[k + 1])
               /\ G[k + 1] = G[k] + Size(sentFrames[k + 1])
    <3>1. k \in 0..N /\ k # N
      BY <1>3
    <3>2. E1[k] = E[k]
      BY <1>12, <3>1
    <3>. QED  BY <1>1, <1>2, <3>2 DEF Layout, Places
  <2>3. E1[N] - G[N] = Len(sentOutput') + 1 /\ E1[N] = Len(written') + 1
    <3>1. (e + n) - g = o + n + 1 /\ e + n = w + n + 1
      BY <1>3, <1>10
    <3>. QED  BY <1>4, <1>5, <1>9, <1>12, <3>1
  <2>. QED  BY <1>2, <1>7, <2>1, <2>2, <2>3 DEF Places
<1>15. Spans(E1)'
  <2>1. ASSUME NEW k \in 0..(N - 1)
        PROVE  sentFrames'[k + 1] \in Good /\ Begins(E1[k], sentFrames[k + 1])'
    <3>1. k \in 0..N /\ k # N
      BY <1>3
    <3>2. E1[k] = E[k]
      BY <1>12, <3>1
    <3>3. sentFrames'[k + 1] \in Good /\ Begins(E[k], sentFrames[k + 1])'
      BY <1>1, <1>2, <1>8, PastKept
    <3>. QED  BY <3>2, <3>3 DEF Begins
  <2>2. \E h \in Good : Begins(E1[N], h)' /\ E1[N] + Size(h) > Len(written') + 1
    <3>1. PICK h \in Good : TRUE
      BY SomeFrame
    <3>2. Size(h) \in Nat /\ Size(h) >= 1
      BY LoadFacts, Numbers DEF Good
    <3>3. E1[N] = w + n + 1
      BY <1>3, <1>10, <1>12
    <3>4. w + n + 1 + Size(h) > w + n + 1 /\ \A i \in 1..Size(h) : ~(w + n + 1 + i - 1 <= w + n)
      BY <1>3, <3>2
    <3>. QED  BY <1>4, <3>3, <3>4 DEF Begins
  <2>. QED  BY <1>2, <1>7, <2>1, <2>2 DEF Spans
<1>16. Texts(B, E1, G)'
  <2>1. ASSUME NEW k \in 0..N, NEW p \in B[k]..(E1[k] - 1) PROVE written'[p] = sentOutput'[p - G[k]]
    <3>1. CASE p \in B[k]..(E[k] - 1)
      BY <1>1, <1>2, <1>8, <3>1, PastKept, ZenonT(60)
    <3>2. CASE ~(p \in B[k]..(E[k] - 1))
      <4>1. k = N
        <5>1. k # N => p \in B[k]..(E[k] - 1)
          BY <1>12
        <5>. QED  BY <3>2, <5>1
      <4>2. p \in b..((e + n) - 1) /\ ~(p \in b..(e - 1)) /\ G[k] = g
        BY <1>9, <1>12, <3>2, <4>1
      <4>3. PICK j : j = p - w
        OBVIOUS
      <4>4. j \in 1..n /\ p = w + j /\ p - g = o + j
        BY <1>3, <1>10, <4>2, <4>3
      <4>. QED  BY <1>4, <1>5, <4>2, <4>4
    <3>. QED  BY <3>1, <3>2
  <2>. QED  BY <1>2, <1>7, <2>1 DEF Texts
<1>17. LastText(B, E1)'
  <2>1. Len(text) = e - b /\ \A i \in 1..Len(text) : text[i] = written[b + i - 1]
    BY <1>1, <1>2, <1>9 DEF Layout, LastText
  <2>2. ASSUME NEW i \in 1..Len(text') PROVE text'[i] = written'[b + i - 1]
    <3>1. CASE i \in 1..Len(text)
      <4>1. b + i - 1 \in 1..w
        BY <1>3, <1>10, <2>1, <3>1
      <4>. QED  BY <1>4, <1>6, <2>1, <3>1, <4>1
    <3>2. CASE ~(i \in 1..Len(text))
      <4>1. PICK j, m : j = i - Len(text) /\ m = Len(text)
        OBVIOUS
      <4>2. i \in 1..(m + n) /\ m \in Nat /\ m = e - b
        BY <1>3, <1>6, <2>1, <4>1
      <4>3. j \in 1..n /\ i = m + j /\ b + i - 1 = w + j
        BY <1>3, <1>10, <3>2, <4>1, <4>2
      <4>4. text'[m + j] = t[j] /\ written'[w + j] = t[j]
        BY <1>4, <1>6, <4>1, <4>3
      <4>. QED  BY <4>3, <4>4
    <3>. QED  BY <3>1, <3>2
  <2>3. Len(text') = (e + n) - b
    BY <1>3, <1>6, <1>10, <2>1
  <2>. QED  BY <1>2, <1>7, <1>9, <1>12, <2>2, <2>3 DEF LastText
<1>18. Quiet(B, E1)'
  <2>1. ASSUME NEW k \in 0..N, k # N PROVE Harmless(B[k], E1[k])'
    <3>1. E1[k] = E[k]
      BY <1>12, <2>1
    <3>2. Harmless(B[k], E[k])'
      BY <1>1, <1>2, <1>8, PastKept
    <3>. QED  BY <3>1, <3>2 DEF Harmless
  <2>2. ASSUME NEW p \in b..(e + n), p + Len(Magic) + 1 < e + n, Spelled(written', p)
        PROVE  ~(written'[p + Len(Magic)] \in Type /\ written'[p + Len(Magic) + 1] <= MaxFrame)
    <3>1. Len(text') = (e + n) - b /\ \A i \in 1..Len(text') : text'[i] = written'[b + i - 1]
      BY <1>2, <1>7, <1>9, <1>12, <1>17 DEF LastText
    <3>2. PICK i : i = p - b + 1
      OBVIOUS
    <3>3. /\ i \in Nat /\ i >= 1 /\ i \in 1..(Len(text') - Len(Magic) - 1) /\ i + Len(Magic) - 1 <= Len(text')
          /\ i + Len(Magic) \in 1..Len(text') /\ i + Len(Magic) + 1 \in 1..Len(text')
          /\ b + (i + Len(Magic)) - 1 = p + Len(Magic) /\ b + (i + Len(Magic) + 1) - 1 = p + Len(Magic) + 1
          /\ \A j \in 1..Len(Magic) : i + j - 1 \in 1..Len(text') /\ b + (i + j - 1) - 1 = p + j - 1
      <4>1. PICK l, m : l = Len(Magic) /\ m = Len(text')
        OBVIOUS
      <4>2. l \in Nat /\ l >= 1 /\ p \in Nat /\ b <= p /\ p + l + 1 < e + n /\ m = (e + n) - b /\ i \in Nat /\ i >= 1
        BY <1>3, <1>10, <2>2, <3>1, <3>2, <4>1, Numbers
      <4>3. /\ i \in 1..(m - l - 1) /\ i + l - 1 <= m /\ i + l \in 1..m /\ i + l + 1 \in 1..m
            /\ b + (i + l) - 1 = p + l /\ b + (i + l + 1) - 1 = p + l + 1
        BY <1>3, <1>10, <3>2, <4>2
      <4>4. \A j \in 1..l : i + j - 1 \in 1..m /\ b + (i + j - 1) - 1 = p + j - 1
        BY <1>3, <1>10, <3>2, <4>2
      <4>. QED  BY <4>1, <4>2, <4>3, <4>4
    <3>4. Spelled(text', i)
      <4>1. \A j \in 1..Len(Magic) : text'[i + j - 1] = written'[p + j - 1]
        BY <3>1, <3>3
      <4>. QED  BY <2>2, <4>1 DEF Spelled
    <3>5. MagicAt(text', i)
      BY <1>6, <3>3, <3>4, MagicSpelled
    <3>6. /\ text'[i + Len(Magic)] = written'[p + Len(Magic)]
          /\ text'[i + Len(Magic) + 1] = written'[p + Len(Magic) + 1]
      BY <3>1, <3>3
    <3>. QED  BY <3>3, <3>5, <3>6
  <2>3. Harmless(B[N], E1[N])'
    BY <1>9, <1>12, <2>2 DEF Harmless, Spelled
  <2>. QED  BY <1>2, <1>7, <2>1, <2>3 DEF Quiet
<1>19. Marks' = [0..N -> Nat] /\ B \in [0..N -> Nat] /\ G \in [0..N -> Nat]
  BY <1>2, <1>7 DEF Marks
<1>. QED  BY <1>13, <1>14, <1>15, <1>16, <1>17, <1>18, <1>19 DEF Placed, Layout

-------------------------------------------------------------------------------
(* The invariant *)

\* What holds in every state.
IInv == TypeOK /\ Conserved /\ Idle /\ (~coincidence => Exact)

\* What the runtime writes is good for the reader.
LEMMA Written ==
  ASSUME NEW type \in Type, NEW p \in Calls \cup Data \cup {<<>>},
         \/ type = CALL /\ p \in Calls
         \/ type = DATA /\ p \in Data
         \/ type = CLOSE /\ p = <<>>
  PROVE  LET f == [type |-> type, payload |-> p]
         IN  f \in Good /\ Code(f) = Encode(type, p)
<1> DEFINE f == [type |-> type, payload |-> p]
<1>1. p \in Seq(Nat) /\ Len(p) <= MaxFrame
  <2>1. CASE p \in Calls \cup Data
    BY <2>1, PayloadAssumption
  <2>2. CASE p = <<>>
    <3>1. <<>> \in Seq(Nat) /\ Len(<<>>) = 0 /\ 0 <= MaxFrame
      BY EmptySeq, TypeNumbers
    <3>. QED  BY <2>2, <3>1
  <2>. QED  BY <2>1, <2>2
<1>2. type = CALL => p \in Json
  BY PayloadAssumption DEF CALL, DATA, CLOSE
<1>3. f \in Frame /\ f.type = type /\ f.payload = p
  BY <1>1 DEF Frame
<1>. QED  BY <1>1, <1>2, <1>3 DEF Good, Code

\* What the runtime does, while no output looks like a frame.
LEMMA WriteExact ==
  ASSUME TypeOK, Conserved, ~coincidence => Exact, Write, ~coincidence'
  PROVE  Exact'
<1>1. ASSUME ~coincidence, stream = "whole" PROVE Placed
  BY <1>1 DEF Exact, Past
<1>2. ASSUME NEW f \in Good, WriteFrame(f.type, f.payload), Code(f) = Encode(f.type, f.payload)
      PROVE  Exact'
  <2>1. /\ stream = "whole" /\ written' = written \o Code(f) /\ text' = <<>> /\ ~coincidence
        /\ UNCHANGED <<stream, sentOutput, scanVars>>
    BY <1>2 DEF WriteFrame, Emit
  <2>2. [type |-> f.type, payload |-> f.payload] = f
    BY DEF Good, Frame
  <2>3. sentFrames' = Append(sentFrames, f)
    BY <1>2, <2>2 DEF WriteFrame
  <2>. QED  BY <1>1, <2>1, <2>3, FrameAdded DEF Exact
<1>3. ASSUME NEW f \in Good, TearFrame(f.type, f.payload), Code(f) = Encode(f.type, f.payload)
      PROVE  Exact'
  <2>1. PICK n \in 1..(Len(Code(f)) - 1) : Emit(First(Code(f), n))
    BY <1>3 DEF TearFrame
  <2>2. /\ stream = "whole" /\ stream' = "torn" /\ ~coincidence
        /\ UNCHANGED <<sentFrames, sentOutput, text, scanVars>>
    BY <1>3 DEF TearFrame
  <2>3. written' = written \o First(Code(f), n)
    BY <2>1 DEF Emit
  <2>. QED  BY <1>1, <2>2, <2>3, FrameTorn DEF Exact
<1>4. ASSUME NEW t \in Output, Print_(t) PROVE Exact'
  <2>1. t \in Bytes
    BY PayloadAssumption DEF Bytes
  <2>2. /\ stream = "whole" /\ written' = written \o t /\ sentOutput' = sentOutput \o t /\ text' = text \o t
        /\ UNCHANGED <<stream, sentFrames, scanVars>>
    BY <1>4 DEF Print_, Emit
  <2>3. /\ ~coincidence
        /\ ~ \E i \in 1..(Len(text') - Len(Magic) - 1) :
               /\ MagicAt(text', i)
               /\ text'[i + Len(Magic)] \in Type /\ text'[i + Len(Magic) + 1] <= MaxFrame
    BY <1>4 DEF Print_
  <2>. QED  BY <1>1, <2>1, <2>2, <2>3, TextAdded DEF Exact
<1>5. ASSUME NEW s \in Following, WriteOn(s) PROVE Exact'
  <2>1. s \in Bytes
    BY PayloadAssumption DEF Bytes
  <2>2. /\ stream # "whole" /\ written' = written \o s /\ stream' = "mixed" /\ ~coincidence
        /\ UNCHANGED <<sentFrames, sentOutput, text, scanVars>>
    BY <1>5 DEF WriteOn, Emit
  <2>3. Placed => Placed'
    BY <2>1, <2>2, BytesFollow
  <2>4. Past => Past'
    BY <2>2 DEF Past, Sent, scanVars
  <2>. QED  BY <2>2, <2>3, <2>4 DEF Exact
<1>6. ASSUME NEW type \in Type, NEW p \in Calls \cup Data \cup {<<>>},
             \/ type = CALL /\ p \in Calls
             \/ type = DATA /\ p \in Data
             \/ type = CLOSE /\ p = <<>>,
             WriteFrame(type, p) \/ TearFrame(type, p)
      PROVE  Exact'
  <2>1. PICK f : f = [type |-> type, payload |-> p]
    OBVIOUS
  <2>2. f \in Good /\ Code(f) = Encode(type, p) /\ f.type = type /\ f.payload = p
    BY <1>6, <2>1, Written
  <2>. QED  BY <1>2, <1>3, <1>6, <2>2
<1>7. CALL \in Type /\ DATA \in Type /\ CLOSE \in Type
  BY DEF Type
<1>. QED  BY <1>4, <1>5, <1>6, <1>7 DEF Write

\* The writer does not touch what the reader waits for.
LEMMA WriteIdle ==
  ASSUME Idle, Write
  PROVE  Idle'
<1>1. UNCHANGED <<scanning, buffer>>
  BY DEF Write, WriteFrame, TearFrame, Print_, WriteOn, scanVars
<1>. QED  BY <1>1 DEF Idle, FoundAt, HasHeader, Plausible, FrameType, Length, FrameSize

\* Nothing is written yet.
LEMMA InitExact == Init => Idle /\ Exact
<1> SUFFICES ASSUME Init PROVE Idle /\ Exact
  OBVIOUS
<1>1. /\ TypeOK /\ Conserved /\ Len(<<>>) = 0
      /\ written = <<>> /\ sentFrames = <<>> /\ sentOutput = <<>> /\ frames = <<>>
      /\ output = <<>> /\ delivered = <<>> /\ text = <<>> /\ buffer = <<>>
  <2>1. TypeOK /\ Conserved
    BY Initially
  <2>. QED  BY <2>1, EmptySeq DEF Init
<1>2. Idle
  BY <1>1, Numbers DEF Idle
<1>3. Sent = 0
  BY <1>1 DEF Sent
<1>4. PICK B \in [0..0 -> Nat], E \in [0..0 -> Nat], G \in [0..0 -> Nat] : B[0] = 1 /\ E[0] = 1 /\ G[0] = 0
  <2>1. [k \in 0..0 |-> 1] \in [0..0 -> Nat] /\ [k \in 0..0 |-> 0] \in [0..0 -> Nat]
    OBVIOUS
  <2>2. [k \in 0..0 |-> 1][0] = 1 /\ [k \in 0..0 |-> 0][0] = 0
    OBVIOUS
  <2>. QED  BY <2>1, <2>2
<1>5. \A k \in 0..0 : k = 0
  OBVIOUS
<1>6. Places(B, E, G)
  BY <1>1, <1>3, <1>4, <1>5 DEF Places
<1>7. Spans(E)
  <2>1. PICK f \in Good : TRUE
    BY SomeFrame
  <2>2. Size(f) \in Nat /\ Size(f) >= 1
    BY LoadFacts, Numbers DEF Good
  <2>3. \A i \in 1..Size(f) : ~(1 + i - 1 <= 0)
    BY <2>2
  <2>4. Begins(E[0], f) /\ E[0] + Size(f) > Len(written) + 1
    BY <1>1, <1>4, <2>2, <2>3 DEF Begins
  <2>5. stream = "whole"
    BY Zenon DEF Init
  <2>. QED  BY <1>3, <2>4, <2>5 DEF Spans
<1>8. Texts(B, E, G)
  BY <1>3, <1>4, <1>5 DEF Texts
<1>9. Quiet(B, E)
  <2>1. \A p \in 1..1 : ~(p + Len(Magic) + 1 < 1)
    BY Numbers
  <2>. QED  BY <1>3, <1>4, <1>5, <2>1 DEF Quiet, Harmless
<1>10. LastText(B, E)
  BY <1>1, <1>3, <1>4 DEF LastText
<1>11. Position(B, E, G)
  BY <1>1, <1>3, <1>4 DEF Position
<1>12. B \in Marks /\ E \in Marks /\ G \in Marks
  BY <1>3, <1>4 DEF Marks
<1>. QED  BY <1>2, <1>6, <1>7, <1>8, <1>9, <1>10, <1>11, <1>12 DEF Exact, Placed, Layout

\* Every step keeps the invariant.
LEMMA IInvStep == IInv /\ [Next]_vars => IInv'
<1> SUFFICES ASSUME IInv, [Next]_vars PROVE IInv'
  OBVIOUS
<1>1. TypeOK /\ Conserved /\ Idle /\ (~coincidence => Exact)
  BY DEF IInv
<1>2. TypeOK' /\ Conserved'
  BY <1>1, Step
<1>3. CASE Write
  <2>1. Idle'
    BY <1>1, <1>3, WriteIdle
  <2>2. ~coincidence' => Exact'
    BY <1>1, <1>3, WriteExact
  <2>. QED  BY <1>2, <2>1, <2>2 DEF IInv
<1>4. ASSUME NEW n \in 1..Len(wire), Receive(n) PROVE IInv'
  <2>1. Idle'
    BY <1>4 DEF Idle, Receive
  <2>2. UNCHANGED senderVars /\ UNCHANGED <<frames, output, delivered, coincidence>>
    BY <1>4 DEF Receive, senderVars
  <2>3. Marks' = Marks
    BY <2>2 DEF Marks, Sent, senderVars
  <2>4. ASSUME NEW B \in Marks, NEW E \in Marks, NEW G \in Marks, Layout(B, E, G), Position(B, E, G)
        PROVE  Layout(B, E, G)' /\ Position(B, E, G)'
    <3>1. Layout(B, E, G)'
      BY <2>2, <2>4, LayoutKept
    <3>. QED  BY <2>2, <2>4, <3>1 DEF Position, Sent, senderVars
  <2>5. Placed => Placed'
    BY <2>3, <2>4 DEF Placed
  <2>6. Past => Past'
    BY <2>2 DEF Past, Sent, senderVars
  <2>. QED  BY <1>1, <1>2, <2>1, <2>2, <2>5, <2>6 DEF IInv, Exact
<1>5. CASE Scan
  <2>1. Idle'
    BY <1>1, <1>5, ScanIdle
  <2>2. coincidence' = coincidence
    BY <1>5 DEF Scan, NoMagic, SkipToMagic, AwaitMore, Resync, Dispatch, senderVars
  <2>3. Exact => Exact'
    BY <1>1, <1>5, ScanExact
  <2>. QED  BY <1>1, <1>2, <2>1, <2>2, <2>3 DEF IInv
<1>6. CASE UNCHANGED vars
  <2>1. UNCHANGED senderVars /\ UNCHANGED scanVars /\ UNCHANGED scanning /\ coincidence' = coincidence
    BY <1>6 DEF vars, senderVars
  <2>2. Idle'
    BY <1>1, <2>1 DEF Idle, FoundAt, HasHeader, Plausible, FrameType, Length, FrameSize, scanVars
  <2>3. Marks' = Marks
    BY <2>1 DEF Marks, Sent, senderVars
  <2>4. ASSUME NEW B \in Marks, NEW E \in Marks, NEW G \in Marks, Layout(B, E, G), Position(B, E, G)
        PROVE  Layout(B, E, G)' /\ Position(B, E, G)'
    <3>1. Layout(B, E, G)'
      BY <2>1, <2>4, LayoutKept
    <3>. QED  BY <2>1, <2>4, <3>1 DEF Position, Sent, senderVars, scanVars
  <2>5. Placed => Placed'
    BY <2>3, <2>4 DEF Placed
  <2>6. Past => Past'
    BY <2>1 DEF Past, Sent, senderVars, scanVars
  <2>. QED  BY <1>1, <1>2, <2>1, <2>2, <2>5, <2>6 DEF IInv, Exact
<1>. QED  BY <1>3, <1>4, <1>5, <1>6 DEF Next

-------------------------------------------------------------------------------
(* What follows from it *)

\* A sequence that agrees with another as far as it goes is a prefix of it.
LEMMA PrefixWhen ==
  ASSUME NEW S, NEW s \in Seq(S), NEW t \in Seq(S), Len(s) <= Len(t), \A i \in 1..Len(s) : s[i] = t[i]
  PROVE  Prefix(s, t)
<1>1. Len(s) \in Nat /\ Len(t) \in Nat
  BY LenProperties
<1> DEFINE n == Len(s)
           u == SubSeq(t, 1, n)
<1>2. \A i \in 1..n : t[i] \in S
  <2>1. \A i \in 1..n : i \in 1..Len(t)
    BY <1>1
  <2>. QED  BY <2>1, ElementOfSeq
<1> HIDE DEF n
<1>3. n \in Nat
  BY <1>1 DEF n
<1>4. /\ u \in Seq(S) /\ Len(u) = IF 1 <= n THEN n - 1 + 1 ELSE 0
      /\ \A i \in 1..(n - 1 + 1) : u[i] = t[1 + i - 1]
  BY <1>2, <1>3, SubSeqProperties
<1> HIDE DEF u
<1>5. Len(u) = n /\ \A i \in 1..n : u[i] = t[i]
  <2>1. \A i \in 1..n : 1 + i - 1 = i
    BY <1>3
  <2>. QED  BY <1>3, <1>4, <2>1
<1>6. u = s
  BY <1>4, <1>5, SeqEqual DEF n
<1>. QED  BY <1>6 DEF Prefix, First, u, n

\* With the pipe empty and onData returned, every frame has been dispatched.
LEMMA AllDispatched ==
  ASSUME TypeOK, Conserved, Idle, AtRest, NEW B \in Marks, NEW E \in Marks, NEW G \in Marks,
         Layout(B, E, G), Position(B, E, G)
  PROVE  Len(frames) = Sent
<1> SUFFICES ASSUME Len(frames) # Sent PROVE FALSE
  OBVIOUS
<1>1. PICK d, c, b, e, w, m : /\ d = Len(frames) /\ c = Len(delivered) /\ b = B[d] /\ e = E[d]
                              /\ w = Len(written) /\ m = Len(buffer)
  OBVIOUS
<1>2. PICK f \in Good : Begins(e, f) /\ d + 1 \in 1..Sent /\ f = sentFrames[d + 1]
  BY <1>1, Before DEF Told
<1>3. b \in Nat /\ e \in Nat /\ b <= c + 1 /\ c + 1 <= e /\ Harmless(b, e) /\ Heads(e) /\ d \in 0..Sent
  BY <1>1, Before
<1>4. f \in Frame /\ c \in Nat /\ m \in Nat /\ w \in Nat /\ w = c + m
  <2>1. Len(wire) = 0
    BY EmptySeq DEF AtRest
  <2>. QED  BY <1>1, <2>1, BufferFacts DEF Good
<1>5. PICK z : z = Size(f)
  OBVIOUS
<1>6. z \in Nat /\ z >= Len(Magic) + 2
  BY <1>4, <1>5, LoadFacts, Numbers
<1>7. e + z <= w + 1
  <2>1. d \in 0..(Sent - 1) /\ d + 1 \in 0..Sent
    BY <1>2, <1>3, Counts
  <2>2. PICK x, y : x = B[d + 1] /\ y = E[d + 1]
    OBVIOUS
  <2>3. x \in Nat /\ y \in Nat /\ x <= y /\ y <= w + 1
    BY <1>1, <2>1, <2>2, Ends
  <2>4. x = e + z
    BY <1>1, <1>2, <1>5, <2>1, <2>2 DEF Layout, Places
  <2>. QED  BY <1>3, <1>4, <1>6, <2>3, <2>4
<1>8. m >= z /\ ~(m < Len(Magic))
  BY <1>3, <1>4, <1>6, <1>7, Numbers
<1>9. FoundAt(1) /\ (HasHeader => Plausible /\ m < FrameSize)
  BY <1>1, <1>8 DEF Idle, AtRest
<1>10. HasHeader /\ Plausible /\ m < FrameSize
  <2>1. m >= HEADER_SIZE
    BY <1>4, <1>6, <1>8, Numbers
  <2>. QED  BY <1>1, <1>9, <2>1 DEF HasHeader
<1>11. CASE c + 1 = e
  <2>1. FrameSize = z
    BY <1>1, <1>2, <1>5, <1>10, <1>11, AtFrame
  <2>. QED  BY <1>4, <1>6, <1>8, <1>10, <2>1
<1>12. CASE c + 1 < e
  BY <1>1, <1>3, <1>4, <1>10, <1>12, InText
<1>. QED  BY <1>3, <1>4, <1>11, <1>12

\* And if no frame was torn, no more than the beginning of a header is held back.
LEMMA HeldBack ==
  ASSUME TypeOK, Conserved, Idle, AtRest, stream = "whole", NEW B \in Marks, NEW E \in Marks, NEW G \in Marks,
         Layout(B, E, G), Position(B, E, G)
  PROVE  sentOutput = output \o buffer /\ Len(buffer) < HEADER_SIZE
<1>1. PICK d, c, b, e, g, w, m, n, o : /\ d = Len(frames) /\ c = Len(delivered) /\ b = B[d] /\ e = E[d] /\ g = G[d]
                                       /\ w = Len(written) /\ m = Len(buffer) /\ n = Len(output) /\ o = Len(sentOutput)
  OBVIOUS
<1>2. d = Sent
  BY <1>1, AllDispatched
<1>4. /\ b \in Nat /\ e \in Nat /\ g \in Nat /\ b <= c + 1 /\ c + 1 <= e /\ g < b /\ Harmless(b, e)
      /\ Heads(e) /\ d \in 0..Sent
  BY <1>1, Before
<1>5. c \in Nat /\ m \in Nat /\ w \in Nat /\ n \in Nat /\ o \in Nat /\ w = c + m
  <2>1. Len(wire) = 0
    BY EmptySeq DEF AtRest
  <2>. QED  BY <1>1, <2>1, BufferFacts, Counts
<1>6. e = w + 1 /\ e - g = o + 1 /\ n = c - g
  BY <1>1, <1>2, Ends DEF Position
<1>7. m < HEADER_SIZE
  <2> SUFFICES ASSUME m >= HEADER_SIZE PROVE FALSE
    BY <1>5, Numbers
  <2>1. FoundAt(1) /\ HasHeader /\ Plausible
    BY <1>1, <1>5, Numbers DEF Idle, AtRest, HasHeader
  <2>2. c + 1 < e
    BY <1>5, <1>6, Numbers
  <2>. QED  BY <1>1, <1>4, <1>5, <2>1, <2>2, InText
<1>8. output \in Bytes /\ buffer \in Bytes /\ sentOutput \in Bytes
  BY DEF TypeOK, Bytes
<1> DEFINE s == output \o buffer
<1>9. /\ s \in Bytes /\ Len(s) = n + m
      /\ \A i \in 1..n : s[i] = output[i]
      /\ \A i \in 1..m : s[n + i] = buffer[i]
  BY <1>1, <1>8, Appended
<1> HIDE DEF s
<1>10. o = n + m
  BY <1>4, <1>5, <1>6
<1>11. ASSUME NEW i \in 1..o PROVE sentOutput[i] = s[i]
  <2>1. CASE i \in 1..n
    BY <1>1, <1>9, <2>1 DEF Position
  <2>2. CASE ~(i \in 1..n)
    <3>1. PICK j : j = i - n
      OBVIOUS
    <3>2. j \in 1..m /\ i = n + j /\ c + j \in b..(e - 1) /\ (c + j) - g = i
      BY <1>4, <1>5, <1>6, <1>10, <2>2, <3>1
    <3>3. buffer[j] = written[c + j]
      BY <1>1, <3>2, BufferFacts
    <3>4. written[c + j] = sentOutput[(c + j) - g]
      BY <1>1, <1>4, <3>2 DEF Layout, Texts
    <3>. QED  BY <1>9, <3>2, <3>3, <3>4
  <2>. QED  BY <2>1, <2>2
<1>12. sentOutput = s
  <2>1. s \in Seq(Nat) /\ sentOutput \in Seq(Nat) /\ Len(sentOutput) = Len(s)
    BY <1>1, <1>8, <1>9, <1>10 DEF Bytes
  <2>. QED  BY <1>1, <1>11, <2>1, SeqEqual
<1>. QED  BY <1>1, <1>7, <1>12 DEF s

\* The property is what the invariant says of the two ends.
LEMMA ExactFollows == IInv => ChannelExact
<1> SUFFICES ASSUME IInv, ~coincidence
             PROVE  /\ Comparable(frames, sentFrames) /\ Comparable(output, sentOutput)
                    /\ stream # "mixed" => Prefix(frames, sentFrames) /\ Prefix(output, sentOutput)
                    /\ AtRest => Prefix(sentFrames, frames)
                    /\ AtRest /\ stream = "whole" => sentOutput = output \o buffer /\ Len(buffer) < HEADER_SIZE
  BY DEF ChannelExact
<1>1. TypeOK /\ Conserved /\ Idle /\ Exact
  BY DEF IInv
<1>2. /\ frames \in Seq(Frame) /\ sentFrames \in Seq(Frame)
      /\ output \in Seq(Nat) /\ sentOutput \in Seq(Nat)
  BY <1>1 DEF TypeOK
<1>3. CASE Past
  <2>1. Prefix(sentFrames, frames)
    BY <1>2, <1>3, PrefixWhen DEF Past, Sent
  <2>2. Prefix(sentOutput, output)
    BY <1>2, <1>3, PrefixWhen DEF Past
  <2>. QED  BY <1>3, <2>1, <2>2 DEF Past, Comparable
<1>4. CASE Placed
  <2>1. PICK B \in Marks, E \in Marks, G \in Marks : Layout(B, E, G) /\ Position(B, E, G)
    BY <1>4 DEF Placed
  <2>2. /\ Len(frames) <= Len(sentFrames) /\ \A k \in 1..Len(frames) : frames[k] = sentFrames[k]
    BY <2>1 DEF Position, Sent
  <2>3. Prefix(frames, sentFrames)
    BY <1>2, <2>2, PrefixWhen
  <2>4. Prefix(output, sentOutput)
    <3>1. PICK d, c, e, g, n, o : /\ d = Len(frames) /\ c = Len(delivered) /\ e = E[d] /\ g = G[d]
                                  /\ n = Len(output) /\ o = Len(sentOutput)
      OBVIOUS
    <3>2. /\ d \in 0..Sent /\ e \in Nat /\ g \in Nat /\ c + 1 <= e /\ c \in Nat /\ n \in Nat /\ o \in Nat
      BY <1>1, <2>1, <3>1, Before, Counts
    <3>3. n = c - g /\ e - g <= o + 1
      BY <1>1, <2>1, <3>1, <3>2, Ends DEF Position
    <3>4. n <= o
      BY <3>2, <3>3
    <3>5. \A i \in 1..n : output[i] = sentOutput[i]
      BY <2>1, <3>1 DEF Position
    <3>. QED  BY <1>2, <3>1, <3>4, <3>5, PrefixWhen
  <2>5. ASSUME AtRest PROVE Prefix(sentFrames, frames)
    <3>1. Len(frames) = Len(sentFrames)
      BY <1>1, <2>1, <2>5, AllDispatched DEF Sent
    <3>. QED  BY <1>2, <2>2, <3>1, PrefixWhen, LenProperties
  <2>6. ASSUME AtRest, stream = "whole" PROVE sentOutput = output \o buffer /\ Len(buffer) < HEADER_SIZE
    BY <1>1, <2>1, <2>6, HeldBack
  <2>. QED  BY <2>3, <2>4, <2>5, <2>6 DEF Comparable
<1>. QED  BY <1>1, <1>3, <1>4 DEF Exact

\* Unless output spells the start of a frame, onData dispatches the frames that were
\* sent, in order, and passes on the other output, unchanged and with no byte of a frame
\* in it; when it has nothing more to read it has dispatched them all, and, if no frame was
\* torn, it holds back less than a header.  Where the runtime wrote on behind a torn frame,
\* all that was sent ahead of that comes first.
THEOREM ChannelExactHolds == Spec => []ChannelExact
<1>1. Init => IInv
  BY Initially, InitExact DEF IInv
<1>. QED  BY <1>1, IInvStep, ExactFollows, PTL DEF Spec
===============================================================================
