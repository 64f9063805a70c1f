----------------------------- MODULE SessionProofs -----------------------------
(***************************************************************************)
(* Proofs about a picture's way from the decoder to the window: the buffers*)
(* it is in (Session), and the delay line it may be held in (DelayBuffer). *)
(***************************************************************************)
EXTENDS Session, DelayBuffer, SequenceTheorems, FiniteSetTheorems, TLAPS

--------------------------------------------------------------------------------
(***************************************************************************)
(* The pixel buffers of a session, for any size of the pool and of the     *)
(* channels, with the delay line and without it: the buffer on screen is in*)
(* nobody else's reach, and what bounds the memory is what is in flight.   *)
(*                                                                         *)
(* The inductive invariant says of every buffer that it is in one place    *)
(* (Apart), which buffer a thread holds where (Hands), and the bound.  The *)
(* bound is also why the decoder can allocate: it does so with the pool    *)
(* empty, when what circulates is what is in flight.                       *)
(***************************************************************************)

Distinct(s) == \A i, j \in 1 .. Len(s) : s[i] = s[j] => i = j

Apart ==
  /\ Distinct(pool) /\ Distinct(decoded) /\ Distinct(line)
  /\ Range(pool) \intersect (Range(decoded) \union Range(line)
       \union {spare, writing, pushing, latest, screen}) = {}
  /\ Range(decoded) \intersect (Range(line)
       \union {spare, writing, pushing, latest, screen}) = {}
  /\ Range(line) \intersect {spare, writing, pushing, latest, screen} = {}
  /\ spare # 0 => spare \notin {writing, pushing, latest, screen}
  /\ writing # 0 => writing \notin {pushing, latest, screen}
  /\ pushing # 0 => pushing \notin {latest, screen}
  /\ latest # 0 => latest # screen

Hands ==
  /\ decoder = "sending" <=> writing # 0
  /\ feed = "pushing" <=> pushing # 0
  /\ ~delayed => feed = "gone" /\ line = <<>>

MayBeOnTheWay == FrameRoom + 3 + IF delayed THEN LineRoom + 1 ELSE 0
Most == IF MayBeOnTheWay > PoolSize THEN MayBeOnTheWay ELSE PoolSize
Bounded == Cardinality(Circulating) <= Most

Inv == TypeOK /\ Apart /\ Hands /\ Bounded

(* The two halves of TypeOK: where the threads are, and who holds what. *)
Places ==
  /\ hosted \in {"panel", "window", "nothing"}
  /\ delayed \in BOOLEAN /\ told \in BOOLEAN /\ receiver \in BOOLEAN
  /\ paused \in BOOLEAN
  /\ recorder \in {"none", "queued", "running", "finished"}
  /\ socket \in {"open", "shut"} /\ opened \in {"no word", "ok", "failed"}
  /\ demuxer \in {"reading", "sending", "ending", "gone"}
  /\ decoder \in {"opening", "taking", "sending", "gone"}
  /\ feed \in {"taking", "pushing", "gone"}
  /\ pump \in {"idle", "draining", "drawing", "ended"}
  /\ host \in {"starting", "running", "leaving", "unblocking", "joining demuxer",
               "joining decoder", "stopping recorder", "waiting for the file", "done"}

Counts == received \in 0..MaxPackets /\ packets \in 0..PacketRoom

Holdings ==
  /\ {spare, writing, pushing, latest, screen} \subseteq Buffers \union {0}
  /\ pool \in Seq(Buffers) /\ Len(pool) <= PoolSize
  /\ decoded \in Seq(Buffers) /\ Len(decoded) <= FrameRoom
  /\ line \in Seq(Buffers) /\ Len(line) <= LineRoom

-------------------------------------------------------------------------------
(* Sequences of buffers *)

LEMMA NoBuffer == 0 \notin Buffers /\ Buffers \in SUBSET Nat
  BY SessionAssumption, SMT DEF Buffers

LEMMA EmptyRange == Range(<<>>) = {} /\ Distinct(<<>>) /\ <<>> \in Seq(Buffers) /\ Len(<<>>) = 0
  <1>1. <<>> \in Seq(Buffers) /\ Len(<<>>) = 0 /\ 1 .. 0 = {} BY EmptySeq, SMT
  <1>2. Range(<<>>) = {<<>>[i] : i \in 1 .. Len(<<>>)} BY <1>1, RangeEquality
  <1> QED BY <1>1, <1>2 DEF Distinct

LEMMA SeqRange ==
  ASSUME NEW s \in Seq(Buffers)
  PROVE  Range(s) \in SUBSET Buffers /\ 0 \notin Range(s)
  BY RangeOfSeq, NoBuffer

(* Adding a buffer that is not there. *)
LEMMA AppendRange ==
  ASSUME NEW s \in Seq(Buffers), NEW b \in Buffers
  PROVE  /\ Append(s, b) \in Seq(Buffers) /\ Len(Append(s, b)) = Len(s) + 1
         /\ Range(Append(s, b)) = Range(s) \union {b}
         /\ Distinct(s) /\ b \notin Range(s) => Distinct(Append(s, b))
  <1> DEFINE t == Append(s, b)
  <1>1. /\ t \in Seq(Buffers) /\ Len(t) = Len(s) + 1 /\ Len(s) \in Nat
        /\ \A i \in 1 .. Len(s) : t[i] = s[i]
        /\ t[Len(s) + 1] = b
        BY AppendProperties, LenProperties
  <1> HIDE DEF t
  <1>2. /\ Range(t) = {t[i] : i \in 1 .. Len(t)} /\ Range(s) = {s[i] : i \in 1 .. Len(s)}
        BY <1>1, RangeEquality
  <1>3. 1 .. Len(t) = (1 .. Len(s)) \union {Len(s) + 1} BY <1>1, SMT
  <1>4. Range(t) = Range(s) \union {b} BY <1>1, <1>2, <1>3
  <1>5. ASSUME Distinct(s), b \notin Range(s) PROVE Distinct(t)
        <2> SUFFICES ASSUME NEW i \in 1 .. Len(t), NEW j \in 1 .. Len(t), t[i] = t[j]
                     PROVE  i = j
            BY DEF Distinct
        <2>1. \A k \in 1 .. Len(s) : t[k] # b BY <1>1, <1>2, <1>5
        <2>2. CASE i \in 1 .. Len(s) /\ j \in 1 .. Len(s)
              BY <1>1, <1>5, <2>2 DEF Distinct
        <2>3. CASE i = Len(s) + 1 /\ j = Len(s) + 1 BY <2>3
        <2>4. CASE i = Len(s) + 1 /\ j \in 1 .. Len(s) BY <1>1, <2>1, <2>4
        <2>5. CASE i \in 1 .. Len(s) /\ j = Len(s) + 1 BY <1>1, <2>1, <2>5
        <2> QED BY <1>3, <2>2, <2>3, <2>4, <2>5
  <1> QED BY <1>1, <1>4, <1>5 DEF t

(* Taking the first: it is nowhere in the rest. *)
LEMMA TailRange ==
  ASSUME NEW s \in Seq(Buffers), s # <<>>
  PROVE  /\ Head(s) \in Range(s) /\ Head(s) \in Buffers
         /\ Tail(s) \in Seq(Buffers) /\ Len(Tail(s)) = Len(s) - 1
         /\ Range(Tail(s)) \subseteq Range(s)
         /\ Distinct(s) => Distinct(Tail(s)) /\ Head(s) \notin Range(Tail(s))
  <1> DEFINE t == Tail(s)
  <1>1. /\ Head(s) \in Buffers /\ t \in Seq(Buffers) /\ Len(t) = Len(s) - 1
        /\ \A i \in 1 .. Len(t) : t[i] = s[i + 1]
        /\ Len(s) \in Nat /\ Len(s) # 0 /\ Head(s) = s[1]
        <2>1. Len(s) \in Nat /\ Len(s) # 0 BY EmptySeq, SMT
        <2>2. Head(s) = s[1] BY SMT
        <2> QED BY <2>1, <2>2, HeadTailProperties
  <1> HIDE DEF t
  <1>2. /\ Range(t) = {t[i] : i \in 1 .. Len(t)} /\ Range(s) = {s[i] : i \in 1 .. Len(s)}
        BY <1>1, RangeEquality
  <1>3. \A i \in 1 .. Len(t) : i + 1 \in 1 .. Len(s) /\ i + 1 # 1 BY <1>1, SMT
  <1>4. 1 \in 1 .. Len(s) BY <1>1, SMT
  <1>5. Head(s) \in Range(s) /\ Range(t) \subseteq Range(s) BY <1>1, <1>2, <1>3, <1>4
  <1>6. ASSUME Distinct(s) PROVE Distinct(t) /\ Head(s) \notin Range(t)
        <2>1. \A i, j \in 1 .. Len(t) : i + 1 = j + 1 => i = j BY <1>1, SMT
        <2>2. Distinct(t) BY <1>1, <1>3, <1>6, <2>1 DEF Distinct
        <2>3. Head(s) \notin Range(t) BY <1>1, <1>2, <1>3, <1>4, <1>6 DEF Distinct
        <2> QED BY <2>2, <2>3
  <1> QED BY <1>1, <1>5, <1>6 DEF t

(* The beginning of a sequence. *)
LEMMA PrefixRange ==
  ASSUME NEW s \in Seq(Buffers), NEW n \in 0 .. Len(s)
  PROVE  /\ SubSeq(s, 1, n) \in Seq(Buffers) /\ Len(SubSeq(s, 1, n)) = n
         /\ Range(SubSeq(s, 1, n)) \subseteq Range(s)
         /\ Distinct(s) => Distinct(SubSeq(s, 1, n))
  <1> DEFINE t == SubSeq(s, 1, n)
  <1>1. Len(s) \in Nat /\ s \in [1 .. Len(s) -> Buffers] /\ n \in Int BY LenProperties, SMT
  <1>2. \A i \in 1 .. n : i \in 1 .. Len(s) BY <1>1, SMT
  <1>3. /\ t \in Seq(Buffers) /\ Len(t) = (IF 1 <= n THEN n - 1 + 1 ELSE 0)
        /\ \A i \in 1 .. n - 1 + 1 : t[i] = s[1 + i - 1]
        BY <1>1, <1>2, SubSeqProperties
  <1> HIDE DEF t
  <1>4. Len(t) = n /\ \A i \in 1 .. n : i \in 1 .. n - 1 + 1 /\ 1 + i - 1 = i
        BY <1>1, <1>3, SMT
  <1>5. \A i \in 1 .. n : t[i] = s[i] BY <1>3, <1>4
  <1>6. /\ Range(t) = {t[i] : i \in 1 .. Len(t)} /\ Range(s) = {s[i] : i \in 1 .. Len(s)}
        BY <1>3, RangeEquality
  <1>7. Range(t) \subseteq Range(s) BY <1>2, <1>4, <1>5, <1>6
  <1>8. Distinct(s) => Distinct(t) BY <1>2, <1>4, <1>5 DEF Distinct
  <1> QED BY <1>3, <1>4, <1>7, <1>8 DEF t

-------------------------------------------------------------------------------
(* How many buffers there are *)

LEMMA RangeCardinality ==
  ASSUME NEW s \in Seq(Buffers)
  PROVE  IsFiniteSet(Range(s)) /\ Cardinality(Range(s)) <= Len(s)
         /\ Cardinality(Range(s)) \in Nat
  <1>1. Len(s) \in Nat /\ s \in [1 .. Len(s) -> Buffers] /\ DOMAIN s = 1 .. Len(s)
        BY LenProperties
  <1>2. Range(s) = {s[i] : i \in 1 .. Len(s)} BY RangeEquality
  <1>3. s \in [1 .. Len(s) -> Range(s)] BY <1>1, <1>2
  <1>4. s \in Surjection(1 .. Len(s), Range(s)) BY <1>2, <1>3 DEF Surjection
  <1>5. IsFiniteSet(1 .. Len(s)) /\ Cardinality(1 .. Len(s)) = Len(s)
        <2>1. 1 \in Int /\ Len(s) \in Int BY <1>1, SMT
        <2>2. /\ IsFiniteSet(1 .. Len(s))
              /\ Cardinality(1 .. Len(s)) = IF 1 > Len(s) THEN 0 ELSE Len(s) - 1 + 1
              BY <2>1, FS_Interval
        <2> QED BY <1>1, <2>2, SMT
  <1>6. IsFiniteSet(Range(s)) /\ Cardinality(Range(s)) <= Cardinality(1 .. Len(s))
        BY <1>4, <1>5, FS_Surjection
  <1> QED BY <1>5, <1>6, FS_CardinalityType

(* Two sets have together no more than both. *)
LEMMA UnionCardinality ==
  ASSUME NEW S, NEW T, IsFiniteSet(S), IsFiniteSet(T),
         NEW m \in Nat, NEW n \in Nat, Cardinality(S) <= m, Cardinality(T) <= n
  PROVE  IsFiniteSet(S \union T) /\ Cardinality(S \union T) <= m + n
  <1>1. /\ IsFiniteSet(S \union T) /\ IsFiniteSet(S \intersect T)
        /\ Cardinality(S \union T) =
             Cardinality(S) + Cardinality(T) - Cardinality(S \intersect T)
        <2>1. S \intersect T \in SUBSET S OBVIOUS
        <2> QED BY <2>1, FS_Union, FS_Subset
  <1>2. /\ Cardinality(S) \in Nat /\ Cardinality(T) \in Nat
        /\ Cardinality(S \intersect T) \in Nat
        BY <1>1, FS_CardinalityType
  <1> QED BY <1>1, <1>2, SMT

LEMMA OnesCardinality ==
  ASSUME NEW b
  PROVE  IsFiniteSet(Ones(b)) /\ Cardinality(Ones(b)) <= 1
  <1>1. Ones(b) \in SUBSET {b} BY DEF Ones
  <1>2. IsFiniteSet({b}) /\ Cardinality({b}) = 1 BY FS_Singleton
  <1> QED BY <1>1, <1>2, FS_Subset

LEMMA CirculatingIsFinite ==
  ASSUME TypeOK
  PROVE  /\ Circulating \in SUBSET Buffers /\ IsFiniteSet(Buffers)
         /\ IsFiniteSet(Circulating)
         /\ Cardinality(Buffers) = PoolSize + FrameRoom + LineRoom + 4
  <1>1. Circulating \in SUBSET Buffers BY SeqRange DEF Circulating, TypeOK, Ones
  <1>2. /\ PoolSize + FrameRoom + LineRoom + 4 \in Int /\ 1 \in Int
        /\ ~(1 > PoolSize + FrameRoom + LineRoom + 4)
        /\ (PoolSize + FrameRoom + LineRoom + 4) - 1 + 1 = PoolSize + FrameRoom + LineRoom + 4
        BY SessionAssumption, SMT
  <1>3. IsFiniteSet(Buffers) /\ Cardinality(Buffers) = PoolSize + FrameRoom + LineRoom + 4
        <2> DEFINE top == PoolSize + FrameRoom + LineRoom + 4
        <2>1. Buffers = 1 .. top BY DEF Buffers
        <2>2. top \in Int /\ 1 \in Int /\ ~(1 > top) /\ top - 1 + 1 = top BY <1>2
        <2> HIDE DEF top
        <2>3. /\ IsFiniteSet(1 .. top)
              /\ Cardinality(1 .. top) = IF 1 > top THEN 0 ELSE top - 1 + 1
              BY <2>2, FS_Interval
        <2>4. Cardinality(1 .. top) = top BY <2>2, <2>3
        <2> QED BY <2>1, <2>3, <2>4 DEF top
  <1> QED BY <1>1, <1>3, FS_Subset

(* With the pool empty and nothing to spare, what circulates is what is in *)
(* flight, less the one the decoder is about to fill.                      *)
LEMMA InFlightCardinality ==
  ASSUME TypeOK, Hands, pool = <<>>, spare = 0, writing = 0
  PROVE  Cardinality(Circulating) <= MayBeOnTheWay - 1
  <1> DEFINE drawn == Ones(latest) \union Ones(screen)
             held == Range(line) \union Ones(pushing)
  <1>1. Circulating = (Range(decoded) \union drawn) \union held
        BY EmptyRange DEF Circulating, Ones
  <1>2. IsFiniteSet(drawn) /\ Cardinality(drawn) <= 1 + 1
        <2>1. 1 \in Nat OBVIOUS
        <2> QED BY <2>1, OnesCardinality, UnionCardinality
  <1>3. /\ Len(decoded) <= FrameRoom /\ Len(line) <= LineRoom
        /\ Len(decoded) \in Nat /\ Len(line) \in Nat
        /\ FrameRoom \in Nat /\ LineRoom \in Nat
        <2>1. decoded \in Seq(Buffers) /\ line \in Seq(Buffers) BY DEF TypeOK
        <2>2. Len(decoded) \in Nat /\ Len(line) \in Nat BY <2>1, LenProperties
        <2>3. FrameRoom \in Nat /\ LineRoom \in Nat BY SessionAssumption
        <2> QED BY <2>2, <2>3 DEF TypeOK
  <1>4. IsFiniteSet(Range(decoded)) /\ Cardinality(Range(decoded)) <= FrameRoom
        <2>1. decoded \in Seq(Buffers) BY DEF TypeOK
        <2>2. /\ IsFiniteSet(Range(decoded)) /\ Cardinality(Range(decoded)) <= Len(decoded)
              /\ Cardinality(Range(decoded)) \in Nat
              BY <2>1, RangeCardinality
        <2> QED BY <1>3, <2>2, SMT
  <1>5. /\ IsFiniteSet(Range(decoded) \union drawn)
        /\ Cardinality(Range(decoded) \union drawn) <= FrameRoom + (1 + 1)
        <2>1. 1 + 1 \in Nat BY SMT
        <2> HIDE DEF drawn
        <2> QED BY <1>2, <1>3, <1>4, <2>1, UnionCardinality
  <1>6. CASE delayed
        <2>1. IsFiniteSet(Range(line)) /\ Cardinality(Range(line)) <= LineRoom
              <3>1. line \in Seq(Buffers) BY DEF TypeOK
              <3>2. /\ IsFiniteSet(Range(line)) /\ Cardinality(Range(line)) <= Len(line)
                    /\ Cardinality(Range(line)) \in Nat
                    BY <3>1, RangeCardinality
              <3> QED BY <1>3, <3>2, SMT
        <2>2. IsFiniteSet(held) /\ Cardinality(held) <= LineRoom + 1
              <3>1. 1 \in Nat OBVIOUS
              <3> QED BY <1>3, <2>1, <3>1, OnesCardinality, UnionCardinality
        <2>3. FrameRoom + (1 + 1) \in Nat /\ LineRoom + 1 \in Nat BY <1>3, SMT
        <2> HIDE DEF drawn, held
        <2>4. Cardinality(Circulating) <= (FrameRoom + (1 + 1)) + (LineRoom + 1)
              BY <1>1, <1>5, <2>2, <2>3, UnionCardinality
        <2>5. MayBeOnTheWay - 1 = (FrameRoom + (1 + 1)) + (LineRoom + 1)
              BY <1>3, <1>6, SMT DEF MayBeOnTheWay
        <2> QED BY <2>4, <2>5
  <1>7. CASE ~delayed
        <2>1. held = {}
              <3>1. line = <<>> /\ pushing = 0 BY <1>7 DEF Hands
              <3> QED BY <3>1, EmptyRange DEF Ones
        <2> HIDE DEF drawn, held
        <2>2. Circulating = Range(decoded) \union drawn BY <1>1, <2>1
        <2>3. MayBeOnTheWay - 1 = FrameRoom + (1 + 1) BY <1>3, <1>7, SMT DEF MayBeOnTheWay
        <2> QED BY <1>5, <2>2, <2>3
  <1> QED BY <1>6, <1>7

(* The decoder can allocate, and what it allocates is nobody's. *)
LEMMA FreshFacts ==
  ASSUME TypeOK, Hands, pool = <<>>, spare = 0, writing = 0
  PROVE  /\ Fresh \in Buffers /\ Fresh \notin Circulating
         /\ Cardinality(Circulating \union {Fresh}) <= Most
  <1>1. /\ IsFiniteSet(Buffers) /\ IsFiniteSet(Circulating) /\ Circulating \in SUBSET Buffers
        /\ Cardinality(Buffers) = PoolSize + FrameRoom + LineRoom + 4
        BY CirculatingIsFinite
  <1>2. Cardinality(Circulating) \in Nat /\ Cardinality(Circulating) <= MayBeOnTheWay - 1
        BY <1>1, FS_CardinalityType, InFlightCardinality
  <1>3. /\ PoolSize \in Nat /\ PoolSize # 0 /\ FrameRoom \in Nat /\ LineRoom \in Nat
        BY SessionAssumption
  <1>4. MayBeOnTheWay \in Nat /\ MayBeOnTheWay <= FrameRoom + LineRoom + 4
        BY <1>3, SMT DEF MayBeOnTheWay
  <1>5. Cardinality(Circulating) < Cardinality(Buffers) BY <1>1, <1>2, <1>3, <1>4, SMT
  <1>6. Circulating # Buffers
        <2>1. Cardinality(Buffers) \in Nat BY <1>1, FS_CardinalityType
        <2> QED BY <1>2, <1>5, <2>1, SMT
  <1>7. \E b \in Buffers : b \notin Circulating BY <1>1, <1>6
  <1>8. Fresh \in Buffers /\ Fresh \notin Circulating BY <1>7 DEF Fresh
  <1>9. Cardinality(Circulating \union {Fresh}) = Cardinality(Circulating) + 1
        BY <1>1, <1>8, FS_AddElement
  <1>10. Cardinality(Circulating) + 1 <= Most BY <1>2, <1>3, <1>4, SMT DEF Most
  <1> QED BY <1>8, <1>9, <1>10

(* A step after which no buffer circulates that did not before. *)
LEMMA NoMoreKeeps ==
  ASSUME TypeOK, Bounded, delayed' = delayed, Circulating' \in SUBSET Circulating
  PROVE  Bounded'
  <1>1. IsFiniteSet(Circulating) /\ Cardinality(Circulating) \in Nat
        BY CirculatingIsFinite, FS_CardinalityType
  <1>2. IsFiniteSet(Circulating') /\ Cardinality(Circulating') <= Cardinality(Circulating)
        BY <1>1, FS_Subset
  <1>3. Cardinality(Circulating') \in Nat BY <1>2, FS_CardinalityType
  <1>4. Most' = Most /\ Most \in Nat
        BY SessionAssumption, SMT DEF Most, MayBeOnTheWay
  <1>5. Cardinality(Circulating') <= Most BY <1>1, <1>2, <1>3, <1>4, SMT DEF Bounded
  <1>6. Cardinality(Circulating)' = Cardinality(Circulating') OBVIOUS
  <1> QED BY <1>4, <1>5, <1>6 DEF Bounded

LEMMA InitKeeps == Init => Inv
  <1> SUFFICES ASSUME Init PROVE Inv OBVIOUS
  <1>1. PoolSize \in Nat /\ PoolSize # 0 /\ FrameRoom \in Nat /\ LineRoom \in Nat
        /\ MaxPackets \in Nat /\ PacketRoom \in Nat
        BY SessionAssumption
  <1>2. \A i \in 1 .. PoolSize : i \in Buffers BY <1>1, SMT DEF Buffers
  <1>3. pool \in Seq(Buffers) /\ Len(pool) = PoolSize /\ \A i \in 1 .. PoolSize : pool[i] = i
        <2>1. pool = [i \in 1 .. PoolSize |-> i] BY DEF Init
        <2>2. pool \in [1 .. PoolSize -> Buffers] BY <1>2, <2>1
        <2>3. pool \in Seq(Buffers) BY <1>1, <2>2, SeqDef
        <2>4. Len(pool) \in Nat /\ 1 .. Len(pool) = 1 .. PoolSize
              BY <2>2, <2>3, LenProperties
        <2>5. Len(pool) = PoolSize BY <1>1, <2>4, SMT
        <2> QED BY <2>1, <2>3, <2>5
  <1>4. Distinct(pool) BY <1>3 DEF Distinct
  <1>5. /\ decoded = <<>> /\ line = <<>> /\ spare = 0 /\ writing = 0 /\ pushing = 0
        /\ latest = 0 /\ screen = 0
        BY DEF Init
  <1>6. TypeOK
        <2>1. 0 \in 0 .. MaxPackets /\ 0 \in 0 .. PacketRoom /\ 0 <= FrameRoom /\ 0 <= LineRoom
              /\ PoolSize <= PoolSize
              BY <1>1, SMT
        <2> QED BY <1>3, <1>5, <2>1, EmptyRange DEF Init, TypeOK
  <1>7. Apart BY <1>3, <1>4, <1>5, EmptyRange, SeqRange DEF Apart
  <1>8. Hands BY <1>5 DEF Init, Hands
  <1>9. Bounded
        <2>1. Circulating = Range(pool) BY <1>5, EmptyRange DEF Circulating, Ones
        <2>2. Cardinality(Range(pool)) <= PoolSize /\ Cardinality(Range(pool)) \in Nat
              BY <1>3, RangeCardinality
        <2>3. PoolSize <= Most /\ Most \in Nat BY <1>1, SMT DEF Most, MayBeOnTheWay
        <2> QED BY <1>1, <2>1, <2>2, <2>3, SMT DEF Bounded
  <1> QED BY <1>6, <1>7, <1>8, <1>9 DEF Inv

-------------------------------------------------------------------------------
(* Where the threads are *)

LEMMA PlacesKeep ==
  ASSUME Places
  PROVE  [Next]_vars => Places'
  <1> USE DEF setup, film, source, making, waiting, drawing
  <1>1. CASE ReadPacket BY <1>1 DEF ReadPacket, Places
  <1>2. CASE ReadEnds BY <1>2 DEF ReadEnds, Places
  <1>3. CASE SendPacket BY <1>3 DEF SendPacket, Places
  <1>4. CASE DemuxerEnds BY <1>4 DEF DemuxerEnds, Places
  <1>5. CASE DecoderOpens BY <1>5 DEF DecoderOpens, DecoderReturns, Places
  <1>6. CASE Decode BY <1>6 DEF Decode, DecoderReturns, Places
  <1>7. CASE SendFrame BY <1>7 DEF SendFrame, DecoderReturns, Places
  <1>8. CASE DecoderEnds BY <1>8 DEF DecoderEnds, DecoderReturns, Places
  <1>9. CASE FeedTakes BY <1>9 DEF FeedTakes, Places
  <1>10. CASE FeedPushes BY <1>10 DEF FeedPushes, Places
  <1>11. CASE FeedEnds BY <1>11 DEF FeedEnds, Places
  <1>12. CASE Drains BY <1>12 DEF Drains, TakeIncoming, Places
  <1>13. CASE PumpTakes BY <1>13 DEF PumpTakes, TakeIncoming, Places
  <1>14. CASE PumpSkips BY <1>14 DEF PumpSkips, TakeIncoming, Places
  <1>15. CASE PumpIsUpToDate BY <1>15 DEF PumpIsUpToDate, Places
  <1>16. CASE PumpDraws BY <1>16 DEF PumpDraws, Places
  <1>17. CASE PumpEnds BY <1>17 DEF PumpEnds, Places
  <1>18. CASE Mount BY <1>18 DEF Mount, Places
  <1>19. CASE StartFails BY <1>19 DEF StartFails, Places
  <1>20. CASE StopAsked BY <1>20 DEF StopAsked, Places
  <1>21. CASE TogglePause BY <1>21 DEF TogglePause, Places
  <1>22. CASE LetGo BY <1>22 DEF LetGo, Places
  <1>23. CASE UnblockDemuxer BY <1>23 DEF UnblockDemuxer, Places
  <1>24. CASE JoinDemuxer BY <1>24 DEF JoinDemuxer, Places
  <1>25. CASE JoinDecoder BY <1>25 DEF JoinDecoder, Places
  <1>26. CASE StopRecorder BY <1>26 DEF StopRecorder, Places
  <1>27. CASE FileWaitedFor BY <1>27 DEF FileWaitedFor, Places
  <1>28. CASE RecorderEnds BY <1>28 DEF RecorderEnds, Places
  <1>29. CASE Over BY <1>29 DEF Over, vars, Places
  <1>30. CASE UNCHANGED vars BY <1>30 DEF vars, Places
  <1> HIDE DEF setup, film, source, making, waiting, drawing
  <1> QED BY <1>1, <1>2, <1>3, <1>4, <1>5, <1>6, <1>7, <1>8, <1>9, <1>10, <1>11, <1>12, 
         <1>13, <1>14, <1>15, <1>16, <1>17, <1>18, <1>19, <1>20, <1>21, <1>22, <1>23, <1>24, 
         <1>25, <1>26, <1>27, <1>28, <1>29, <1>30 DEF Next, Demux, MakeFrames, Delay, Pump, Host, Leave

LEMMA CountsKeep ==
  ASSUME Counts
  PROVE  [Next]_vars => Counts'
  <1> USE DEF setup, film, source, making, waiting, drawing
  <1> SUFFICES ASSUME [Next]_vars PROVE Counts' OBVIOUS
  <1>1. /\ received' = received \/ (received < MaxPackets /\ received' = received + 1)
        /\ \/ packets' = packets
           \/ packets < PacketRoom /\ packets' = packets + 1
           \/ packets > 0 /\ packets' = packets - 1
           \/ packets' = 0
        <2>1. CASE ReadPacket BY <2>1 DEF ReadPacket
        <2>2. CASE ReadEnds BY <2>2 DEF ReadEnds
        <2>3. CASE SendPacket BY <2>3 DEF SendPacket
        <2>4. CASE DemuxerEnds BY <2>4 DEF DemuxerEnds
        <2>5. CASE DecoderOpens BY <2>5 DEF DecoderOpens, DecoderReturns
        <2>6. CASE Decode BY <2>6 DEF Decode, DecoderReturns
        <2>7. CASE SendFrame BY <2>7 DEF SendFrame, DecoderReturns
        <2>8. CASE DecoderEnds BY <2>8 DEF DecoderEnds, DecoderReturns
        <2>9. CASE FeedTakes BY <2>9 DEF FeedTakes
        <2>10. CASE FeedPushes BY <2>10 DEF FeedPushes
        <2>11. CASE FeedEnds BY <2>11 DEF FeedEnds
        <2>12. CASE Drains BY <2>12 DEF Drains, TakeIncoming
        <2>13. CASE PumpTakes BY <2>13 DEF PumpTakes, TakeIncoming
        <2>14. CASE PumpSkips BY <2>14 DEF PumpSkips, TakeIncoming
        <2>15. CASE PumpIsUpToDate BY <2>15 DEF PumpIsUpToDate
        <2>16. CASE PumpDraws BY <2>16 DEF PumpDraws
        <2>17. CASE PumpEnds BY <2>17 DEF PumpEnds
        <2>18. CASE Mount BY <2>18 DEF Mount
        <2>19. CASE StartFails BY <2>19 DEF StartFails
        <2>20. CASE StopAsked BY <2>20 DEF StopAsked
        <2>21. CASE TogglePause BY <2>21 DEF TogglePause
        <2>22. CASE LetGo BY <2>22 DEF LetGo
        <2>23. CASE UnblockDemuxer BY <2>23 DEF UnblockDemuxer
        <2>24. CASE JoinDemuxer BY <2>24 DEF JoinDemuxer
        <2>25. CASE JoinDecoder BY <2>25 DEF JoinDecoder
        <2>26. CASE StopRecorder BY <2>26 DEF StopRecorder
        <2>27. CASE FileWaitedFor BY <2>27 DEF FileWaitedFor
        <2>28. CASE RecorderEnds BY <2>28 DEF RecorderEnds
        <2>29. CASE Over BY <2>29 DEF Over, vars
        <2>30. CASE UNCHANGED vars BY <2>30 DEF vars
        <2> QED BY <2>1, <2>2, <2>3, <2>4, <2>5, <2>6, <2>7, <2>8, <2>9, <2>10, <2>11, <2>12, 
         <2>13, <2>14, <2>15, <2>16, <2>17, <2>18, <2>19, <2>20, <2>21, <2>22, <2>23, <2>24, 
         <2>25, <2>26, <2>27, <2>28, <2>29, <2>30 DEF Next, Demux, MakeFrames, Delay, Pump, Host, Leave
  <1> HIDE DEF setup, film, source, making, waiting, drawing
  <1> QED BY <1>1, SessionAssumption, SMT DEF Counts

-------------------------------------------------------------------------------
(* What the steps do with the buffers *)

Kept == Holdings /\ Apart /\ Hands /\ Bounded

(* No buffer changes hands. *)
LEMMA StillKeeps ==
  ASSUME Inv,
         UNCHANGED <<delayed, spare, writing, pool, decoded, pushing, line, latest, screen>>,
         decoder' = decoder, feed' = feed
  PROVE  Kept'
  <1>1. Apart' BY DEF Apart, Distinct, Inv
  <1>2. Hands' BY DEF Hands, Inv
  <1>3. Circulating' = Circulating BY DEF Circulating
  <1>4. Bounded' BY <1>3, NoMoreKeeps DEF Inv
  <1>5. Holdings' BY DEF Inv, TypeOK, Holdings
  <1> QED BY <1>1, <1>2, <1>4, <1>5 DEF Kept

(* Buffers are only let go of. *)
LEMMA LosingKeeps ==
  ASSUME Inv, Holdings', delayed' = delayed,
         Distinct(pool'), Distinct(decoded'), Distinct(line'),
         Range(pool') \subseteq Range(pool), Range(decoded') \subseteq Range(decoded),
         Range(line') \subseteq Range(line),
         spare' \in {spare, 0}, writing' \in {writing, 0}, pushing' \in {pushing, 0},
         latest' \in {latest, 0}, screen' \in {screen, 0}
  PROVE  Apart' /\ Bounded'
  <1>1. 0 \notin Range(pool) /\ 0 \notin Range(decoded) /\ 0 \notin Range(line)
        BY SeqRange DEF Inv, TypeOK
  <1>2. Apart' BY <1>1 DEF Inv, Apart
  <1>3. Circulating' \in SUBSET Circulating BY DEF Circulating, Ones
  <1>4. Bounded' BY <1>3, NoMoreKeeps DEF Inv
  <1> QED BY <1>2, <1>4

(* What the decoder fills next is nobody else's. *)
LEMMA NextBufferFacts ==
  ASSUME Inv, decoder = "taking"
  PROVE  LET rest == IF FromPool THEN Tail(pool) ELSE pool
         IN  /\ rest \in Seq(Buffers) /\ Len(rest) <= PoolSize /\ Distinct(rest)
             /\ Range(rest) \subseteq Range(pool)
             /\ NextBuffer \in Buffers /\ writing = 0
             /\ NextBuffer \notin Range(rest) \union Range(decoded) \union Range(line)
                                  \union {writing, pushing, latest, screen}
             /\ Cardinality(Circulating \union {NextBuffer}) <= Most
  <1> DEFINE rest == IF FromPool THEN Tail(pool) ELSE pool
  <1>1. /\ TypeOK /\ Hands /\ Bounded /\ writing = 0 /\ pool \in Seq(Buffers)
        /\ Len(pool) <= PoolSize /\ Distinct(pool)
        BY DEF Inv, Hands, TypeOK, Apart
  <1>2. CASE spare # 0
        <2>1. rest = pool /\ NextBuffer = spare BY <1>2 DEF FromPool, NextBuffer
        <2>2. spare \in Buffers BY <1>1, <1>2 DEF TypeOK
        <2>3. Circulating \union {spare} = Circulating BY <1>2 DEF Circulating, Ones
        <2>4. spare \notin Range(pool) \union Range(decoded) \union Range(line)
                           \union {writing, pushing, latest, screen}
              BY <1>2 DEF Inv, Apart
        <2> QED BY <1>1, <2>1, <2>2, <2>3, <2>4 DEF Bounded
  <1>3. CASE spare = 0 /\ pool # <<>>
        <2>1. rest = Tail(pool) /\ NextBuffer = Head(pool)
              BY <1>3 DEF FromPool, NextBuffer
        <2>2. /\ Head(pool) \in Range(pool) /\ Head(pool) \in Buffers
              /\ Tail(pool) \in Seq(Buffers) /\ Len(Tail(pool)) = Len(pool) - 1
              /\ Range(Tail(pool)) \subseteq Range(pool)
              /\ Distinct(Tail(pool)) /\ Head(pool) \notin Range(Tail(pool))
              BY <1>1, <1>3, TailRange
        <2>3. Circulating \union {Head(pool)} = Circulating BY <2>2 DEF Circulating
        <2>4. Head(pool) \notin Range(decoded) \union Range(line)
                                \union {writing, pushing, latest, screen}
              BY <2>2 DEF Inv, Apart
        <2>5. Len(Tail(pool)) <= PoolSize
              <3>1. Len(pool) \in Nat /\ PoolSize \in Nat
                    BY <1>1, LenProperties, SessionAssumption
              <3> QED BY <1>1, <2>2, <3>1, SMT
        <2> QED BY <1>1, <2>1, <2>2, <2>3, <2>4, <2>5 DEF Bounded
  <1>4. CASE spare = 0 /\ pool = <<>>
        <2>1. rest = pool /\ NextBuffer = Fresh BY <1>4 DEF FromPool, NextBuffer
        <2>2. /\ Fresh \in Buffers /\ Fresh \notin Circulating
              /\ Cardinality(Circulating \union {Fresh}) <= Most
              BY <1>1, <1>4, FreshFacts
        <2>3. Fresh # 0 BY <2>2, NoBuffer
        <2>4. Fresh \notin Range(pool) \union Range(decoded) \union Range(line)
                           \union {writing, pushing, latest, screen}
              BY <2>2, <2>3 DEF Circulating, Ones
        <2> QED BY <1>1, <2>1, <2>2, <2>4
  <1> QED BY <1>2, <1>3, <1>4

(* The pool takes a buffer that is not in it, or it is freed. *)
LEMMA RecycledFacts ==
  ASSUME Inv, NEW b \in Buffers \union {0}, b \notin Range(pool)
  PROVE  /\ Recycled(b) \in Seq(Buffers) /\ Len(Recycled(b)) <= PoolSize
         /\ Distinct(Recycled(b)) /\ Range(Recycled(b)) \subseteq Range(pool) \union Ones(b)
  <1>1. pool \in Seq(Buffers) /\ Len(pool) <= PoolSize /\ Distinct(pool)
        BY DEF Inv, TypeOK, Apart
  <1>2. CASE Recycled(b) = pool BY <1>1, <1>2
  <1>3. CASE Recycled(b) = Append(pool, b) /\ b # 0 /\ Len(pool) < PoolSize
        <2>1. b \in Buffers BY <1>3
        <2>2. /\ Append(pool, b) \in Seq(Buffers) /\ Len(Append(pool, b)) = Len(pool) + 1
              /\ Range(Append(pool, b)) = Range(pool) \union {b}
              /\ Distinct(Append(pool, b))
              BY <1>1, <2>1, AppendRange
        <2>3. Len(pool) + 1 <= PoolSize
              <3>1. Len(pool) \in Nat /\ PoolSize \in Nat
                    BY <1>1, LenProperties, SessionAssumption
              <3> QED BY <1>3, <3>1, SMT
        <2> QED BY <1>3, <2>2, <2>3 DEF Ones
  <1> QED BY <1>2, <1>3 DEF Recycled

(* Whoever takes the next frame is the only one who has it. *)
LEMMA IncomingFacts ==
  ASSUME Inv, Incoming # <<>>, TakeIncoming
  PROVE  /\ Head(Incoming) \in Buffers /\ Head(Incoming) \in Circulating
         /\ Head(Incoming) \notin Range(pool) \union Range(decoded') \union Range(line')
                                  \union {spare, writing, pushing, latest, screen}
         /\ decoded' \in Seq(Buffers) /\ Len(decoded') <= FrameRoom /\ Distinct(decoded')
         /\ line' \in Seq(Buffers) /\ Len(line') <= LineRoom /\ Distinct(line')
         /\ Range(decoded') \subseteq Range(decoded) /\ Range(line') \subseteq Range(line)
         /\ ~delayed => line' = line
  <1>1. /\ decoded \in Seq(Buffers) /\ Len(decoded) <= FrameRoom /\ Distinct(decoded)
        /\ line \in Seq(Buffers) /\ Len(line) <= LineRoom /\ Distinct(line)
        BY DEF Inv, TypeOK, Apart
  <1>2. /\ Len(decoded) \in Nat /\ Len(line) \in Nat /\ FrameRoom \in Nat /\ LineRoom \in Nat
        BY <1>1, LenProperties, SessionAssumption
  <1>3. CASE delayed
        <2>1. Incoming = line /\ line' = Tail(line) /\ decoded' = decoded
              BY <1>3 DEF Incoming, TakeIncoming
        <2>2. /\ Head(line) \in Range(line) /\ Head(line) \in Buffers
              /\ Tail(line) \in Seq(Buffers) /\ Len(Tail(line)) = Len(line) - 1
              /\ Range(Tail(line)) \subseteq Range(line)
              /\ Distinct(Tail(line)) /\ Head(line) \notin Range(Tail(line))
              BY <1>1, <2>1, TailRange
        <2>3. Len(Tail(line)) <= LineRoom BY <1>1, <1>2, <2>2, SMT
        <2>4. Head(line) \notin Range(pool) \union Range(decoded)
                                \union {spare, writing, pushing, latest, screen}
              BY <2>2 DEF Inv, Apart
        <2>5. Head(line) \in Circulating BY <2>2 DEF Circulating
        <2> QED BY <1>1, <1>3, <2>1, <2>2, <2>3, <2>4, <2>5
  <1>4. CASE ~delayed
        <2>1. Incoming = decoded /\ decoded' = Tail(decoded) /\ line' = line
              BY <1>4 DEF Incoming, TakeIncoming
        <2>2. /\ Head(decoded) \in Range(decoded) /\ Head(decoded) \in Buffers
              /\ Tail(decoded) \in Seq(Buffers) /\ Len(Tail(decoded)) = Len(decoded) - 1
              /\ Range(Tail(decoded)) \subseteq Range(decoded)
              /\ Distinct(Tail(decoded)) /\ Head(decoded) \notin Range(Tail(decoded))
              BY <1>1, <2>1, TailRange
        <2>3. Len(Tail(decoded)) <= FrameRoom BY <1>1, <1>2, <2>2, SMT
        <2>4. Head(decoded) \notin Range(pool) \union Range(line)
                                   \union {spare, writing, pushing, latest, screen}
              BY <2>2 DEF Inv, Apart
        <2>5. Head(decoded) \in Circulating BY <2>2 DEF Circulating
        <2> QED BY <1>1, <1>4, <2>1, <2>2, <2>3, <2>4, <2>5
  <1> QED BY <1>3, <1>4

(* A frame that was in flight goes to another place. *)
LEMMA MovingKeeps ==
  ASSUME Inv, delayed' = delayed, Apart', Hands', Holdings',
         Circulating' \in SUBSET Circulating
  PROVE  Kept'
  <1>1. Bounded' BY NoMoreKeeps DEF Inv
  <1> QED BY <1>1 DEF Kept

(* The decoder's thread returns. *)
LEMMA ReturnKeeps ==
  ASSUME Inv, DecoderReturns,
         UNCHANGED <<delayed, decoded, pushing, line, latest, screen, feed>>
  PROVE  Kept'
  <1>1. /\ pool' = <<>> /\ spare' = 0 /\ writing' = 0 /\ decoder' = "gone"
        BY DEF DecoderReturns
  <1>2. /\ Range(pool') = {} /\ Distinct(pool') /\ pool' \in Seq(Buffers) /\ Len(pool') = 0
        BY <1>1, EmptyRange
  <1>3. Holdings'
        <2>1. 0 <= PoolSize BY SessionAssumption, SMT
        <2> QED BY <1>1, <1>2, <2>1 DEF Inv, TypeOK, Holdings
  <1>4. Apart' /\ Bounded'
        <2>1. Distinct(decoded') /\ Distinct(line') BY DEF Inv, Apart
        <2> QED BY <1>1, <1>2, <1>3, <2>1, LosingKeeps
  <1>5. Hands' BY <1>1 DEF Inv, Hands
  <1> QED BY <1>3, <1>4, <1>5 DEF Kept

LEMMA DecodeKeeps ==
  ASSUME Inv, Decode
  PROVE  Kept'
  <1> DEFINE rest == IF FromPool THEN Tail(pool) ELSE pool
  <1>1. /\ decoder = "taking"
        /\ UNCHANGED <<delayed, decoded, pushing, line, latest, screen, feed>>
        BY DEF Decode, setup, waiting, drawing
  <1>2. CASE DecoderReturns BY <1>1, <1>2, ReturnKeeps
  <1>3. CASE /\ pool' = rest
             /\ \/ decoder' = "sending" /\ writing' = NextBuffer /\ spare' = 0
                \/ spare' = NextBuffer /\ decoder' = decoder /\ writing' = writing
        <2>1. /\ rest \in Seq(Buffers) /\ Len(rest) <= PoolSize /\ Distinct(rest)
              /\ Range(rest) \subseteq Range(pool)
              /\ NextBuffer \in Buffers /\ writing = 0
              /\ NextBuffer \notin Range(rest) \union Range(decoded) \union Range(line)
                                   \union {writing, pushing, latest, screen}
              /\ Cardinality(Circulating \union {NextBuffer}) <= Most
              BY <1>1, NextBufferFacts
        <2>2. NextBuffer # 0 BY <2>1, NoBuffer
        <2> HIDE DEF rest
        <2>3. Holdings' BY <1>1, <1>3, <2>1 DEF Inv, TypeOK, Holdings
        <2>4. 0 \notin Range(pool) /\ 0 \notin Range(decoded) /\ 0 \notin Range(line)
              BY SeqRange DEF Inv, TypeOK
        <2>5. Apart'
              <3> DEFINE b == NextBuffer
              <3>1. /\ b \notin Range(rest) /\ b \notin Range(decoded) /\ b \notin Range(line)
                    /\ b \notin {pushing, latest, screen} /\ b # 0
                    BY <2>1, <2>2
              <3>2. /\ pool' = rest /\ Distinct(pool') /\ Range(pool') \subseteq Range(pool)
                    /\ Range(pool') = Range(rest)
                    <4>1. pool' = rest BY <1>3
                    <4> QED BY <2>1, <4>1
              <3>3. (spare' = b /\ writing' = 0) \/ (spare' = 0 /\ writing' = b)
                    BY <1>3, <2>1
              <3>4. Distinct(decoded') /\ Distinct(line') BY <1>1 DEF Inv, Apart
              <3> HIDE DEF b
              <3> QED BY <1>1, <2>4, <3>1, <3>2, <3>3, <3>4 DEF Inv, Apart
        <2>6. Hands' BY <1>1, <1>3, <2>1, <2>2 DEF Inv, Hands
        <2>7. Circulating' \in SUBSET (Circulating \union {NextBuffer})
              <3>1. Range(pool') \subseteq Range(pool) BY <1>3, <2>1
              <3>2. Ones(spare') \subseteq {NextBuffer} /\ Ones(writing') \subseteq {NextBuffer}
                    BY <1>3, <2>1 DEF Ones
              <3> QED BY <1>1, <3>1, <3>2 DEF Circulating
        <2>8. Bounded'
              <3>1. IsFiniteSet(Circulating) BY CirculatingIsFinite DEF Inv
              <3>2. IsFiniteSet(Circulating \union {NextBuffer}) BY <3>1, FS_AddElement
              <3>3. /\ IsFiniteSet(Circulating')
                    /\ Cardinality(Circulating') <= Cardinality(Circulating \union {NextBuffer})
                    BY <2>7, <3>2, FS_Subset
              <3>4. /\ Cardinality(Circulating') \in Nat
                    /\ Cardinality(Circulating \union {NextBuffer}) \in Nat
                    BY <3>2, <3>3, FS_CardinalityType
              <3>5. Most' = Most /\ Most \in Nat
                    BY <1>1, SessionAssumption, SMT DEF Most, MayBeOnTheWay
              <3>6. Cardinality(Circulating') <= Most BY <2>1, <3>3, <3>4, <3>5, SMT
              <3>7. Cardinality(Circulating)' = Cardinality(Circulating') OBVIOUS
              <3> QED BY <3>5, <3>6, <3>7 DEF Bounded
        <2> QED BY <2>3, <2>5, <2>6, <2>8 DEF Kept
  <1> QED BY <1>2, <1>3 DEF Decode

LEMMA SendKeeps ==
  ASSUME Inv, SendFrame
  PROVE  Kept'
  <1>1. /\ decoder = "sending"
        /\ UNCHANGED <<delayed, pushing, line, latest, screen, feed>>
        BY DEF SendFrame, setup, waiting, drawing
  <1>2. CASE DecoderReturns /\ decoded' = decoded BY <1>1, <1>2, ReturnKeeps
  <1>3. CASE /\ Len(decoded) < FrameRoom /\ decoded' = Append(decoded, writing)
             /\ decoder' = "taking" /\ writing' = 0 /\ spare' = spare /\ pool' = pool
        <2>1. writing \in Buffers /\ decoded \in Seq(Buffers)
              BY <1>1 DEF Inv, Hands, TypeOK
        <2>2. writing # 0 BY <2>1, NoBuffer
        <2>3. /\ writing \notin Range(pool) /\ writing \notin Range(decoded)
              /\ writing \notin Range(line) /\ writing \notin {spare, pushing, latest, screen}
              BY <2>2 DEF Inv, Apart
        <2>4. /\ decoded' \in Seq(Buffers) /\ Len(decoded') = Len(decoded) + 1
              /\ Range(decoded') = Range(decoded) \union {writing} /\ Distinct(decoded')
              <3>1. Distinct(decoded) BY DEF Inv, Apart
              <3> QED BY <1>3, <2>1, <2>3, <3>1, AppendRange
        <2>5. Len(decoded') <= FrameRoom
              <3>1. Len(decoded) \in Nat /\ FrameRoom \in Nat
                    BY <2>1, LenProperties, SessionAssumption
              <3> QED BY <1>3, <2>4, <3>1, SMT
        <2>6. Holdings' BY <1>1, <1>3, <2>4, <2>5 DEF Inv, TypeOK, Holdings
        <2>7. 0 \notin Range(pool) /\ 0 \notin Range(decoded) /\ 0 \notin Range(line)
              BY SeqRange DEF Inv, TypeOK
        <2>8. Apart'
              <3>1. Distinct(pool') /\ Distinct(line') BY <1>1, <1>3 DEF Inv, Apart
              <3> QED BY <1>1, <1>3, <2>2, <2>3, <2>4, <2>7, <3>1 DEF Inv, Apart
        <2>9. Hands' BY <1>1, <1>3 DEF Inv, Hands
        <2>10. Circulating' \in SUBSET Circulating
              <3>1. Ones(writing) = {writing} /\ Ones(writing') = {}
                    BY <1>3, <2>2 DEF Ones
              <3> QED BY <1>1, <1>3, <2>4, <3>1 DEF Circulating
        <2> QED BY <1>1, <2>6, <2>8, <2>9, <2>10, MovingKeeps
  <1> QED BY <1>2, <1>3 DEF SendFrame

LEMMA FeedTakesKeeps ==
  ASSUME Inv, FeedTakes
  PROVE  Kept'
  <1>1. /\ delayed /\ feed = "taking" /\ decoded # <<>> /\ feed' = "pushing"
        /\ pushing' = Head(decoded) /\ decoded' = Tail(decoded)
        /\ UNCHANGED <<delayed, spare, writing, pool, line, latest, screen, decoder>>
        BY DEF FeedTakes, setup, making, drawing
  <1>2. decoded \in Seq(Buffers) /\ Len(decoded) <= FrameRoom /\ Distinct(decoded)
        BY DEF Inv, TypeOK, Apart
  <1>3. /\ pushing' \in Range(decoded) /\ pushing' \in Buffers
        /\ decoded' \in Seq(Buffers) /\ Len(decoded') = Len(decoded) - 1
        /\ Range(decoded') \subseteq Range(decoded)
        /\ Distinct(decoded') /\ pushing' \notin Range(decoded')
        BY <1>1, <1>2, TailRange
  <1>4. Len(decoded') <= FrameRoom
        <2>1. Len(decoded) \in Nat /\ FrameRoom \in Nat
              BY <1>2, LenProperties, SessionAssumption
        <2> QED BY <1>2, <1>3, <2>1, SMT
  <1>5. pushing' # 0 BY <1>3, NoBuffer
  <1>6. Holdings' BY <1>1, <1>3, <1>4 DEF Inv, TypeOK, Holdings
  <1>7. 0 \notin Range(pool) /\ 0 \notin Range(decoded) /\ 0 \notin Range(line)
        BY SeqRange DEF Inv, TypeOK
  <1>8. /\ pushing' \notin Range(pool) /\ pushing' \notin Range(line)
        /\ pushing' \notin {spare, writing, latest, screen}
        BY <1>3 DEF Inv, Apart
  <1>9. Apart'
        <2>1. Distinct(pool') /\ Distinct(line') BY <1>1 DEF Inv, Apart
        <2> QED BY <1>1, <1>3, <1>5, <1>7, <1>8, <2>1 DEF Inv, Apart
  <1>10. Hands' BY <1>1, <1>5 DEF Inv, Hands
  <1>11. Circulating' \in SUBSET Circulating
        <2>1. Ones(pushing') \subseteq Range(decoded) BY <1>3 DEF Ones
        <2> QED BY <1>1, <1>3, <2>1 DEF Circulating
  <1> QED BY <1>1, <1>6, <1>9, <1>10, <1>11, MovingKeeps

LEMMA FeedPushesKeeps ==
  ASSUME Inv, FeedPushes
  PROVE  Kept'
  <1>1. /\ feed = "pushing" /\ feed' = "taking" /\ pushing' = 0
        /\ UNCHANGED <<delayed, spare, writing, pool, decoded, latest, screen, decoder>>
        /\ line' = line \/ (Len(line) < LineRoom /\ line' = Append(line, pushing))
        BY DEF FeedPushes, setup, making, drawing
  <1>2. pushing \in Buffers /\ line \in Seq(Buffers) /\ Len(line) <= LineRoom /\ Distinct(line)
        BY <1>1 DEF Inv, Hands, TypeOK, Apart
  <1>3. pushing # 0 BY <1>2, NoBuffer
  <1>4. /\ pushing \notin Range(pool) /\ pushing \notin Range(decoded)
        /\ pushing \notin Range(line) /\ pushing \notin {spare, writing, latest, screen}
        BY <1>3 DEF Inv, Apart
  <1>5. /\ line' \in Seq(Buffers) /\ Len(line') <= LineRoom
        /\ Range(line') \subseteq Range(line) \union {pushing} /\ Distinct(line')
        <2>1. CASE line' = line BY <1>2, <2>1
        <2>2. CASE Len(line) < LineRoom /\ line' = Append(line, pushing)
              <3>1. /\ line' \in Seq(Buffers) /\ Len(line') = Len(line) + 1
                    /\ Range(line') = Range(line) \union {pushing} /\ Distinct(line')
                    BY <1>2, <1>4, <2>2, AppendRange
              <3>2. Len(line) \in Nat /\ LineRoom \in Nat
                    BY <1>2, LenProperties, SessionAssumption
              <3>3. Len(line') <= LineRoom BY <2>2, <3>1, <3>2, SMT
              <3> QED BY <3>1, <3>3
        <2> QED BY <1>1, <2>1, <2>2
  <1>6. Holdings' BY <1>1, <1>5 DEF Inv, TypeOK, Holdings
  <1>7. 0 \notin Range(pool) /\ 0 \notin Range(decoded) /\ 0 \notin Range(line)
        BY SeqRange DEF Inv, TypeOK
  <1>8. Apart'
        <2>1. Distinct(pool') /\ Distinct(decoded') BY <1>1 DEF Inv, Apart
        <2> QED BY <1>1, <1>3, <1>4, <1>5, <1>7, <2>1 DEF Inv, Apart
  <1>9. Hands' BY <1>1 DEF Inv, Hands
  <1>10. Circulating' \in SUBSET Circulating
        <2>1. Ones(pushing) = {pushing} /\ Ones(pushing') = {} BY <1>1, <1>3 DEF Ones
        <2> QED BY <1>1, <1>5, <2>1 DEF Circulating
  <1> QED BY <1>1, <1>6, <1>8, <1>9, <1>10, MovingKeeps

(* The feed thread ends and drops the line, or the host lets its end go.   *)
LEMMA DropsKeep ==
  ASSUME Inv, FeedEnds \/ LetGo
  PROVE  Kept'
  <1>1. /\ UNCHANGED <<delayed, spare, writing, pool, pushing, latest, decoder>>
        /\ feed' = feed \/ (feed = "taking" /\ feed' = "gone")
        /\ decoded' = decoded \/ decoded' = <<>>
        /\ screen' = screen \/ screen' = 0
        BY DEF FeedEnds, LetGo, setup, making, drawing
  <1>2. line' = line \/ line' = <<>> \/ \E n \in 0 .. Len(line) : line' = SubSeq(line, 1, n)
        BY DEF FeedEnds, LetGo
  <1>3. /\ decoded \in Seq(Buffers) /\ Len(decoded) <= FrameRoom /\ Distinct(decoded)
        /\ line \in Seq(Buffers) /\ Len(line) <= LineRoom /\ Distinct(line)
        /\ Distinct(pool)
        BY DEF Inv, TypeOK, Apart
  <1>4. /\ Len(decoded) \in Nat /\ Len(line) \in Nat /\ FrameRoom \in Nat /\ LineRoom \in Nat
        BY <1>3, LenProperties, SessionAssumption
  <1>5. /\ line' \in Seq(Buffers) /\ Len(line') <= LineRoom /\ Distinct(line')
        /\ Range(line') \subseteq Range(line) /\ (line = <<>> => line' = <<>>)
        <2>1. CASE line' = line BY <1>3, <2>1
        <2>2. CASE line' = <<>>
              <3>1. 0 <= LineRoom BY <1>4, SMT
              <3> QED BY <2>2, <3>1, EmptyRange
        <2>3. CASE \E n \in 0 .. Len(line) : line' = SubSeq(line, 1, n)
              <3>1. PICK n \in 0 .. Len(line) : line' = SubSeq(line, 1, n) BY <2>3
              <3>2. /\ line' \in Seq(Buffers) /\ Len(line') = n
                    /\ Range(line') \subseteq Range(line) /\ Distinct(line')
                    BY <1>3, <3>1, PrefixRange
              <3>3. Len(line') <= LineRoom BY <1>3, <1>4, <3>1, <3>2, SMT
              <3>4. ASSUME line = <<>> PROVE line' = <<>>
                    <4>1. Len(line') = 0 BY <3>1, <3>2, <3>4, EmptyRange, SMT
                    <4> QED BY <3>2, <4>1, EmptySeq
              <3> QED BY <3>2, <3>3, <3>4
        <2> QED BY <1>2, <2>1, <2>2, <2>3
  <1>6. /\ decoded' \in Seq(Buffers) /\ Len(decoded') <= FrameRoom /\ Distinct(decoded')
        /\ Range(decoded') \subseteq Range(decoded)
        <2>1. CASE decoded' = decoded BY <1>3, <2>1
        <2>2. CASE decoded' = <<>>
              <3>1. 0 <= FrameRoom BY <1>4, SMT
              <3> QED BY <2>2, <3>1, EmptyRange
        <2> QED BY <1>1, <2>1, <2>2
  <1>7. Holdings' BY <1>1, <1>5, <1>6 DEF Inv, TypeOK, Holdings
  <1>8. Apart' /\ Bounded'
        <2>1. Distinct(pool') /\ Range(pool') \subseteq Range(pool) BY <1>1, <1>3
        <2> QED BY <1>1, <1>5, <1>6, <1>7, <2>1, LosingKeeps
  <1>9. Hands' BY <1>1, <1>5 DEF Inv, Hands
  <1> QED BY <1>7, <1>8, <1>9 DEF Kept

(* The newest frame is taken, the one before it goes back or is still      *)
(* wanted; or, without a window, the frame goes back at once.              *)
LEMMA PumpTakesKeeps ==
  ASSUME Inv, PumpTakes \/ PumpSkips \/ Drains
  PROVE  Kept'
  <1> DEFINE b == Head(Incoming)
  <1>1. /\ Incoming # <<>> /\ TakeIncoming
        /\ UNCHANGED <<delayed, spare, writing, pushing, screen, decoder, feed>>
        /\ \/ pool' = pool /\ latest' = b
           \/ pool' = Recycled(latest) /\ latest' = b
           \/ pool' = Recycled(b) /\ latest' = latest
        BY DEF PumpTakes, PumpSkips, Drains, setup, making, drawing
  <1>2. /\ b \in Buffers /\ b \in Circulating
        /\ b \notin Range(pool) \union Range(decoded') \union Range(line')
                    \union {spare, writing, pushing, latest, screen}
        /\ decoded' \in Seq(Buffers) /\ Len(decoded') <= FrameRoom /\ Distinct(decoded')
        /\ line' \in Seq(Buffers) /\ Len(line') <= LineRoom /\ Distinct(line')
        /\ Range(decoded') \subseteq Range(decoded) /\ Range(line') \subseteq Range(line)
        /\ ~delayed => line' = line
        BY <1>1, IncomingFacts
  <1>3. b # 0 BY <1>2, NoBuffer
  <1>4. latest \in Buffers \union {0} /\ latest \notin Range(pool)
        BY DEF Inv, TypeOK, Apart
  <1>5. 0 \notin Range(pool) /\ 0 \notin Range(decoded) /\ 0 \notin Range(line)
        BY SeqRange DEF Inv, TypeOK
  <1> HIDE DEF b
  <1>6. /\ pool' \in Seq(Buffers) /\ Len(pool') <= PoolSize /\ Distinct(pool')
        /\ \/ Range(pool') \subseteq Range(pool) /\ latest' = b
           \/ Range(pool') \subseteq Range(pool) \union Ones(latest) /\ latest' = b
           \/ Range(pool') \subseteq Range(pool) \union Ones(b) /\ latest' = latest
        <2>1. pool \in Seq(Buffers) /\ Len(pool) <= PoolSize /\ Distinct(pool)
              BY DEF Inv, TypeOK, Apart
        <2>2. /\ Recycled(latest) \in Seq(Buffers) /\ Len(Recycled(latest)) <= PoolSize
              /\ Distinct(Recycled(latest))
              /\ Range(Recycled(latest)) \subseteq Range(pool) \union Ones(latest)
              BY <1>4, RecycledFacts
        <2>3. /\ Recycled(b) \in Seq(Buffers) /\ Len(Recycled(b)) <= PoolSize
              /\ Distinct(Recycled(b))
              /\ Range(Recycled(b)) \subseteq Range(pool) \union Ones(b)
              <3>1. b \in Buffers \union {0} /\ b \notin Range(pool) BY <1>2
              <3> QED BY <3>1, RecycledFacts
        <2>4. CASE pool' = pool /\ latest' = b BY <2>1, <2>4
        <2>5. CASE pool' = Recycled(latest) /\ latest' = b BY <2>2, <2>5
        <2>6. CASE pool' = Recycled(b) /\ latest' = latest BY <2>3, <2>6
        <2> QED BY <1>1, <2>4, <2>5, <2>6
  <1>7. Holdings' BY <1>1, <1>2, <1>6, <1>4 DEF Inv, TypeOK, Holdings
  <1>8. Apart'
        <2>1. 0 \notin Range(pool') /\ 0 \notin Range(decoded') /\ 0 \notin Range(line')
              BY <1>2, <1>6, SeqRange
        <2>2. Ones(latest) = {latest} \ {0} /\ Ones(b) = {b} BY <1>3 DEF Ones
        <2>3. CASE latest' = b /\ Range(pool') \subseteq Range(pool) \union Ones(latest)
              BY <1>1, <1>2, <1>3, <1>6, <2>1, <2>2, <2>3 DEF Inv, Apart
        <2>4. CASE latest' = latest /\ Range(pool') \subseteq Range(pool) \union Ones(b)
              BY <1>1, <1>2, <1>3, <1>6, <2>1, <2>2, <2>4 DEF Inv, Apart
        <2> QED BY <1>6, <2>3, <2>4
  <1>9. Hands' BY <1>1, <1>2 DEF Inv, Hands
  <1>10. Circulating' \in SUBSET Circulating
        <2>1. Ones(latest') \subseteq Circulating
              BY <1>2, <1>6 DEF Ones, Circulating
        <2>2. Range(pool') \subseteq Circulating
              BY <1>2, <1>6 DEF Ones, Circulating
        <2> QED BY <1>1, <1>2, <2>1, <2>2 DEF Circulating
  <1> QED BY <1>1, <1>7, <1>8, <1>9, <1>10, MovingKeeps

LEMMA PumpDrawsKeeps ==
  ASSUME Inv, PumpDraws
  PROVE  Kept'
  <1>1. /\ latest' = 0 /\ pool' = Recycled(GoesBack)
        /\ \/ GoesBack = latest /\ screen' = screen
           \/ GoesBack = screen /\ screen' = latest
        /\ UNCHANGED <<delayed, spare, writing, pushing, decoded, line, decoder, feed>>
        BY DEF PumpDraws, GoesBack, setup, making, waiting
  <1>2. GoesBack \in Buffers \union {0} /\ GoesBack \notin Range(pool)
        BY <1>1 DEF Inv, TypeOK, Apart
  <1>3. /\ pool' \in Seq(Buffers) /\ Len(pool') <= PoolSize /\ Distinct(pool')
        /\ Range(pool') \subseteq Range(pool) \union Ones(GoesBack)
        BY <1>1, <1>2, RecycledFacts
  <1>4. Holdings' BY <1>1, <1>3 DEF Inv, TypeOK, Holdings
  <1>5. Apart'
        <2>1. 0 \notin Range(pool') /\ 0 \notin Range(decoded) /\ 0 \notin Range(line)
              BY <1>3, SeqRange DEF Inv, TypeOK
        <2>2. Distinct(decoded') /\ Distinct(line') BY <1>1 DEF Inv, Apart
        <2>3. CASE GoesBack = latest /\ screen' = screen
              BY <1>1, <1>3, <2>1, <2>2, <2>3 DEF Inv, Apart, Ones
        <2>4. CASE GoesBack = screen /\ screen' = latest
              BY <1>1, <1>3, <2>1, <2>2, <2>4 DEF Inv, Apart, Ones
        <2> QED BY <1>1, <2>3, <2>4
  <1>6. Hands' BY <1>1 DEF Inv, Hands
  <1>7. Circulating' \in SUBSET Circulating
        BY <1>1, <1>3 DEF Circulating, Ones
  <1> QED BY <1>1, <1>4, <1>5, <1>6, <1>7, MovingKeeps

-------------------------------------------------------------------------------
(* Every step, and the theorems *)

LEMMA KeptByNext ==
  ASSUME Inv
  PROVE  Next => Kept'
  <1> USE DEF setup, film, source, making, waiting, drawing
  <1>1. CASE Demux
        BY <1>1, StillKeeps DEF Demux, ReadPacket, ReadEnds, SendPacket, DemuxerEnds
  <1>2. CASE DecoderOpens
        <2>1. CASE DecoderReturns BY <1>2, <2>1, ReturnKeeps DEF DecoderOpens
        <2>2. CASE decoder' = "taking" /\ UNCHANGED <<spare, writing, pool>>
              <3>1. UNCHANGED <<delayed, decoded, pushing, line, latest, screen, feed>>
                    BY <1>2 DEF DecoderOpens
              <3>2. Apart' BY <2>2, <3>1 DEF Apart, Distinct, Inv
              <3>3. Hands' BY <1>2, <2>2, <3>1 DEF Hands, Inv, DecoderOpens
              <3>4. Circulating' = Circulating BY <2>2, <3>1 DEF Circulating
              <3>5. Holdings' BY <2>2, <3>1 DEF Inv, TypeOK, Holdings
              <3> QED BY <3>1, <3>2, <3>3, <3>4, <3>5, MovingKeeps
        <2> QED BY <1>2, <2>1, <2>2 DEF DecoderOpens
  <1>3. CASE DecoderEnds BY <1>3, ReturnKeeps DEF DecoderEnds
  <1>4. CASE Mount \/ StartFails \/ StopAsked \/ TogglePause \/ RecorderEnds
        BY <1>4, StillKeeps DEF Mount, StartFails, StopAsked, TogglePause, RecorderEnds
  <1>5. CASE UnblockDemuxer \/ JoinDemuxer \/ JoinDecoder \/ StopRecorder \/ FileWaitedFor
        BY <1>5, StillKeeps
           DEF UnblockDemuxer, JoinDemuxer, JoinDecoder, StopRecorder, FileWaitedFor
  <1>6. CASE PumpIsUpToDate \/ PumpEnds BY <1>6, StillKeeps DEF PumpIsUpToDate, PumpEnds
  <1>7. CASE Over BY <1>7, StillKeeps DEF Over, vars
  <1> HIDE DEF setup, film, source, making, waiting, drawing
  <1> QED BY <1>1, <1>2, <1>3, <1>4, <1>5, <1>6, <1>7, DecodeKeeps, SendKeeps, FeedTakesKeeps,
             FeedPushesKeeps, DropsKeep, PumpTakesKeeps, PumpDrawsKeeps
          DEF Next, MakeFrames, Delay, Pump, Host, Leave

LEMMA StepKeeps == Inv /\ [Next]_vars => Inv'
  <1> SUFFICES ASSUME Inv PROVE [Next]_vars => Inv' OBVIOUS
  <1>1. Places /\ Counts BY DEF Inv, TypeOK, Places, Counts
  <1>2. [Next]_vars => Places' /\ Counts' BY <1>1, PlacesKeep, CountsKeep
  <1>3. Next => Kept' BY KeptByNext
  <1>4. UNCHANGED vars => Kept'
        <2> USE DEF setup, film, source, making, waiting, drawing
        <2> QED BY StillKeeps DEF vars
  <1>5. [Next]_vars => Kept' BY <1>3, <1>4
  <1>6. Places' /\ Counts' /\ Kept' => Inv'
        BY DEF Places, Counts, Kept, Holdings, Inv, TypeOK
  <1> QED BY <1>2, <1>5, <1>6

(* Every buffer of a session is in one place, each thread holds what its   *)
(* place says, and what circulates never outgrows what is in flight.       *)
THEOREM Invariance == Spec => []Inv
  BY InitKeeps, StepKeeps, PTL DEF Spec

(* For any pool and channels, and either way round the delay line: the     *)
(* frame on screen is in nobody else's reach, and the buffers that         *)
(* circulate are bounded by what can be in flight (mirror_host.rs,         *)
(* pipeline.rs).                                                           *)
THEOREM PictureIsSafe == Spec => []PictureIsNotOverwritten
  <1>1. Inv => PictureIsNotOverwritten
        <2> SUFFICES ASSUME Inv PROVE PictureIsNotOverwritten OBVIOUS
        <2>1. screen # 0 =>
                screen \notin Range(pool) \union Range(decoded) \union Range(line)
                              \union {spare, writing, pushing, latest}
              BY DEF Inv, Apart
        <2>2. Cardinality(Circulating) <= Most BY DEF Inv, Bounded
        <2>3. TypeOK BY DEF Inv
        <2> QED BY <2>1, <2>2, <2>3 DEF PictureIsNotOverwritten, Most, MayBeOnTheWay
  <1> QED BY <1>1, Invariance, PTL

--------------------------------------------------------------------------------
(***************************************************************************)
(* The delay buffer, for every queue bound, channel capacity and number of *)
(* frames: its types, that no wake-up is lost, that no frame is, and that  *)
(* it implements the first-in first-out line of FrameFifo.                 *)
(*                                                                         *)
(* The inductive invariant is DelayTypes with four more parts.  Sleepers   *)
(* says who may be in the condition variable's wait set, DelayPlaces what  *)
(* each thread's place in its code implies, and DelayCounts how many frames*)
(* are on the way.  Line says which they are: the frames in the output     *)
(* channel, in the worker's hand and in the queue are consecutive numbers  *)
(* that follow the last frame shown.                                       *)
(***************************************************************************)

Held == IF hand # 0 THEN 1 ELSE 0
InRoom == IF producer = "room" THEN 1 ELSE 0
InThrough == IF producer = "through" THEN 1 ELSE 0

Sleepers ==
  /\ "worker" \in sleeping => worker \in {"idle", "holding"}
  /\ "feed" \in sleeping => producer = "room"
  /\ NoLostWakeup

(* Where each thread is, and what that says of the state it left behind. *)
DelayPlaces ==
  /\ hand # 0 <=> worker \in {"holding", "sending"}
  /\ worker = "failed" => ~outOpen
  /\ worker \in {"notifying", "done"} => stopped
  /\ producer \in {"joining", "ended"} => stopped
  /\ producer = "room" => pushed # 0
  /\ accepted <= pushed
  /\ ~firstFrameSent => pushed = 0 /\ accepted = 0
  /\ ~firstFrameSent \/ producer = "through" =>
       queue = <<>> /\ output = <<>> /\ hand = 0 /\ shown = 0
  /\ producer = "through" => pushed = 1 /\ accepted = 1

(* While the buffer runs, what was accepted and not shown is on its way.   *)
DelayCounts ==
  /\ ~stopped => pushed = accepted + InRoom
  /\ ~stopped /\ outOpen =>
       accepted = shown + Len(output) + InThrough + Held + Len(queue)
  /\ outOpen => shown + Len(output) + Held <= accepted

(* The line of frames: consecutive numbers from the channel to the queue.  *)
Line ==
  outOpen =>
    /\ \A i \in 1..Len(output) : output[i] = shown + i
    /\ hand # 0 => hand = shown + Len(output) + 1
    /\ worker # "done" =>
         \A i \in 1..Len(queue) : queue[i] = shown + Len(output) + Held + i

DelayInv == DelayTypes /\ Sleepers /\ DelayPlaces /\ DelayCounts /\ Line

--------------------------------------------------------------------------------
(* What appending to a sequence and taking its head away do, place by place. *)
LEMMA EmptyFacts == <<>> \in Seq(Frames) /\ Len(<<>>) = 0
  OBVIOUS

(* Appending adds the element at the end and keeps the rest. *)
LEMMA AppendFacts ==
  ASSUME NEW s \in Seq(Frames), NEW e \in Frames
  PROVE  /\ Append(s, e) \in Seq(Frames)
         /\ Len(Append(s, e)) = Len(s) + 1
         /\ \A i \in 1..Len(s) : Append(s, e)[i] = s[i]
         /\ Append(s, e)[Len(s) + 1] = e
  OBVIOUS

(* A sequence that is not empty has a head, and its tail is the rest. *)
LEMMA TailFacts ==
  ASSUME NEW s \in Seq(Frames), s # <<>>
  PROVE  /\ Head(s) \in Frames /\ Head(s) = s[1]
         /\ Tail(s) \in Seq(Frames)
         /\ Len(s) >= 1
         /\ Len(Tail(s)) = Len(s) - 1
         /\ \A i \in 1..Len(Tail(s)) : Tail(s)[i] = s[i + 1]
  OBVIOUS

(* The buffer is created empty, awake and running. *)
LEMMA InitInv == DelayInit => DelayInv
<1> SUFFICES ASSUME DelayInit PROVE DelayInv
  OBVIOUS
<1>1. queue = <<>> /\ output = <<>> /\ Len(queue) = 0 /\ Len(output) = 0
  BY EmptyFacts DEF DelayInit
<1>2. DelayTypes
  <2>1. queue \in Seq(Frames) /\ Len(queue) <= InFlight
    BY <1>1, BufferAssumption, EmptyFacts
  <2>2. output \in Seq(Frames) /\ Len(output) <= OutCap
    BY <1>1, BufferAssumption, EmptyFacts
  <2>3. stopped \in BOOLEAN /\ firstFrameSent \in BOOLEAN /\ outOpen \in BOOLEAN
    BY Zenon DEF DelayInit
  <2>4. sleeping \subseteq Threads /\ producer \in FeedAt /\ worker \in WorkerAt
    BY Zenon DEF DelayInit, Threads, FeedAt, WorkerAt
  <2>5. /\ hand \in Frames \union {0}
        /\ pushed \in 0..MaxFrames /\ accepted \in 0..MaxFrames /\ shown \in 0..MaxFrames
    BY BufferAssumption DEF DelayInit
  <2>. QED
    BY <2>1, <2>2, <2>3, <2>4, <2>5 DEF DelayTypes
<1>3. Sleepers
  BY DEF DelayInit, Sleepers, NoLostWakeup
<1>4. DelayPlaces
  BY DEF DelayInit, DelayPlaces
<1>5. DelayCounts
  BY <1>1 DEF DelayInit, DelayCounts, Held, InRoom, InThrough
<1>6. Line
  BY <1>1 DEF DelayInit, Line
<1>. QED
  BY <1>2, <1>3, <1>4, <1>5, <1>6 DEF DelayInv

--------------------------------------------------------------------------------
(* The types. *)
LEMMA TypeStep == DelayInv /\ [DelayNext]_delayVars => DelayTypes'
<1> SUFFICES ASSUME DelayInv, [DelayNext]_delayVars PROVE DelayTypes'
  OBVIOUS
<1>. USE BufferAssumption DEF DelayInv, DelayTypes, Threads, FeedAt, WorkerAt, inner, channel
<1>1. \A n \in Frames : n \in Nat /\ n # 0 /\ n \in 0..MaxFrames
  BY DEF Frames
<1>2. 0 \notin Frames
  BY DEF Frames
<1>3. ASSUME NEW f \in Frames, Admit(f), accepted < MaxFrames
      PROVE  /\ queue' \in Seq(Frames) /\ Len(queue') <= InFlight
             /\ sleeping' \subseteq Threads
             /\ producer' \in FeedAt
             /\ accepted' \in 0..MaxFrames
  <2>1. CASE stopped \/ ~HasRoom
    BY <1>3, <2>1 DEF Admit
  <2>2. CASE ~stopped /\ HasRoom
    <3>1. queue' = Append(queue, f) /\ accepted' = accepted + 1 /\ sleeping' = {} /\ producer' = "recv"
      BY <1>3, <2>2 DEF Admit, PushNotifies
    <3>2. queue \in Seq(Frames) /\ Len(queue) < InFlight /\ InFlight \in Nat
      BY <2>2 DEF HasRoom
    <3>3. Append(queue, f) \in Seq(Frames) /\ Len(Append(queue, f)) = Len(queue) + 1
      BY <1>3, <3>2, AppendFacts
    <3>4. Len(queue) \in Nat
      BY <3>2
    <3>5. queue' \in Seq(Frames) /\ Len(queue') <= InFlight
      BY <3>1, <3>2, <3>3, <3>4
    <3>6. sleeping' \subseteq Threads /\ producer' \in FeedAt
      BY <3>1
    <3>7. accepted' \in 0..MaxFrames
      BY <1>3, <3>1
    <3>. QED
      BY <3>5, <3>6, <3>7
  <2>. QED
    BY <2>1, <2>2
<1>4. CASE PushFirst
  BY <1>4 DEF PushFirst, DelayPlaces
<1>5. CASE ForwardFirst
  <2>1. pushed \in Frames
    BY <1>5 DEF ForwardFirst, DelayPlaces, Frames
  <2>. QED
    <3>1. Append(output, pushed) \in Seq(Frames) /\ Len(Append(output, pushed)) = Len(output) + 1
      BY <2>1, AppendFacts
    <3>2. output' \in Seq(Frames) /\ Len(output') <= OutCap
      <4>1. CASE output' = output
        BY <4>1
      <4>2. CASE Len(output) < OutCap /\ output' = Append(output, pushed)
        <5>1. Len(output) \in Nat
          OBVIOUS
        <5>. QED
          BY <3>1, <4>2, <5>1
      <4>. QED
        BY <1>5, <4>1, <4>2 DEF ForwardFirst
    <3>. QED
      BY <1>5, <3>2 DEF ForwardFirst
<1>6. CASE Push
  <2>1. pushed + 1 \in Frames /\ accepted < MaxFrames
    BY <1>6 DEF Push, Frames, DelayPlaces
  <2>. QED
    BY <1>3, <1>6, <2>1 DEF Push
<1>7. CASE PushResumes
  <2>1. pushed \in Frames
    BY <1>7 DEF PushResumes, Frames, DelayPlaces
  <2>2. CASE stopped
    BY <1>7, <2>2 DEF PushResumes, Admit
  <2>3. CASE ~stopped
    <3>1. accepted < MaxFrames
      BY <1>7, <2>3 DEF PushResumes, DelayCounts, InRoom
    <3>. QED
      BY <1>3, <1>7, <2>1, <3>1 DEF PushResumes
  <2>. QED
    BY <2>2, <2>3
<1>8. CASE WorkerTakes
  BY <1>8, TailFacts DEF WorkerTakes, TakeNotifies
<1>9. CASE WorkerSends
  <2>1. hand \in Frames
    BY <1>9 DEF WorkerSends, DelayPlaces
  <2>. QED
    BY <1>9, <2>1, AppendFacts DEF WorkerSends
<1>10. CASE Receive
  BY <1>1, <1>10, TailFacts DEF Receive
<1>11. CASE WorkerStops
  <2>1. queue' \in Seq(Frames) /\ Len(queue') = 0
    BY <1>11, EmptyFacts DEF WorkerStops
  <2>. QED
    BY <1>11, <2>1 DEF WorkerStops
<1>15. CASE DropReceiver
  <2>1. output' \in Seq(Frames) /\ Len(output') = 0
    BY <1>15, EmptyFacts DEF DropReceiver
  <2>2. /\ outOpen' \in BOOLEAN
        /\ UNCHANGED <<inner, sleeping, producer, worker, hand, pushed, accepted, shown>>
    BY <1>15 DEF DropReceiver
  <2>. QED
    BY <2>1, <2>2
<1>12. CASE DropBuffer \/ Joined \/ Stop \/ WorkerWaits \/ HoldEnds \/ HoldAgain \/ HoldStops
  BY <1>12 DEF DropBuffer, Joined, Stop, WorkerWaits, HoldEnds, HoldAgain, HoldStops
<1>13. CASE WorkerSendFails \/ WorkerMarks \/ WorkerNotifies \/ SpuriousWake
  BY <1>13 DEF WorkerSendFails, WorkerMarks, WorkerNotifies, SpuriousWake
<1>14. CASE Finished \/ UNCHANGED delayVars
  BY <1>14 DEF Finished, delayVars
<1>. QED
  BY <1>4, <1>5, <1>6, <1>7, <1>8, <1>9, <1>10, <1>11, <1>12, <1>13, <1>14, <1>15
  DEF DelayNext, Feed, Work, Render
--------------------------------------------------------------------------------
(* Who sleeps, and why. *)
LEMMA SleepersStep == DelayInv /\ [DelayNext]_delayVars => Sleepers'
<1> SUFFICES ASSUME DelayInv, DelayTypes', [DelayNext]_delayVars PROVE Sleepers'
  BY TypeStep
<1>. USE DEF DelayInv, Sleepers, NoLostWakeup, HasRoom, DelayPlaces, inner, channel
<1>1. CASE PushFirst
  BY <1>1 DEF PushFirst
<1>2. CASE ForwardFirst
  BY <1>2 DEF ForwardFirst
<1>3. CASE Push
  BY <1>3 DEF Push, Admit, PushNotifies
<1>4. CASE PushResumes
  BY <1>4 DEF PushResumes, Admit, PushNotifies
<1>5. CASE DropBuffer
  BY <1>5 DEF DropBuffer
<1>6. CASE Joined
  BY <1>6 DEF Joined
<1>7. CASE Stop
  BY <1>7 DEF Stop
<1>8. CASE WorkerWaits
  BY <1>8 DEF WorkerWaits, AtTheTop
<1>9. CASE WorkerStops
  BY <1>9 DEF WorkerStops, AtTheTop
<1>10. CASE WorkerTakes
  BY <1>10 DEF WorkerTakes, TakeNotifies, AtTheTop
<1>11. CASE HoldEnds
  BY <1>11 DEF HoldEnds
<1>12. CASE HoldAgain
  BY <1>12 DEF HoldAgain
<1>13. CASE HoldStops
  BY <1>13 DEF HoldStops
<1>14. CASE WorkerSends
  BY <1>14 DEF WorkerSends
<1>15. CASE WorkerSendFails
  BY <1>15 DEF WorkerSendFails
<1>16. CASE WorkerMarks
  BY <1>16 DEF WorkerMarks
<1>17. CASE WorkerNotifies
  BY <1>17 DEF WorkerNotifies
<1>18. CASE SpuriousWake
  BY <1>18 DEF SpuriousWake
<1>19. CASE Receive
  BY <1>19 DEF Receive
<1>20. CASE DropReceiver
  BY <1>20 DEF DropReceiver
<1>21. CASE Finished \/ UNCHANGED delayVars
  BY <1>21 DEF Finished, delayVars
<1>. QED
  BY <1>1, <1>2, <1>3, <1>4, <1>5, <1>6, <1>7, <1>8, <1>9, <1>10, <1>11, <1>12, <1>13, <1>14, <1>15, <1>16, <1>17, <1>18, <1>19, <1>20, <1>21
  DEF DelayNext, Feed, Work, Render

(* Where the threads are. *)
LEMMA PlacesStep == DelayInv /\ [DelayNext]_delayVars => DelayPlaces'
<1> SUFFICES ASSUME DelayInv, DelayTypes', [DelayNext]_delayVars PROVE DelayPlaces'
  BY TypeStep
<1>. USE DEF DelayInv, DelayPlaces, inner, channel
<1>1. CASE PushFirst
  BY <1>1 DEF PushFirst, GoesThrough
<1>2. CASE ForwardFirst
  BY <1>2 DEF ForwardFirst
<1>3. CASE Push
  BY <1>3 DEF Push, Admit, GoesThrough, DelayTypes
<1>4. CASE PushResumes
  BY <1>4 DEF PushResumes, Admit, DelayTypes, DelayCounts, InRoom
<1>5. CASE DropBuffer
  BY <1>5 DEF DropBuffer
<1>6. CASE Joined
  BY <1>6 DEF Joined
<1>7. CASE Stop
  BY <1>7 DEF Stop
<1>8. CASE WorkerWaits
  BY <1>8 DEF WorkerWaits, AtTheTop
<1>9. CASE WorkerStops
  BY <1>9 DEF WorkerStops, AtTheTop
<1>10. CASE WorkerTakes
  <2>1. hand' # 0
    BY <1>10, TailFacts DEF WorkerTakes, DelayTypes, Frames
  <2>. QED
    BY <1>10, <2>1 DEF WorkerTakes
<1>11. CASE HoldEnds
  BY <1>11 DEF HoldEnds
<1>12. CASE HoldAgain
  BY <1>12 DEF HoldAgain
<1>13. CASE HoldStops
  BY <1>13 DEF HoldStops
<1>14. CASE WorkerSends
  BY <1>14 DEF WorkerSends
<1>15. CASE WorkerSendFails
  BY <1>15 DEF WorkerSendFails
<1>16. CASE WorkerMarks
  BY <1>16 DEF WorkerMarks
<1>17. CASE WorkerNotifies
  BY <1>17 DEF WorkerNotifies
<1>18. CASE SpuriousWake
  BY <1>18 DEF SpuriousWake
<1>19. CASE Receive
  BY <1>19 DEF Receive
<1>20. CASE DropReceiver
  BY <1>20 DEF DropReceiver
<1>21. CASE Finished \/ UNCHANGED delayVars
  BY <1>21 DEF Finished, delayVars
<1>. QED
  BY <1>1, <1>2, <1>3, <1>4, <1>5, <1>6, <1>7, <1>8, <1>9, <1>10, <1>11, <1>12, <1>13, <1>14, <1>15, <1>16, <1>17, <1>18, <1>19, <1>20, <1>21
  DEF DelayNext, Feed, Work, Render

(* How many frames are on the way. *)
LEMMA CountsStep == DelayInv /\ [DelayNext]_delayVars => DelayCounts'
<1> SUFFICES ASSUME DelayInv, DelayTypes', DelayPlaces', [DelayNext]_delayVars PROVE DelayCounts'
  BY TypeStep, PlacesStep
<1>. USE DEF DelayInv, DelayTypes, DelayCounts, inner, channel
<1>0. \A n \in Frames : n \in Nat /\ n # 0
  BY DEF Frames
<1>a. Held \in {0, 1} /\ InRoom \in {0, 1} /\ InThrough \in {0, 1}
  BY DEF Held, InRoom, InThrough
<1>1. CASE PushFirst
  <2>1. /\ pushed = 0 /\ accepted = 0 /\ pushed' = 1 /\ accepted' = 1 /\ shown' = 0
        /\ Len(queue') = 0 /\ Len(output') = 0
    BY <1>1, EmptyFacts DEF PushFirst, GoesThrough, DelayPlaces
  <2>2. InRoom' = 0 /\ InThrough' = 1 /\ Held' = 0
    BY <1>1 DEF PushFirst, GoesThrough, DelayPlaces, InRoom, InThrough, Held
  <2>. QED
    BY <2>1, <2>2
<1>2. CASE ForwardFirst
  <2>0. InRoom' = 0 /\ InThrough' = 0 /\ InRoom = 0 /\ InThrough = 1 /\ Held' = Held
    BY <1>2 DEF ForwardFirst, InRoom, InThrough, Held
  <2>1. pushed \in Frames
    BY <1>2 DEF ForwardFirst, DelayPlaces, Frames
  <2>2. CASE outOpen
    <3>1. Len(output') = Len(output) + 1
      BY <1>2, <2>1, <2>2, AppendFacts DEF ForwardFirst
    <3>. QED
      BY <1>2, <1>a, <2>0, <3>1, EmptyFacts DEF ForwardFirst, DelayPlaces, Held
  <2>3. CASE ~outOpen
    BY <1>2, <2>0, <2>3 DEF ForwardFirst
  <2>. QED
    BY <2>2, <2>3
<1>3. CASE Push
  <2>1. pushed + 1 \in Frames
    BY <1>3 DEF Push, Frames
  <2>0. InRoom = 0 /\ InThrough = 0 /\ InThrough' = 0 /\ Held' = Held
    BY <1>3 DEF Push, Admit, InRoom, InThrough, Held
  <2>2. CASE stopped \/ ~HasRoom
    <3>1. UNCHANGED <<queue, accepted, stopped, shown, output, outOpen>> /\ pushed' = pushed + 1
      BY <1>3, <2>2 DEF Push, Admit
    <3>2. ~stopped => InRoom' = 1
      BY <1>3, <2>2 DEF Push, Admit, InRoom
    <3>. QED
      BY <1>a, <2>0, <3>1, <3>2
  <2>3. CASE ~stopped /\ HasRoom
    <3>1. queue' = Append(queue, pushed + 1) /\ accepted' = accepted + 1 /\ producer' = "recv"
      BY <1>3, <2>3 DEF Push, Admit
    <3>2. Len(queue') = Len(queue) + 1
      BY <2>1, <3>1, AppendFacts
    <3>3. InRoom' = 0
      BY <3>1 DEF InRoom
    <3>. QED
      BY <1>3, <1>a, <2>0, <3>1, <3>2, <3>3 DEF Push
  <2>. QED
    BY <2>2, <2>3
<1>4. CASE PushResumes
  <2>1. pushed \in Frames
    BY <1>4 DEF PushResumes, Frames, DelayPlaces
  <2>0. InRoom = 1 /\ InThrough = 0 /\ InThrough' = 0 /\ Held' = Held
    BY <1>4 DEF PushResumes, Admit, InRoom, InThrough, Held
  <2>2. CASE stopped \/ ~HasRoom
    <3>1. UNCHANGED <<queue, accepted, stopped, shown, output, outOpen, pushed>>
      BY <1>4, <2>2 DEF PushResumes, Admit
    <3>2. ~stopped => InRoom' = 1
      BY <1>4, <2>2 DEF PushResumes, Admit, InRoom
    <3>. QED
      BY <1>a, <2>0, <3>1, <3>2
  <2>3. CASE ~stopped /\ HasRoom
    <3>1. queue' = Append(queue, pushed) /\ accepted' = accepted + 1 /\ producer' = "recv"
      BY <1>4, <2>3 DEF PushResumes, Admit
    <3>2. Len(queue') = Len(queue) + 1
      BY <2>1, <3>1, AppendFacts
    <3>3. InRoom' = 0
      BY <3>1 DEF InRoom
    <3>. QED
      BY <1>4, <1>a, <2>0, <3>1, <3>2, <3>3 DEF PushResumes
  <2>. QED
    BY <2>2, <2>3
<1>5. CASE WorkerTakes
  <2>1. hand' # 0 /\ Len(queue') = Len(queue) - 1
    BY <1>0, <1>5, TailFacts DEF WorkerTakes
  <2>2. hand = 0
    BY <1>5 DEF WorkerTakes, AtTheTop, DelayPlaces
  <2>3. Held = 0 /\ Held' = 1 /\ InRoom' = InRoom /\ InThrough' = InThrough
    BY <1>5, <2>1, <2>2 DEF WorkerTakes, Held, InRoom, InThrough
  <2>4. ~stopped
    BY <1>5 DEF WorkerTakes
  <2>5. outOpen => shown + Len(output) + 1 <= accepted
    BY <1>a, <2>1, <2>3, <2>4
  <2>. QED
    BY <1>5, <1>a, <2>1, <2>3, <2>4, <2>5 DEF WorkerTakes
<1>6. CASE WorkerSends
  <2>1. hand \in Frames /\ hand # 0
    BY <1>6 DEF WorkerSends, DelayPlaces
  <2>2. Len(output') = Len(output) + 1
    BY <1>6, <2>1, AppendFacts DEF WorkerSends
  <2>3. Held = 1 /\ Held' = 0 /\ InRoom' = InRoom /\ InThrough' = InThrough
    BY <1>6, <2>1 DEF WorkerSends, Held, InRoom, InThrough
  <2>. QED
    BY <1>6, <1>a, <2>2, <2>3 DEF WorkerSends
<1>7. CASE Receive
  <2>1. Len(output') = Len(output) - 1 /\ Len(output) >= 1
    BY <1>7, TailFacts DEF Receive
  <2>2. shown' = shown + 1
    BY <1>7, <2>1, TailFacts DEF Receive, Line
  <2>3. Held' = Held /\ InRoom' = InRoom /\ InThrough' = InThrough
    BY <1>7 DEF Receive, Held, InRoom, InThrough
  <2>. QED
    <3>1. shown' + Len(output') = shown + Len(output)
      BY <2>1, <2>2
    <3>2. UNCHANGED <<pushed, accepted, stopped, outOpen, queue>>
      BY <1>7 DEF Receive
    <3>. QED
      BY <1>a, <2>3, <3>1, <3>2
<1>8. CASE DropBuffer \/ Joined \/ Stop \/ WorkerWaits
  BY <1>8 DEF DropBuffer, Joined, Stop, WorkerWaits, Held, InRoom, InThrough
<1>9. CASE WorkerStops \/ HoldEnds \/ HoldAgain
  BY <1>9 DEF WorkerStops, HoldEnds, HoldAgain, Held, InRoom, InThrough
<1>b. CASE HoldStops
  <2>1. Held' = 0
    BY <1>b DEF HoldStops, Held
  <2>. QED
    BY <1>b, <1>a, <2>1 DEF HoldStops
<1>10. CASE WorkerSendFails \/ WorkerMarks \/ WorkerNotifies \/ SpuriousWake \/ DropReceiver
  <2>1. InRoom' = InRoom /\ InThrough' = InThrough
    BY <1>10 DEF WorkerSendFails, WorkerMarks, WorkerNotifies, SpuriousWake, DropReceiver,
       InRoom, InThrough
  <2>2. outOpen' => Held' = Held
    BY <1>10 DEF WorkerSendFails, WorkerMarks, WorkerNotifies, SpuriousWake, DropReceiver, Held
  <2>. QED
    BY <1>10, <2>1, <2>2 DEF WorkerSendFails, WorkerMarks, WorkerNotifies, SpuriousWake, DropReceiver
<1>11. CASE Finished \/ UNCHANGED delayVars
  BY <1>11 DEF Finished, delayVars, Held, InRoom, InThrough
<1>. QED
  BY <1>1, <1>2, <1>3, <1>4, <1>5, <1>6, <1>7, <1>8, <1>9, <1>10, <1>11, <1>b
  DEF DelayNext, Feed, Work, Render

(* Which frames they are. *)
LEMMA LineStep == DelayInv /\ [DelayNext]_delayVars => Line'
<1> SUFFICES ASSUME DelayInv, DelayTypes', DelayPlaces', outOpen', [DelayNext]_delayVars PROVE Line'
  BY TypeStep, PlacesStep DEF Line
<1>. USE DEF DelayInv, DelayTypes, Line, inner, channel
<1>0. \A n \in Frames : n \in Nat /\ n # 0
  BY DEF Frames
<1>1. CASE PushFirst
  BY <1>1 DEF PushFirst, Held
<1>2. CASE ForwardFirst
  <2>1. /\ pushed = 1 /\ pushed \in Frames /\ shown = 0
        /\ Len(output) = 0 /\ Len(queue) = 0 /\ hand = 0
    BY <1>2, EmptyFacts DEF ForwardFirst, DelayPlaces, Frames
  <2>2. Len(output') = 1 /\ output'[1] = 1
    BY <1>2, <2>1, AppendFacts DEF ForwardFirst
  <2>. QED
    BY <1>2, <2>1, <2>2 DEF ForwardFirst
<1>3. ASSUME NEW f \in Frames, Admit(f), outOpen,
             ~stopped => f = shown + Len(output) + Held + Len(queue) + 1
      PROVE  worker # "done" =>
               \A i \in 1..Len(queue') : queue'[i] = shown + Len(output) + Held + i
  <2>1. CASE stopped \/ ~HasRoom
    BY <1>3, <2>1 DEF Admit
  <2>2. CASE ~stopped /\ HasRoom
    <3>1. queue' = Append(queue, f)
      BY <1>3, <2>2 DEF Admit
    <3>2. /\ Len(queue') = Len(queue) + 1
          /\ \A i \in 1..Len(queue) : queue'[i] = queue[i]
          /\ queue'[Len(queue) + 1] = f
      BY <3>1, AppendFacts
    <3>3. Held \in {0, 1}
      BY DEF Held
    <3>4. ASSUME NEW i \in 1..Len(queue'), worker # "done"
          PROVE  queue'[i] = shown + Len(output) + Held + i
      <4>1. CASE i \in 1..Len(queue)
        BY <1>3, <3>2, <3>4, <4>1
      <4>2. CASE i = Len(queue) + 1
        BY <1>3, <2>2, <3>2, <3>3, <4>2
      <4>. QED
        BY <3>2, <3>4, <4>1, <4>2
    <3>. QED
      BY <3>4
  <2>. QED
    BY <2>1, <2>2
<1>4. CASE Push
  <2>1. pushed + 1 \in Frames
    BY <1>4 DEF Push, Frames
  <2>2. ~stopped => pushed + 1 = shown + Len(output) + Held + Len(queue) + 1
    <3>1. InRoom = 0 /\ InThrough = 0 /\ Held \in {0, 1}
      BY <1>4 DEF Push, InRoom, InThrough, Held
    <3>2. outOpen
      BY <1>4 DEF Push
    <3>. QED
      BY <3>1, <3>2 DEF DelayCounts
  <2>. QED
    BY <1>3, <1>4, <2>1, <2>2 DEF Push, Held
<1>5. CASE PushResumes
  <2>1. pushed \in Frames
    BY <1>5 DEF PushResumes, Frames, DelayPlaces
  <2>2. ~stopped => pushed = shown + Len(output) + Held + Len(queue) + 1
    <3>1. InRoom = 1 /\ InThrough = 0 /\ Held \in {0, 1}
      BY <1>5 DEF PushResumes, InRoom, InThrough, Held
    <3>2. outOpen
      BY <1>5 DEF PushResumes
    <3>. QED
      BY <3>1, <3>2 DEF DelayCounts
  <2>. QED
    BY <1>3, <1>5, <2>1, <2>2 DEF PushResumes, Held
<1>6. CASE WorkerTakes
  <2>1. hand = 0 /\ worker # "done"
    BY <1>6 DEF WorkerTakes, AtTheTop, DelayPlaces
  <2>2. /\ hand' = queue[1] /\ hand' # 0
        /\ Len(queue') = Len(queue) - 1 /\ Len(queue) >= 1
        /\ \A i \in 1..Len(queue') : queue'[i] = queue[i + 1]
    BY <1>0, <1>6, TailFacts DEF WorkerTakes
  <2>3. hand' = shown + Len(output) + 1
    BY <1>6, <2>1, <2>2 DEF WorkerTakes, Held
  <2>4. \A i \in 1..Len(queue') : queue'[i] = shown + Len(output) + 1 + i
    BY <1>6, <2>1, <2>2 DEF WorkerTakes, Held
  <2>5. Held' = 1
    BY <2>2 DEF Held
  <2>. QED
    BY <1>6, <2>3, <2>4, <2>5 DEF WorkerTakes
<1>7. CASE WorkerSends
  <2>1. hand \in Frames /\ hand # 0 /\ hand = shown + Len(output) + 1
    BY <1>7 DEF WorkerSends, DelayPlaces
  <2>2. /\ Len(output') = Len(output) + 1
        /\ \A i \in 1..Len(output) : output'[i] = output[i]
        /\ output'[Len(output) + 1] = hand
    BY <1>7, <2>1, AppendFacts DEF WorkerSends
  <2>3. Held = 1 /\ Held' = 0 /\ hand' = 0
    BY <1>7, <2>1 DEF WorkerSends, Held
  <2>4. ASSUME NEW i \in 1..Len(output')
        PROVE  output'[i] = shown' + i
    <3>1. CASE i \in 1..Len(output)
      BY <1>7, <2>2, <3>1 DEF WorkerSends
    <3>2. CASE i = Len(output) + 1
      BY <1>7, <2>1, <2>2, <3>2 DEF WorkerSends
    <3>. QED
      BY <2>2, <2>4, <3>1, <3>2
  <2>. QED
    BY <1>7, <2>2, <2>3, <2>4 DEF WorkerSends
<1>8. CASE Receive
  <2>1. /\ shown' = output[1] /\ Len(output) >= 1
        /\ Len(output') = Len(output) - 1
        /\ \A i \in 1..Len(output') : output'[i] = output[i + 1]
    BY <1>8, TailFacts DEF Receive
  <2>2. shown' = shown + 1
    BY <1>8, <2>1 DEF Receive
  <2>3. Held' = Held /\ Held \in {0, 1}
    BY <1>8 DEF Receive, Held
  <2>4. \A i \in 1..Len(output') : output'[i] = shown' + i
    BY <1>8, <2>1, <2>2 DEF Receive
  <2>5. hand' # 0 => hand' = shown' + Len(output') + 1
    BY <1>8, <2>1, <2>2 DEF Receive
  <2>6. worker' # "done" =>
          \A i \in 1..Len(queue') : queue'[i] = shown' + Len(output') + Held' + i
    BY <1>8, <2>1, <2>2, <2>3 DEF Receive
  <2>. QED
    BY <2>4, <2>5, <2>6
<1>9. CASE WorkerStops \/ HoldStops
  BY <1>9 DEF WorkerStops, HoldStops, Held
<1>10. CASE DropBuffer \/ Joined \/ Stop
  BY <1>10 DEF DropBuffer, Joined, Stop, Held
<1>13. CASE WorkerWaits \/ HoldEnds \/ HoldAgain
  BY <1>13 DEF WorkerWaits, HoldEnds, HoldAgain, AtTheTop, Held
<1>11. CASE WorkerSendFails \/ WorkerMarks \/ WorkerNotifies \/ SpuriousWake \/ DropReceiver
  BY <1>11 DEF WorkerSendFails, WorkerMarks, WorkerNotifies, SpuriousWake, DropReceiver, DelayPlaces, Held
<1>12. CASE Finished \/ UNCHANGED delayVars
  BY <1>12 DEF Finished, delayVars, Held
<1>. QED
  BY <1>1, <1>2, <1>4, <1>5, <1>6, <1>7, <1>8, <1>9, <1>10, <1>11, <1>12, <1>13
  DEF DelayNext, Feed, Work, Render

--------------------------------------------------------------------------------
(* The results. *)

(* The inductive invariant holds of every state of every behaviour. *)
THEOREM DelayInvariance == DelaySpec => []DelayInv
<1>1. DelayInv /\ [DelayNext]_delayVars => DelayInv'
  BY TypeStep, SleepersStep, PlacesStep, CountsStep, LineStep DEF DelayInv
<1>. QED
  BY InitInv, <1>1, PTL DEF DelaySpec

(* Types, and the bound on what a stalled renderer can make the buffer     *)
(* retain: the queue of push and run never exceeds IN_FLIGHT.              *)
THEOREM TypeCorrect == DelaySpec => []DelayTypes
<1>1. DelayInv => DelayTypes
  BY DEF DelayInv
<1>. QED
  BY DelayInvariance, <1>1, PTL

(* Neither push nor run sleeps through what it waits for, although one     *)
(* condition variable serves both.                                         *)
THEOREM SleepersAreWoken == DelaySpec => []NoLostWakeup
<1>1. DelayInv => NoLostWakeup
  BY DEF DelayInv, Sleepers
<1>. QED
  BY DelayInvariance, <1>1, PTL

(* While the buffer runs and somebody draws, every frame push was given is *)
(* accounted for.                                                          *)
THEOREM NoFrameIsLost == DelaySpec => []NothingLost
<1>1. DelayInv => NothingLost
  <2> SUFFICES ASSUME DelayInv, outOpen, ~stopped
               PROVE  pushed = shown + Len(output) + Len(queue)
                        + (IF producer \in {"through", "room"} THEN 1 ELSE 0) + Held
    BY DEF NothingLost, Held
  <2>1. pushed = accepted + InRoom
    BY DEF DelayInv, DelayCounts
  <2>2. accepted = shown + Len(output) + InThrough + Held + Len(queue)
    BY DEF DelayInv, DelayCounts
  <2>3. InRoom + InThrough = IF producer \in {"through", "room"} THEN 1 ELSE 0
    BY DEF InRoom, InThrough
  <2>4. InRoom \in {0, 1} /\ InThrough \in {0, 1} /\ Held \in {0, 1}
    BY DEF InRoom, InThrough, Held
  <2>. QED
    BY <2>1, <2>2, <2>3, <2>4 DEF DelayInv, DelayTypes
<1>. QED
  BY DelayInvariance, <1>1, PTL

(* The buffer implements the bounded first-in first-out line: the renderer *)
(* gets the frames push let in, in order and without a gap.                *)
THEOREM Refinement == DelaySpec => ImplementsFifo
<1>1. DelayInit => Fifo!Init
  BY DEF DelayInit, Fifo!Init
<1>2. DelayInv /\ [DelayNext]_delayVars => [Fifo!Next]_(Fifo!vars)
  <2> SUFFICES ASSUME DelayInv, [DelayNext]_delayVars
               PROVE  Fifo!Next \/ UNCHANGED Fifo!vars
    OBVIOUS
  <2>. USE DEF DelayInv, DelayTypes, Fifo!Next, Fifo!vars, inner, channel
  <2>0. Held \in {0, 1} /\ InRoom \in {0, 1} /\ InThrough \in {0, 1}
    BY DEF Held, InRoom, InThrough
  <2>1. CASE PushFirst
    <3>1. accepted = 0 /\ shown = 0
      BY <2>1 DEF PushFirst, GoesThrough, DelayPlaces
    <3>. QED
      BY <2>1, <3>1, BufferAssumption DEF PushFirst, Fifo!Accept
  <2>2. ASSUME NEW f, Admit(f), UNCHANGED channel, ~stopped => Len(queue) <= InFlight
        PROVE  Fifo!Next \/ UNCHANGED Fifo!vars
    <3>1. CASE stopped \/ ~HasRoom
      BY <2>2, <3>1 DEF Admit
    <3>2. CASE ~stopped /\ HasRoom
      <4>1. InThrough = 0 \/ Len(queue) = 0
        BY EmptyFacts DEF InThrough, DelayPlaces
      <4>2. Held = 0 \/ InThrough = 0
        BY DEF Held, InThrough, DelayPlaces
      <4>3. outOpen => accepted - shown < InFlight + 1 + OutCap
        BY <2>0, <3>2, <4>1, <4>2, BufferAssumption DEF DelayCounts, HasRoom
      <4>4. accepted' = accepted + 1 /\ UNCHANGED <<shown, outOpen>>
        BY <2>2, <3>2 DEF Admit
      <4>. QED
        BY <4>3, <4>4 DEF Fifo!Accept
    <3>. QED
      BY <3>1, <3>2
  <2>3. CASE Push
    BY <2>2, <2>3 DEF Push
  <2>4. CASE PushResumes
    BY <2>2, <2>4 DEF PushResumes
  <2>5. CASE Receive
    <3>1. /\ shown' = shown + 1
          /\ Len(output) >= 1
      BY <2>5, TailFacts DEF Receive, Line
    <3>2. shown < accepted
      BY <2>0, <2>5, <3>1 DEF Receive, DelayCounts
    <3>. QED
      BY <2>5, <3>1, <3>2 DEF Receive, Fifo!Deliver
  <2>6. CASE DropReceiver
    BY <2>6 DEF DropReceiver, Fifo!Leave
  <2>7. CASE ForwardFirst \/ DropBuffer \/ Joined \/ Stop \/ WorkerWaits \/ WorkerStops
    BY <2>7 DEF ForwardFirst, DropBuffer, Joined, Stop, WorkerWaits, WorkerStops
  <2>8. CASE WorkerTakes \/ HoldEnds \/ HoldAgain \/ HoldStops \/ WorkerSends
    BY <2>8 DEF WorkerTakes, HoldEnds, HoldAgain, HoldStops, WorkerSends
  <2>9. CASE WorkerSendFails \/ WorkerMarks \/ WorkerNotifies \/ SpuriousWake
    BY <2>9 DEF WorkerSendFails, WorkerMarks, WorkerNotifies, SpuriousWake
  <2>10. CASE Finished \/ UNCHANGED delayVars
    BY <2>10 DEF Finished, delayVars
  <2>. QED
    BY <2>1, <2>3, <2>4, <2>5, <2>6, <2>7, <2>8, <2>9, <2>10 DEF DelayNext, Feed, Work, Render
<1>. QED
  BY DelayInvariance, <1>1, <1>2, PTL DEF DelaySpec, ImplementsFifo, Fifo!Spec
================================================================================
