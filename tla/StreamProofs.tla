----------------------------- MODULE StreamProofs -----------------------------
(***************************************************************************)
(* What the two streams of a mirror come to: a picture that leaves the     *)
(* decoder, in every behaviour of MirrorPath, and the ring of the sound,   *)
(* in every behaviour of AudioPath.                                        *)
(***************************************************************************)
EXTENDS MirrorPath, AudioPath, FilteringProofs

(* A converter, however the measured picture looked, ends up behind a      *)
(* write that reaches the whole picture and nothing behind it.             *)
LEMMA WriteFits ==
  ASSUME NEW c \in Converters, NEW content \in [{"edge", "past"} -> {"aa", "55", "other"}],
         NEW same \in BOOLEAN
  PROVE  Reaches(ChooseWrite(c, content, same), c) = Whole
  <1> DEFINE edge == SeenWritten(c, "edge", content)
             past == SeenWritten(c, "past", content)
             w == ChooseWrite(c, content, same)
  <1>1. c.past \in BOOLEAN /\ c.short \in BOOLEAN BY DEF Converters
  <1>2. edge => ~c.short BY <1>1 DEF SeenWritten, Places
  <1>3. ~past => ~c.past
        <2>1. \E canary \in Fillings : content["past"] # canary BY DEF Fillings
        <2> QED BY <1>1, <2>1 DEF SeenWritten, Places
  <1>4. CASE ~edge
        <2>1. w = "padded" BY <1>4 DEF ChooseWrite
        <2> QED BY <1>1, <2>1 DEF Reaches, Places, Whole
  <1>5. CASE edge /\ ~past
        <2>1. w = "direct" BY <1>5 DEF ChooseWrite
        <2> QED BY <1>1, <1>2, <1>3, <1>5, <2>1 DEF Reaches, Places, Whole
  <1>6. CASE edge /\ past
        <2>1. w \in {"tail", "scratch"} BY <1>6 DEF ChooseWrite
        <2> QED BY <1>1, <1>2, <1>6, <2>1 DEF Reaches, Places, Whole
  <1> QED BY <1>4, <1>5, <1>6

LEMMA BuiltFits ==
  ASSUME NEW key, NEW some \in SUBSET Converters, NEW built \in Built(key, some)
  PROVE  built.key = key /\ Reaches(built.write, built.converter) = Whole
  <1>1. PICK c \in some, content \in [{"edge", "past"} -> {"aa", "55", "other"}], same \in BOOLEAN :
          built = [key |-> key, converter |-> c, write |-> ChooseWrite(c, content, same)]
        BY DEF Built
  <1> QED BY <1>1, WriteFits

-------------------------------------------------------------------------------
(* Where a packet may be decoded, by the flag.                             *)
Wheres == Range(Apis) \cup {Cpu, "nothing"}
On == IF Named THEN {flag} ELSE Wheres
Packet == [n : Nat, session : Nat, on : On]

(* The AV1 hardware decoder, which holds no picture back.                  *)
Av1 == codec = "av1" /\ opened # Cpu
Now == {p \in Packet : Av1 => p.session = session}

OutputIsOwn ==
  /\ output.pts \in {None, output.picture}
  /\ output.received \in {None, output.pts}
  /\ ~output.amiss

Flow ==
  /\ thread \in {"taking", "draining", "sending", "failed", "refused"}
  /\ thread \in {"taking", "sending"} => pictures = << >>
  /\ thread = "sending" => OutputIsOwn
  /\ thread = "draining" /\ pictures = << >> => OutputIsOwn
  /\ Reaches(scaler.write, scaler.converter) = Whole

Origins ==
  /\ session \in Nat /\ taken \in Nat
  /\ flag \in {"disabled", "auto"} \cup Range(Apis)
  /\ inside \in Seq(Packet) /\ pictures \in Seq(Now)
  /\ opened \in On \/ thread = "refused"
  /\ thread \in {"failed", "refused"} \/ config \in {0, session}
  /\ thread \in {"failed", "refused"} \/ session = 0 \/ config # 0 \/ context.session # 0
  /\ context.session = 0 \/ context.on \in On \cup {"nothing"}

Av1Inv == Av1 =>
  /\ inside = << >>
  /\ shown \subseteq 1 .. session
  /\ session \in shown => produced
  /\ context.session = session \/ context.session \notin shown

DecoderInv == Flow /\ Origins /\ Av1Inv

LEMMA RangeIs ==
  ASSUME NEW E, NEW s \in Seq(E)
  PROVE  /\ Range(s) = Elements(s) /\ Range(s) \subseteq E
         /\ DOMAIN s = 1 .. Len(s) /\ \A i \in DOMAIN s : s[i] \in E
         /\ s = << >> => Range(s) = {}
  <1>1. Len(s) \in Nat /\ s \in [1 .. Len(s) -> E] /\ DOMAIN s = 1 .. Len(s) BY LenProperties
  <1>2. s = << >> => Len(s) = 0 BY EmptySeq
  <1>3. 1 .. 0 = {} BY SMT
  <1> QED BY <1>1, <1>2, <1>3 DEF Range, Elements

LEMMA Reversed ==
  ASSUME NEW E, NEW s \in Seq(E)
  PROVE  Reverse(s) \in Seq(E)
  <1>1. Len(s) \in Nat /\ \A i \in 1 .. Len(s) : s[i] \in E BY LenProperties, ElementOfSeq
  <1> DEFINE n == Len(s)
             r == [i \in 1 .. n |-> s[(n - i) + 1]]
  <1>2. \A i \in 1 .. n : (n - i) + 1 \in 1 .. n BY <1>1, SMT
  <1>3. r \in [1 .. n -> E] BY <1>1, <1>2
  <1>4. r \in Seq(E) BY <1>1, <1>3, SeqDef
  <1> QED BY <1>4 DEF Reverse

LEMMA OrdersFacts ==
  ASSUME NEW E, NEW held \in Seq(E), NEW ready \in Orders(held)
  PROVE  ready \in Seq(E)
  <1>1. \A S : Filtered(held, S) \in Seq(E) BY FilteredType
  <1>2. \/ ready = held
        \/ \E S : ready = Filtered(held, S)
        \/ \E S : ready = Reverse(Filtered(held, S))
        BY DEF Orders
  <1> QED BY <1>1, <1>2, Reversed

LEMMA OpensFacts ==
  ASSUME NEW works \in SUBSET Range(Apis), flag \in {"disabled", "auto"} \cup Range(Apis),
         Opens(works) # << >>
  PROVE  Head(Opens(works)) \in On
  <1>1. Range(Apis) \subseteq STRING /\ Apis \in Seq(Range(Apis))
        <2>1. Len(Apis) \in Nat /\ Apis \in [1 .. Len(Apis) -> STRING] /\ DOMAIN Apis = 1 .. Len(Apis)
              BY DecoderAssumption, LenProperties
        <2>2. Apis \in [1 .. Len(Apis) -> Range(Apis)] BY <2>1 DEF Range
        <2>3. Range(Apis) \subseteq STRING BY <2>1 DEF Range
        <2>4. Apis \in UNION {[1 .. n -> Range(Apis)] : n \in Nat} BY <2>1, <2>2
        <2>5. Apis \in Seq(Range(Apis)) BY <2>4, SeqDef
        <2> QED BY <2>3, <2>5
  <1>2. Tried \in Seq(On)
        <2>1. CASE Named
              <3>1. Tried = << flag >> /\ On = {flag} BY <2>1 DEF Tried, Named, On
              <3> QED BY <3>1
        <2>2. CASE ~Named
              <3>1. Tried \in Seq(Range(Apis))
                    BY <1>1, <2>2, EmptySeq DEF Tried, Named
              <3>2. Range(Apis) \subseteq On BY <2>2 DEF On, Wheres
              <3> QED BY <3>1, <3>2, SeqMonotonic
        <2> QED BY <2>1, <2>2
  <1>3. Opens(works) \in Seq(On) BY <1>2, FilteredType DEF Opens
  <1> QED BY <1>3, HeadTailProperties

LEMMA DecoderBegins == DInit => DecoderInv
  <1> SUFFICES ASSUME DInit PROVE DecoderInv OBVIOUS
  <1>1. /\ flag \in {"disabled", "auto"} \cup Range(Apis)
        /\ session = 0 /\ taken = 0
        /\ context = NotSetUp /\ config = 0 /\ produced = FALSE /\ shown = {}
        /\ inside = << >> /\ pictures = << >>
        /\ scaler = [key |-> NoKey, write |-> "direct", converter |-> Exact]
        BY DEF DInit
  <1>2. PICK works \in SUBSET Range(Apis) :
          /\ opened = IF Opens(works) = << >> THEN Cpu ELSE Head(Opens(works))
          /\ thread = IF Named /\ opened = Cpu THEN "refused" ELSE "taking"
        BY DEF DInit
  <1>3. Reaches("direct", Exact) = Whole BY DEF Reaches, Places, Exact, Whole
  <1>4. Flow BY <1>1, <1>2, <1>3 DEF Flow
  <1>5. opened \in On \/ thread = "refused"
        <2>1. CASE Opens(works) = << >>
              <3>1. opened = Cpu BY <1>2, <2>1
              <3>2. ~Named => Cpu \in On BY DEF On, Wheres
              <3> QED BY <1>2, <3>1, <3>2
        <2>2. CASE Opens(works) # << >> BY <1>1, <1>2, <2>2, OpensFacts
        <2> QED BY <2>1, <2>2
  <1>6. << >> \in Seq(Packet) /\ << >> \in Seq(Now) /\ 0 \in Nat BY EmptySeq
  <1>7. Origins BY <1>1, <1>5, <1>6 DEF Origins, NotSetUp
  <1>8. Av1Inv BY <1>1 DEF Av1Inv, NotSetUp
  <1> QED BY <1>4, <1>7, <1>8 DEF DecoderInv

-------------------------------------------------------------------------------
(* The steps of the decoder.                                               *)
LEMMA ConfigKeeps ==
  ASSUME DecoderInv, NEW s, NEW frame, TakeConfig(s, frame)
  PROVE  DecoderInv'
  <1>1. /\ thread = "taking" /\ session' = session + 1 /\ produced' = FALSE
        /\ IF Reopened
           THEN /\ context' = NotSetUp /\ inside' = << >>
                /\ \/ config' = session' /\ UNCHANGED thread
                   \/ thread' = "failed" /\ UNCHANGED config
           ELSE /\ config' = session' /\ UNCHANGED <<context, inside, thread>>
        /\ UNCHANGED <<whims, flag, codec, taken, opened, shown, received, pictures, layout, scaler>>
        BY DEF TakeConfig
  <1>2. Flow /\ Origins /\ Av1Inv BY DEF DecoderInv
  <1>3. /\ session \in Nat /\ session + 1 \in Nat /\ session + 1 # 0
        /\ 1 .. session \subseteq 1 .. session + 1 /\ session + 1 \notin 1 .. session
        /\ 0 \notin 1 .. session + 1
        BY <1>2, SMT DEF Origins
  <1>4. Flow' BY <1>1, <1>2 DEF Flow
  <1>5. Packet' = Packet /\ On' = On /\ Av1' = Av1
        BY <1>1 DEF Packet, On, Named, Wheres, Av1
  <1>6. pictures = << >> BY <1>1, <1>2 DEF Flow
  <1>7. << >> \in Seq(Packet) /\ << >> \in Seq(Now') BY EmptySeq
  <1>8. Origins'
        <2>1. CASE Reopened BY <1>1, <1>2, <1>3, <1>5, <1>6, <1>7, <2>1 DEF Origins, NotSetUp
        <2>2. CASE ~Reopened BY <1>1, <1>2, <1>3, <1>5, <1>6, <1>7, <2>2 DEF Origins
        <2> QED BY <2>1, <2>2
  <1>9. Av1Inv'
        <2> SUFFICES ASSUME Av1
                     PROVE  /\ inside' = << >> /\ shown' \subseteq 1 .. session'
                            /\ session' \notin shown'
                            /\ context'.session = session' \/ context'.session \notin shown'
            BY <1>5 DEF Av1Inv
        <2>1. /\ inside = << >> /\ shown \subseteq 1 .. session
              /\ (session \in shown => produced)
              /\ (context.session = session \/ context.session \notin shown)
              BY <1>2 DEF Av1Inv
        <2>2. shown' \subseteq 1 .. session' /\ session' \notin shown' BY <1>1, <1>3, <2>1
        <2>3. CASE Reopened
              <3>1. context'.session = 0 /\ inside' = << >> BY <1>1, <2>3 DEF NotSetUp
              <3>2. 0 \notin shown' BY <1>1, <1>3, <2>2
              <3> QED BY <2>2, <3>1, <3>2
        <2>4. CASE ~Reopened
              <3>1. ~produced BY <2>4 DEF Reopened, Av1
              <3>2. context.session \notin shown BY <2>1, <3>1
              <3> QED BY <1>1, <2>1, <2>2, <2>4, <3>2
        <2> QED BY <2>3, <2>4
  <1> QED BY <1>4, <1>8, <1>9 DEF DecoderInv

(* Where the context decodes on, once a packet has gone in.                *)
LEMMA SetUpFacts ==
  ASSUME DecoderInv, thread = "taking", session > 0, NEW set \in SetUp
  PROVE  /\ set.on \in On \cup {"nothing"} /\ set.session # 0
         /\ set = context \/ set.session = session
  <1>1. /\ session \in Nat /\ config \in {0, session}
        /\ (session = 0 \/ config # 0 \/ context.session # 0)
        /\ (context.session = 0 \/ context.on \in On \cup {"nothing"})
        /\ opened \in On
        BY DEF DecoderInv, Origins
  <1>2. session # 0 BY <1>1, SMT
  <1>3. CASE config = 0 \/ (codec = "av1" /\ opened # Cpu /\ context.session # 0)
        <2>1. set = context BY <1>3 DEF SetUp
        <2> QED BY <1>1, <1>2, <1>3, <2>1
  <1>4. CASE ~(config = 0 \/ (codec = "av1" /\ opened # Cpu /\ context.session # 0))
        <2>1. PICK on \in {opened} \union (IF opened # Cpu
                                          THEN {IF FallsBack THEN Cpu ELSE "nothing"} ELSE {}) :
                set = [session |-> config, on |-> on]
              BY <1>4 DEF SetUp
        <2>2. on \in {opened, "nothing"} \/ (on = Cpu /\ ~Named) BY <2>1 DEF FallsBack
        <2>3. ~Named => Cpu \in On BY DEF On, Wheres
        <2> QED BY <1>1, <1>2, <1>4, <2>1, <2>2, <2>3
  <1> QED BY <1>3, <1>4

LEMMA PacketKeeps ==
  ASSUME DecoderInv, NEW frame, TakePacket(frame)
  PROVE  DecoderInv'
  <1>1. /\ thread = "taking" /\ session > 0 /\ taken' = taken + 1 /\ config' = 0
        /\ UNCHANGED <<whims, flag, codec, session, size, opened, layout, scaler>>
        BY DEF TakePacket
  <1>2. PICK set \in SetUp :
          /\ context' = set
          /\ \E held \in (IF set.on = "nothing" THEN {inside}
                          ELSE {Append(inside, Held(taken', set.on))}
                                 \union (IF "libavcodec" \in whims THEN {inside} ELSE {})) :
              \E ready \in Orders(held) :
                /\ pictures' = ready
                /\ inside' \in MayHold(Filtered(held, Range(held) \ Range(ready)))
                /\ thread' = IF ready = << >> THEN "taking" ELSE "draining"
                /\ produced' = (produced \/ ready # << >>)
                /\ shown' = shown \union {p.session : p \in Range(ready)}
        BY DEF TakePacket
  <1>a. PICK held \in (IF set.on = "nothing" THEN {inside}
                       ELSE {Append(inside, Held(taken', set.on))}
                              \union (IF "libavcodec" \in whims THEN {inside} ELSE {})) :
          \E ready \in Orders(held) :
            /\ pictures' = ready
            /\ inside' \in MayHold(Filtered(held, Range(held) \ Range(ready)))
            /\ thread' = IF ready = << >> THEN "taking" ELSE "draining"
            /\ produced' = (produced \/ ready # << >>)
            /\ shown' = shown \union {p.session : p \in Range(ready)}
        BY <1>2
  <1>b. held = inside \/ (set.on # "nothing" /\ held = Append(inside, Held(taken', set.on)))
        BY <1>a
  <1>3. PICK ready \in Orders(held) :
          /\ pictures' = ready
          /\ inside' \in MayHold(Filtered(held, Range(held) \ Range(ready)))
          /\ thread' = IF ready = << >> THEN "taking" ELSE "draining"
          /\ produced' = (produced \/ ready # << >>)
          /\ shown' = shown \union {p.session : p \in Range(ready)}
        BY <1>a
  <1>4. Flow /\ Origins /\ Av1Inv BY DEF DecoderInv
  <1>5. /\ set.on \in On \cup {"nothing"} /\ set.session # 0
        /\ set = context \/ set.session = session
        BY <1>1, SetUpFacts
  <1>6. session \in Nat /\ taken \in Nat /\ taken + 1 \in Nat /\ session \in 1 .. session
        BY <1>1, <1>4, SMT DEF Origins
  <1>7. Packet' = Packet /\ On' = On /\ Av1' = Av1 /\ Now' = Now
        BY <1>1 DEF Packet, On, Named, Wheres, Av1, Now
  <1>8. inside \in Seq(Now)
        <2>1. CASE Av1 BY <1>4, <2>1, EmptySeq DEF Av1Inv
        <2>2. CASE ~Av1
              <3>1. Now = Packet BY <2>2 DEF Now
              <3> QED BY <1>4, <3>1 DEF Origins
        <2> QED BY <2>1, <2>2
  <1>9. held \in Seq(Now)
        <2>1. CASE held = inside BY <1>8, <2>1
        <2>2. CASE set.on # "nothing" /\ held = Append(inside, Held(taken', set.on))
              <3> DEFINE h == Held(taken', set.on)
              <3>1. h \in Now BY <1>1, <1>5, <1>6, <2>2 DEF Held, Now, Packet
              <3> HIDE DEF h
              <3>2. Append(inside, h) \in Seq(Now) BY <1>8, <3>1, AppendProperties
              <3> QED BY <2>2, <3>2 DEF h
        <2> QED BY <1>b, <2>1, <2>2
  <1>10. ready \in Seq(Now) BY <1>9, OrdersFacts
  <1>11. Now \subseteq Packet BY DEF Now
  <1>12. inside' \in Seq(Packet)
         <2>1. Filtered(held, Range(held) \ Range(ready)) \in Seq(Now) BY <1>9, FilteredType
         <2>2. Filtered(held, Range(held) \ Range(ready)) \in Seq(Packet)
               BY <1>11, <2>1, SeqMonotonic
         <2>3. << >> \in Seq(Packet) BY EmptySeq
         <2>4. inside' \in {Filtered(held, Range(held) \ Range(ready)), << >>} BY <1>3 DEF MayHold
         <2> QED BY <2>2, <2>3, <2>4
  <1>13. Flow' BY <1>1, <1>3, <1>4 DEF Flow
  <1>14. Origins'
         BY <1>1, <1>2, <1>3, <1>4, <1>5, <1>6, <1>7, <1>10, <1>12 DEF Origins
  <1>15. Av1Inv'
         <2> SUFFICES ASSUME Av1
                      PROVE  /\ inside' = << >> /\ shown' \subseteq 1 .. session
                             /\ session \in shown' => produced'
                             /\ context'.session = session \/ context'.session \notin shown'
             BY <1>1, <1>7 DEF Av1Inv
         <2>1. /\ shown \subseteq 1 .. session /\ (session \in shown => produced)
               /\ (context.session = session \/ context.session \notin shown)
               BY <1>4 DEF Av1Inv
         <2>2. inside' = << >> BY <1>3 DEF MayHold, Av1
         <2>3. \A p \in Range(ready) : p.session = session
               <3>1. Range(ready) \subseteq Now BY <1>10, RangeIs
               <3> QED BY <3>1 DEF Now
         <2>4. shown' \subseteq shown \cup {session} BY <1>3, <2>3
         <2>5. ready = << >> => shown' = shown
               <3>1. ready = << >> => Range(ready) = {} BY <1>10, RangeIs
               <3> QED BY <1>3, <3>1
         <2> QED BY <1>2, <1>3, <1>5, <1>6, <2>1, <2>2, <2>4, <2>5
  <1> QED BY <1>13, <1>14, <1>15 DEF DecoderInv

(* One picture leaves; what is written is whole and stamped with its own.  *)
LEMMA ConvertFacts ==
  ASSUME Flow, NEW picture, NEW format, NEW s, NEW pts \in {picture.n, None},
         Convert(picture, format, s, pts)
  PROVE  OutputIsOwn' /\ Reaches(scaler'.write, scaler'.converter) = Whole
  <1>1. PICK built \in (IF Fresh(scaler.key, format, s) THEN {scaler}
                        ELSE Built(<<format, s>>,
                                   IF "swscale" \in whims THEN Converters ELSE {Exact})) :
          /\ scaler' = built
          /\ output' = [size |-> s, picture |-> picture.n, on |-> picture.on,
                        pts |-> Stamp(output.pts, pts),
                        received |-> Stamp(output.received, ReceivedAt(pts)),
                        amiss |-> \/ built.key # <<format, s>>
                                  \/ Reaches(built.write, built.converter) # Whole]
        BY DEF Convert
  <1>2. built.key = <<format, s>> /\ Reaches(built.write, built.converter) = Whole
        <2>1. CASE Fresh(scaler.key, format, s) BY <1>1, <2>1 DEF Fresh, Flow
        <2>2. CASE ~Fresh(scaler.key, format, s)
              <3> DEFINE some == IF "swscale" \in whims THEN Converters ELSE {Exact}
                         key == <<format, s>>
              <3>1. some \in SUBSET Converters BY DEF Converters, Exact
              <3>2. built \in Built(key, some) BY <1>1, <2>2
              <3> HIDE DEF some, key
              <3>3. built.key = key /\ Reaches(built.write, built.converter) = Whole
                    BY <3>1, <3>2, BuiltFits
              <3> QED BY <3>3 DEF key
        <2> QED BY <2>1, <2>2
  <1>3. ReceivedAt(pts) \in {pts, None} BY DEF ReceivedAt
  <1>4. /\ output'.pts = pts /\ output'.picture = picture.n /\ output'.received = ReceivedAt(pts)
        /\ output'.amiss = FALSE
        BY <1>1, <1>2 DEF Stamp
  <1>5. OutputIsOwn' BY <1>3, <1>4 DEF OutputIsOwn
  <1> QED BY <1>1, <1>2, <1>5

LEMMA ProcessKeeps == DecoderInv /\ ProcessFrame => DecoderInv'
  <1> SUFFICES ASSUME DecoderInv, ProcessFrame PROVE DecoderInv' OBVIOUS
  <1> DEFINE picture == Head(pictures)
             s == size[picture.session]
  <1>1. /\ thread = "draining" /\ pictures # << >> /\ pictures' = Tail(pictures)
        /\ UNCHANGED <<stream, thread, opened, context, config, produced, shown, inside>>
        /\ \E pts \in {picture.n} \union (IF "libavcodec" \in whims THEN {None} ELSE {}) :
             IF picture.on = Cpu
             THEN Convert(picture, "yuv", s, pts)
             ELSE Convert(picture, layout'.format, s, pts)
        BY DEF ProcessFrame
  <1>2. Flow /\ Origins /\ Av1Inv BY DEF DecoderInv
  <1>3. PICK pts \in {picture.n, None}, format \in {"yuv", layout'.format} :
          Convert(picture, format, s, pts)
        BY <1>1
  <1> HIDE DEF picture, s
  <1>4. OutputIsOwn' /\ Reaches(scaler'.write, scaler'.converter) = Whole
        BY <1>2, <1>3, ConvertFacts
  <1>5. Flow' BY <1>1, <1>2, <1>4 DEF Flow
  <1>6. Packet' = Packet /\ On' = On /\ Av1' = Av1 /\ Now' = Now
        BY <1>1 DEF Packet, On, Named, Wheres, Av1, Now, stream
  <1>7. pictures' \in Seq(Now) BY <1>1, <1>2, HeadTailProperties DEF Origins
  <1>8. Origins' BY <1>1, <1>2, <1>6, <1>7 DEF Origins, stream
  <1>9. Av1Inv' BY <1>1, <1>2, <1>6 DEF Av1Inv, stream
  <1> QED BY <1>5, <1>8, <1>9 DEF DecoderInv

(* A thread that goes on to something else, and what it has stays.         *)
LEMMA Onwards ==
  ASSUME DecoderInv, thread \notin {"refused"},
         UNCHANGED <<stream, opened, context, config, produced, shown, inside, scaler>>,
         \/ thread' = "failed" /\ (pictures' = pictures \/ pictures' = << >>)
         \/ thread' = "sending" /\ thread = "draining" /\ UNCHANGED <<pictures, output>>
            /\ pictures = << >>
         \/ thread' = "taking" /\ thread = "sending" /\ UNCHANGED pictures
  PROVE  DecoderInv'
  <1>1. Flow /\ Origins /\ Av1Inv BY DEF DecoderInv
  <1>2. Flow' BY <1>1 DEF Flow, OutputIsOwn
  <1>3. Packet' = Packet /\ On' = On /\ Av1' = Av1 /\ Now' = Now
        BY DEF Packet, On, Named, Wheres, Av1, Now, stream
  <1>4. << >> \in Seq(Now) BY EmptySeq
  <1>5. pictures' \in Seq(Now) BY <1>1, <1>4 DEF Origins
  <1>6. Origins' BY <1>1, <1>3, <1>5 DEF Origins, stream
  <1>7. Av1Inv' BY <1>1, <1>3 DEF Av1Inv, stream
  <1> QED BY <1>2, <1>6, <1>7 DEF DecoderInv

LEMMA DecoderStays == DecoderInv /\ UNCHANGED dvars => DecoderInv'
  BY DEF DecoderInv, Flow, Origins, Av1Inv, OutputIsOwn, Packet, On, Named, Wheres, Av1, Now, dvars,
         stream, decoding, converting

LEMMA MirrorKeeps == DecoderInv /\ [Next]_vars => DecoderInv'
  <1> SUFFICES ASSUME DecoderInv, [Next]_vars PROVE DecoderInv' OBVIOUS
  <1>1. CASE ConfigComes BY <1>1, ConfigKeeps DEF ConfigComes
  <1>2. CASE PacketComes
        <2>1. CASE TakePacket(Spare) BY <2>1, PacketKeeps
        <2>2. CASE PacketRefused
              BY <2>2, Onwards DEF PacketRefused, converting
        <2> QED BY <1>2, <2>1, <2>2 DEF PacketComes, PacketTaken
  <1>3. CASE Decodes
        <2>1. CASE ProcessFrame BY <2>1, ProcessKeeps
        <2>2. CASE PictureRefused
              BY <2>2, Onwards DEF PictureRefused, converting
        <2>3. CASE Drained
              BY <2>3, Onwards DEF Drained, converting
        <2> QED BY <1>3, <2>1, <2>2, <2>3 DEF Decodes
  <1>4. CASE Sends BY <1>4, Onwards DEF Sends
  <1>5. CASE UNCHANGED dvars BY <1>5, DecoderStays
  <1> QED BY <1>1, <1>2, <1>3, <1>4, <1>5
          DEF Next, vars, Idle, Draw, HandBack, GoesOn, Rests, Ends, ComesDue, WindowMoves, Poll,
              DisplayChanges

LEMMA MirrorInvariance == Spec => []DecoderInv
  <1>1. Init => DecoderInv BY DecoderBegins DEF Init
  <1> QED BY <1>1, MirrorKeeps, PTL DEF Spec

(* A frame on its way to the window is its own picture, stamps and places. *)
THEOREM PicturesAreTheirOwn == Spec => []PictureIsItsOwn
  <1>1. DecoderInv => PictureIsItsOwn
        <2> SUFFICES ASSUME DecoderInv PROVE PictureIsItsOwn OBVIOUS
        <2>1. thread = "sending" => OutputIsOwn BY DEF DecoderInv, Flow
        <2>2. ASSUME NEW s, NEW to \in Transferred(s) PROVE to.size = s
              BY DEF Transferred, StartsOver
        <2> QED BY <2>1, <2>2 DEF PictureIsItsOwn, OutputIsOwn
  <1> QED BY <1>1, MirrorInvariance, PTL

(* A frame was decoded where --hwdec says, and by an AV1 hardware decoder  *)
(* that was set up for its session, or for one that never gave a picture.  *)
THEOREM PicturesAreDecodedWhereTheyMay == Spec => []DecodedWhereItMay
  <1>1. DecoderInv => DecodedWhereItMay
        <2> SUFFICES ASSUME DecoderInv PROVE DecodedWhereItMay OBVIOUS
        <2>1. pictures \in Seq(Now) BY DEF DecoderInv, Origins
        <2>2. \A i \in DOMAIN pictures : pictures[i] \in Now BY <2>1, RangeIs
        <2>3. Named => \A i \in DOMAIN pictures : pictures[i].on = flag
              BY <2>2 DEF Now, Packet, On
        <2>4. Av1 => \A i \in DOMAIN pictures :
                context.session = pictures[i].session \/ context.session \notin shown
              BY <2>2 DEF Now, DecoderInv, Av1Inv
        <2> QED BY <2>3, <2>4 DEF DecodedWhereItMay, Av1
  <1> QED BY <1>1, MirrorInvariance, PTL

--------------------------------------------------------------------------------
(***************************************************************************)
(* Proofs about the ring of sound for every target, ring, cap and size of  *)
(* chunk and callback: it holds the last samples pushed in their order,    *)
(* the next one is of the left channel, and a cap leaves a callback.       *)
(*                                                                         *)
(* A ring is Sound at p when it holds the numbers just below p: its write  *)
(* position is where its read position and its count say, both are even    *)
(* in length, and the i-th oldest sample is the one it should be.  Writing *)
(* moves p on, skipping leaves it, and a push and a pull are made of those *)
(* two.                                                                    *)
(***************************************************************************)

Rings == [data : [Slots -> Int], write : Slots, read : Slots, count : 0 .. Capacity]

Even(n) == n % Channels = 0

Sound(b, p) ==
  /\ b \in Rings
  /\ b.write = Wrap(b.read + b.count)
  /\ Even(b.count)
  /\ \A i \in 0 .. (b.count - 1) : At(b, i) = p - b.count + i

RingInv ==
  /\ pushed \in Nat /\ Even(pushed)
  /\ outputBuffer \in {f * Channels : f \in Outputs}
  /\ Sound(ring, pushed)

(* What is on its way to the ring is chunks.                               *)
Carried ==
  /\ channel \in Seq(Chunks)
  /\ audioThread = "sending" => chunk \in Chunks

Inv == RingInv /\ Carried

-----------------------------------------------------------------------------
(* The room of the ring is a whole number of frames, and not none.         *)
LEMMA CapacityFacts ==
  /\ Capacity \in Nat /\ Capacity >= Channels /\ Even(Capacity)
  /\ Target \in Nat /\ Even(Target)
  BY FramesAssumption, SMT DEF Capacity, Target, Channels, Even

(* Even numbers and what is made of them.                                  *)
LEMMA EvenFacts ==
  ASSUME NEW a \in Int, NEW b \in Int
  PROVE  /\ Even(a) /\ Even(b) => Even(a + b) /\ Even(a - b) /\ Even(Least(a, b))
         /\ Even(a * Channels)
         /\ WholeFrames(a) \in Int /\ Even(WholeFrames(a)) /\ WholeFrames(a) <= a
         /\ Even(a) => WholeFrames(a) = a
         /\ a >= 0 => WholeFrames(a) >= 0
  BY SMT DEF Even, WholeFrames, Channels, Least

(* Where the slots of the samples lie as seen from the write position: the *)
(* samples held are the last ones before it, going round.                  *)
LEMMA Positions ==
  ASSUME NEW r \in Slots, NEW c \in 0 .. Capacity, NEW i \in 0 .. (Capacity - 1)
  PROVE  /\ Wrap(r + i) \in Slots /\ Wrap(r + c) \in Slots
         /\ i < c => After(Wrap(r + c), Wrap(r + i)) = Capacity - c + i
         /\ i >= c => After(Wrap(r + c), Wrap(r + i)) = i - c
  <1> DEFINE K == Capacity
  <1>1. K \in Nat /\ K >= 1 BY CapacityFacts, SMT DEF Channels
  <1>2. r \in 0 .. (K - 1) /\ c \in 0 .. K /\ i \in 0 .. (K - 1) BY DEF Slots
  <1>3. \A p : Wrap(p) = IF p >= K THEN p - K ELSE p BY DEF Wrap
  <1>4. /\ Wrap(r + i) \in 0 .. (K - 1) /\ Wrap(r + c) \in 0 .. (K - 1)
        <2> HIDE DEF K
        <2> QED BY <1>1, <1>2, <1>3, SMT
  <1>5. After(Wrap(r + c), Wrap(r + i)) =
          IF Wrap(r + i) >= Wrap(r + c) THEN Wrap(r + i) - Wrap(r + c)
          ELSE Wrap(r + i) + K - Wrap(r + c)
        BY DEF After
  <1> HIDE DEF K
  <1>6. /\ i < c => After(Wrap(r + c), Wrap(r + i)) = K - c + i
        /\ i >= c => After(Wrap(r + c), Wrap(r + i)) = i - c
        BY <1>1, <1>2, <1>3, <1>4, <1>5, SMT
  <1> QED BY <1>4, <1>6 DEF K, Slots

(* Moving the read position on does not move the write position, nor a     *)
(* sample that stays.                                                      *)
LEMMA Moves ==
  ASSUME NEW r \in Slots, NEW c \in 0 .. Capacity, NEW k \in 0 .. c
  PROVE  /\ Wrap(r + k) \in Slots
         /\ Wrap(Wrap(r + k) + (c - k)) = Wrap(r + c)
         /\ \A i \in 0 .. (c - k - 1) : Wrap(Wrap(r + k) + i) = Wrap(r + (k + i))
  <1> DEFINE K == Capacity
  <1>1. K \in Nat /\ K >= 1 BY CapacityFacts, SMT DEF Channels
  <1>2. r \in 0 .. (K - 1) /\ c \in 0 .. K BY DEF Slots
  <1>3. Slots = 0 .. (K - 1) BY DEF Slots
  <1>4. \A p : Wrap(p) = IF p >= K THEN p - K ELSE p BY DEF Wrap
  <1> HIDE DEF K
  <1> QED BY <1>1, <1>2, <1>3, <1>4, SMT

(* What there is room for of len samples.                                  *)
LEMMA RoomFacts ==
  ASSUME NEW b \in Rings, NEW len \in Nat
  PROVE  /\ Room(b, len) \in 0 .. len
         /\ b.count + Room(b, len) \in 0 .. Capacity
         /\ Room(b, len) < len => b.count + Room(b, len) = Capacity
         /\ Even(b.count) /\ Even(len) => Even(Room(b, len))
  <1>1. b.count \in 0 .. Capacity BY DEF Rings
  <1>2. Capacity \in Nat /\ Even(Capacity) BY CapacityFacts
  <1>3. Room(b, len) = Least(len, Capacity - b.count) BY DEF Room
  <1>4. Even(b.count) /\ Even(len) => Even(Room(b, len))
        <2>1. b.count \in Int /\ Capacity \in Int /\ len \in Int
              BY <1>1, <1>2, SMT
        <2>2. SUFFICES ASSUME Even(b.count), Even(len) PROVE Even(Room(b, len))
              OBVIOUS
        <2>3. Capacity - b.count \in Int BY <2>1, SMT
        <2>4. Even(Capacity - b.count) BY <1>2, <2>1, <2>2, EvenFacts
        <2>5. Even(Least(len, Capacity - b.count)) BY <2>1, <2>2, <2>3, <2>4, EvenFacts
        <2> QED BY <1>3, <2>5
  <1>5. /\ Room(b, len) \in 0 .. len
        /\ b.count + Room(b, len) \in 0 .. Capacity
        /\ Room(b, len) < len => b.count + Room(b, len) = Capacity
        BY <1>1, <1>2, <1>3, SMT DEF Least
  <1> QED BY <1>4, <1>5

(* AudioBuffer::write: the numbers from p on are added to those below p.   *)
LEMMA WriteIsSound ==
  ASSUME NEW b, NEW p \in Int, NEW len \in Nat, Sound(b, p), Even(len)
  PROVE  /\ Sound(Write(b, p, len), p + Room(b, len))
         /\ Write(b, p, len).count = b.count + Room(b, len)
  <1> DEFINE n == Room(b, len)
             w == Write(b, p, len)
             d == [i \in Slots |-> IF After(b.write, i) < n
                                   THEN p + After(b.write, i) ELSE b.data[i]]
  <1>1. /\ b \in Rings /\ b.read \in Slots /\ b.write \in Slots /\ b.count \in 0 .. Capacity
        /\ b.data \in [Slots -> Int]
        BY DEF Sound, Rings
  <1>2. /\ n \in 0 .. len /\ b.count + n \in 0 .. Capacity /\ Even(n)
        BY <1>1, RoomFacts DEF Sound
  <1>3. /\ w.data = d /\ w.write = Wrap(b.write + n) /\ w.read = b.read
        /\ w.count = b.count + n
        /\ w = [data |-> d, write |-> Wrap(b.write + n), read |-> b.read, count |-> b.count + n]
        BY DEF Write
  <1>4. \A i \in Slots : After(b.write, i) \in Int
        BY <1>1, CapacityFacts, SMT DEF After, Slots
  <1>5. d \in [Slots -> Int]
        BY <1>1, <1>2, <1>4, SMT
  <1>6. /\ Wrap(b.write + n) \in Slots
        /\ Wrap(b.write + n) = Wrap(b.read + (b.count + n))
        <2>1. b.write = Wrap(b.read + b.count) BY DEF Sound
        <2>2. b.count \in 0 .. (b.count + n) /\ (b.count + n) - b.count = n
              BY <1>1, <1>2, CapacityFacts, SMT
        <2>3. Wrap(Wrap(b.read + b.count) + n) = Wrap(b.read + (b.count + n))
              BY <1>1, <1>2, <2>2, Moves
        <2>4. Wrap(b.read + (b.count + n)) \in Slots
              <3>1. b.count + n \in 0 .. (b.count + n) BY <1>2, CapacityFacts, SMT
              <3> QED BY <1>1, <1>2, <3>1, Moves
        <2> QED BY <2>1, <2>3, <2>4
  <1>7. w \in Rings
        BY <1>1, <1>2, <1>3, <1>5, <1>6 DEF Rings
  <1>8. Even(w.count)
        <2>1. b.count \in Int /\ n \in Int /\ Even(b.count)
              BY <1>1, <1>2 DEF Sound
        <2>2. Even(b.count + n) BY <1>2, <2>1, EvenFacts
        <2> QED BY <1>3, <2>2
  <1>9. ASSUME NEW i \in 0 .. (w.count - 1)
        PROVE  At(w, i) = (p + n) - w.count + i
        <2> DEFINE j == Wrap(b.read + i)
        <2>1. i \in 0 .. (Capacity - 1) /\ i \in Int
              BY <1>2, <1>3, CapacityFacts, SMT
        <2>2. /\ j \in Slots
              /\ i < b.count => After(b.write, j) = Capacity - b.count + i
              /\ i >= b.count => After(b.write, j) = i - b.count
              BY <1>1, <2>1, Positions DEF Sound
        <2>3. At(w, i) = d[j] BY <1>3 DEF At
        <2>4. d[j] = IF After(b.write, j) < n THEN p + After(b.write, j) ELSE b.data[j]
              BY <2>2
        <2>5. CASE i < b.count
              <3>1. ~(After(b.write, j) < n)
                    BY <1>1, <1>2, <2>1, <2>2, <2>5, CapacityFacts, SMT
              <3>2. b.data[j] = At(b, i) BY DEF At
              <3>3. i \in 0 .. (b.count - 1) BY <1>1, <2>1, <2>5, CapacityFacts, SMT
              <3>4. At(b, i) = p - b.count + i BY <3>3 DEF Sound
              <3> HIDE DEF n, w, d, j
              <3> QED BY <1>1, <1>2, <1>3, <2>1, <2>3, <2>4, <3>1, <3>2, <3>4, CapacityFacts, SMT
        <2>6. CASE ~(i < b.count)
              <3>1. After(b.write, j) = i - b.count
                    BY <1>1, <2>1, <2>2, <2>6, CapacityFacts, SMT
              <3>2. i - b.count < n BY <1>1, <1>2, <1>3, <2>1, CapacityFacts, SMT
              <3> HIDE DEF n, w, d, j
              <3> QED BY <1>1, <1>2, <1>3, <2>1, <2>3, <2>4, <3>1, <3>2, CapacityFacts, SMT
        <2> QED BY <2>5, <2>6
  <1> QED BY <1>3, <1>6, <1>7, <1>8, <1>9 DEF Sound

(* AudioBuffer::read and skip: the oldest go, whole frames of them.        *)
LEMMA SkipIsSound ==
  ASSUME NEW b, NEW p \in Int, NEW n \in Nat, Sound(b, p), Even(n)
  PROVE  /\ Sound(Skip(b, n), p)
         /\ Skip(b, n).count = b.count - Least(n, b.count)
  <1> DEFINE k == Least(n, b.count)
             s == Skip(b, n)
  <1>1. /\ b \in Rings /\ b.read \in Slots /\ b.write \in Slots /\ b.count \in 0 .. Capacity
        /\ b.data \in [Slots -> Int]
        BY DEF Sound, Rings
  <1>2. /\ k \in 0 .. b.count /\ b.count - k \in 0 .. Capacity /\ b.count \in Int
        BY <1>1, CapacityFacts, SMT DEF Least
  <1>3. Even(k) /\ Even(b.count - k)
        <2>1. b.count \in Int /\ k \in Int /\ n \in Int /\ Even(b.count)
              BY <1>1, <1>2 DEF Sound
        <2> QED BY <2>1, EvenFacts
  <1>4. /\ s.data = b.data /\ s.write = b.write /\ s.read = Wrap(b.read + k)
        /\ s.count = b.count - k
        BY <1>1 DEF Skip, Rings
  <1>5. /\ Wrap(b.read + k) \in Slots
        /\ Wrap(Wrap(b.read + k) + (b.count - k)) = Wrap(b.read + b.count)
        /\ \A i \in 0 .. (b.count - k - 1) : Wrap(Wrap(b.read + k) + i) = Wrap(b.read + (k + i))
        BY <1>1, <1>2, Moves
  <1>6. s \in Rings BY <1>1, <1>2, <1>5 DEF Rings, Skip
  <1>7. ASSUME NEW i \in 0 .. (s.count - 1)
        PROVE  At(s, i) = p - s.count + i
        <2>1. i \in 0 .. (b.count - k - 1) BY <1>4
        <2>2. At(s, i) = At(b, k + i) BY <1>4, <1>5, <2>1 DEF At
        <2>3. k + i \in 0 .. (b.count - 1) BY <1>1, <1>2, <2>1, CapacityFacts, SMT
        <2>4. At(b, k + i) = p - b.count + (k + i) BY <2>3 DEF Sound
        <2> HIDE DEF k, s
        <2> QED BY <1>1, <1>2, <1>4, <2>1, <2>2, <2>4, CapacityFacts, SMT
  <1> QED BY <1>3, <1>4, <1>5, <1>6, <1>7 DEF Sound


-----------------------------------------------------------------------------
(* A chunk that did not fit pushes out as many of the oldest: what was     *)
(* refused the first time has its room the second.                         *)
LEMMA RestIsSound ==
  ASSUME NEW b, NEW p \in Int, NEW len \in Nat, Sound(b, p), Even(len),
         len <= Capacity, len > 0 => b.count = Capacity
  PROVE  /\ Sound(WriteRest(b, p, len), p + len)
         /\ WriteRest(b, p, len).count = b.count
  <1>1. b \in Rings /\ b.count \in 0 .. Capacity BY DEF Sound, Rings
  <1>2. CASE len = 0
        <2>1. WriteRest(b, p, len) = b BY <1>2 DEF WriteRest
        <2>2. p + len = p BY <1>2, SMT
        <2> QED BY <2>1, <2>2
  <1>3. CASE len # 0
        <2> DEFINE s == Skip(b, WholeFrames(len))
        <2>1. WholeFrames(len) = len /\ WriteRest(b, p, len) = Write(s, p, len)
              BY <1>3, EvenFacts DEF WriteRest
        <2>2. Sound(s, p) /\ s.count = b.count - Least(len, b.count)
              BY <2>1, SkipIsSound
        <2>3. Least(len, b.count) = len /\ s.count = Capacity - len
              BY <1>1, <1>3, <2>2, CapacityFacts, SMT DEF Least
        <2>4. s \in Rings BY <2>2 DEF Sound
        <2>5. Room(s, len) = len
              BY <2>3, CapacityFacts, SMT DEF Room, Least
        <2>6. Sound(Write(s, p, len), p + len) /\ Write(s, p, len).count = s.count + len
              BY <2>2, <2>5, WriteIsSound
        <2>7. s.count + len = b.count BY <1>1, <1>3, <2>3, CapacityFacts, SMT
        <2> HIDE DEF s
        <2> QED BY <2>1, <2>6, <2>7
  <1> QED BY <1>2, <1>3

(* The cap takes whole frames, and leaves at least what it is.             *)
LEMMA CapIsSound ==
  ASSUME NEW b, NEW p \in Int, NEW most \in Nat, Sound(b, p)
  PROVE  /\ Sound(Capped(b, most), p)
         /\ Capped(b, most).count = b.count \/ Capped(b, most).count >= most
  <1>1. b.count \in 0 .. Capacity /\ b.count \in Int BY CapacityFacts, SMT DEF Sound, Rings
  <1>2. CASE ~(b.count > most)
        BY <1>2 DEF Capped
  <1>3. CASE b.count > most
        <2> DEFINE n == WholeFrames(b.count - most)
        <2>1. b.count - most \in Nat BY <1>1, <1>3, CapacityFacts, SMT
        <2>2. n \in Int /\ Even(n) /\ n <= b.count - most /\ n >= 0
              <3>1. b.count - most \in Int /\ b.count - most >= 0 BY <2>1, SMT
              <3> QED BY <3>1, EvenFacts
        <2>3. n \in Nat BY <2>2, SMT
        <2>4. Capped(b, most) = Skip(b, n) BY <1>3 DEF Capped
        <2>5. Sound(Skip(b, n), p) /\ Skip(b, n).count = b.count - Least(n, b.count)
              BY <2>2, <2>3, SkipIsSound
        <2>6. Least(n, b.count) <= b.count - most /\ Least(n, b.count) \in Int
              <3> HIDE DEF n
              <3> QED BY <1>1, <1>3, <2>2, <2>3, CapacityFacts, SMT DEF Least
        <2> HIDE DEF n
        <2> QED BY <1>1, <2>4, <2>5, <2>6, CapacityFacts, SMT
  <1> QED BY <1>2, <1>3

(* The cap in force is a number of samples.                                *)
LEMMA CapIsANumber ==
  ASSUME outputBuffer \in {f * Channels : f \in Outputs}
  PROVE  /\ MaxBuffered \in Nat /\ outputBuffer \in Nat
         /\ played => MaxBuffered >= Target + outputBuffer
  <1>1. outputBuffer \in Nat BY FramesAssumption, SMT DEF Channels
  <1>2. Target \in Nat BY CapacityFacts
  <1>3. SixtyFrames * Channels \in Nat /\ TenFrames * Channels \in Nat
        BY FramesAssumption, SMT DEF Channels
  <1>4. (Target \div 10) * 11 \in Nat BY <1>2, SMT
  <1> QED BY <1>1, <1>2, <1>3, <1>4, SMT DEF MaxBuffered, Greater

(* A chunk and what a callback asks for are whole frames.                  *)
LEMMA FramesFacts ==
  ASSUME NEW amount \in Nat
  PROVE  amount * Channels \in Nat /\ Even(amount * Channels)
  <1>1. \A n \in Nat : n * 2 \in Nat /\ (n * 2) % 2 = 0 OBVIOUS
  <1> QED BY <1>1 DEF Channels, Even

(* AudioRegulator::push: the two writes and the cap, one after another.    *)
LEMMA PushIsSound ==
  ASSUME RingInv, NEW amount \in Chunks, Push(amount)
  PROVE  /\ RingInv'
         /\ ring'.count = ring.count + amount * Channels
              \/ ring'.count = Capacity \/ ring'.count >= MaxBuffered
  <1> DEFINE len == amount * Channels
             n == Room(ring, len)
             b == Write(ring, pushed, len)
             c == WriteRest(b, pushed + n, len - n)
  <1>1. /\ len \in Nat /\ Even(len) /\ len <= Capacity
        <2> DEFINE m == TargetFrames + SecondFrames
        <2>3. m \in Nat BY FramesAssumption, SMT
        <2>4. amount \in 0 .. m BY ChunksAssumption
        <2>1. amount \in Nat /\ amount <= m
              <3> HIDE DEF m
              <3> QED BY <2>3, <2>4, SMT
        <2>2. len <= Capacity BY <2>1, FramesAssumption DEF Capacity, Channels
        <2> QED BY <2>1, <2>2, FramesFacts
  <1>2. pushed \in Nat /\ Even(pushed) /\ Sound(ring, pushed) /\ ring \in Rings
        BY DEF RingInv, Sound
  <1>3. /\ n \in 0 .. len /\ Even(n)
        /\ n < len => ring.count + n = Capacity
        BY <1>1, <1>2, RoomFacts DEF Sound
  <1>4. Sound(b, pushed + n) /\ b.count = ring.count + n
        BY <1>1, <1>2, WriteIsSound
  <1>5. /\ len - n \in Nat /\ len - n <= Capacity /\ pushed + n \in Int
        /\ (pushed + n) + (len - n) = pushed + len
        /\ len - n > 0 => n < len
        BY <1>1, <1>2, <1>3, CapacityFacts, SMT
  <1>6. Even(len - n) BY <1>1, <1>3, EvenFacts
  <1>7. Sound(c, pushed + len) /\ c.count = b.count
        BY <1>3, <1>4, <1>5, <1>6, RestIsSound
  <1>8. /\ ring' = Capped(c, MaxBuffered)
        /\ pushed' = pushed + len /\ outputBuffer' = outputBuffer
        BY DEF Push
  <1>9. MaxBuffered \in Nat BY CapIsANumber DEF RingInv
  <1>10. pushed + len \in Nat /\ pushed + len \in Int BY <1>1, <1>2, SMT
  <1>11. Even(pushed + len) BY <1>1, <1>2, EvenFacts
  <1>12. /\ Sound(ring', pushed')
         /\ ring'.count = c.count \/ ring'.count >= MaxBuffered
         BY <1>7, <1>8, <1>9, <1>10, CapIsSound
  <1>13. RingInv' BY <1>8, <1>10, <1>11, <1>12 DEF RingInv
  <1>14. c.count = ring.count + len \/ c.count = Capacity
         <2>1. CASE n < len BY <1>3, <1>4, <1>7, <2>1
         <2>2. CASE ~(n < len)
               <3>1. n = len BY <1>1, <1>3, <2>2, SMT
               <3> HIDE DEF n, c, b
               <3> QED BY <1>4, <1>7, <3>1
         <2> QED BY <2>1, <2>2
  <1> HIDE DEF c
  <1> QED BY <1>12, <1>13, <1>14

(* AudioRegulatorConsumer::pull only skips.                                *)
LEMMA PullIsSound ==
  ASSUME RingInv, NEW amount \in Pulls, Pull(amount)
  PROVE  RingInv'
  <1>1. amount * Channels \in Nat /\ Even(amount * Channels)
        BY FramesAssumption, FramesFacts
  <1>2. pushed \in Int /\ Sound(ring, pushed) BY SMT DEF RingInv
  <1>3. Sound(Skip(ring, amount * Channels), pushed) BY <1>1, <1>2, SkipIsSound
  <1> QED BY <1>3 DEF RingInv, Pull

LEMMA InitIsSound ==
  ASSUME RInit
  PROVE  RingInv
  <1>1. ring = EmptyRing /\ pushed = 0 BY DEF RInit
  <1>2. 0 \in Slots /\ 0 \in 0 .. Capacity /\ 0 < Capacity
        BY CapacityFacts, SMT DEF Slots, Channels
  <1>3. EmptyRing \in Rings BY <1>2, SMT DEF EmptyRing, Rings
  <1>4. EmptyRing.write = Wrap(EmptyRing.read + EmptyRing.count)
        <2>1. EmptyRing.write = 0 /\ EmptyRing.read = 0 /\ EmptyRing.count = 0
              BY DEF EmptyRing
        <2>2. Wrap(0) = 0 BY <1>2, CapacityFacts, SMT DEF Wrap
        <2> QED BY <2>1, <2>2
  <1>5. Even(0) BY SMT DEF Even, Channels
  <1>6. \A i \in 0 .. (EmptyRing.count - 1) : FALSE BY SMT DEF EmptyRing
  <1>7. Sound(EmptyRing, 0)
        BY <1>3, <1>4, <1>5, <1>6 DEF Sound, EmptyRing
  <1> QED BY <1>1, <1>5, <1>7 DEF RingInv, RInit

LEMMA StepKeepsInv ==
  ASSUME Inv, [AudioNext]_audioVars
  PROVE  Inv'
  <1> USE DEF Inv
  <1>1. CASE Arrive
        BY <1>1 DEF Arrive, RingInv, Carried, rvars
  <1>2. CASE DecoderOpens
        BY <1>2 DEF DecoderOpens, RingInv, Carried, rvars
  <1>3. CASE Take
        <2>1. RingInv' BY <1>3 DEF Take, RingInv, rvars
        <2>2. ASSUME audioThread' = "sending" PROVE chunk' \in Chunks
              <3>1. PICK packet \in Packets :
                      \E sound \in Decoded(packet) : sound > 0 /\ chunk' = sound
                    BY <1>3, <2>2 DEF Take
              <3>2. PICK sound \in Decoded(packet) : sound > 0 /\ chunk' = sound
                    BY <3>1
              <3>3. sound \in {0} \cup Chunks \cup {Unconvertible}
                    BY <3>2 DEF Decoded, Converted
              <3> QED BY <3>2, <3>3, SMT DEF Unconvertible
        <2> QED BY <1>3, <2>1, <2>2 DEF Take, Carried
  <1>4. CASE Send
        <2>1. RingInv' BY <1>4 DEF Send, RingInv, rvars
        <2>2. Append(channel, chunk) \in Seq(Chunks)
              BY <1>4, SMT DEF Send, Carried
        <2> QED BY <1>4, <2>1, <2>2 DEF Send, Carried
  <1>5. CASE SendFails
        BY <1>5 DEF SendFails, RingInv, Carried, rvars
  <1>6. CASE SocketEnds
        BY <1>6 DEF SocketEnds, RingInv, Carried, rvars
  <1>7. CASE StartAudio
        BY <1>7 DEF StartAudio, RingInv, Carried, rvars
  <1>8. CASE DropStream
        <2>1. RingInv' BY <1>8 DEF DropStream, RingInv, rvars
        <2>2. <<>> \in Seq(Chunks) BY SMT
        <2> QED BY <1>8, <2>1, <2>2 DEF DropStream, Carried
  <1>9. CASE Feed
        <2>1. Head(channel) \in Chunks /\ Tail(channel) \in Seq(Chunks)
              BY <1>9, SMT DEF Feed, Carried
        <2>2. RingInv' BY <1>9, <2>1, PushIsSound DEF Feed
        <2> QED BY <1>9, <2>1, <2>2 DEF Feed, Carried
  <1>10. CASE Callback
        <2>1. RingInv' BY <1>10, PullIsSound DEF Callback
        <2> QED BY <1>10, <2>1 DEF Callback, Carried, pvars
  <1>11. CASE CardGoes
        BY <1>11 DEF CardGoes, RingInv, Carried, rvars
  <1>12. CASE UNCHANGED audioVars
        BY <1>12 DEF audioVars, rvars, pvars, RingInv, Carried
  <1> QED BY <1>1, <1>2, <1>3, <1>4, <1>5, <1>6, <1>7, <1>8, <1>9, <1>10, <1>11, <1>12 DEF AudioNext

(* The invariant the others follow from: the two ends of the ring are      *)
(* where its count says, it holds the last samples pushed, and only whole  *)
(* chunks are on their way to it.                                          *)
THEOREM AudioInvariance == AudioSpec => []Inv
  <1>1. AudioInit => Inv
        <2> SUFFICES ASSUME AudioInit PROVE Inv OBVIOUS
        <2>1. RingInv BY InitIsSound DEF AudioInit
        <2>2. <<>> \in Seq(Chunks) BY SMT
        <2> QED BY <2>1, <2>2 DEF AudioInit, Inv, Carried
  <1>2. Inv /\ [AudioNext]_audioVars => Inv' BY StepKeepsInv
  <1> QED BY <1>1, <1>2, PTL DEF AudioSpec

(* Only the oldest sound is ever given up: whatever the sizes, the ring    *)
(* holds the last samples pushed, each once and in their order.            *)
THEOREM NewestAreKept == AudioSpec => []TheNewestAreKept
  <1>1. Inv => TheNewestAreKept BY DEF Inv, RingInv, Sound, TheNewestAreKept
  <1> QED BY <1>1, AudioInvariance, PTL

(* The left channel stays left, for every size of ring, chunk, callback    *)
(* and cap: an odd excess never moves the sound by one sample.             *)
THEOREM ChannelsStay == AudioSpec => []ChannelsKeepTheirPlace
  <1>1. Inv => ChannelsKeepTheirPlace
        <2> SUFFICES ASSUME Inv, ring.count > 0 PROVE Even(At(ring, 0))
            BY DEF ChannelsKeepTheirPlace, Even
        <2>1. /\ pushed \in Int /\ ring.count \in Int /\ Even(pushed) /\ Even(ring.count)
              /\ 0 \in 0 .. (ring.count - 1)
              BY CapacityFacts, SMT DEF Inv, RingInv, Sound, Rings
        <2>2. At(ring, 0) = pushed - ring.count + 0 BY <2>1 DEF Inv, RingInv, Sound
        <2>3. Even(pushed - ring.count) BY <2>1, EvenFacts
        <2>4. pushed - ring.count + 0 = pushed - ring.count BY <2>1, SMT
        <2> QED BY <2>2, <2>3, <2>4
  <1> QED BY <1>1, AudioInvariance, PTL

(* The cap leaves a callback, whatever the sizes, if what the sound card   *)
(* holds is no more than the ring has beyond the target.                   *)
THEOREM CapLeavesACallback ==
  (\A f \in Outputs : f <= SecondFrames) => (AudioSpec => TheCapLeavesACallback)
  <1> SUFFICES ASSUME \A f \in Outputs : f <= SecondFrames
               PROVE  AudioSpec => TheCapLeavesACallback
      OBVIOUS
  <1> DEFINE Step == played /\ pushed' > pushed
                       /\ ring'.count < ring.count + (pushed' - pushed)
                     => ring'.count >= Target + outputBuffer
  <1>1. ASSUME Inv, [AudioNext]_audioVars, rvars' # rvars PROVE Step
        <2>1. CASE \E amount \in Pulls : Pull(amount)
              <3>1. pushed' = pushed /\ pushed \in Nat BY <1>1, <2>1 DEF Pull, Inv, RingInv
              <3> QED BY <3>1, SMT
        <2>2. CASE Feed
              <3>1. Head(channel) \in Chunks
                    BY <1>1, <2>2, SMT DEF Feed, Inv, Carried
              <3> DEFINE len == Head(channel) * Channels
              <3>2. /\ ring'.count = ring.count + len
                         \/ ring'.count = Capacity \/ ring'.count >= MaxBuffered
                    /\ RingInv'
                    BY <1>1, <2>2, <3>1, PushIsSound DEF Feed, Inv
              <3>3. pushed' = pushed + len BY <2>2 DEF Feed, Push
              <3>4. len \in Int
                    <4>1. \A f \in Chunks : f \in Int
                          BY ChunksAssumption, FramesAssumption, SMT
                    <4>2. Head(channel) \in Int BY <3>1, <4>1
                    <4> QED BY <4>2, SMT DEF Channels
              <3>5. pushed \in Int /\ ring.count \in Int /\ ring'.count \in Int
                    BY <1>1, <3>2, CapacityFacts, SMT DEF Inv, RingInv, Sound, Rings
              <3>6. Capacity >= Target + outputBuffer
                    BY <1>1, FramesAssumption, SMT
                    DEF Inv, RingInv, Capacity, Target, Channels
              <3>7. played => MaxBuffered >= Target + outputBuffer
                    BY <1>1, CapIsANumber DEF Inv, RingInv
              <3>8. MaxBuffered \in Int /\ Target \in Int /\ outputBuffer \in Int /\ Capacity \in Int
                    BY <1>1, CapIsANumber, CapacityFacts, SMT DEF Inv, RingInv
              <3> HIDE DEF len
              <3> QED BY <3>2, <3>3, <3>4, <3>5, <3>6, <3>7, <3>8, SMT
        <2> HIDE DEF Step
        <2> QED BY <1>1, <2>1, <2>2
            DEF AudioNext, audioVars, rvars, Arrive, DecoderOpens, Take, Send, SendFails, SocketEnds,
                StartAudio, DropStream, Callback, CardGoes
  <1>2. Inv /\ [AudioNext]_audioVars => [Step]_rvars BY <1>1
  <1> HIDE DEF Step
  <1>3. AudioSpec => [][Step]_rvars BY <1>2, AudioInvariance, PTL DEF AudioSpec
  <1> QED BY <1>3 DEF TheCapLeavesACallback, Step
================================================================================
