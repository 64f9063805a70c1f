---------------------------- MODULE RecordingProofs ----------------------------
(***************************************************************************)
(* Proofs about recordings, of what their two modules say of the code: how *)
(* a recorder writes its file (Recorder), and how a session that runs feeds*)
(* recorders, starts them and stops them (RecordingSession).               *)
(***************************************************************************)
EXTENDS Recorder, RecordingSession, FilteringProofs

--------------------------------------------------------------------------------
(***************************************************************************)
(* The recorder, for any streams, any time base and any moment of a stop   *)
(* or a refusal: the muxer gets strictly increasing timestamps, none       *)
(* before the origin while the recorder is not stopped (Inv), and it gets  *)
(* all that was accepted, in order (LossInv).                              *)
(*                                                                         *)
(* What makes the timestamps rise is the first packet of each stream: the  *)
(* others rise from it.  FirstPackets says where it is once the origin is  *)
(* known: in the file, or, for the video, waiting for its duration and not *)
(* before the origin.  What makes the file whole is an account of every    *)
(* stream (VideoLine, AudioLine): the file, the hand, what is held aside   *)
(* and the media still queued, one behind the other, are what was accepted.*)
(***************************************************************************)

Option == {<<>>} \union {<<p>> : p \in Packet}
Written == [pkt : Packet, at : Int]
Opening == {"unspawned", "open", "videoConfig", "audioConfig", "header"}

Types ==
  /\ vfeed \in Seq(Packet) /\ afeed \in Seq(Packet)
  /\ vq \in Seq(Packet) /\ aq \in Seq(Packet)
  /\ stopped \in BOOLEAN
  /\ origin \in {Unknown} \union {<<n>> : n \in Nat}
  /\ pendV \in Option /\ pendA \in Option /\ prevV \in Option
  /\ fileV \in Seq(Written) /\ fileA \in Seq(Written)

(* A stream the device does not give has no packets, and nothing is        *)
(* written before the origin is known.                                     *)
Absences ==
  /\ hasVideo \/ hasAudio
  /\ ~hasVideo => vfeed = <<>> /\ vq = <<>> /\ pendV = <<>>
  /\ ~hasAudio => pendA = <<>>
  /\ origin = Unknown => prevV = <<>> /\ fileV = <<>> /\ fileA = <<>>
  /\ pc \in Opening => origin = Unknown

FirstPackets ==
  ~stopped /\ pc = "loop" /\ origin # Unknown =>
    /\ hasVideo => Holds(prevV) \/ fileV # <<>>
    /\ Holds(prevV) /\ fileV = <<>> => prevV[1].pts >= origin[1]
    /\ hasAudio => fileA # <<>>

Rising(f) == \A i \in 1 .. (Len(f) - 1) : f[i].at < f[i + 1].at
FromOrigin(f) == \A i \in 1 .. Len(f) : f[i].at >= 0
Ordered == /\ Rising(fileV) /\ Rising(fileA)
           /\ ~stopped => FromOrigin(fileV) /\ FromOrigin(fileA)

Inv == Types /\ Absences /\ FirstPackets /\ Ordered

-------------------------------------------------------------------------------
(* A rescaled timestamp is a whole number, and keeps its sign.             *)
LEMMA RescaleFacts ==
  ASSUME NEW t \in Int
  PROVE  Rescale(t) \in Int /\ (t >= 0 => Rescale(t) >= 0)
  <1>1. Tick \in Nat /\ Tick > 0 BY RecorderAssumption, SMT
  <1>2. \A a \in Int, b \in Nat : b > 0 => a \div b \in Int BY SMT
  <1>3. \A a \in Nat, b \in Nat : b > 0 => a \div b >= 0 BY SMT
  <1>4. 2 * t + Tick \in Int /\ 2 * (-t) + Tick \in Int /\ 2 * Tick \in Nat /\ 2 * Tick > 0
        BY <1>1, SMT
  <1>5. (2 * t + Tick) \div (2 * Tick) \in Int /\ (2 * (-t) + Tick) \div (2 * Tick) \in Int
        BY <1>2, <1>4
  <1>6. t >= 0 => 2 * t + Tick \in Nat BY <1>1, SMT
  <1>7. t >= 0 => (2 * t + Tick) \div (2 * Tick) >= 0 BY <1>3, <1>4, <1>6
  <1> QED BY <1>5, <1>7, SMT DEF Rescale

(* The position AfterConfig starts behind, whichever way it is found.       *)
FirstConfig(q, i) ==
  i \in 1 .. Len(q) /\ IsConfig(q[i]) /\ \A j \in 1 .. (i - 1) : ~IsConfig(q[j])

LEMMA FirstConfigFacts ==
  ASSUME NEW q \in Seq(Packet)
  PROVE  /\ HasConfig(q) => \E i : FirstConfig(q, i)
         /\ \A i : FirstConfig(q, i) =>
              HasConfig(q) /\ AfterConfig(q) = SubSeq(q, i + 1, Len(q))
  <1>1. Len(q) \in Nat BY LenProperties
  <1>2. ASSUME HasConfig(q) PROVE \E i : FirstConfig(q, i)
        <2> DEFINE T == {i \in 1 .. Len(q) : IsConfig(q[i])}
        <2>1. T \in SUBSET Nat /\ T # {} BY <1>1, <1>2 DEF HasConfig
        <2>2. PICK x \in T : \A y \in T : ~(y < x)
              <3> HIDE DEF T
              <3> QED BY <2>1, LeastOne
        <2>3. x \in 1 .. Len(q) /\ IsConfig(q[x]) OBVIOUS
        <2>4. \A j \in 1 .. (x - 1) : j \in 1 .. Len(q) /\ j < x BY <1>1, <2>3, SMT
        <2>5. \A j \in 1 .. (x - 1) : ~IsConfig(q[j]) BY <2>2, <2>4
        <2> QED BY <2>3, <2>5 DEF FirstConfig
  <1>3. ASSUME NEW i, FirstConfig(q, i)
        PROVE  HasConfig(q) /\ AfterConfig(q) = SubSeq(q, i + 1, Len(q))
        <2> DEFINE first == CHOOSE k \in 1 .. Len(q) :
                              IsConfig(q[k]) /\ \A j \in 1 .. (k - 1) : ~IsConfig(q[j])
        <2>1. i \in 1 .. Len(q) /\ IsConfig(q[i]) /\ \A j \in 1 .. (i - 1) : ~IsConfig(q[j])
              BY <1>3 DEF FirstConfig
        <2>2. HasConfig(q) BY <2>1 DEF HasConfig
        <2>3. first \in 1 .. Len(q) /\ IsConfig(q[first])
              /\ \A j \in 1 .. (first - 1) : ~IsConfig(q[j])
              BY <2>1
        <2>4. AfterConfig(q) = SubSeq(q, first + 1, Len(q)) BY <2>2 DEF AfterConfig
        <2> HIDE DEF first
        <2>5. first = i
              <3>1. \A n \in Nat : \A k, l \in 1 .. n : k < l => k \in 1 .. (l - 1) BY SMT
              <3>2. first < i \/ i < first \/ first = i BY <1>1, <2>1, <2>3, SMT
              <3> QED BY <1>1, <2>1, <2>3, <3>1, <3>2
        <2> QED BY <2>2, <2>4, <2>5
  <1> QED BY <1>2, <1>3

(* Dropping what comes before and with the first config packet leaves      *)
(* packets.                                                                *)
LEMMA AfterConfigFacts ==
  ASSUME NEW q \in Seq(Packet)
  PROVE  AfterConfig(q) \in Seq(Packet) /\ (q = <<>> => AfterConfig(q) = <<>>)
  <1>1. <<>> \in Seq(Packet) /\ Len(<<>>) = 0 /\ Len(q) \in Nat BY EmptySeq, LenProperties
  <1>2. q = <<>> => ~HasConfig(q) BY <1>1, SMT DEF HasConfig
  <1>3. CASE ~HasConfig(q) BY <1>1, <1>3 DEF AfterConfig
  <1>4. CASE HasConfig(q)
        <2>1. PICK i : FirstConfig(q, i) BY <1>4, FirstConfigFacts
        <2>2. i \in 1 .. Len(q) BY <2>1 DEF FirstConfig
        <2>3. q \in [1 .. Len(q) -> Packet] BY LenProperties
        <2>4. i + 1 \in Int /\ \A j \in (i + 1) .. Len(q) : j \in 1 .. Len(q)
              BY <1>1, <2>2, SMT
        <2>5. \A j \in (i + 1) .. Len(q) : q[j] \in Packet BY <2>3, <2>4
        <2>6. SubSeq(q, i + 1, Len(q)) \in Seq(Packet) BY <1>1, <2>4, <2>5, SubSeqProperties
        <2> QED BY <1>2, <1>4, <2>1, <2>6, FirstConfigFacts
  <1> QED BY <1>3, <1>4

(* What a round takes off a queue, and what it leaves of it.               *)
LEMMA PoppedFacts ==
  ASSUME NEW q \in Seq(Packet), NEW o \in Option
  PROVE  /\ Popped(q, o) \in Option /\ UnlessConfig(Popped(q, o)) \in Option
         /\ Rest(q, o) \in Seq(Packet)
         /\ q = <<>> => Popped(q, o) = <<>> /\ UnlessConfig(Popped(q, o)) = <<>>
                        /\ Rest(q, o) = <<>>
  <1>1. Popped(q, o) \in Option BY HeadTailProperties DEF Popped, Option
  <1>2. q = <<>> => Popped(q, o) = <<>> BY DEF Popped
  <1>3. UnlessConfig(Popped(q, o)) \in Option BY <1>1 DEF UnlessConfig, Option
  <1>4. q = <<>> => UnlessConfig(Popped(q, o)) = <<>> BY <1>2 DEF UnlessConfig, Holds
  <1>5. Len(q) \in Nat /\ q \in [1 .. Len(q) -> Packet] BY LenProperties
  <1>6. Len(Popped(q, o)) \in Nat
        <2>1. \A p \in Packet : <<p>> \in Seq(Packet) BY SMT
        <2>2. Popped(q, o) \in Seq(Packet) BY <1>1, <2>1, EmptySeq DEF Option
        <2> QED BY <2>2, LenProperties
  <1>7. /\ Len(Popped(q, o)) + 1 \in Int
        /\ \A i \in (Len(Popped(q, o)) + 1) .. Len(q) : i \in 1 .. Len(q)
        BY <1>5, <1>6, SMT
  <1>8. Rest(q, o) \in Seq(Packet)
        BY <1>5, <1>7, SubSeqProperties DEF Rest
  <1>9. q = <<>> => Rest(q, o) = <<>>
        <2> SUFFICES ASSUME q = <<>> PROVE Rest(q, o) = <<>> OBVIOUS
        <2>1. Len(q) < Len(Popped(q, o)) + 1 BY <1>2, EmptySeq, SMT
        <2> QED BY <1>5, <1>7, <2>1, SubSeqEmpty DEF Rest
  <1> QED BY <1>1, <1>2, <1>3, <1>4, <1>8, <1>9

(* What is written comes after what has been, in the file's own time base, *)
(* and not before the origin if the first packet did not.                  *)
LEMMA WriteAllFacts ==
  ASSUME NEW f \in Seq(Written), NEW o \in Option, NEW from \in Nat, Rising(f)
  PROVE  LET w == WriteAll(f, o, from)
         IN  /\ w \in Seq(Written) /\ Rising(w)
             /\ o = <<>> => w = f
             /\ Holds(o) \/ f # <<>> => w # <<>>
             /\ FromOrigin(f) /\ (f # <<>> \/ o = <<>> \/ o[1].pts >= from) => FromOrigin(w)
  <1> DEFINE w == WriteAll(f, o, from)
  <1>1. CASE o = <<>> BY <1>1 DEF WriteAll, Holds
  <1>2. CASE o # <<>>
        <2> DEFINE p == o[1]
                   t == p.pts - from
                   last == f[Len(f)].at
                   at == Stamp(f, t)
                   x == [pkt |-> p, at |-> at]
        <2>1. p \in Packet BY <1>2 DEF Option
        <2>2. t \in Int /\ (p.pts >= from => t >= 0)
              <3>1. p.pts \in Nat BY <2>1 DEF Packet
              <3> QED BY <3>1, SMT
        <2>3. Rescale(t) \in Int /\ (t >= 0 => Rescale(t) >= 0)
              <3> HIDE DEF t
              <3> QED BY <2>2, RescaleFacts
        <2>4. Len(f) \in Nat /\ (f # <<>> => Len(f) >= 1) /\ f \in [1 .. Len(f) -> Written]
              BY EmptySeq, LenProperties, SMT
        <2>5. f # <<>> => last \in Int
              <3>1. f # <<>> => Len(f) \in 1 .. Len(f) BY <2>4, SMT
              <3> QED BY <2>4, <3>1 DEF Written
        <2>6. at = IF f # <<>> /\ Rescale(t) <= last THEN last + 1 ELSE Rescale(t)
              BY DEF Stamp
        <2>7. at \in Int /\ (f # <<>> => last < at)
              <3> HIDE DEF t, last, at
              <3> QED BY <2>3, <2>5, <2>6, SMT
        <2>8. x \in Written BY <2>1, <2>7 DEF Written
        <2>9. w = Append(f, x) BY <1>2 DEF WriteAll
        <2>10. /\ w \in Seq(Written) /\ w # <<>> /\ Len(w) = Len(f) + 1
               /\ \A i \in 1 .. Len(f) : w[i] = f[i]
               /\ w[Len(f) + 1] = x
               <3> HIDE DEF x, w
               <3> QED BY <2>8, <2>9, AppendProperties
        <2>11. Rising(w)
               <3> SUFFICES ASSUME NEW i \in 1 .. (Len(w) - 1) PROVE w[i].at < w[i + 1].at
                   BY DEF Rising
               <3>1. i \in 1 .. Len(f) /\ i + 1 \in 1 .. Len(w)
                     BY <2>4, <2>10, SMT
               <3>2. CASE i = Len(f)
                     <4>1. f # <<>> /\ w[i] = f[Len(f)] /\ w[i + 1] = x
                           BY <2>10, <3>1, <3>2, EmptySeq, SMT
                     <4> QED BY <2>7, <4>1
               <3>3. CASE i # Len(f)
                     <4>1. i \in 1 .. (Len(f) - 1) /\ i + 1 \in 1 .. Len(f)
                           <5>1. \A n \in Nat : \A j \in 1 .. n :
                                   j # n => j \in 1 .. (n - 1) /\ j + 1 \in 1 .. n
                                 BY SMT
                           <5> HIDE DEF w
                           <5> QED BY <2>4, <3>1, <3>3, <5>1
                     <4> QED BY <2>10, <3>1, <4>1 DEF Rising
               <3> QED BY <3>2, <3>3
        <2>12. ASSUME FromOrigin(f), f # <<>> \/ p.pts >= from PROVE FromOrigin(w)
               <3> SUFFICES ASSUME NEW i \in 1 .. Len(w) PROVE w[i].at >= 0
                   BY DEF FromOrigin
               <3>1. CASE i \in 1 .. Len(f) BY <2>10, <2>12, <3>1 DEF FromOrigin
               <3>2. CASE i \notin 1 .. Len(f)
                     <4>1. i = Len(f) + 1 BY <2>4, <2>10, <3>2, SMT
                     <4>2. w[i].at = at BY <2>10, <4>1
                     <4>3. f # <<>> => last >= 0
                           <5>1. f # <<>> => Len(f) \in 1 .. Len(f) BY <2>4, SMT
                           <5> QED BY <2>12, <5>1 DEF FromOrigin
                     <4>4. f = <<>> => at >= 0
                           <5> HIDE DEF t, at, p
                           <5> QED BY <2>2, <2>3, <2>6, <2>12
                     <4>5. f # <<>> => at >= 0
                           <5> HIDE DEF t, at, last
                           <5> QED BY <2>5, <2>7, <4>3, SMT
                     <4> QED BY <4>2, <4>4, <4>5
               <3> QED BY <3>1, <3>2
        <2> QED BY <1>2, <2>10, <2>11, <2>12
  <1> QED BY <1>1, <1>2

-------------------------------------------------------------------------------
LEMMA InitKeeps == Init => Inv
  <1> SUFFICES ASSUME Init PROVE Inv OBVIOUS
  <1>1. \A S : <<>> \in Seq(S) /\ Len(<<>>) = 0 BY EmptySeq
  <1>2. vfeed \in Seq(Packet) /\ afeed \in Seq(Packet)
        BY <1>1, RecorderAssumption DEF Init
  <1>3. Types BY <1>1, <1>2 DEF Init, Types, Option
  <1>4. Absences BY DEF Init, Absences
  <1>5. FirstPackets BY DEF Init, FirstPackets
  <1>6. Rising(<<>>) /\ FromOrigin(<<>>) BY <1>1, SMT DEF Rising, FromOrigin
  <1>7. Ordered BY <1>6 DEF Init, Ordered
  <1> QED BY <1>3, <1>4, <1>5, <1>7 DEF Inv

(* A step that writes nothing and touches neither the origin nor what is   *)
(* in hand: the callers' steps, and the thread's outside the packet loop.  *)
LEMMA QuietKeeps ==
  ASSUME Inv, UNCHANGED <<hasVideo, hasAudio, locals, file>>,
         vfeed' \in Seq(Packet), afeed' \in Seq(Packet),
         vq' \in Seq(Packet), aq' \in Seq(Packet),
         stopped' \in BOOLEAN, stopped => stopped',
         ~hasVideo => vfeed' = <<>> /\ vq' = <<>>,
         pc' = "loop" => pc = "loop" \/ pc \in Opening,
         pc' \in Opening => pc \in Opening
  PROVE  Inv'
  <1> USE DEF Inv
  <1>1. Types' BY DEF Types, locals, file
  <1>2. Absences' BY DEF Absences, locals, file
  <1>3. FirstPackets' BY DEF FirstPackets, Absences, locals, file
  <1>4. Ordered' BY DEF Ordered, Rising, FromOrigin, file
  <1> QED BY <1>1, <1>2, <1>3, <1>4

(* The steps that leave the queues and the feeds to the others.            *)
LEMMA GotoKeeps ==
  ASSUME Inv, UNCHANGED <<feeds, vq, aq, locals, file>>,
         stopped' \in BOOLEAN, stopped => stopped',
         pc' = "loop" => pc = "loop" \/ pc \in Opening,
         pc' \in Opening => pc \in Opening
  PROVE  Inv'
  <1>1. /\ vfeed' \in Seq(Packet) /\ afeed' \in Seq(Packet)
        /\ vq' \in Seq(Packet) /\ aq' \in Seq(Packet)
        /\ UNCHANGED <<hasVideo, hasAudio, locals, file>>
        BY DEF Inv, Types, feeds
  <1>2. ~hasVideo => vfeed' = <<>> /\ vq' = <<>> BY DEF Inv, Absences, feeds
  <1> QED BY <1>1, <1>2, QuietKeeps

LEMMA PushKeeps ==
  ASSUME Inv, PushVideo \/ PushAudio
  PROVE  Inv'
  <1>1. CASE PushVideo
        <2>1. vfeed # <<>> /\ vfeed \in Seq(Packet) /\ vq \in Seq(Packet)
              BY <1>1 DEF PushVideo, Inv, Types
        <2>2. Head(vfeed) \in Packet /\ Tail(vfeed) \in Seq(Packet)
              BY <2>1, HeadTailProperties
        <2>3. Append(vq, Head(vfeed)) \in Seq(Packet) BY <2>1, <2>2, AppendProperties
        <2>4. vq' \in Seq(Packet) /\ vfeed' \in Seq(Packet)
              BY <1>1, <2>1, <2>2, <2>3 DEF PushVideo
        <2>5. hasVideo BY <2>1 DEF Inv, Absences
        <2>6. /\ UNCHANGED <<hasVideo, hasAudio, locals, file, stopped, pc>>
              /\ aq' \in Seq(Packet) /\ afeed' \in Seq(Packet) /\ stopped' \in BOOLEAN
              BY <1>1 DEF PushVideo, Inv, Types
        <2> QED BY <2>4, <2>5, <2>6, QuietKeeps
  <1>2. CASE PushAudio
        <2>1. afeed # <<>> /\ afeed \in Seq(Packet) /\ aq \in Seq(Packet)
              BY <1>2 DEF PushAudio, Inv, Types
        <2>2. Head(afeed) \in Packet /\ Tail(afeed) \in Seq(Packet)
              BY <2>1, HeadTailProperties
        <2>3. Append(aq, Head(afeed)) \in Seq(Packet) BY <2>1, <2>2, AppendProperties
        <2>4. aq' \in Seq(Packet) /\ afeed' \in Seq(Packet)
              BY <1>2, <2>1, <2>2, <2>3 DEF PushAudio
        <2>5. /\ UNCHANGED <<hasVideo, hasAudio, locals, file, stopped, pc, vfeed, vq>>
              /\ vq' \in Seq(Packet) /\ vfeed' \in Seq(Packet) /\ stopped' \in BOOLEAN
              BY <1>2 DEF PushAudio, Inv, Types
        <2>6. ~hasVideo => vfeed' = <<>> /\ vq' = <<>> BY <2>5 DEF Inv, Absences
        <2> QED BY <2>4, <2>5, <2>6, QuietKeeps
  <1> QED BY <1>1, <1>2

(* The config packets are taken from the heads of the queues.              *)
LEMMA TakeKeeps ==
  ASSUME Inv, TakeVideoConfig \/ TakeAudioConfig
  PROVE  Inv'
  <1>1. /\ vq \in Seq(Packet) /\ aq \in Seq(Packet) /\ vfeed \in Seq(Packet)
        /\ afeed \in Seq(Packet) /\ stopped \in BOOLEAN
        BY DEF Inv, Types
  <1>2. CASE TakeVideoConfig
        <2>1. vq' \in {vq, AfterConfig(vq)} BY <1>2 DEF TakeVideoConfig
        <2>2. vq' \in Seq(Packet) /\ (vq = <<>> => vq' = <<>>)
              BY <1>1, <2>1, AfterConfigFacts
        <2>3. UNCHANGED <<feeds, aq, stopped, locals, file>>
              /\ pc = "videoConfig" /\ pc' \in {"audioConfig", "videoConfig"}
              BY <1>2 DEF TakeVideoConfig
        <2>4. ~hasVideo => vfeed' = <<>> /\ vq' = <<>>
              BY <2>2, <2>3 DEF Inv, Absences, feeds
        <2> QED BY <1>1, <2>2, <2>3, <2>4, QuietKeeps DEF feeds, Opening
  <1>3. CASE TakeAudioConfig
        <2>1. AudioHead(aq) \in Seq(Packet) BY <1>1, HeadTailProperties DEF AudioHead
        <2>2. UNCHANGED <<feeds, vq, stopped, locals, file>>
              /\ pc = "audioConfig" /\ pc' = "header" /\ aq' = AudioHead(aq)
              BY <1>3 DEF TakeAudioConfig
        <2>3. ~hasVideo => vfeed' = <<>> /\ vq' = <<>>
              BY <2>2 DEF Inv, Absences, feeds
        <2> QED BY <1>1, <2>1, <2>2, <2>3, QuietKeeps DEF feeds, Opening
  <1> QED BY <1>2, <1>3

(* The thread's other steps outside the loop.                              *)
LEMMA OutsideKeeps ==
  ASSUME Inv, Stop \/ Spawn \/ Open \/ WriteHeader \/ WriteTrailer \/ Leave
  PROVE  Inv'
  <1>1. stopped \in BOOLEAN BY DEF Inv, Types
  <1>2. CASE Stop \/ Spawn \/ Open \/ WriteHeader \/ WriteTrailer
        <2>1. UNCHANGED <<feeds, vq, aq, locals, file>>
              BY <1>2 DEF Stop, Spawn, Open, WriteHeader, WriteTrailer, Goto, Fail, queues
        <2>2. stopped' \in BOOLEAN /\ (stopped => stopped')
              BY <1>1, <1>2 DEF Stop, Spawn, Open, WriteHeader, WriteTrailer, Goto, Fail, queues
        <2>3. /\ pc' = "loop" => pc = "loop" \/ pc \in Opening
              /\ pc' \in Opening => pc \in Opening
              BY <1>2 DEF Stop, Spawn, Open, WriteHeader, WriteTrailer, Goto, Fail, Opening
        <2> QED BY <2>1, <2>2, <2>3, GotoKeeps
  <1>3. CASE Leave
        <2>1. vq' = <<>> /\ aq' = <<>> /\ stopped' = TRUE /\ pc' = "gone"
              /\ UNCHANGED <<feeds, locals, file>>
              BY <1>3 DEF Leave, MarkStopped
        <2>2. <<>> \in Seq(Packet) BY EmptySeq
        <2>3. vfeed' \in Seq(Packet) /\ afeed' \in Seq(Packet)
              BY <2>1 DEF Inv, Types, feeds
        <2>4. ~hasVideo => vfeed' = <<>> BY <2>1 DEF Inv, Absences, feeds
        <2> QED BY <2>1, <2>2, <2>3, <2>4, QuietKeeps DEF feeds, Opening
  <1> QED BY <1>2, <1>3

(* A round that writes: the origin is known by now, or becomes known from  *)
(* the first packets of the streams there are.                             *)
LEMMA WriteKeeps ==
  ASSUME Inv, pc = "loop",
         NEW from \in Nat, NEW v \in Option, NEW a \in Option,
         Write(from, v, a),
         UNCHANGED <<feeds, stopped>>, vq' \in Seq(Packet), aq' \in Seq(Packet),
         ~hasVideo => v = <<>> /\ vq' = <<>>, ~hasAudio => a = <<>>,
         origin # Unknown => origin = <<from>>,
         origin = Unknown /\ ~stopped =>
           BothSeen(v, a) /\ (Holds(v) => v[1].pts >= from) /\ (Holds(a) => a[1].pts >= from)
  PROVE  Inv'
  <1> DEFINE due == IF Holds(v) THEN prevV ELSE <<>>
             wv == WriteAll(fileV, due, from)
             wa == WriteAll(fileA, a, from)
  <1> USE DEF Inv
  <1>1. /\ fileV \in Seq(Written) /\ fileA \in Seq(Written) /\ due \in Option
        /\ Rising(fileV) /\ Rising(fileA)
        BY DEF Types, Ordered, Option
  <1>2. /\ wv \in Seq(Written) /\ Rising(wv) /\ (due = <<>> => wv = fileV)
        /\ Holds(due) \/ fileV # <<>> => wv # <<>>
        /\ FromOrigin(fileV) /\ (fileV # <<>> \/ due = <<>> \/ due[1].pts >= from)
             => FromOrigin(wv)
        <2> HIDE DEF due
        <2> QED BY <1>1, WriteAllFacts
  <1>3. /\ wa \in Seq(Written) /\ Rising(wa) /\ (a = <<>> => wa = fileA)
        /\ Holds(a) \/ fileA # <<>> => wa # <<>>
        /\ FromOrigin(fileA) /\ (fileA # <<>> \/ a = <<>> \/ a[1].pts >= from)
             => FromOrigin(wa)
        BY <1>1, WriteAllFacts
  <1>4. /\ pendV' = <<>> /\ pendA' = <<>> /\ origin' = <<from>>
        /\ \/ /\ fileV' = wv /\ fileA' = wa
              /\ prevV' = IF Holds(v) THEN v ELSE prevV
              /\ pc' = pc
           \/ /\ fileV' \in {fileV, wv} /\ fileA' = fileA
              /\ prevV' = <<>> /\ pc' = "trailer"
        BY DEF Write, LetGo, file
  <1>5. /\ hasVideo' = hasVideo /\ hasAudio' = hasAudio /\ vfeed' = vfeed /\ afeed' = afeed
        /\ stopped' = stopped
        BY DEF feeds
  <1>6. Types'
        <2>1. prevV' \in Option BY <1>4 DEF Types, Option
        <2>2. fileV' \in Seq(Written) /\ fileA' \in Seq(Written)
              <3> HIDE DEF wv, wa
              <3> QED BY <1>1, <1>2, <1>3, <1>4
        <2> QED BY <1>4, <1>5, <2>1, <2>2 DEF Types, Option
  <1>7. Absences' BY <1>4, <1>5 DEF Absences, Unknown, Opening
  (* While nothing stopped it, what is written first is not before the origin. *)
  <1>8. ASSUME ~stopped
        PROVE  /\ fileV # <<>> \/ due = <<>> \/ due[1].pts >= from
               /\ fileA # <<>> \/ a = <<>> \/ a[1].pts >= from
        <2>1. CASE origin = Unknown BY <1>8, <2>1 DEF Absences, Holds
        <2>2. CASE origin # Unknown
              <3>1. origin[1] = from BY <2>2
              <3>2. fileA # <<>> \/ a = <<>> BY <1>8, <2>2 DEF FirstPackets
              <3>3. Holds(prevV) /\ fileV = <<>> => prevV[1].pts >= from
                    BY <1>8, <2>2, <3>1 DEF FirstPackets
              <3> QED BY <3>2, <3>3 DEF Holds
        <2> QED BY <2>1, <2>2
  <1>9. Ordered'
        <2>1. Rising(fileV') /\ Rising(fileA')
              <3> HIDE DEF wv, wa
              <3> QED BY <1>1, <1>2, <1>3, <1>4
        <2>2. ~stopped => FromOrigin(fileV') /\ FromOrigin(fileA')
              <3>1. ~stopped => FromOrigin(fileV) /\ FromOrigin(fileA) BY DEF Ordered
              <3> HIDE DEF wv, wa, due
              <3> QED BY <1>2, <1>3, <1>4, <1>8, <3>1
        <2>3. Rising(fileV)' /\ Rising(fileA)' BY <2>1 DEF Rising
        <2>4. ~stopped' => FromOrigin(fileV)' /\ FromOrigin(fileA)'
              BY <1>5, <2>2 DEF FromOrigin
        <2> QED BY <2>3, <2>4 DEF Ordered
  <1>10. FirstPackets'
        <2> SUFFICES ASSUME ~stopped, pc' = "loop"
                     PROVE  /\ hasVideo => Holds(prevV') \/ fileV' # <<>>
                            /\ Holds(prevV') /\ fileV' = <<>> => prevV'[1].pts >= from
                            /\ hasAudio => fileA' # <<>>
            BY <1>4, <1>5 DEF FirstPackets, Holds
        <2>1. fileV' = wv /\ fileA' = wa /\ prevV' = IF Holds(v) THEN v ELSE prevV
              BY <1>4
        <2>2. CASE origin = Unknown
              <3>1. BothSeen(v, a) /\ (Holds(v) => v[1].pts >= from) BY <2>2
              <3>2. hasAudio => wa # <<>>
                    <4> HIDE DEF wa
                    <4> QED BY <1>3, <3>1 DEF BothSeen
              <3>3. hasVideo => Holds(v) BY <3>1 DEF BothSeen
              <3>4. prevV = <<>> BY <2>2 DEF Absences
              <3> HIDE DEF wv, wa
              <3> QED BY <2>1, <3>1, <3>2, <3>3, <3>4 DEF Holds
        <2>3. CASE origin # Unknown
              <3>1. /\ hasVideo => Holds(prevV) \/ fileV # <<>>
                    /\ Holds(prevV) /\ fileV = <<>> => prevV[1].pts >= from
                    /\ hasAudio => fileA # <<>>
                    BY <2>3 DEF FirstPackets
              <3>2. hasAudio => wa # <<>>
                    <4> HIDE DEF wa
                    <4> QED BY <1>3, <3>1
              <3>3. CASE Holds(v)
                    <4>1. due = prevV /\ hasVideo BY <3>3 DEF Holds
                    <4>2. wv # <<>>
                          <5> HIDE DEF wv, due
                          <5> QED BY <1>2, <3>1, <4>1
                    <4> HIDE DEF wv, wa
                    <4> QED BY <2>1, <3>2, <4>2
              <3>4. CASE ~Holds(v)
                    <4>1. wv = fileV
                          <5> HIDE DEF wv
                          <5> QED BY <1>2, <3>4
                    <4> HIDE DEF wv, wa
                    <4> QED BY <2>1, <3>1, <3>2, <3>4, <4>1
              <3> QED BY <3>3, <3>4
        <2> QED BY <2>2, <2>3
  <1> QED BY <1>6, <1>7, <1>9, <1>10

(* A round in which the other stream's first packet is still awaited.      *)
LEMMA HoldKeeps ==
  ASSUME Inv, pc = "loop", origin = Unknown,
         NEW v \in Option, NEW a \in Option, HoldBoth(v, a),
         UNCHANGED <<feeds, stopped>>, vq' \in Seq(Packet), aq' \in Seq(Packet),
         ~hasVideo => v = <<>> /\ vq' = <<>>, ~hasAudio => a = <<>>
  PROVE  Inv'
  <1> USE DEF Inv, HoldBoth
  <1>1. Types' BY DEF Types, feeds, file
  <1>2. Absences' BY DEF Absences, feeds, file
  <1>3. FirstPackets' BY DEF FirstPackets
  <1>4. Ordered' BY DEF Ordered, Rising, FromOrigin, file
  <1> QED BY <1>1, <1>2, <1>3, <1>4

LEMMA RoundKeeps ==
  ASSUME Inv, Round
  PROVE  Inv'
  <1> DEFINE v0 == Popped(vq, pendV)
             a0 == IF hasAudio THEN Popped(aq, pendA) ELSE <<>>
             v == UnlessConfig(v0)
             a == UnlessConfig(a0)
             heldV == IF Holds(pendV) THEN pendV ELSE v
             heldA == IF Holds(pendA) THEN pendA ELSE a
  <1>1. /\ vq \in Seq(Packet) /\ aq \in Seq(Packet) /\ pendV \in Option /\ pendA \in Option
        /\ origin \in {Unknown} \union {<<n>> : n \in Nat}
        BY DEF Inv, Types
  <1>2. v \in Option /\ (vq = <<>> => v = <<>>) BY <1>1, PoppedFacts
  <1>3. a \in Option /\ (~hasAudio => a = <<>>)
        BY <1>1, PoppedFacts DEF UnlessConfig, Holds, Option
  <1>4. heldV \in Option /\ heldA \in Option BY <1>1, <1>2, <1>3
  <1>5. /\ ~hasVideo => v = <<>> /\ heldV = <<>>
        /\ ~hasAudio => a = <<>> /\ heldA = <<>>
        BY <1>2, <1>3 DEF Inv, Absences, Holds
  <1>6. /\ pc = "loop" /\ UNCHANGED <<feeds, stopped>>
        /\ vq' = Rest(vq, pendV)
        /\ aq' = IF hasAudio THEN Rest(aq, pendA) ELSE aq
        BY DEF Round
  <1>7. /\ vq' \in Seq(Packet) /\ aq' \in Seq(Packet)
        /\ ~hasVideo => vq' = <<>>
        BY <1>1, <1>6, PoppedFacts DEF Inv, Absences
  <1>8. CASE origin # Unknown
        <2>1. Write(origin[1], v, a) BY <1>8 DEF Round
        <2>2. origin[1] \in Nat /\ origin = <<origin[1]>> BY <1>1, <1>8
        <2> HIDE DEF v, a
        <2> QED BY <1>2, <1>3, <1>5, <1>6, <1>7, <1>8, <2>1, <2>2, WriteKeeps
  <1>9. CASE origin = Unknown /\ HoldBoth(heldV, heldA)
        <2> HIDE DEF heldV, heldA
        <2> QED BY <1>4, <1>5, <1>6, <1>7, <1>9, HoldKeeps
  <1>10. CASE /\ origin = Unknown /\ Write(OriginOf(heldV, heldA), heldV, heldA)
              /\ BothSeen(heldV, heldA) \/ (stopped /\ (Holds(heldV) \/ Holds(heldA)))
        <2> HIDE DEF heldV, heldA
        <2>1. Holds(heldV) \/ Holds(heldA)
              <3>1. hasVideo \/ hasAudio BY DEF Inv, Absences
              <3> QED BY <1>10, <3>1 DEF BothSeen
        <2>2. /\ Holds(heldV) => heldV[1].pts \in Nat
              /\ Holds(heldA) => heldA[1].pts \in Nat
              BY <1>4 DEF Holds, Option, Packet
        <2>3. /\ OriginOf(heldV, heldA) \in Nat
              /\ Holds(heldV) => heldV[1].pts >= OriginOf(heldV, heldA)
              /\ Holds(heldA) => heldA[1].pts >= OriginOf(heldV, heldA)
              BY <2>1, <2>2, SMT DEF OriginOf, Earlier
        <2> QED BY <1>4, <1>5, <1>6, <1>7, <1>10, <2>3, WriteKeeps
  <1> QED BY <1>8, <1>9, <1>10 DEF Round

(* The last video packet is written after a stop, or refused.              *)
LEMMA LastKeeps ==
  ASSUME Inv, LastPacket
  PROVE  Inv'
  <1> USE DEF Inv
  <1> DEFINE from == IF origin = Unknown THEN 0 ELSE origin[1]
             w == WriteAll(fileV, prevV, from)
  <1>1. /\ stopped /\ pc' = "trailer" /\ prevV' = <<>> /\ fileV' \in {fileV, w}
        /\ UNCHANGED <<feeds, queues, origin, pendV, pendA, fileA>>
        BY DEF LastPacket, Over
  <1>2. w \in Seq(Written) /\ Rising(w) /\ (prevV = <<>> => w = fileV)
        <2>1. from \in Nat /\ fileV \in Seq(Written) /\ prevV \in Option /\ Rising(fileV)
              BY DEF Types, Ordered
        <2> HIDE DEF from
        <2> QED BY <2>1, WriteAllFacts
  <1> HIDE DEF w
  <1>3. Types' BY <1>1, <1>2 DEF Types, feeds, queues, Option
  <1>4. Absences' BY <1>1, <1>2 DEF Absences, feeds, queues, Opening
  <1>5. FirstPackets' BY <1>1 DEF FirstPackets
  <1>6. Rising(fileV') /\ Rising(fileA') BY <1>1, <1>2 DEF Ordered
  <1>7. Ordered' BY <1>1, <1>6 DEF Ordered, Rising, queues
  <1> QED BY <1>3, <1>4, <1>5, <1>7

LEMMA StepKeeps ==
  ASSUME Inv, [Next]_vars
  PROVE  Inv'
  <1>1. CASE UNCHANGED vars
        <2>1. /\ UNCHANGED <<feeds, vq, aq, locals, file, stopped, pc>>
              /\ stopped' \in BOOLEAN
              BY <1>1 DEF vars, feeds, locals, file, Inv, Types
        <2> QED BY <2>1, GotoKeeps
  <1>2. CASE Finished BY <1>1, <1>2 DEF Finished
  <1> QED BY <1>1, <1>2, PushKeeps, TakeKeeps, OutsideKeeps, RoundKeeps, LastKeeps
          DEF Next, Thread

-------------------------------------------------------------------------------
(* The invariant holds throughout.                                         *)
THEOREM Invariance == Spec => []Inv
  BY InitKeeps, StepKeeps, PTL DEF Spec

(* The muxer gets rising timestamps, none before the origin unless a stop  *)
(* decided it, whatever the streams carry and whenever the stop comes.     *)
THEOREM TimestampsRise == Spec => []TimestampsAreInOrder
  <1>1. Inv => TimestampsAreInOrder
        BY DEF Inv, Ordered, Rising, FromOrigin, TimestampsAreInOrder
  <1> QED BY <1>1, Invariance, PTL

-------------------------------------------------------------------------------
(* What is accepted is a packet, a stream the device does not give brings  *)
(* none, and nothing is held aside once the origin is known.               *)
Accepted ==
  /\ acceptedV \in Seq(Packet) /\ acceptedA \in Seq(Packet)
  /\ ~hasVideo => acceptedV = <<>>
  /\ ~hasAudio => acceptedA = <<>> /\ aq = <<>> /\ afeed = <<>>
  /\ origin # Unknown \/ pc \in Opening => pendV = <<>> /\ pendA = <<>>

BeforeVideoConfig == {"unspawned", "open", "videoConfig"}
Recording == {"audioConfig", "header", "loop", "trailer"}

(* Until the config packet is found the queue has what follows the first   *)
(* of all that was accepted; from then on the file, the hands and the      *)
(* queue are that.                                                         *)
VideoLine ==
  /\ pc \in BeforeVideoConfig =>
       /\ HasConfig(vq) <=> HasConfig(acceptedV)
       /\ AfterConfig(vq) = AfterConfig(acceptedV)
  /\ ~refused /\ pc \in Recording =>
       /\ Packets(fileV) \o prevV \o pendV \o Media(vq) = Media(AfterConfig(acceptedV))
       /\ hasVideo => HasConfig(acceptedV) \/ stopped

AudioLine ==
  ~refused /\ pc \notin {"leaving", "gone"} =>
    Packets(fileA) \o pendA \o Media(aq) = Media(acceptedA)

(* The packet loop is left drained and stopped, or refused.                *)
Closing ==
  /\ pc = "trailer" /\ ~refused =>
       /\ stopped /\ prevV = <<>> /\ pendV = <<>> /\ pendA = <<>> /\ vq = <<>> /\ aq = <<>>
  /\ outcome = "written" =>
       /\ pc \in {"leaving", "gone"} /\ stopped
       /\ Packets(fileV) = Media(AfterConfig(acceptedV))
       /\ Packets(fileA) = Media(acceptedA)
  /\ pc = "gone" => vq = <<>> /\ aq = <<>> /\ stopped

LossInv == Accepted /\ VideoLine /\ AudioLine /\ Closing

-------------------------------------------------------------------------------
LEMMA OptionFacts ==
  ASSUME NEW o \in Option
  PROVE  o \in Seq(Packet) /\ (Holds(o) => o = <<o[1]>> /\ o[1] \in Packet)
  <1>1. CASE o = <<>> BY <1>1, EmptySeq DEF Holds
  <1>2. CASE o # <<>>
        <2>1. PICK p \in Packet : o = <<p>> BY <1>2 DEF Option
        <2>2. <<p>> \in Seq(Packet) BY SMT
        <2> QED BY <2>1, <2>2
  <1> QED BY <1>1, <1>2

LEMMA MediaFacts ==
  ASSUME NEW p \in Packet
  PROVE  p \in MediaPackets <=> ~IsConfig(p)
  BY DEF Packet, MediaPackets, IsConfig

LEMMA MediaType ==
  ASSUME NEW q \in Seq(Packet)
  PROVE  Media(q) \in Seq(Packet)
  BY FilteredType DEF Media

LEMMA MediaAppend ==
  ASSUME NEW q \in Seq(Packet), NEW p \in Packet
  PROVE  Media(Append(q, p)) = IF IsConfig(p) THEN Media(q) ELSE Append(Media(q), p)
  <1>1. Filtered(Append(q, p), MediaPackets)
          = IF p \in MediaPackets THEN Append(Filtered(q, MediaPackets), p)
            ELSE Filtered(q, MediaPackets)
        BY FilteredAppend
  <1> QED BY <1>1, MediaFacts DEF Media

LEMMA MediaEmpty == Media(<<>>) = <<>>
  BY FilteredEmpty DEF Media

LEMMA Joined ==
  ASSUME NEW q \in Seq(Packet), NEW r \in Seq(Packet), NEW o \in Seq(Packet)
  PROVE  q \o (r \o o) = (q \o r) \o o /\ q \o r \in Seq(Packet)
  <1>1. q \o r \in Seq(Packet) BY ConcatProperties
  <1>2. (q \o r) \o o = q \o (r \o o) BY ConcatAssociative
  <1> QED BY <1>1, <1>2

(* The same, with what q and r are joined to.                              *)
LEMMA JoinedOn ==
  \A q, r, o \in Seq(Packet) : q \o (r \o o) = (q \o r) \o o
  BY Joined

LEMMA JoinedType ==
  \A q, r \in Seq(Packet) : q \o r \in Seq(Packet)
  BY Joined

LEMMA MediaConcat ==
  ASSUME NEW q \in Seq(Packet), NEW r \in Seq(Packet)
  PROVE  Media(q \o r) = Media(q) \o Media(r)
  BY FilteredConcat DEF Media

(* One packet is media or nothing.                                         *)
LEMMA MediaOne ==
  ASSUME NEW p \in Packet
  PROVE  Media(<<p>>) = UnlessConfig(<<p>>)
  <1>1. <<>> \in Seq(Packet) /\ Append(<<>>, p) = <<p>> BY EmptySeq
  <1>2. Media(<<p>>) = IF IsConfig(p) THEN <<>> ELSE <<p>>
        <2>1. Media(Append(<<>>, p)) = IF IsConfig(p) THEN Media(<<>>) ELSE Append(Media(<<>>), p)
              BY <1>1, MediaAppend
        <2> QED BY <1>1, <2>1, MediaEmpty
  <1>3. Holds(<<p>>) /\ <<p>>[1] = p BY DEF Holds
  <1> QED BY <1>2, <1>3 DEF UnlessConfig

(* What a round takes of a queue, config packets left out, and what it     *)
(* leaves of it, are the media of the queue.                               *)
LEMMA MediaSplit ==
  ASSUME NEW q \in Seq(Packet), NEW o \in Option
  PROVE  Media(q) = UnlessConfig(Popped(q, o)) \o Media(Rest(q, o))
  <1>1. Media(q) \in Seq(Packet) BY MediaType
  <1>2. CASE Popped(q, o) = <<>>
        <2>1. UnlessConfig(<<>>) = <<>> BY DEF UnlessConfig, Holds
        <2>2. Rest(q, o) = q
              <3>1. Len(<<>>) + 1 = 1 BY EmptySeq, SMT
              <3> QED BY <1>2, <3>1, SubSeqFull DEF Rest
        <2> QED BY <1>1, <1>2, <2>1, <2>2, ConcatEmptySeq
  <1>3. CASE Popped(q, o) # <<>>
        <2>1. q # <<>> /\ Popped(q, o) = <<Head(q)>> BY <1>3 DEF Popped
        <2>2. Head(q) \in Packet /\ Tail(q) \in Seq(Packet) BY <2>1, HeadTailProperties
        <2>3. q = <<Head(q)>> \o Tail(q) BY <2>1, <2>2, SMT
        <2>4. Rest(q, o) = Tail(q)
              <3>1. Len(<<Head(q)>>) + 1 = 2 BY SMT
              <3> QED BY <2>1, <3>1, TailIsSubSeq DEF Rest
        <2>5. <<Head(q)>> \in Seq(Packet) BY <2>2, SMT
        <2>6. Media(<<Head(q)>> \o Tail(q)) = Media(<<Head(q)>>) \o Media(Tail(q))
              BY <2>2, <2>5, MediaConcat
        <2> QED BY <2>1, <2>2, <2>3, <2>4, <2>6, MediaOne
  <1> QED BY <1>2, <1>3

-------------------------------------------------------------------------------
(* What follows the first config packet grows with the sequence.           *)
LEMMA AfterConfigAppend ==
  ASSUME NEW q \in Seq(Packet), NEW p \in Packet
  PROVE  /\ HasConfig(Append(q, p)) <=> HasConfig(q) \/ IsConfig(p)
         /\ AfterConfig(Append(q, p)) =
              IF HasConfig(q) THEN Append(AfterConfig(q), p) ELSE <<>>
  <1> DEFINE u == Append(q, p)
             n == Len(q)
  <1>1. /\ u \in Seq(Packet) /\ n \in Nat /\ Len(u) = n + 1
        /\ (\A i \in 1 .. n : u[i] = q[i]) /\ u[n + 1] = p
        BY AppendProperties, LenProperties
  <1> HIDE DEF u
  <1>2. \A i : i \in 1 .. n + 1 <=> i \in 1 .. n \/ i = n + 1 BY <1>1, SMT
  <1>3. HasConfig(u) <=> HasConfig(q) \/ IsConfig(p) BY <1>1, <1>2 DEF HasConfig
  <1>4. CASE HasConfig(q)
        <2>1. PICK i : FirstConfig(q, i) BY <1>4, FirstConfigFacts
        <2>2. i \in 1 .. n BY <2>1 DEF FirstConfig
        <2>3. \A j \in 1 .. (i - 1) : j \in 1 .. n BY <1>1, <2>2, SMT
        <2>4. FirstConfig(u, i) BY <1>1, <1>2, <2>1, <2>2, <2>3 DEF FirstConfig
        <2>5. AfterConfig(q) = SubSeq(q, i + 1, n) BY <2>1, FirstConfigFacts
        <2>6. AfterConfig(u) = SubSeq(u, i + 1, n + 1) BY <1>1, <2>4, FirstConfigFacts
        <2>7. i + 1 \in 1 .. n + 1 /\ n + 1 \in i + 1 .. n + 1 /\ (n + 1) - 1 = n
              BY <1>1, <2>2, SMT
        <2>8. SubSeq(u, i + 1, n + 1) = SubSeq(u, i + 1, n) \o <<p>>
              <3>1. SubSeq(u, i + 1, n + 1) = SubSeq(u, i + 1, (n + 1) - 1) \o <<u[n + 1]>>
                    BY <1>1, <2>7, SubSeqRecursiveSecond
              <3> QED BY <1>1, <2>7, <3>1
        <2>9. /\ SubSeq(q, i + 1, n) \in Seq(Packet) /\ SubSeq(u, i + 1, n) \in Seq(Packet)
              /\ SubSeq(u, i + 1, n) = SubSeq(q, i + 1, n)
              <3>1. q \in [1 .. n -> Packet] BY LenProperties
              <3>2. i + 1 \in Int /\ n \in Int /\ \A j \in i + 1 .. n : j \in 1 .. n
                    BY <1>1, <2>2, SMT
              <3>3. \A j \in i + 1 .. n : u[j] = q[j] /\ q[j] \in Packet /\ u[j] \in Packet
                    BY <1>1, <3>1, <3>2
              <3>4. \A j \in 1 .. n - (i + 1) + 1 : (i + 1) + j - 1 \in i + 1 .. n
                    BY <1>1, <2>2, SMT
              <3> DEFINE a == SubSeq(q, i + 1, n)
                         b == SubSeq(u, i + 1, n)
                         m == IF i + 1 <= n THEN n - (i + 1) + 1 ELSE 0
              <3>5. /\ a \in Seq(Packet) /\ Len(a) = m
                    /\ \A j \in 1 .. n - (i + 1) + 1 : a[j] = q[(i + 1) + j - 1]
                    BY <3>2, <3>3, SubSeqProperties
              <3>6. /\ b \in Seq(Packet) /\ Len(b) = m
                    /\ \A j \in 1 .. n - (i + 1) + 1 : b[j] = u[(i + 1) + j - 1]
                    BY <3>2, <3>3, SubSeqProperties
              <3>7. 1 .. m = 1 .. n - (i + 1) + 1 BY <1>1, <2>2, SMT
              <3> HIDE DEF a, b, m
              <3>8. \A j \in 1 .. m : a[j] = b[j] BY <3>3, <3>4, <3>5, <3>6, <3>7
              <3>9. a = b BY <3>5, <3>6, <3>8, SeqEqual
              <3> QED BY <3>5, <3>6, <3>9 DEF a, b
        <2>10. SubSeq(q, i + 1, n) \o <<p>> = Append(SubSeq(q, i + 1, n), p)
               BY <2>9, AppendIsConcat
        <2> QED BY <1>3, <1>4, <2>5, <2>6, <2>8, <2>9, <2>10 DEF u
  <1>5. CASE ~HasConfig(q) /\ IsConfig(p)
        <2>1. n + 1 \in 1 .. n + 1 /\ (n + 1) - 1 = n /\ n + 1 < (n + 1) + 1 BY <1>1, SMT
        <2>2. FirstConfig(u, n + 1)
              <3>1. \A j \in 1 .. n : ~IsConfig(u[j]) BY <1>1, <1>5 DEF HasConfig
              <3> QED BY <1>1, <1>5, <2>1, <3>1 DEF FirstConfig
        <2>3. AfterConfig(u) = SubSeq(u, (n + 1) + 1, n + 1) BY <1>1, <2>2, FirstConfigFacts
        <2>4. n + 1 \in Int /\ (n + 1) + 1 \in Int BY <1>1, SMT
        <2>5. AfterConfig(u) = <<>> BY <2>1, <2>3, <2>4, SubSeqEmpty
        <2> QED BY <1>3, <1>5, <2>5 DEF u
  <1>6. CASE ~HasConfig(q) /\ ~IsConfig(p) BY <1>3, <1>6 DEF AfterConfig, u
  <1> QED BY <1>4, <1>5, <1>6

(* Where there is a config packet, what follows it and is media grows by   *)
(* what is pushed.                                                         *)
LEMMA MediaAfterAppend ==
  ASSUME NEW q \in Seq(Packet), NEW p \in Packet, HasConfig(q)
  PROVE  Media(AfterConfig(Append(q, p))) = Media(AfterConfig(q)) \o UnlessConfig(<<p>>)
  <1>1. AfterConfig(q) \in Seq(Packet) BY AfterConfigFacts
  <1>2. AfterConfig(Append(q, p)) = AfterConfig(q) \o <<p>>
        <2>1. AfterConfig(Append(q, p)) = Append(AfterConfig(q), p) BY AfterConfigAppend
        <2>2. Append(AfterConfig(q), p) = AfterConfig(q) \o <<p>> BY <1>1, AppendIsConcat
        <2> QED BY <2>1, <2>2
  <1>3. <<p>> \in Seq(Packet) BY SMT
  <1>4. Media(AfterConfig(q) \o <<p>>) = Media(AfterConfig(q)) \o Media(<<p>>)
        BY <1>1, <1>3, MediaConcat
  <1> QED BY <1>2, <1>4, MediaOne

LEMMA MediaPush ==
  ASSUME NEW q \in Seq(Packet), NEW p \in Packet
  PROVE  Media(Append(q, p)) = Media(q) \o UnlessConfig(<<p>>)
  <1>1. <<p>> \in Seq(Packet) BY SMT
  <1>2. Media(q \o <<p>>) = Media(q) \o Media(<<p>>) BY <1>1, MediaConcat
  <1> QED BY <1>2, MediaOne, AppendIsConcat

-------------------------------------------------------------------------------
LEMMA PacketsType ==
  ASSUME NEW f \in Seq(Written)
  PROVE  Packets(f) \in Seq(Packet) /\ Len(Packets(f)) = Len(f)
  <1>1. Len(f) \in Nat /\ f \in [1 .. Len(f) -> Written] BY LenProperties
  <1>2. \A i \in 1 .. Len(f) : f[i].pkt \in Packet BY <1>1 DEF Written
  <1> QED BY <1>1, <1>2, SMT DEF Packets

LEMMA PacketsEmpty == Packets(<<>>) = <<>>
  <1>1. <<>> \in Seq(Written) /\ Len(<<>>) = 0 BY EmptySeq
  <1> QED BY <1>1, PacketsType, EmptySeq

(* What is written is added at the end.                                    *)
LEMMA PacketsWritten ==
  ASSUME NEW f \in Seq(Written), NEW o \in Option, NEW from \in Nat, Rising(f)
  PROVE  Packets(WriteAll(f, o, from)) = Packets(f) \o o
  <1>1. Packets(f) \in Seq(Packet) /\ Len(Packets(f)) = Len(f) /\ Len(f) \in Nat
        BY PacketsType, LenProperties
  <1>2. CASE o = <<>> BY <1>1, <1>2, ConcatEmptySeq DEF WriteAll
  <1>3. CASE o # <<>>
        <2> DEFINE p == o[1]
                   at == Stamp(f, p.pts - from)
                   x == [pkt |-> p, at |-> at]
                   w == WriteAll(f, o, from)
        <2>1. o = <<p>> /\ p \in Packet BY <1>3, OptionFacts DEF Holds
        <2>2. w = Append(f, x) BY <1>3 DEF WriteAll
        <2>3. w \in Seq(Written) BY WriteAllFacts
        <2>4. Len(w) = Len(f) + 1 /\ (\A i \in 1 .. Len(f) : w[i] = f[i]) /\ w[Len(f) + 1] = x
              <3>1. x \in [pkt : Packet, at : {at}] BY <2>1
              <3>2. f \in Seq(Written \cup [pkt : Packet, at : {at}]) BY SeqMonotonic
              <3> HIDE DEF x, w
              <3> QED BY <2>2, <3>1, <3>2, AppendFacts
        <2> HIDE DEF w, x
        <2>5. Packets(w) \in Seq(Packet) /\ Len(Packets(w)) = Len(f) + 1
              BY <2>3, <2>4, PacketsType
        <2>6. /\ Append(Packets(f), p) \in Seq(Packet) /\ Len(Append(Packets(f), p)) = Len(f) + 1
              /\ \A i \in 1 .. Len(f) : Append(Packets(f), p)[i] = Packets(f)[i]
              /\ Append(Packets(f), p)[Len(f) + 1] = p
              <3> HIDE DEF p
              <3> QED BY <1>1, <2>1, AppendFacts
        <2>7. \A i \in 1 .. Len(f) + 1 : i \in 1 .. Len(f) \/ i = Len(f) + 1 BY <1>1, SMT
        <2>8. \A i \in 1 .. Len(f) : Packets(f)[i] = f[i].pkt BY DEF Packets
        <2>9. \A i \in 1 .. Len(f) + 1 : Packets(w)[i] = w[i].pkt BY <2>4 DEF Packets
        <2>10. x.pkt = p BY DEF x
        <2>11. \A i \in 1 .. Len(f) + 1 : Packets(w)[i] = Append(Packets(f), p)[i]
               <3> HIDE DEF p
               <3> QED BY <2>4, <2>6, <2>7, <2>8, <2>9, <2>10, SMT
        <2>12. Packets(w) = Append(Packets(f), p)
               <3> HIDE DEF p
               <3> QED BY <2>5, <2>6, <2>11, SeqEqual
        <2> QED BY <1>1, <2>1, <2>12, AppendIsConcat DEF w
  <1> QED BY <1>2, <1>3
-------------------------------------------------------------------------------
LEMMA LossInit == Init => LossInv
  <1> SUFFICES ASSUME Init PROVE LossInv OBVIOUS
  <1>1. <<>> \in Seq(Packet) BY EmptySeq
  <1>2. Accepted BY <1>1 DEF Init, Accepted
  <1>3. VideoLine BY DEF Init, VideoLine, Recording
  <1>4. Packets(fileA) \o pendA \o Media(aq) = Media(acceptedA)
        <2>1. <<>> \o <<>> = <<>> BY EmptySeq, ConcatEmptySeq
        <2> QED BY <2>1, PacketsEmpty, MediaEmpty DEF Init
  <1>5. AudioLine BY <1>4 DEF AudioLine
  <1>6. Closing BY DEF Init, Closing
  <1> QED BY <1>2, <1>3, <1>5, <1>6 DEF LossInv

(* The types the steps below work with.                                    *)
LEMMA LossTypes ==
  ASSUME Inv, LossInv
  PROVE  /\ Packets(fileV) \in Seq(Packet) /\ Packets(fileA) \in Seq(Packet)
         /\ prevV \in Seq(Packet) /\ pendV \in Seq(Packet) /\ pendA \in Seq(Packet)
         /\ Media(vq) \in Seq(Packet) /\ Media(aq) \in Seq(Packet)
         /\ vq \in Seq(Packet) /\ aq \in Seq(Packet)
         /\ acceptedV \in Seq(Packet) /\ acceptedA \in Seq(Packet)
  BY PacketsType, MediaType, OptionFacts DEF Inv, Types, LossInv, Accepted

(* Nothing but a step or two of the thread touches the accounts.           *)
LEMMA LossSame ==
  ASSUME LossInv,
         UNCHANGED <<hasVideo, hasAudio, afeed, vq, aq, stopped, locals, file, refused,
                     outcome, history, pc>>
  PROVE  LossInv'
  <1> USE DEF LossInv, locals, file, history
  <1>1. Accepted' BY DEF Accepted
  <1>2. VideoLine' BY DEF VideoLine, HasConfig, Packets
  <1>3. AudioLine' BY DEF AudioLine, Packets
  <1>4. Closing' BY DEF Closing, Packets
  <1> QED BY <1>1, <1>2, <1>3, <1>4

LEMMA PushVideoLoses ==
  ASSUME Inv, LossInv, PushVideo
  PROVE  LossInv'
  <1> DEFINE p == Head(vfeed)
  <1>1. vfeed # <<>> /\ vfeed \in Seq(Packet) /\ hasVideo
        BY DEF PushVideo, Inv, Types, Absences
  <1>2. p \in Packet BY <1>1, HeadTailProperties
  <1>3. UNCHANGED <<hasVideo, hasAudio, afeed, aq, stopped, pc, locals, file, refused, outcome, acceptedA>>
        BY DEF PushVideo
  <1>4. CASE stopped
        <2>1. UNCHANGED <<vq, acceptedV>> BY <1>4 DEF PushVideo
        <2> QED BY <1>3, <2>1, LossSame DEF history
  <1>5. CASE ~stopped
        <2>1. vq' = Append(vq, p) /\ acceptedV' = Append(acceptedV, p) BY <1>5 DEF PushVideo
        <2>2. /\ vq \in Seq(Packet) /\ acceptedV \in Seq(Packet)
              /\ Packets(fileV) \in Seq(Packet) /\ prevV \in Seq(Packet)
              /\ pendV \in Seq(Packet) /\ Media(vq) \in Seq(Packet)
              BY LossTypes
        <2> HIDE DEF p
        <2>3. Accepted'
              <3>1. acceptedV' \in Seq(Packet) BY <1>2, <2>1, <2>2, AppendProperties
              <3> QED BY <1>1, <1>3, <3>1 DEF LossInv, Accepted, locals
        <2>4. VideoLine'
              <3>1. ASSUME pc \in BeforeVideoConfig
                    PROVE  /\ HasConfig(vq') <=> HasConfig(acceptedV')
                           /\ AfterConfig(vq') = AfterConfig(acceptedV')
                    <4>1. /\ HasConfig(vq) <=> HasConfig(acceptedV)
                          /\ AfterConfig(vq) = AfterConfig(acceptedV)
                          BY <3>1 DEF LossInv, VideoLine
                    <4>2. /\ HasConfig(Append(vq, p)) <=> HasConfig(vq) \/ IsConfig(p)
                          /\ AfterConfig(Append(vq, p)) =
                               IF HasConfig(vq) THEN Append(AfterConfig(vq), p) ELSE <<>>
                          BY <1>2, <2>2, AfterConfigAppend
                    <4>3. /\ HasConfig(Append(acceptedV, p)) <=> HasConfig(acceptedV) \/ IsConfig(p)
                          /\ AfterConfig(Append(acceptedV, p)) =
                               IF HasConfig(acceptedV) THEN Append(AfterConfig(acceptedV), p)
                               ELSE <<>>
                          BY <1>2, <2>2, AfterConfigAppend
                    <4> QED BY <2>1, <4>1, <4>2, <4>3
              <3>2. ASSUME ~refused, pc \in Recording
                    PROVE  /\ Packets(fileV) \o prevV \o pendV \o Media(vq')
                                = Media(AfterConfig(acceptedV'))
                           /\ HasConfig(acceptedV')
                    <4>1. /\ Packets(fileV) \o prevV \o pendV \o Media(vq)
                               = Media(AfterConfig(acceptedV))
                          /\ HasConfig(acceptedV)
                          BY <1>1, <1>5, <3>2 DEF LossInv, VideoLine
                    <4> DEFINE o == UnlessConfig(<<p>>)
                               before == Packets(fileV) \o prevV \o pendV
                    <4>2. Media(vq') = Media(vq) \o o BY <1>2, <2>1, <2>2, MediaPush
                    <4>3. Media(AfterConfig(acceptedV')) = Media(AfterConfig(acceptedV)) \o o
                          BY <1>2, <2>1, <2>2, <4>1, MediaAfterAppend
                    <4>4. o \in Seq(Packet)
                          <5>1. <<p>> \in Seq(Packet) BY <1>2, SMT
                          <5> QED BY <5>1, EmptySeq DEF UnlessConfig
                    <4>5. before \in Seq(Packet)
                          <5>1. /\ Packets(fileV) \in Seq(Packet) /\ prevV \in Seq(Packet)
                                /\ pendV \in Seq(Packet)
                                BY <2>2
                          <5>2. \A q, r \in Seq(Packet) : q \o r \in Seq(Packet) BY ConcatProperties
                          <5>3. Packets(fileV) \o prevV \in Seq(Packet) BY <5>1, <5>2
                          <5> QED BY <5>1, <5>2, <5>3
                    <4> HIDE DEF o, before
                    <4>6. before \o (Media(vq) \o o) = (before \o Media(vq)) \o o
                          <5>1. Media(vq) \in Seq(Packet) BY <2>2
                          <5> QED BY <4>4, <4>5, <5>1, JoinedOn
                    <4>7. HasConfig(acceptedV') BY <1>2, <2>1, <2>2, <4>1, AfterConfigAppend
                    <4> QED BY <4>1, <4>2, <4>3, <4>6, <4>7 DEF before
              <3>3. HasConfig(vq)' = HasConfig(vq') /\ HasConfig(acceptedV)' = HasConfig(acceptedV')
                    BY DEF HasConfig
              <3>4. Packets(fileV)' = Packets(fileV) /\ prevV' = prevV /\ pendV' = pendV
                    BY <1>3 DEF Packets, locals, file
              <3> QED BY <1>3, <3>1, <3>2, <3>3, <3>4 DEF VideoLine
        <2>5. AudioLine' BY <1>3 DEF LossInv, AudioLine, Packets, locals, file
        <2>6. Closing' BY <1>3, <1>5 DEF LossInv, Closing
        <2> QED BY <2>3, <2>4, <2>5, <2>6 DEF LossInv
  <1> QED BY <1>4, <1>5

LEMMA PushAudioLoses ==
  ASSUME Inv, LossInv, PushAudio
  PROVE  LossInv'
  <1> DEFINE p == Head(afeed)
  <1>1. afeed # <<>> /\ afeed \in Seq(Packet) /\ hasAudio
        BY DEF PushAudio, Inv, Types, LossInv, Accepted
  <1>2. p \in Packet BY <1>1, HeadTailProperties
  <1>3. UNCHANGED <<hasVideo, hasAudio, vq, stopped, pc, locals, file, refused, outcome, acceptedV>>
        BY DEF PushAudio
  <1>4. CASE stopped
        <2>1. UNCHANGED <<aq, acceptedA>> BY <1>4 DEF PushAudio
        <2>2. Accepted' BY <1>1, <1>3, <2>1 DEF LossInv, Accepted, locals
        <2>3. VideoLine' BY <1>3, <2>1 DEF LossInv, VideoLine, HasConfig, Packets, locals, file
        <2>4. AudioLine' BY <1>3, <2>1 DEF LossInv, AudioLine, Packets, locals, file
        <2>5. Closing' BY <1>3, <2>1 DEF LossInv, Closing, Packets, locals, file
        <2> QED BY <2>2, <2>3, <2>4, <2>5 DEF LossInv
  <1>5. CASE ~stopped
        <2>1. aq' = Append(aq, p) /\ acceptedA' = Append(acceptedA, p) BY <1>5 DEF PushAudio
        <2>2. /\ aq \in Seq(Packet) /\ acceptedA \in Seq(Packet)
              /\ Packets(fileA) \in Seq(Packet) /\ pendA \in Seq(Packet)
              /\ Media(aq) \in Seq(Packet)
              BY LossTypes
        <2> HIDE DEF p
        <2>3. Accepted'
              <3>1. acceptedA' \in Seq(Packet) BY <1>2, <2>1, <2>2, AppendProperties
              <3> QED BY <1>1, <1>3, <3>1 DEF LossInv, Accepted, locals
        <2>4. VideoLine' BY <1>3 DEF LossInv, VideoLine, HasConfig, Packets, locals, file
        <2>5. AudioLine'
              <3> SUFFICES ASSUME ~refused, pc \notin {"leaving", "gone"}
                           PROVE  Packets(fileA) \o pendA \o Media(aq') = Media(acceptedA')
                  BY <1>3 DEF AudioLine, Packets, locals, file
              <3> DEFINE o == UnlessConfig(<<p>>)
                         before == Packets(fileA) \o pendA
              <3>1. before \o Media(aq) = Media(acceptedA) BY DEF LossInv, AudioLine
              <3>2. Media(aq') = Media(aq) \o o /\ Media(acceptedA') = Media(acceptedA) \o o
                    BY <1>2, <2>1, <2>2, MediaPush
              <3>3. o \in Seq(Packet)
                    <4>1. <<p>> \in Seq(Packet) BY <1>2, SMT
                    <4> QED BY <4>1, EmptySeq DEF UnlessConfig
              <3>4. before \in Seq(Packet)
                    <4>1. Packets(fileA) \in Seq(Packet) /\ pendA \in Seq(Packet) BY <2>2
                    <4> QED BY <4>1, ConcatProperties
              <3> HIDE DEF o, before
              <3>5. before \o (Media(aq) \o o) = (before \o Media(aq)) \o o
                    <4>1. Media(aq) \in Seq(Packet) BY <2>2
                    <4> QED BY <3>3, <3>4, <4>1, JoinedOn
              <3> QED BY <3>1, <3>2, <3>5 DEF before
        <2>6. Closing' BY <1>3, <1>5 DEF LossInv, Closing
        <2> QED BY <2>3, <2>4, <2>5, <2>6 DEF LossInv
  <1> QED BY <1>4, <1>5

(* The thread's steps that leave the accounts alone and move on.           *)
LEMMA GotoLoses ==
  ASSUME Inv, LossInv,
         UNCHANGED <<hasVideo, hasAudio, afeed, vq, aq, locals, file, history>>,
         stopped' \in BOOLEAN, stopped => stopped', refused' = refused,
         \/ pc' = pc /\ outcome' = outcome
         \/ pc \in {"unspawned", "open"} /\ pc' \in BeforeVideoConfig /\ outcome' = outcome
         \/ pc = "header" /\ pc' = "loop" /\ outcome' = outcome
         \/ pc' = "leaving" /\ outcome' = "failed"
  PROVE  LossInv'
  <1> USE DEF LossInv, locals, file, history
  <1>1. Accepted' BY DEF Accepted, Opening, BeforeVideoConfig
  <1>2. VideoLine'
        BY DEF VideoLine, HasConfig, Packets, BeforeVideoConfig, Recording
  <1>3. AudioLine' BY DEF AudioLine, Packets, BeforeVideoConfig
  <1>4. Closing' BY DEF Closing, Packets, BeforeVideoConfig
  <1> QED BY <1>1, <1>2, <1>3, <1>4

LEMMA TakeVideoConfigLoses ==
  ASSUME Inv, LossInv, TakeVideoConfig
  PROVE  LossInv'
  <1>1. /\ pc = "videoConfig" /\ pc \in BeforeVideoConfig /\ pc \in Opening
        /\ pc' \in {"videoConfig", "audioConfig"}
        /\ UNCHANGED <<feeds, aq, stopped, locals, file, refused, outcome, history>>
        BY DEF TakeVideoConfig, BeforeVideoConfig, Opening
  <1>2. /\ HasConfig(vq) <=> HasConfig(acceptedV)
        /\ AfterConfig(vq) = AfterConfig(acceptedV)
        BY <1>1 DEF LossInv, VideoLine
  <1>3. /\ vq \in Seq(Packet) /\ acceptedV \in Seq(Packet) /\ ~HasConfig(<<>>)
        /\ AfterConfig(<<>>) = <<>>
        <2>1. Len(<<>>) = 0 /\ 1 .. 0 = {} BY EmptySeq, SMT
        <2>2. ~HasConfig(<<>>) BY <2>1 DEF HasConfig
        <2> QED BY <2>2, LossTypes DEF AfterConfig
  <1>4. /\ origin = Unknown /\ pendV = <<>> /\ pendA = <<>> /\ prevV = <<>>
        /\ fileV = <<>> /\ fileA = <<>>
        BY <1>1 DEF Inv, Absences, LossInv, Accepted
  <1>5. Accepted' BY <1>1, <1>4 DEF LossInv, Accepted, feeds, locals, history
  <1>6. AudioLine' BY <1>1 DEF LossInv, AudioLine, Packets, locals, file, history
  <1>7. Closing' BY <1>1 DEF LossInv, Closing
  <1>8. VideoLine'
        <2>1. acceptedV' = acceptedV /\ UNCHANGED <<stopped, hasVideo, refused>>
              /\ prevV' = <<>> /\ pendV' = <<>> /\ fileV' = <<>>
              BY <1>1, <1>4 DEF history, locals, file, feeds
        <2>2. HasConfig(vq)' = HasConfig(vq') /\ HasConfig(acceptedV)' = HasConfig(acceptedV)
              BY <2>1 DEF HasConfig
        <2>3. CASE ~hasVideo
              <3>1. pc' = "audioConfig" /\ vq' = vq BY <2>3 DEF TakeVideoConfig
              <3>2. vq = <<>> /\ acceptedV = <<>> BY <2>3 DEF Inv, Absences, LossInv, Accepted
              <3>3. Packets(<<>>) \o <<>> \o <<>> \o Media(<<>>) = Media(AfterConfig(<<>>))
                    <4>1. <<>> \o <<>> = <<>> BY EmptySeq, ConcatEmptySeq
                    <4> QED BY <1>3, <4>1, PacketsEmpty, MediaEmpty
              <3>4. Packets(fileV)' = Packets(<<>>) BY <2>1 DEF Packets
              <3> QED BY <2>1, <2>3, <3>1, <3>2, <3>3, <3>4 DEF VideoLine, BeforeVideoConfig
        <2>4. CASE hasVideo
              <3>1. /\ vq' = AfterConfig(vq)
                    /\ pc' = IF HasConfig(vq) \/ stopped THEN "audioConfig" ELSE pc
                    BY <2>4 DEF TakeVideoConfig
              <3>2. CASE HasConfig(vq) \/ stopped
                    <4>1. pc' = "audioConfig" BY <3>1, <3>2
                    <4>2. Media(AfterConfig(acceptedV)) \in Seq(Packet)
                          BY <1>3, AfterConfigFacts, MediaType
                    <4>3. Packets(<<>>) \o <<>> \o <<>> \o Media(vq') = Media(AfterConfig(acceptedV))
                          <5>1. <<>> \o <<>> = <<>> BY EmptySeq, ConcatEmptySeq
                          <5> QED BY <1>2, <3>1, <4>2, <5>1, PacketsEmpty, ConcatEmptySeq
                    <4>4. Packets(fileV)' = Packets(<<>>) BY <2>1 DEF Packets
                    <4> QED BY <1>2, <2>1, <2>2, <3>2, <4>1, <4>3, <4>4
                            DEF VideoLine, BeforeVideoConfig
              <3>3. CASE ~HasConfig(vq) /\ ~stopped
                    <4>1. pc' = "videoConfig" BY <1>1, <3>1, <3>3
                    <4>2. vq' = <<>> BY <3>1, <3>3 DEF AfterConfig
                    <4> QED BY <1>2, <1>3, <2>1, <2>2, <3>3, <4>1, <4>2
                            DEF VideoLine, Recording, AfterConfig
              <3> QED BY <3>2, <3>3
        <2> QED BY <2>3, <2>4
  <1> QED BY <1>5, <1>6, <1>7, <1>8 DEF LossInv

LEMMA TakeAudioConfigLoses ==
  ASSUME Inv, LossInv, TakeAudioConfig
  PROVE  LossInv'
  <1>1. /\ pc = "audioConfig" /\ pc' = "header" /\ pc \in Opening /\ pc \in Recording
        /\ aq' = AudioHead(aq)
        /\ UNCHANGED <<feeds, vq, stopped, locals, file, refused, outcome, history>>
        BY DEF TakeAudioConfig, Opening, Recording
  <1>2. Media(AudioHead(aq)) = Media(aq)
        <2>1. aq \in Seq(Packet) BY LossTypes
        <2>2. CASE aq # <<>> /\ IsConfig(Head(aq))
              <3>1. /\ Head(aq) \in Packet /\ Tail(aq) \in Seq(Packet)
                    /\ aq = <<Head(aq)>> \o Tail(aq)
                    BY <2>1, <2>2, HeadTailProperties, SMT
              <3>2. <<Head(aq)>> \in Seq(Packet) BY <3>1, SMT
              <3>3. Media(aq) = Media(<<Head(aq)>>) \o Media(Tail(aq))
                    BY <3>1, <3>2, MediaConcat
              <3>4. Media(<<Head(aq)>>) = <<>>
                    <4>1. Holds(<<Head(aq)>>) /\ IsConfig(<<Head(aq)>>[1])
                          BY <2>2 DEF Holds
                    <4> QED BY <3>1, <4>1, MediaOne DEF UnlessConfig
              <3>5. Media(Tail(aq)) \in Seq(Packet) BY <3>1, MediaType
              <3>6. Media(aq) = Media(Tail(aq)) BY <3>3, <3>4, <3>5, ConcatEmptySeq
              <3> QED BY <2>2, <3>6 DEF AudioHead
        <2> QED BY <2>2 DEF AudioHead
  <1>3. Accepted'
        <2>1. ~hasAudio => aq' = <<>> BY <1>1 DEF LossInv, Accepted, AudioHead
        <2> QED BY <1>1, <2>1 DEF LossInv, Accepted, feeds, locals, history
  <1>4. VideoLine'
        BY <1>1 DEF LossInv, VideoLine, HasConfig, Packets, BeforeVideoConfig, Recording,
                    feeds, locals, file, history
  <1>5. AudioLine' BY <1>1, <1>2 DEF LossInv, AudioLine, Packets, locals, file, history
  <1>6. Closing' BY <1>1 DEF LossInv, Closing
  <1> QED BY <1>3, <1>4, <1>5, <1>6 DEF LossInv

LEMMA TrailerLoses ==
  ASSUME Inv, LossInv, WriteTrailer \/ Leave
  PROVE  LossInv'
  <1>1. CASE Leave
        <2>1. /\ pc = "leaving" /\ pc' = "gone" /\ stopped' = TRUE /\ vq' = <<>> /\ aq' = <<>>
              /\ UNCHANGED <<feeds, locals, file, refused, outcome, history>>
              BY <1>1 DEF Leave, MarkStopped
        <2>2. Accepted' BY <2>1 DEF LossInv, Accepted, Opening, feeds, locals, history
        <2>3. VideoLine' BY <2>1 DEF VideoLine, BeforeVideoConfig, Recording
        <2>4. AudioLine' BY <2>1 DEF AudioLine
        <2>5. Closing' BY <2>1 DEF LossInv, Closing, Packets, file, history
        <2> QED BY <2>2, <2>3, <2>4, <2>5 DEF LossInv
  <1>2. CASE WriteTrailer
        <2>1. /\ pc = "trailer" /\ pc' = "leaving"
              /\ outcome' \in {"failed", IF refused THEN "failed" ELSE "written"}
              /\ UNCHANGED <<feeds, queues, locals, file, refused, history>>
              BY <1>2 DEF WriteTrailer
        <2>2. Accepted' BY <2>1 DEF LossInv, Accepted, Opening, feeds, locals, history, queues
        <2>3. VideoLine' BY <2>1 DEF VideoLine, BeforeVideoConfig, Recording
        <2>4. AudioLine' BY <2>1 DEF AudioLine
        <2>5. Closing'
              <3> SUFFICES ASSUME outcome' = "written"
                           PROVE  /\ stopped /\ Packets(fileV) = Media(AfterConfig(acceptedV))
                                  /\ Packets(fileA) = Media(acceptedA)
                  BY <2>1 DEF Closing, Packets, file, history, queues
              <3>1. ~refused BY <2>1
              <3>2. stopped /\ prevV = <<>> /\ pendV = <<>> /\ pendA = <<>> /\ vq = <<>> /\ aq = <<>>
                    BY <2>1, <3>1 DEF LossInv, Closing
              <3>3. /\ Packets(fileV) \o <<>> \o <<>> \o <<>> = Media(AfterConfig(acceptedV))
                    /\ Packets(fileA) \o <<>> \o <<>> = Media(acceptedA)
                    BY <2>1, <3>1, <3>2, MediaEmpty DEF LossInv, VideoLine, AudioLine, Recording
              <3>4. Packets(fileV) \in Seq(Packet) /\ Packets(fileA) \in Seq(Packet) BY LossTypes
              <3> QED BY <3>2, <3>3, <3>4, ConcatEmptySeq
        <2> QED BY <2>2, <2>3, <2>4, <2>5 DEF LossInv
  <1> QED BY <1>1, <1>2

(* A round that writes and is not refused puts its packets behind what the *)
(* file and the hand had.                                                  *)
LEMMA WriteAdds ==
  ASSUME Inv, NEW from \in Nat, NEW v \in Option, NEW a \in Option,
         Write(from, v, a), ~refused'
  PROVE  /\ Packets(fileV') \o prevV' = (Packets(fileV) \o prevV) \o v
         /\ Packets(fileA') = Packets(fileA) \o a
         /\ pc' = pc /\ refused' = refused
  <1> DEFINE due == IF Holds(v) THEN prevV ELSE <<>>
  <1>1. /\ fileV \in Seq(Written) /\ fileA \in Seq(Written) /\ prevV \in Option /\ due \in Option
        /\ Rising(fileV) /\ Rising(fileA)
        BY DEF Inv, Types, Ordered, Option
  <1>2. /\ fileV' = WriteAll(fileV, due, from) /\ fileA' = WriteAll(fileA, a, from)
        /\ prevV' = IF Holds(v) THEN v ELSE prevV
        /\ pc' = pc /\ refused' = refused
        BY DEF Write
  <1>3. Packets(fileA') = Packets(fileA) \o a BY <1>1, <1>2, PacketsWritten
  <1>4. Packets(fileV') = Packets(fileV) \o due
        <2> HIDE DEF due
        <2> QED BY <1>1, <1>2, PacketsWritten
  <1>5. /\ Packets(fileV) \in Seq(Packet) /\ prevV \in Seq(Packet)
        /\ Packets(fileV) \o prevV \in Seq(Packet)
        BY <1>1, PacketsType, OptionFacts, JoinedType
  <1>6. CASE Holds(v) BY <1>2, <1>3, <1>4, <1>6
  <1>7. CASE ~Holds(v)
        <2>1. v = <<>> /\ due = <<>> /\ prevV' = prevV BY <1>2, <1>7 DEF Holds
        <2>2. Packets(fileV') = Packets(fileV) BY <1>4, <1>5, <2>1, ConcatEmptySeq
        <2>3. (Packets(fileV) \o prevV) \o <<>> = Packets(fileV) \o prevV
              BY <1>5, ConcatEmptySeq
        <2> QED BY <1>2, <1>3, <2>1, <2>2, <2>3
  <1> QED BY <1>6, <1>7

(* What is held aside after the pops and what is left of the queue are     *)
(* what was held and queued.                                               *)
LEMMA PopsKeep ==
  ASSUME NEW q \in Seq(Packet), NEW o \in Option, o # <<>> => origin = Unknown
  PROVE  LET v == UnlessConfig(Popped(q, o))
             held == IF Holds(o) THEN o ELSE v
         IN  held \o Media(Rest(q, o)) = o \o Media(q)
  <1>1. Rest(q, o) \in Seq(Packet) /\ UnlessConfig(Popped(q, o)) \in Option BY PoppedFacts
  <1>2. Media(Rest(q, o)) \in Seq(Packet) /\ Media(q) \in Seq(Packet) BY <1>1, MediaType
  <1>3. Media(q) = UnlessConfig(Popped(q, o)) \o Media(Rest(q, o)) BY MediaSplit
  <1>4. CASE o = <<>> BY <1>2, <1>3, <1>4, ConcatEmptySeq DEF Holds
  <1>5. CASE o # <<>>
        <2>1. Popped(q, o) = <<>> BY <1>5 DEF Popped, ShouldPop, Holds
        <2>2. UnlessConfig(Popped(q, o)) = <<>> BY <2>1 DEF UnlessConfig, Holds
        <2>3. Media(Rest(q, o)) = Media(q) BY <1>2, <1>3, <2>2, ConcatEmptySeq
        <2> QED BY <1>5, <2>3 DEF Holds
  <1> QED BY <1>4, <1>5

LEMMA RoundLoses ==
  ASSUME Inv, LossInv, Round
  PROVE  LossInv'
  <1> DEFINE v0 == Popped(vq, pendV)
             a0 == IF hasAudio THEN Popped(aq, pendA) ELSE <<>>
             v == UnlessConfig(v0)
             a == UnlessConfig(a0)
             heldV == IF Holds(pendV) THEN pendV ELSE v
             heldA == IF Holds(pendA) THEN pendA ELSE a
  <1>1. /\ vq \in Seq(Packet) /\ aq \in Seq(Packet) /\ pendV \in Option /\ pendA \in Option
        /\ origin \in {Unknown} \union {<<n>> : n \in Nat}
        BY DEF Inv, Types
  <1>2. v \in Option /\ a \in Option
        BY <1>1, PoppedFacts DEF UnlessConfig, Holds, Option
  <1>3. heldV \in Option /\ heldA \in Option BY <1>1, <1>2
  <1>4. /\ pc = "loop" /\ UNCHANGED <<feeds, stopped, outcome, history>>
        /\ vq' = Rest(vq, pendV)
        /\ aq' = IF hasAudio THEN Rest(aq, pendA) ELSE aq
        BY DEF Round
  <1>5. origin # Unknown => pendV = <<>> /\ pendA = <<>> BY DEF LossInv, Accepted
  <1>6. ~hasAudio => aq = <<>> /\ pendA = <<>> BY DEF Inv, Absences, LossInv, Accepted
  <1>7. heldV \o Media(vq') = pendV \o Media(vq) BY <1>1, <1>4, <1>5, PopsKeep
  <1>8. heldA \o Media(aq') = pendA \o Media(aq)
        <2>1. CASE hasAudio BY <1>1, <1>4, <1>5, <2>1, PopsKeep
        <2>2. CASE ~hasAudio
              <3>1. a = <<>> BY <2>2 DEF UnlessConfig, Holds
              <3> QED BY <1>4, <1>6, <2>2, <3>1 DEF Holds
        <2> QED BY <2>1, <2>2
  <1>9. /\ Packets(fileV) \in Seq(Packet) /\ prevV \in Seq(Packet) /\ pendV \in Seq(Packet)
        /\ Packets(fileA) \in Seq(Packet) /\ pendA \in Seq(Packet)
        /\ Media(vq) \in Seq(Packet) /\ Media(aq) \in Seq(Packet)
        /\ heldV \in Seq(Packet) /\ heldA \in Seq(Packet)
        BY <1>3, LossTypes, OptionFacts
  <1>10. vq' \in Seq(Packet) /\ aq' \in Seq(Packet) BY <1>1, <1>4, PoppedFacts
  <1>11. Media(vq') \in Seq(Packet) /\ Media(aq') \in Seq(Packet) BY <1>10, MediaType
  <1> DEFINE inFileV == Packets(fileV) \o prevV
  <1>12. inFileV \in Seq(Packet) BY <1>9, JoinedType
  <1>13. ASSUME ~refused
         PROVE  /\ (inFileV \o heldV) \o Media(vq') = Media(AfterConfig(acceptedV))
                /\ (Packets(fileA) \o heldA) \o Media(aq') = Media(acceptedA)
                /\ hasVideo => HasConfig(acceptedV) \/ stopped
         <2>1. /\ (inFileV \o pendV) \o Media(vq) = Media(AfterConfig(acceptedV))
               /\ (Packets(fileA) \o pendA) \o Media(aq) = Media(acceptedA)
               /\ hasVideo => HasConfig(acceptedV) \/ stopped
               BY <1>4, <1>13 DEF LossInv, VideoLine, AudioLine, Recording
         <2> HIDE DEF inFileV, heldV, heldA
         <2>2. (inFileV \o heldV) \o Media(vq') = (inFileV \o pendV) \o Media(vq)
               <3>1. inFileV \o (heldV \o Media(vq')) = (inFileV \o heldV) \o Media(vq')
                     <4>1. heldV \in Seq(Packet) BY <1>9
                     <4>2. Media(vq') \in Seq(Packet) BY <1>11
                     <4> QED BY <1>12, <4>1, <4>2, JoinedOn
               <3>2. inFileV \o (pendV \o Media(vq)) = (inFileV \o pendV) \o Media(vq)
                     <4>1. pendV \in Seq(Packet) BY <1>9
                     <4>2. Media(vq) \in Seq(Packet) BY <1>9
                     <4> QED BY <1>12, <4>1, <4>2, JoinedOn
               <3> QED BY <1>7, <3>1, <3>2
         <2>3. (Packets(fileA) \o heldA) \o Media(aq') = (Packets(fileA) \o pendA) \o Media(aq)
               <3>1. Packets(fileA) \o (heldA \o Media(aq')) = (Packets(fileA) \o heldA) \o Media(aq')
                     <4>1. Packets(fileA) \in Seq(Packet) BY <1>9
                     <4>2. heldA \in Seq(Packet) BY <1>9
                     <4>3. Media(aq') \in Seq(Packet) BY <1>11
                     <4> QED BY <4>1, <4>2, <4>3, JoinedOn
               <3>2. Packets(fileA) \o (pendA \o Media(aq)) = (Packets(fileA) \o pendA) \o Media(aq)
                     <4>1. Packets(fileA) \in Seq(Packet) BY <1>9
                     <4>2. pendA \in Seq(Packet) BY <1>9
                     <4>3. Media(aq) \in Seq(Packet) BY <1>9
                     <4> QED BY <4>1, <4>2, <4>3, JoinedOn
               <3> QED BY <1>8, <3>1, <3>2
         <2> QED BY <2>1, <2>2, <2>3
  <1>14. CASE origin = Unknown /\ HoldBoth(heldV, heldA)
         <2> HIDE DEF heldV, heldA
         <2>1. /\ pendV' = heldV /\ pendA' = heldA
               /\ UNCHANGED <<origin, prevV, fileV, fileA, pc, refused, feeds, stopped, outcome, history>>
               BY <1>4, <1>14 DEF HoldBoth, file
         <2>2. Accepted'
               <3>1. ~hasAudio => aq' = <<>> BY <1>4, <1>6
               <3> QED BY <1>4, <1>14, <2>1, <3>1
                       DEF LossInv, Accepted, Opening, feeds, history
         <2>3. VideoLine'
               <3>1. Packets(fileV)' = Packets(fileV) BY <2>1 DEF Packets
               <3>2. HasConfig(acceptedV)' = HasConfig(acceptedV) BY <2>1 DEF HasConfig, history
               <3> QED BY <1>4, <1>13, <2>1, <3>1, <3>2
                       DEF VideoLine, BeforeVideoConfig, feeds, history
         <2>4. AudioLine'
               <3>1. Packets(fileA)' = Packets(fileA) BY <2>1 DEF Packets
               <3> QED BY <1>13, <2>1, <3>1 DEF AudioLine, history
         <2>5. Closing' BY <1>4, <2>1 DEF LossInv, Closing
         <2> QED BY <2>2, <2>3, <2>4, <2>5 DEF LossInv
  <1>15. ASSUME NEW from \in Nat, Write(from, heldV, heldA)
         PROVE  LossInv'
         <2> HIDE DEF heldV, heldA
         <2>1. /\ pendV' = <<>> /\ pendA' = <<>> /\ origin' # Unknown
               /\ pc' = "loop" \/ (pc' = "trailer" /\ refused')
               <3>1. pendV' = <<>> /\ pendA' = <<>> /\ origin' = <<from>>
                     BY <1>15 DEF Write, LetGo
               <3>2. pc' = pc \/ (pc' = "trailer" /\ refused')
                     BY <1>15 DEF Write
               <3>3. <<from>> # <<>> OBVIOUS
               <3> QED BY <1>4, <3>1, <3>2, <3>3 DEF Unknown
         <2>2. UNCHANGED <<hasVideo, hasAudio, afeed, stopped, outcome, acceptedV, acceptedA>>
               BY <1>4 DEF feeds, history
         <2>3. Accepted'
               <3>1. ~hasAudio => aq' = <<>> BY <1>4, <1>6
               <3> QED BY <2>1, <2>2, <3>1 DEF LossInv, Accepted
         <2>4. ASSUME ~refused'
               PROVE  /\ Packets(fileV') \o prevV' = inFileV \o heldV
                      /\ Packets(fileA') = Packets(fileA) \o heldA
                      /\ ~refused
               BY <1>3, <1>15, <2>4, WriteAdds
         <2>5. ASSUME ~refused'
               PROVE  /\ inFileV \o heldV \in Seq(Packet)
                      /\ Packets(fileA) \o heldA \in Seq(Packet)
               BY <1>9, <1>12, JoinedType
         <2> HIDE DEF inFileV
         <2>6. VideoLine'
               <3>1. Packets(fileV)' = Packets(fileV') BY DEF Packets
               <3>2. HasConfig(acceptedV)' = HasConfig(acceptedV) BY <2>2 DEF HasConfig
               <3> SUFFICES ASSUME ~refused'
                            PROVE  /\ Packets(fileV') \o prevV' \o pendV' \o Media(vq')
                                        = Media(AfterConfig(acceptedV))
                                   /\ hasVideo => HasConfig(acceptedV) \/ stopped
                   BY <2>1, <2>2, <3>1, <3>2 DEF VideoLine, BeforeVideoConfig
               <3>3. (inFileV \o heldV) \o <<>> = inFileV \o heldV BY <2>5, ConcatEmptySeq
               <3> QED BY <1>13, <2>1, <2>4, <3>3
         <2>7. AudioLine'
               <3>1. Packets(fileA)' = Packets(fileA') BY DEF Packets
               <3> SUFFICES ASSUME ~refused'
                            PROVE  Packets(fileA') \o pendA' \o Media(aq') = Media(acceptedA)
                   BY <2>2, <3>1 DEF AudioLine
               <3>2. (Packets(fileA) \o heldA) \o <<>> = Packets(fileA) \o heldA
                     BY <2>5, ConcatEmptySeq
               <3> QED BY <1>13, <2>1, <2>4, <3>2
         <2>8. Closing' BY <1>4, <2>1, <2>2 DEF LossInv, Closing
         <2> QED BY <2>3, <2>6, <2>7, <2>8 DEF LossInv
  <1>16. CASE origin # Unknown
         <2>1. Write(origin[1], v, a) BY <1>16 DEF Round
         <2>2. origin[1] \in Nat /\ heldV = v /\ heldA = a BY <1>1, <1>5, <1>16 DEF Holds
         <2>3. Write(origin[1], heldV, heldA) BY <2>1, <2>2
         <2> HIDE DEF heldV, heldA
         <2> QED BY <1>15, <2>2, <2>3
  <1>17. CASE /\ origin = Unknown /\ Write(OriginOf(heldV, heldA), heldV, heldA)
              /\ BothSeen(heldV, heldA) \/ (stopped /\ (Holds(heldV) \/ Holds(heldA)))
         <2> HIDE DEF heldV, heldA
         <2>1. Holds(heldV) \/ Holds(heldA)
               <3>1. hasVideo \/ hasAudio BY DEF Inv, Absences
               <3> QED BY <1>17, <3>1 DEF BothSeen
         <2>2. /\ Holds(heldV) => heldV[1].pts \in Nat
               /\ Holds(heldA) => heldA[1].pts \in Nat
               BY <1>3 DEF Holds, Option, Packet
         <2>3. OriginOf(heldV, heldA) \in Nat BY <2>1, <2>2, SMT DEF OriginOf, Earlier
         <2> QED BY <1>15, <1>17, <2>3
  <1> QED BY <1>14, <1>16, <1>17 DEF Round

LEMMA LastLoses ==
  ASSUME Inv, LossInv, LastPacket
  PROVE  LossInv'
  <1> DEFINE from == IF origin = Unknown THEN 0 ELSE origin[1]
  <1>1. /\ pc = "loop" /\ pc' = "trailer" /\ prevV' = <<>> /\ stopped
        /\ ~Holds(Popped(vq, pendV)) /\ ~Holds(pendV) /\ ~Holds(pendA)
        /\ hasAudio => ~Holds(Popped(aq, pendA))
        /\ UNCHANGED <<feeds, queues, origin, pendV, pendA, fileA, outcome, history>>
        BY DEF LastPacket, Over
  <1>2. pendV = <<>> /\ pendA = <<>> BY <1>1 DEF Holds
  <1>3. vq = <<>> BY <1>1, <1>2 DEF Popped, ShouldPop, Holds
  <1>4. aq = <<>> BY <1>1, <1>2 DEF Popped, ShouldPop, Holds, LossInv, Accepted
  <1>5. Accepted' BY <1>1, <1>2 DEF LossInv, Accepted, feeds, queues, history
  <1>6. ASSUME ~refused' PROVE Packets(fileV') = Packets(fileV) \o prevV /\ ~refused
        <2>1. fileV' = WriteAll(fileV, prevV, from) /\ ~refused BY <1>6 DEF LastPacket
        <2>2. from \in Nat /\ fileV \in Seq(Written) /\ prevV \in Option /\ Rising(fileV)
              BY DEF Inv, Types, Ordered
        <2> HIDE DEF from
        <2> QED BY <2>1, <2>2, PacketsWritten
  <1>7. Packets(fileV) \in Seq(Packet) /\ prevV \in Seq(Packet)
        /\ Packets(fileV) \o prevV \in Seq(Packet)
        BY LossTypes, JoinedType
  <1>8. VideoLine'
        <2>1. Packets(fileV)' = Packets(fileV') BY DEF Packets
        <2>2. HasConfig(acceptedV)' = HasConfig(acceptedV) BY <1>1 DEF HasConfig, history
        <2> SUFFICES ASSUME ~refused'
                     PROVE  /\ Packets(fileV') \o <<>> \o <<>> \o <<>> = Media(AfterConfig(acceptedV))
                            /\ hasVideo => HasConfig(acceptedV) \/ stopped
            BY <1>1, <1>2, <1>3, <2>1, <2>2, MediaEmpty
               DEF VideoLine, BeforeVideoConfig, queues, history, feeds
        <2>3. (Packets(fileV) \o prevV) \o <<>> \o <<>> = Media(AfterConfig(acceptedV))
              BY <1>1, <1>2, <1>3, <1>6, MediaEmpty DEF LossInv, VideoLine, Recording
        <2>4. /\ (Packets(fileV) \o prevV) \o <<>> = Packets(fileV) \o prevV
              /\ Packets(fileV') = Packets(fileV) \o prevV
              BY <1>6, <1>7, ConcatEmptySeq
        <2> QED BY <1>1, <2>3, <2>4
  <1>9. AudioLine' BY <1>1, <1>6 DEF LossInv, AudioLine, Packets, queues, history
  <1>10. Closing' BY <1>1, <1>2, <1>3, <1>4 DEF LossInv, Closing, queues
  <1> QED BY <1>5, <1>8, <1>9, <1>10 DEF LossInv

LEMMA LossStep ==
  ASSUME Inv, LossInv, [Next]_vars
  PROVE  LossInv'
  <1>1. stopped \in BOOLEAN BY DEF Inv, Types
  <1>2. CASE UNCHANGED vars
        BY <1>2, LossSame DEF vars, locals, file, history
  <1>3. CASE Finished BY <1>2, <1>3 DEF Finished
  <1>4. CASE Stop \/ Spawn \/ Open \/ WriteHeader
        <2>1. UNCHANGED <<hasVideo, hasAudio, afeed, vq, aq, locals, file, history>>
              /\ refused' = refused
              BY <1>4 DEF Stop, Spawn, Open, WriteHeader, Goto, Fail, queues, feeds
        <2>2. stopped' \in BOOLEAN /\ (stopped => stopped')
              BY <1>1, <1>4 DEF Stop, Spawn, Open, WriteHeader, Goto, Fail, queues
        <2>3. \/ pc' = pc /\ outcome' = outcome
              \/ pc \in {"unspawned", "open"} /\ pc' \in BeforeVideoConfig /\ outcome' = outcome
              \/ pc = "header" /\ pc' = "loop" /\ outcome' = outcome
              \/ pc' = "leaving" /\ outcome' = "failed"
              BY <1>4 DEF Stop, Spawn, Open, WriteHeader, Goto, Fail, BeforeVideoConfig
        <2> QED BY <2>1, <2>2, <2>3, GotoLoses
  <1> QED BY <1>2, <1>3, <1>4, PushVideoLoses, PushAudioLoses, TakeVideoConfigLoses,
             TakeAudioConfigLoses, RoundLoses, LastLoses, TrailerLoses
          DEF Next, Thread

(* Nothing accepted is lost or reordered on its way to the file, whatever  *)
(* the streams carry and whenever the stop comes; a file reported written  *)
(* is whole; a recorder whose thread is gone holds nothing.                *)
THEOREM NothingIsLost == Spec => []NothingAcceptedIsLost
  <1>1. LossInv => NothingAcceptedIsLost
        BY DEF LossInv, VideoLine, AudioLine, Closing, Recording, NothingAcceptedIsLost
  <1> QED BY <1>1, InitKeeps, StepKeeps, LossInit, LossStep, PTL DEF Spec

--------------------------------------------------------------------------------
(***************************************************************************)
(* Recordings in a running session, for any number of packets and          *)
(* recordings: no recorder is orphaned, none has a hole in it, and a       *)
(* failure that has happened is what is reported.                          *)
(*                                                                         *)
(* The inductive invariant adds to the types what the event loop is in the *)
(* middle of (Slots), that the seeds are packets already read (Seeds), and *)
(* for the recorder in the slot how the last packet it was given stands to *)
(* the next one its reader will give it (Runs).                            *)
(***************************************************************************)

Kinds == {"config", "key", "delta", "audio"}
GivenPackets == [kind : Kinds, n : Nat]

(* The number of the packet that will be pushed next.                      *)
Coming(s) == IF demux[s] = "push" THEN read[s] ELSE read[s] + 1

RecordingTypes ==
  /\ slot \in 0 .. started /\ started \in 0 .. MaxRecordings
  /\ demux \in [Streams -> {"read", "push", "ended"}]
  /\ read \in [Streams -> Nat] /\ configSeen \in [Streams -> Nat]
  /\ kind \in [Streams -> Kinds] /\ videoNext \in Kinds
  /\ got \in [Recordings -> [Streams -> Seq(GivenPackets)]]
  /\ refusing \in [Recordings -> BOOLEAN]
  /\ thread \in [Recordings -> {"none", "running", "written", "failed"}]
  /\ reported \in [Recordings -> {"nothing", "written", "failed"}]
  /\ caller \in {"idle", "seeding", "installing", "waiting", "unfinished"}

Slots ==
  /\ caller # "idle" => slot = None
  /\ caller \in {"seeding", "installing"} => started # 0
  /\ \A r \in Recordings : r > started => thread[r] = "none"

Seeds ==
  /\ \A s \in Streams : configSeen[s] <= read[s]
  /\ caller = "installing" =>
       \A s \in Streams : Len(got[started][s]) <= 1

(* How what r was given of s stands to the packet that comes next.         *)
Continues(r, s) ==
  /\ Len(got[r][s]) = 1 => got[r][s][1].n <= Coming(s)
  /\ Len(got[r][s]) >= 2 => got[r][s][Len(got[r][s])].n = Coming(s) - 1

Runs ==
  \A s \in Streams :
    /\ slot # None /\ ~refusing[slot] => Continues(slot, s)
    /\ caller = "installing" => Continues(started, s)

RecordingInv == RecordingTypes /\ Slots /\ Seeds /\ Runs /\ NoOrphanRecorder /\ NoHoleInARecording

-------------------------------------------------------------------------------
(* The one element of a run of packets is a packet, and numbered.          *)
LEMMA OneElement ==
  ASSUME NEW q \in Seq(GivenPackets), Len(q) = 1
  PROVE  q[1] \in GivenPackets /\ q[1].n \in Nat
  <1>1. 1 \in 1 .. Len(q) BY SMT
  <1>2. q[1] \in GivenPackets BY <1>1
  <1> QED BY <1>2 DEF GivenPackets

(* The slot holds a recording, and the counter stays within the bound.     *)
LEMMA SlotFacts ==
  ASSUME RecordingTypes
  PROVE  /\ slot # None => slot \in Recordings
         /\ started < MaxRecordings => started + 1 \in Recordings
         /\ started \in Nat
  BY SessionAssumption, SMT DEF RecordingTypes, Recordings, None

LEMMA RecordingInitKeeps == RecordingInit => RecordingInv
  <1> SUFFICES ASSUME RecordingInit PROVE RecordingInv OBVIOUS
  <1>1. <<>> \in Seq(GivenPackets) /\ Len(<<>>) = 0 BY SMT
  <1>2. RecordingTypes
        BY <1>1, SessionAssumption, SMT
        DEF RecordingInit, RecordingTypes, Recordings, None, Kinds, Streams
  <1>3. Slots /\ Seeds /\ Runs
        BY SessionAssumption, SMT DEF RecordingInit, Slots, Seeds, Runs, Recordings, None, Streams
  <1>4. NoOrphanRecorder BY DEF RecordingInit, NoOrphanRecorder
  <1>5. NoHoleInARecording BY <1>1, SMT DEF RecordingInit, NoHoleInARecording
  <1> QED BY <1>2, <1>3, <1>4, <1>5 DEF RecordingInv

(* A packet is read: it is the one that comes next, and nothing is given.  *)
LEMMA ReadKeeps ==
  ASSUME RecordingInv, NEW t \in Streams, NEW k \in Kinds, ReadPacket(t, k), videoNext' \in Kinds
  PROVE  RecordingInv'
  <1> USE DEF RecordingInv, ReadPacket, recorders
  <1>1. RecordingTypes' BY SMT DEF RecordingTypes
  <1>2. \A s \in Streams : Coming(s)' = Coming(s)
        BY SMT DEF Coming, RecordingTypes
  <1>3. Slots' BY DEF Slots
  <1>4. Seeds'
        BY SMT DEF Seeds, RecordingTypes
  <1>5. Runs' BY <1>2 DEF Runs, Continues
  <1>6. NoOrphanRecorder' BY DEF NoOrphanRecorder
  <1>7. NoHoleInARecording' BY DEF NoHoleInARecording
  <1> QED BY <1>1, <1>3, <1>4, <1>5, <1>6, <1>7

(* The packet in hand is given to the recorder in the slot.                *)
LEMMA PushPacketKeeps ==
  ASSUME RecordingInv, NEW t \in Streams, PushPacket(t)
  PROVE  RecordingInv'
  <1> USE DEF RecordingInv
  <1> DEFINE x == P(kind[t], read[t])
             q == got[slot][t]
  <1>1. x \in GivenPackets /\ x.n = read[t] /\ read[t] \in Nat
        BY SMT DEF RecordingTypes, P, GivenPackets
  <1>2. /\ demux[t] = "push" /\ Coming(t) = read[t] /\ Coming(t)' = read[t] + 1
        /\ \A s \in Streams : s # t => Coming(s)' = Coming(s)
        BY SMT DEF PushPacket, RecordingTypes, Coming
  <1>3. \A s \in Streams : Coming(s) \in Nat /\ Coming(s)' \in Nat
        BY SMT DEF PushPacket, RecordingTypes, Coming
  <1>4. CASE got' = got
        <2>1. RecordingTypes' BY <1>4, SMT DEF PushPacket, RecordingTypes
        <2>2. Slots' BY DEF PushPacket, Slots
        <2>3. Seeds' BY <1>4 DEF PushPacket, Seeds
        <2>4. ~(slot # None /\ ~refusing[slot]) \/ got' # got
              <3> SUFFICES ASSUME slot # None, ~refusing[slot] PROVE got' # got OBVIOUS
              <3>1. got' = [got EXCEPT ![slot][t] = Append(@, x)]
                    BY DEF PushPacket, Give
              <3>2. slot \in Recordings BY SessionAssumption, SMT DEF RecordingTypes, Recordings, None
              <3>3. q \in Seq(GivenPackets) BY <3>2 DEF RecordingTypes
              <3>4. got'[slot][t] = Append(q, x) BY <3>1, <3>2 DEF RecordingTypes
              <3>5. Len(Append(q, x)) = Len(q) + 1 /\ Len(q) \in Nat
                    BY <1>1, <3>3, AppendFacts
              <3>6. Append(q, x) # q BY <3>5, SMT
              <3> QED BY <3>4, <3>6
        <2>5. Runs'
              <3> SUFFICES ASSUME NEW s \in Streams, caller = "installing"
                           PROVE  Continues(started, s)'
                  BY <1>4, <2>4 DEF Runs, PushPacket
              <3>1. Continues(started, s) /\ Len(got[started][s]) <= 1
                    BY DEF Runs, Seeds
              <3>2. started \in Recordings
                    BY SessionAssumption, SMT DEF RecordingTypes, Slots, Recordings
              <3>3. /\ got[started][s] \in Seq(GivenPackets) /\ Len(got[started][s]) \in Nat
                    /\ Len(got[started][s]) = 1 => got[started][s][1].n \in Nat
                    <4>1. got[started][s] \in Seq(GivenPackets) BY <3>2 DEF RecordingTypes
                    <4>2. Len(got[started][s]) \in Nat BY <4>1, SMT
                    <4> QED BY <4>1, <4>2, OneElement
              <3>4. Coming(s) <= Coming(s)' BY <1>1, <1>2, <1>3, SMT
              <3>5. got' = got /\ started' = started BY <1>4 DEF PushPacket
              <3> QED BY <1>3, <3>1, <3>3, <3>4, <3>5, SMT DEF Continues
        <2>6. NoOrphanRecorder' BY DEF PushPacket, NoOrphanRecorder
        <2>7. NoHoleInARecording' BY <1>4 DEF PushPacket, NoHoleInARecording
        <2> QED BY <2>1, <2>2, <2>3, <2>5, <2>6, <2>7
  <1>5. CASE slot # None /\ ~refusing[slot] /\ got' = [got EXCEPT ![slot][t] = Append(@, x)]
        <2>1. slot \in Recordings BY <1>5, SessionAssumption, SMT DEF RecordingTypes, Recordings, None
        <2>2. q \in Seq(GivenPackets) BY <2>1 DEF RecordingTypes
        <2>3. /\ Append(q, x) \in Seq(GivenPackets) /\ Len(Append(q, x)) = Len(q) + 1
              /\ \A i \in 1 .. Len(q) : Append(q, x)[i] = q[i]
              /\ Append(q, x)[Len(q) + 1] = x /\ Len(q) \in Nat
              BY <1>1, <2>2, AppendFacts
        <2>4. /\ got'[slot][t] = Append(q, x)
              /\ \A r \in Recordings, s \in Streams :
                   ~(r = slot /\ s = t) => got'[r][s] = got[r][s]
              BY <1>5, <2>1 DEF RecordingTypes
        <2>5. RecordingTypes'
              <3>1. got' \in [Recordings -> [Streams -> Seq(GivenPackets)]]
                    BY <1>5, <2>1, <2>3 DEF RecordingTypes
              <3> QED BY <3>1, SMT DEF PushPacket, RecordingTypes
        <2>6. caller = "idle" BY <1>5 DEF Slots
        <2>7. Slots' /\ Seeds' BY <2>6 DEF PushPacket, Slots, Seeds
        <2>8. Continues(slot, t) BY <1>5 DEF Runs
        <2>9. Runs'
              <3> SUFFICES ASSUME NEW s \in Streams PROVE Continues(slot, s)'
                  BY <2>6 DEF Runs, PushPacket
              <3>1. slot' = slot BY DEF PushPacket
              <3>2. CASE s = t
                    <4> HIDE DEF q, x
                    <4> QED BY <1>1, <1>2, <2>3, <2>4, <3>1, <3>2, SMT DEF Continues
              <3>3. CASE s # t
                    <4>1. Continues(slot, s) BY <1>5 DEF Runs
                    <4>2. got'[slot][s] = got[slot][s] BY <2>1, <2>4, <3>3
                    <4> QED BY <1>2, <3>1, <3>3, <4>1, <4>2 DEF Continues
              <3> QED BY <3>2, <3>3
        <2>10. NoOrphanRecorder' BY DEF PushPacket, NoOrphanRecorder
        <2>11. NoHoleInARecording'
              <3> SUFFICES ASSUME NEW r \in Recordings, NEW s \in Streams,
                                  NEW i \in 2 .. Len(got'[r][s])
                           PROVE  \/ got'[r][s][i].n = got'[r][s][i - 1].n + 1
                                  \/ i = 2 /\ got'[r][s][i].n >= got'[r][s][1].n
                  BY DEF NoHoleInARecording
              <3>1. CASE ~(r = slot /\ s = t)
                    BY <2>4, <3>1 DEF NoHoleInARecording
              <3>2. CASE r = slot /\ s = t /\ i # Len(q) + 1
                    <4>1. i \in 2 .. Len(q) /\ i - 1 \in 1 .. Len(q) /\ i \in 1 .. Len(q)
                          BY <2>3, <2>4, <3>2, SMT
                    <4>2. \/ q[i].n = q[i - 1].n + 1
                          \/ i = 2 /\ q[i].n >= q[1].n
                          BY <2>1, <3>2, <4>1 DEF NoHoleInARecording
                    <4>3. 1 \in 1 .. Len(q) BY <4>1, SMT
                    <4> HIDE DEF q, x
                    <4> QED BY <2>3, <2>4, <3>2, <4>1, <4>2, <4>3
              <3>3. CASE r = slot /\ s = t /\ i = Len(q) + 1
                    <4>1. /\ got'[r][s][i] = x
                          /\ got'[r][s][i - 1] = q[Len(q)]
                          /\ i = 2 => got'[r][s][1] = q[1]
                          BY <2>3, <2>4, <3>3, SMT
                    <4>2. CASE i = 2
                          <5>0. Len(q) = 1
                                <6>1. \A n \in Nat : 2 = n + 1 => n = 1 BY SMT
                                <6> HIDE DEF q, x
                                <6> QED BY <2>3, <3>3, <4>2, <6>1
                          <5>1. q[1].n <= read[t] BY <1>2, <2>8, <5>0 DEF Continues
                          <5>2. q[1].n \in Nat BY <2>2, <5>0, OneElement
                          <5> HIDE DEF q, x
                          <5> QED BY <1>1, <4>1, <4>2, <5>1, <5>2, SMT
                    <4>3. CASE i # 2
                          <5>1. Len(q) >= 2 BY <2>3, <3>3, <4>3, SMT
                          <5>2. q[Len(q)].n = read[t] - 1
                                BY <1>2, <2>8, <5>1 DEF Continues
                          <5> HIDE DEF q, x
                          <5> QED BY <1>1, <4>1, <5>2, SMT
                    <4> QED BY <4>2, <4>3
              <3> QED BY <3>1, <3>2, <3>3
        <2> QED BY <2>5, <2>7, <2>9, <2>10, <2>11
  <1> QED BY <1>4, <1>5 DEF PushPacket, Give

(* The video stream ends: what is in the slot is stopped.                  *)
LEMMA VideoEndsKeeps ==
  ASSUME RecordingInv, VideoEnds
  PROVE  RecordingInv'
  <1> USE DEF RecordingInv, VideoEnds
  <1>1. RecordingTypes'
        <2>1. demux' \in [Streams -> {"read", "push", "ended"}] BY DEF RecordingTypes
        <2>2. refusing' \in [Recordings -> BOOLEAN] BY DEF RecordingTypes
        <2> QED BY <2>1, <2>2 DEF RecordingTypes
  <1>2. \A s \in Streams : Coming(s)' = Coming(s) BY DEF Coming, RecordingTypes
  <1>3. slot # None => slot \in Recordings /\ refusing'[slot]
        BY SlotFacts DEF RecordingTypes
  <1>4. Slots' /\ Seeds' BY DEF Slots, Seeds
  <1>5. Runs' BY <1>2, <1>3 DEF Runs, Continues
  <1>6. NoOrphanRecorder'
        <2> SUFFICES ASSUME NEW r \in Recordings, thread[r] = "running", ~refusing'[r]
                     PROVE  slot = r \/ (caller \in {"seeding", "installing"} /\ started = r)
            BY DEF NoOrphanRecorder
        <2>1. ~refusing[r] BY DEF RecordingTypes
        <2> QED BY <2>1 DEF NoOrphanRecorder
  <1>7. NoHoleInARecording' BY DEF NoHoleInARecording
  <1> QED BY <1>1, <1>4, <1>5, <1>6, <1>7

(* A recording is started while none is in the slot.                       *)
LEMMA StartKeeps ==
  ASSUME RecordingInv, Start
  PROVE  RecordingInv'
  <1> USE DEF RecordingInv, Start, readers
  <1>1. started + 1 \in Recordings /\ started + 1 # 0 /\ started' = started + 1
        <2>1. \A n \in Nat : n + 1 # 0 BY SMT
        <2>2. RecordingTypes /\ started < MaxRecordings /\ started' = started + 1 OBVIOUS
        <2>3. started \in Nat /\ started + 1 \in Recordings BY <2>2, SlotFacts
        <2> HIDE DEF RecordingInv, Start
        <2> QED BY <2>1, <2>2, <2>3
  <1>2. RecordingTypes'
        <2>1. thread' \in [Recordings -> {"none", "running", "written", "failed"}]
              BY <1>1 DEF RecordingTypes
        <2>2. started' \in 0 .. MaxRecordings /\ slot \in 0 .. started'
              <3>1. started \in 0 .. MaxRecordings /\ started < MaxRecordings /\ slot = 0
                    BY DEF RecordingTypes, None
              <3> HIDE DEF RecordingInv, Start
              <3> QED BY <1>1, <3>1, SessionAssumption, SMT
        <2> QED BY <2>1, <2>2 DEF RecordingTypes
  <1>3. Slots'
        <2>1. \A r \in Recordings : r > started + 1 => r > started /\ r # started + 1
              BY SMT DEF RecordingTypes, Recordings
        <2>2. \A r \in Recordings : r > started' => thread'[r] = "none"
              BY <1>1, <2>1 DEF Slots, RecordingTypes
        <2> QED BY <1>1, <2>2 DEF Slots
  <1>4. Seeds' BY DEF Seeds
  <1>5. Runs' BY DEF Runs
  <1>6. NoOrphanRecorder'
        <2> SUFFICES ASSUME NEW r \in Recordings, thread'[r] = "running", ~refusing[r]
                     PROVE  started + 1 = r
            BY DEF NoOrphanRecorder
        <2>1. CASE thread[r] = "running"
              <3>1. slot = r BY <2>1 DEF NoOrphanRecorder
              <3>2. r # 0 BY SMT DEF Recordings
              <3> QED BY <3>1, <3>2 DEF None
        <2> QED BY <2>1 DEF RecordingTypes
  <1>7. NoHoleInARecording' BY DEF NoHoleInARecording
  <1> QED BY <1>2, <1>3, <1>4, <1>5, <1>6, <1>7

(* The config packets go in first: at most one of each stream, which was   *)
(* read before the one that comes next.                                    *)
LEMMA SeedKeeps ==
  ASSUME RecordingInv, Seed
  PROVE  RecordingInv'
  <1> USE DEF RecordingInv, Seed, readers
  <1> DEFINE seed(s) == IF configSeen[s] = None \/ refusing[started]
                          THEN <<>> ELSE <<P("config", configSeen[s])>>
  <1>1. started \in Recordings
        BY SessionAssumption, SMT DEF RecordingTypes, Slots, Recordings
  <1>2. ASSUME NEW s \in Streams
        PROVE  /\ seed(s) \in Seq(GivenPackets) /\ Len(seed(s)) <= 1
               /\ Len(seed(s)) = 1 => seed(s)[1].n = configSeen[s]
        <2>1. P("config", configSeen[s]) \in GivenPackets BY DEF P, GivenPackets, Kinds, RecordingTypes
        <2>2. P("config", configSeen[s]).n = configSeen[s] BY DEF P
        <2>3. CASE configSeen[s] = None \/ refusing[started]
              <3>1. seed(s) = <<>> BY <2>3
              <3>2. <<>> \in Seq(GivenPackets) /\ Len(<<>>) = 0 BY SMT
              <3> HIDE DEF seed
              <3> QED BY <3>1, <3>2, SMT
        <2>4. CASE ~(configSeen[s] = None \/ refusing[started])
              <3>1. seed(s) = <<P("config", configSeen[s])>> BY <2>4
              <3> HIDE DEF seed
              <3>2. \A x \in GivenPackets : <<x>> \in Seq(GivenPackets) /\ Len(<<x>>) = 1 /\ <<x>>[1] = x
                    BY SMT
              <3> QED BY <2>1, <2>2, <3>1, <3>2, SMT
        <2> QED BY <2>3, <2>4
  <1>3. /\ \A s \in Streams : got'[started][s] = seed(s)
        /\ \A r \in Recordings : r # started => got'[r] = got[r]
        BY <1>1 DEF RecordingTypes
  <1>4. RecordingTypes'
        <2>1. [s \in Streams |-> seed(s)] \in [Streams -> Seq(GivenPackets)] BY <1>2
        <2>2. got' \in [Recordings -> [Streams -> Seq(GivenPackets)]]
              BY <1>1, <2>1 DEF RecordingTypes
        <2> HIDE DEF seed
        <2> QED BY <2>2, SMT DEF RecordingTypes
  <1>5. Slots' BY DEF Slots
  <1>6. Seeds' BY <1>2, <1>3 DEF Seeds
  <1>7. Runs'
        <2> HIDE DEF seed
        <2>1. ASSUME NEW s \in Streams PROVE Continues(started, s)'
              <3>1. configSeen[s] <= Coming(s) /\ Coming(s)' = Coming(s)
                    BY SMT DEF Seeds, RecordingTypes, Coming
              <3>2. Len(seed(s)) \in Nat /\ Len(seed(s)) <= 1 BY <1>2
              <3>3. ~(Len(seed(s)) >= 2) BY <3>2, SMT
              <3> QED BY <1>2, <1>3, <3>1, <3>3 DEF Continues
        <2> QED BY <2>1 DEF Runs, Slots
  <1>8. NoOrphanRecorder' BY DEF NoOrphanRecorder
  <1>9. NoHoleInARecording'
        <2> HIDE DEF seed
        <2> SUFFICES ASSUME NEW r \in Recordings, NEW s \in Streams,
                            NEW i \in 2 .. Len(got'[r][s])
                     PROVE  \/ got'[r][s][i].n = got'[r][s][i - 1].n + 1
                            \/ i = 2 /\ got'[r][s][i].n >= got'[r][s][1].n
            BY DEF NoHoleInARecording
        <2>1. CASE r = started
              <3>1. Len(seed(s)) \in Nat /\ Len(seed(s)) <= 1 BY <1>2
              <3>2. i \in 2 .. Len(seed(s)) BY <1>3, <2>1
              <3> QED BY <3>1, <3>2, SMT
        <2>2. CASE r # started
              BY <1>3, <2>2 DEF NoHoleInARecording
        <2> QED BY <2>1, <2>2
  <1> QED BY <1>4, <1>5, <1>6, <1>7, <1>8, <1>9

(* The recorder takes the slot.                                            *)
LEMMA InstallKeeps ==
  ASSUME RecordingInv, Install
  PROVE  RecordingInv'
  <1> USE DEF RecordingInv, Install, readers, recorders
  <1>1. started \in Recordings /\ started \in 0 .. started
        BY SessionAssumption, SMT DEF RecordingTypes, Slots, Recordings
  <1>2. RecordingTypes' BY <1>1 DEF RecordingTypes
  <1>3. Slots' /\ Seeds' BY DEF Slots, Seeds
  <1>4. \A s \in Streams : Coming(s)' = Coming(s) BY DEF Coming
  <1>5. Runs' BY <1>4 DEF Runs, Continues
  <1>6. NoOrphanRecorder'
        <2> SUFFICES ASSUME NEW r \in Recordings, thread[r] = "running", ~refusing[r]
                     PROVE  started = r
            BY DEF NoOrphanRecorder
        <2>1. slot = r \/ started = r BY DEF NoOrphanRecorder
        <2>2. slot = None /\ r # 0 BY SMT DEF Slots, Recordings
        <2> QED BY <2>1, <2>2 DEF None
  <1>7. NoHoleInARecording' BY DEF NoHoleInARecording
  <1> QED BY <1>2, <1>3, <1>5, <1>6, <1>7

(* The recorder leaves the slot, and is stopped.                           *)
LEMMA StopKeeps ==
  ASSUME RecordingInv, StopRecording
  PROVE  RecordingInv'
  <1> USE DEF RecordingInv, StopRecording, readers
  <1>1. slot \in Recordings /\ 0 \in 0 .. started
        BY SessionAssumption, SMT DEF RecordingTypes, Recordings, None
  <1>2. RecordingTypes' BY <1>1 DEF RecordingTypes, None
  <1>3. Slots' /\ Seeds' BY DEF Slots, Seeds
  <1>4. Runs' BY DEF Runs
  <1>5. NoOrphanRecorder'
        <2> SUFFICES ASSUME NEW r \in Recordings, thread[r] = "running", ~refusing'[r]
                     PROVE  FALSE
            BY DEF NoOrphanRecorder
        <2>1. ~refusing[r] /\ r # slot BY <1>1 DEF RecordingTypes
        <2> QED BY <2>1 DEF NoOrphanRecorder, Slots
  <1>6. NoHoleInARecording' BY DEF NoHoleInARecording
  <1> QED BY <1>2, <1>3, <1>4, <1>5, <1>6

(* The wait for the file looks, sleeps, and ends one way or the other.     *)
LEMMA WaitKeeps ==
  ASSUME RecordingInv, Wait \/ TimePasses
  PROVE  RecordingInv'
  <1> USE DEF RecordingInv, Wait, WaitEnds, StillRunning, SleepsOn, GivesUp, TimePasses, Answer,
              readers, recorders
  <1>1. RecordingTypes' BY DEF RecordingTypes, JoinAnswer
  <1>2. Slots' /\ Seeds' BY DEF Slots, Seeds
  <1>3. \A s \in Streams : Coming(s)' = Coming(s) BY DEF Coming
  <1>4. Runs' BY <1>3 DEF Runs, Continues
  <1>5. NoOrphanRecorder' BY DEF NoOrphanRecorder
  <1>6. NoHoleInARecording' BY DEF NoHoleInARecording
  <1> QED BY <1>1, <1>2, <1>4, <1>5, <1>6

(* A recorder's thread ends, after a stop or by itself.                    *)
LEMMA ThreadKeeps ==
  ASSUME RecordingInv, NEW k \in Recordings, ThreadEnds(k) \/ ThreadFails(k)
  PROVE  RecordingInv'
  <1> USE DEF RecordingInv
  <1>1. /\ UNCHANGED <<slot, threadSlot, readers, resetPending, caller, late, started, got, reported>>
        /\ \/ \E how \in {"written", "failed"} : thread' = [thread EXCEPT ![k] = how]
           \/ thread' = [thread EXCEPT ![k] = "failed"]
        /\ refusing' \in {refusing, [refusing EXCEPT ![k] = TRUE]}
        BY DEF ThreadEnds, ThreadFails
  <1>2. RecordingTypes'
        <2>1. thread' \in [Recordings -> {"none", "running", "written", "failed"}]
              BY <1>1 DEF RecordingTypes
        <2>2. refusing' \in [Recordings -> BOOLEAN]
              <3>1. CASE refusing' = refusing BY <3>1 DEF RecordingTypes
              <3>2. CASE refusing' = [refusing EXCEPT ![k] = TRUE] BY <3>2 DEF RecordingTypes
              <3> QED BY <1>1, <3>1, <3>2
        <2> QED BY <1>1, <2>1, <2>2 DEF RecordingTypes, readers
  <1>3. Slots' /\ Seeds'
        <2>1. \A r \in Recordings : thread[r] = "none" => thread'[r] = "none"
              BY <1>1 DEF RecordingTypes, ThreadEnds, ThreadFails
        <2> QED BY <1>1, <2>1 DEF Slots, Seeds, readers
  <1>4. \A r \in Recordings : /\ refusing[r] => refusing'[r]
                              /\ thread'[r] = "running" => thread[r] = "running"
        BY <1>1 DEF RecordingTypes
  <1>5. slot # None => slot \in Recordings BY SlotFacts
  <1>6. \A s \in Streams : Coming(s)' = Coming(s) BY <1>1 DEF Coming, readers
  <1>7. Runs'
        <2>1. ASSUME NEW s \in Streams, slot # None, ~refusing'[slot]
              PROVE  Continues(slot, s)'
              <3>0. ~refusing[slot]
                    <4> HIDE DEF RecordingInv
                    <4> QED BY <1>4, <1>5, <2>1
              <3>1. Continues(slot, s) BY <2>1, <3>0 DEF Runs
              <3> QED BY <1>1, <1>6, <3>1 DEF Continues
        <2>2. ASSUME NEW s \in Streams, caller = "installing"
              PROVE  Continues(started, s)'
              <3>1. Continues(started, s) BY <2>2 DEF Runs
              <3> QED BY <1>1, <1>6, <3>1 DEF Continues
        <2> QED BY <1>1, <2>1, <2>2 DEF Runs, Continues
  <1>8. NoOrphanRecorder'
        <2> SUFFICES ASSUME NEW r \in Recordings, thread'[r] = "running", ~refusing'[r]
                     PROVE  slot = r \/ (caller \in {"seeding", "installing"} /\ started = r)
            BY <1>1 DEF NoOrphanRecorder
        <2>1. thread[r] = "running" /\ ~refusing[r]
              <3> HIDE DEF RecordingInv
              <3> QED BY <1>4
        <2> QED BY <2>1 DEF NoOrphanRecorder
  <1>9. NoHoleInARecording' BY <1>1 DEF NoHoleInARecording
  <1> QED BY <1>2, <1>3, <1>7, <1>8, <1>9

(* Every step of the session keeps the invariant.                          *)
LEMMA RecordingStepKeeps ==
  ASSUME RecordingInv, [RecordingNext]_recordingVars
  PROVE  RecordingInv'
  <1>1. CASE ReadVideo
        <2>1. videoNext \in Kinds /\ {"config", "key", "delta"} \subseteq Kinds
              BY DEF RecordingInv, RecordingTypes, Kinds
        <2>2. "video" \in Streams BY DEF Streams
        <2> QED BY <1>1, <2>1, <2>2, ReadKeeps DEF ReadVideo
  <1>2. CASE ReadAudio
        <2>1. (IF read["audio"] = 0 THEN "config" ELSE "audio") \in Kinds BY DEF Kinds
        <2>2. videoNext' \in Kinds BY <1>2 DEF ReadAudio, RecordingInv, RecordingTypes
        <2>3. "audio" \in Streams BY DEF Streams
        <2> QED BY <1>2, <2>1, <2>2, <2>3, ReadKeeps DEF ReadAudio
  <1>3. CASE UNCHANGED recordingVars
        BY <1>3, SMT DEF recordingVars, RecordingInv, RecordingTypes, Slots, Seeds, Runs, Continues, Coming,
                    NoOrphanRecorder, NoHoleInARecording
  <1>4. CASE RecordingFinished BY <1>3, <1>4 DEF RecordingFinished
  <1> QED BY <1>1, <1>2, <1>3, <1>4, VideoEndsKeeps, PushPacketKeeps, StartKeeps, SeedKeeps,
             InstallKeeps, StopKeeps, WaitKeeps, ThreadKeeps DEF RecordingNext

-------------------------------------------------------------------------------
(* The invariant holds throughout.                                         *)
THEOREM RecordingInvariance == RecordingSpec => []RecordingInv
  BY RecordingInitKeeps, RecordingStepKeeps, PTL DEF RecordingSpec

(* No recorder is lost from the slot while it still takes packets,         *)
(* whatever the readers, the caller and its own thread do meanwhile.       *)
THEOREM NoneIsOrphaned == RecordingSpec => []NoOrphanRecorder
  <1>1. RecordingInv => NoOrphanRecorder BY DEF RecordingInv
  <1> QED BY <1>1, RecordingInvariance, PTL

(* What a recorder is given after its seed is a run of consecutive         *)
(* packets, for any number of packets and recordings.                      *)
THEOREM NoneHasAHole == RecordingSpec => []NoHoleInARecording
  <1>1. RecordingInv => NoHoleInARecording BY DEF RecordingInv
  <1> QED BY <1>1, RecordingInvariance, PTL

-------------------------------------------------------------------------------
(* What the session knows of its recordings.  NoneIsForgotten needs to     *)
(* know which recording each slot may hold at each point of the caller's   *)
(* way: it starts one only when none is in the slot, keeps its thread      *)
(* until the answer, and answers for no other.                             *)

AtTheCaller ==
  /\ caller = "idle" => threadSlot = slot
  /\ slot # None => slot = started
  /\ caller # "idle" => started # 0 /\ threadSlot = started
  /\ caller \in {"waiting", "unfinished"} => refusing[started]
  /\ \A r \in Recordings : r > started => reported[r] = "nothing"

Account == AtTheCaller /\ NoneIsForgotten

LEMMA AccountInit == RecordingInit => Account
  <1> SUFFICES ASSUME RecordingInit PROVE Account OBVIOUS
  <1>1. 1 .. started = {} BY SMT DEF RecordingInit
  <1>2. AtTheCaller BY DEF RecordingInit, AtTheCaller, None
  <1> QED BY <1>1, <1>2 DEF Account, NoneIsForgotten

(* A recording that was started is one, and one that was not is later.     *)
LEMMA StartedOnes ==
  ASSUME RecordingTypes
  PROVE  /\ \A r \in 1 .. started : r \in Recordings /\ r # None
         /\ started # 0 => started \in 1 .. started /\ started \in Recordings
         /\ started < MaxRecordings =>
              /\ started + 1 \in Recordings /\ started + 1 > started
              /\ \A r \in 1 .. (started + 1) : r \in 1 .. started \/ r = started + 1
              /\ \A r \in Recordings : r > started + 1 => r > started /\ r # started + 1
  BY SessionAssumption, SMT DEF RecordingTypes, Recordings, None

(* Readers and the recorders' threads only stop recorders, and a thread    *)
(* that is over stays so.                                                  *)
LEMMA OthersKeepAccount ==
  ASSUME RecordingInv, Account,
         UNCHANGED <<slot, threadSlot, caller, started, reported>>,
         \A r \in Recordings : /\ refusing[r] => refusing'[r]
                               /\ thread[r] = "failed" => thread'[r] = "failed"
  PROVE  Account'
  <1>1. \A r \in 1 .. started : r \in Recordings BY StartedOnes DEF RecordingInv
  <1>2. started # 0 => started \in Recordings BY StartedOnes DEF RecordingInv
  <1>3. AtTheCaller' BY <1>2 DEF Account, AtTheCaller
  <1>4. NoneIsForgotten' BY <1>1 DEF Account, NoneIsForgotten
  <1> QED BY <1>3, <1>4 DEF Account

LEMMA StartAccounts ==
  ASSUME RecordingInv, Account, Start
  PROVE  Account'
  <1> USE DEF Account, Start
  <1>1. /\ \A r \in 1 .. started : r \in Recordings /\ r # None
        /\ started + 1 \in Recordings /\ started + 1 > started
        /\ \A r \in 1 .. (started + 1) : r \in 1 .. started \/ r = started + 1
        /\ \A r \in Recordings : r > started + 1 => r > started /\ r # started + 1
        <2>1. RecordingTypes /\ started < MaxRecordings BY DEF RecordingInv
        <2> HIDE DEF Account, Start
        <2> QED BY <2>1, StartedOnes
  <1>2. /\ slot = None /\ slot' = None /\ threadSlot = None /\ threadSlot' = started + 1
        /\ started' = started + 1 /\ caller' = "seeding"
        /\ reported' = reported /\ refusing' = refusing
        BY DEF AtTheCaller
  <1>3. \A r \in 1 .. started : reported[r] # "nothing" /\ r # started + 1
        <2>1. \A r \in 1 .. started : r # started + 1 BY <1>1, SMT DEF RecordingInv, RecordingTypes
        <2> QED BY <1>1, <1>2, <2>1 DEF NoneIsForgotten
  <1>4. AtTheCaller'
        <2>1. started + 1 # 0 BY <1>1, SMT DEF Recordings
        <2> QED BY <1>1, <1>2, <2>1 DEF AtTheCaller
  <1>5. NoneIsForgotten'
        <2> SUFFICES ASSUME NEW r \in 1 .. (started + 1)
                     PROVE  /\ reported'[r] = "nothing" => threadSlot' = r
                            /\ reported'[r] # "nothing" => refusing'[r] /\ slot' # r /\ threadSlot' # r
                            /\ reported'[r] = "failed" => thread'[r] = "failed"
            BY <1>2 DEF NoneIsForgotten
        <2>1. CASE r = started + 1
              BY <1>1, <1>2, <2>1 DEF AtTheCaller
        <2>2. CASE r \in 1 .. started
              <3>1. thread'[r] = thread[r] BY <1>1, <1>3, <2>2 DEF RecordingInv, RecordingTypes
              <3> QED BY <1>1, <1>2, <1>3, <2>2, <3>1 DEF NoneIsForgotten
        <2> QED BY <1>1, <2>1, <2>2
  <1> QED BY <1>4, <1>5

LEMMA InstallAccounts ==
  ASSUME RecordingInv, Account, Seed \/ Install
  PROVE  Account'
  <1> USE DEF Account, Seed, Install, readers, recorders
  <1>1. /\ started # 0 /\ threadSlot = started /\ threadSlot' = started /\ started' = started
        /\ reported' = reported /\ refusing' = refusing /\ thread' = thread
        /\ slot' \in {slot, started} /\ slot = None
        BY DEF AtTheCaller, RecordingInv, Slots
  <1>2. AtTheCaller' BY <1>1 DEF AtTheCaller
  <1>3. NoneIsForgotten' BY <1>1 DEF NoneIsForgotten
  <1> QED BY <1>2, <1>3

LEMMA StopAccounts ==
  ASSUME RecordingInv, Account, StopRecording
  PROVE  Account'
  <1> USE DEF Account, StopRecording, readers
  <1>1. \A r \in 1 .. started : r \in Recordings /\ r # None
        BY StartedOnes DEF RecordingInv
  <1>2. slot = started /\ slot \in Recordings /\ slot # 0
        BY SlotFacts DEF AtTheCaller, RecordingInv, None
  <1>3. refusing'[started] /\ \A r \in Recordings : refusing[r] => refusing'[r]
        BY <1>2 DEF RecordingInv, RecordingTypes
  <1>4. AtTheCaller' BY <1>2, <1>3 DEF AtTheCaller
  <1>5. NoneIsForgotten' BY <1>1, <1>3 DEF NoneIsForgotten
  <1> QED BY <1>4, <1>5

(* The answer is for the recording that was started last, which is told of *)
(* once and is in no slot any more.                                        *)
LEMMA WaitAccounts ==
  ASSUME RecordingInv, Account, Wait \/ TimePasses
  PROVE  Account'
  <1> USE DEF Account, readers, recorders
  <1>0. caller \in {"waiting", "unfinished"}
        BY DEF Wait, WaitEnds, StillRunning, SleepsOn, GivesUp, TimePasses
  <1>1. /\ started # 0 /\ threadSlot = started /\ refusing[started] /\ slot = None
        BY <1>0 DEF AtTheCaller, RecordingInv, Slots
  <1>2. started \in Recordings /\ \A r \in 1 .. started : r \in Recordings /\ r # None
        BY <1>1, StartedOnes DEF RecordingInv
  <1>3. CASE ~(WaitEnds \/ GivesUp)
        <2>1. /\ UNCHANGED <<slot, threadSlot, started, refusing, thread, reported>>
              /\ caller' \in {"waiting", "unfinished"}
              BY <1>0, <1>3 DEF Wait, StillRunning, SleepsOn, TimePasses
        <2>2. AtTheCaller' BY <1>1, <2>1 DEF AtTheCaller
        <2>3. NoneIsForgotten' BY <2>1 DEF NoneIsForgotten
        <2> QED BY <2>2, <2>3
  <1>4. CASE WaitEnds \/ GivesUp
        <2>1. PICK what \in {"written", "failed"} :
                Answer(what) /\ (what = "failed" => thread[started] = "failed")
              BY <1>1, <1>4 DEF WaitEnds, GivesUp, JoinAnswer
        <2>2. /\ UNCHANGED <<slot, started, refusing, thread>>
              /\ threadSlot' = None /\ caller' = "idle"
              /\ reported'[started] = what
              /\ \A r \in Recordings : r # started => reported'[r] = reported[r]
              BY <1>1, <1>2, <2>1 DEF Answer, RecordingInv, RecordingTypes
        <2>3. AtTheCaller'
              <3>1. \A r \in Recordings : r > started => r # started
                    BY SMT DEF RecordingInv, RecordingTypes, Recordings
              <3> QED BY <1>1, <2>2, <3>1 DEF AtTheCaller
        <2>4. NoneIsForgotten' BY <1>1, <1>2, <2>1, <2>2 DEF NoneIsForgotten
        <2> QED BY <2>3, <2>4
  <1> QED BY <1>3, <1>4

LEMMA AccountStepKeeps ==
  ASSUME RecordingInv, Account, [RecordingNext]_recordingVars
  PROVE  Account'
  <1>1. ASSUME \/ ReadVideo \/ ReadAudio \/ (\E s \in Streams : PushPacket(s))
               \/ RecordingFinished \/ UNCHANGED recordingVars
        PROVE  Account'
        <2>1. UNCHANGED <<slot, threadSlot, caller, started, reported, refusing, thread>>
              BY <1>1 DEF ReadVideo, ReadAudio, ReadPacket, PushPacket, RecordingFinished, recordingVars, recorders
        <2> QED BY <2>1, OthersKeepAccount
  <1>2. ASSUME VideoEnds PROVE Account'
        <2>1. UNCHANGED <<slot, threadSlot, caller, started, reported, thread>>
              BY <1>2 DEF VideoEnds
        <2>2. \A r \in Recordings : refusing[r] => refusing'[r]
              BY <1>2 DEF VideoEnds, RecordingInv, RecordingTypes
        <2> QED BY <2>1, <2>2, OthersKeepAccount
  <1>3. ASSUME NEW k \in Recordings, ThreadEnds(k) \/ ThreadFails(k) PROVE Account'
        <2>1. UNCHANGED <<slot, threadSlot, caller, started, reported>>
              BY <1>3 DEF ThreadEnds, ThreadFails
        <2>2. \A r \in Recordings : /\ refusing[r] => refusing'[r]
                                    /\ thread[r] = "failed" => thread'[r] = "failed"
              BY <1>3 DEF ThreadEnds, ThreadFails, RecordingInv, RecordingTypes
        <2> QED BY <2>1, <2>2, OthersKeepAccount
  <1> QED BY <1>1, <1>2, <1>3, StartAccounts, InstallAccounts, StopAccounts, WaitAccounts
          DEF RecordingNext

(* A failure that was there before the wait's last look is never reported  *)
(* written: nothing but a failure is said of it, and until then the wait   *)
(* cannot have looked at a thread that runs.                               *)
Told(r) == reported[r] = "failed" \/ FailedInTime(r)

LEMMA ToldStaysTold ==
  ASSUME RecordingInv, Account, [RecordingNext]_recordingVars, NEW r \in Recordings, Told(r)
  PROVE  Told(r)'
  <1> USE DEF RecordingInv, Told, FailedInTime, readers, recorders
  <1>1. thread[r] = "failed" => thread'[r] = "failed"
        <2>1. CASE Start
              <3>1. thread[started + 1] = "none"
                    BY <2>1, StartedOnes DEF Start, Slots
              <3>2. thread' = [thread EXCEPT ![started + 1] = "running"] BY <2>1 DEF Start
              <3> QED BY <3>1, <3>2 DEF RecordingTypes
        <2>2. CASE \E k \in Recordings : ThreadEnds(k) \/ ThreadFails(k)
              BY <2>2 DEF ThreadEnds, ThreadFails, RecordingTypes
        <2>3. CASE ~(Start \/ \E k \in Recordings : ThreadEnds(k) \/ ThreadFails(k))
              <3>1. thread' = thread
                    BY <2>3 DEF RecordingNext, recordingVars, ReadVideo, ReadAudio, ReadPacket, VideoEnds,
                       PushPacket, Seed, Install, StopRecording, RecordingFinished, Wait, WaitEnds,
                       StillRunning, SleepsOn, GivesUp, TimePasses, Answer
              <3> QED BY <3>1
        <2> QED BY <2>1, <2>2, <2>3
  <1>2. CASE WaitEnds \/ GivesUp
        <2>1. PICK what : /\ reported' = [reported EXCEPT ![threadSlot] = what] /\ caller' = "idle"
                          /\ what = JoinAnswer(threadSlot) \/ caller = "unfinished"
              BY <1>2 DEF WaitEnds, GivesUp, Answer
        <2>2. CASE r # threadSlot
              BY <1>1, <2>1, <2>2 DEF RecordingTypes
        <2>3. CASE r = threadSlot
              <3>0. caller # "idle" BY <1>2 DEF WaitEnds, GivesUp
              <3>1. r = started /\ r \in 1 .. started
                    BY <2>3, <3>0, StartedOnes DEF Account, AtTheCaller
              <3>2. reported[r] = "nothing"
                    BY <2>3, <3>1 DEF Account, NoneIsForgotten, RecordingTypes
              <3>3. thread[r] = "failed" /\ caller # "unfinished" BY <3>2
              <3>4. what = "failed" BY <2>1, <2>3, <3>3 DEF JoinAnswer
              <3> QED BY <2>1, <2>3, <3>4 DEF RecordingTypes
        <2> QED BY <2>2, <2>3
  <1>3. CASE StillRunning
        <2>1. reported' = reported /\ caller = "waiting" /\ thread[threadSlot] = "running"
              BY <1>3 DEF StillRunning
        <2>2. CASE reported[r] = "failed" BY <2>1, <2>2
        <2>3. CASE FailedInTime(r)
              <3>1. started # 0 /\ threadSlot = started BY <2>1 DEF Account, AtTheCaller
              <3>2. r \in 1 .. started
                    <4>1. r > started => thread[r] = "none" BY DEF Slots
                    <4>2. ~(r > started) BY <2>3, <4>1
                    <4> QED BY <4>2, SMT DEF Recordings, RecordingTypes
              <3>3. threadSlot = r BY <2>3, <3>2 DEF Account, NoneIsForgotten
              <3> QED BY <2>1, <2>3, <3>3
        <2> QED BY <2>2, <2>3
  <1>4. CASE ~(WaitEnds \/ GivesUp \/ StillRunning)
        <2>1. reported' = reported /\ (caller' = "unfinished" => caller = "unfinished")
              BY <1>4 DEF RecordingNext, recordingVars, ReadVideo, ReadAudio, ReadPacket, VideoEnds,
                 PushPacket, Start, Seed, Install, StopRecording, RecordingFinished, Wait,
                 SleepsOn, TimePasses, ThreadEnds, ThreadFails
        <2> QED BY <1>1, <2>1
  <1> QED BY <1>2, <1>3, <1>4

(* The session loses track of no recording, and its answers are true of    *)
(* what was known when they were given, for any number of packets and      *)
(* recordings and wherever the deadline and the failures fall.             *)
THEOREM RecordingsAreAnsweredFor == RecordingSpec => AnswersAreTrue
  <1>1. RecordingSpec => [](RecordingInv /\ Account)
        <2>1. RecordingInit => RecordingInv /\ Account BY RecordingInitKeeps, AccountInit
        <2>2. (RecordingInv /\ Account) /\ [RecordingNext]_recordingVars => (RecordingInv /\ Account)'
              BY RecordingStepKeeps, AccountStepKeeps
        <2> QED BY <2>1, <2>2, PTL DEF RecordingSpec
  <1>2. RecordingSpec => []NoneIsForgotten
        <2>1. Account => NoneIsForgotten BY DEF Account
        <2> QED BY <1>1, <2>1, PTL
  <1>3. ASSUME NEW r \in Recordings
        PROVE  RecordingSpec => [](FailedInTime(r) => [](reported[r] # "written"))
        <2>1. (RecordingInv /\ Account) /\ [RecordingNext]_recordingVars /\ Told(r) => Told(r)'
              BY ToldStaysTold
        <2>2. FailedInTime(r) => Told(r) BY DEF Told
        <2>3. Told(r) => reported[r] # "written" BY DEF Told, FailedInTime
        <2> QED BY <1>1, <2>1, <2>2, <2>3, PTL DEF RecordingSpec
  <1> QED BY <1>2, <1>3 DEF AnswersAreTrue
================================================================================
