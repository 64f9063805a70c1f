------------------------ MODULE ServerConnectionProofs ------------------------
(***************************************************************************)
(* Proof that a session that is up is the one that was asked for, for any  *)
(* devices, command lines and ports and any number of attempts: it goes to *)
(* the device its selectors allow, each of its streams has the socket the  *)
(* server opened for it, and it has sound if it must have.                 *)
(*                                                                         *)
(* Accepting and connecting keep their order in different ways.  When the  *)
(* server connects, what it opened is what the client accepted and then    *)
(* what waits to be (Reversed).  When the client connects, the server may  *)
(* have accepted a connection the client gave up.  What saves the order is *)
(* that connections are accepted in the order they were made: the one the  *)
(* byte came on is the latest, so nothing given up is behind it, and from  *)
(* then on the client's sockets are the server's and its backlog, for as   *)
(* long as the server listens (Forwarded).                                 *)
(***************************************************************************)
EXTENDS ServerConnection, SequenceTheorems, FiniteSetTheorems, TLAPS

Unserved == {"options", "tcpip", "select", "push", "tunnel", "asking", "shell"}
Streamed == {"streams", "control", "video", "up"}
Reaching == {"sockets", "info"} \cup Streamed
Gone == {"over", "stopping"}

Types ==
  /\ opts \in OptionSets /\ serial \in Serials \cup {NoSerial}
  /\ pc \in Unserved \cup Reaching \cup Gone
  /\ sockets \in Seq(Nat) /\ backlog \in Seq(Nat) /\ opened \in Seq(Nat)
  /\ trying \in Nat /\ made \in Nat

(* The device is one the command line allows. *)
Obeyed ==
  (serial # NoSerial /\ ~opts.list) =>
    /\ opts.serial # NoSerial => serial = opts.serial
    /\ opts.tcpip # NoSerial => serial = opts.tcpip
    /\ opts.usb => serial \notin TcpSerials
    /\ opts.tcp => serial \in TcpSerials
    /\ (opts.env # NoSerial /\ Selectors = {}) => serial = opts.env

Unchosen ==
  /\ pc \in {"options", "tcpip", "select"} => serial = NoSerial
  /\ pc \in {"tcpip", "select"} => opts.list \/ ~Contradictory

(* Before there is a server nothing is connected. *)
NotYet ==
  pc \in Unserved =>
    /\ server = "off" /\ ~served
    /\ sockets = << >> /\ backlog = << >> /\ opened = << >>
    /\ trying = 0 /\ made = 0

Roads ==
  /\ pc \in {"tunnel", "asking", "shell"} \cup Reaching => road \in {"reverse", "forward"}
  /\ pc \in Reaching => /\ server = "listening" => road = "forward"
                        /\ server = "connecting" => road = "reverse"

Line == opened \o backlog
Rising(s) == \A i, j \in 1 .. Len(s) : i < j => s[i] < s[j]
Made(s, n) == \A i \in 1 .. Len(s) : 0 < s[i] /\ s[i] <= n

Reversed ==
  (pc \in Reaching /\ road = "reverse") => opened = sockets \o backlog /\ trying = 0

Forwarded ==
  (pc \in Reaching /\ road = "forward") =>
    /\ Rising(Line) /\ Made(Line, made)
    /\ trying # 0 => trying = made /\ sockets = << >>
    /\ server = "starting" => sockets = << >> /\ opened = << >>
    /\ (server = "listening" /\ sockets # << >>) => sockets = Line
    /\ served => /\ Len(opened) = Len(Wanted) /\ opened # << >>
                 /\ \/ sockets = opened
                    \/ sockets = << >> /\ trying # 0 /\ opened = <<trying>>

Filled ==
  /\ pc \in Reaching => Len(sockets) <= Len(Wanted)
  /\ pc \in Reaching \ {"sockets"} => Len(sockets) = Len(Wanted)
  /\ pc \in Streamed => served

Sounding ==
  (pc \in {"control", "video", "up"} /\ opts.requireAudio) => "audio" \in running

Reached == Reversed /\ Forwarded /\ Filled /\ Sounding
Inv == Types /\ Obeyed /\ Unchosen /\ NotYet /\ Roads /\ Reached

-------------------------------------------------------------------------------
(* The command line *)

LEMMA OptionFacts ==
  ASSUME Types
  PROVE  /\ opts.streams \in SUBSET {"video", "audio", "control"}
         /\ opts.serial \in Serials \cup {NoSerial} /\ opts.tcpip \in Serials \cup {NoSerial}
         /\ opts.env \in Serials \cup {NoSerial}
         /\ opts.usb \in BOOLEAN /\ opts.tcp \in BOOLEAN /\ opts.list \in BOOLEAN
         /\ opts.requireAudio \in BOOLEAN /\ NoSerial \notin Serials
         /\ TcpSerials \subseteq Serials
  BY ServerConnectionAssumption, SMT DEF Types

LEMMA SelectorFacts ==
  ASSUME Types
  PROVE  /\ "serial" \in Selectors <=> opts.serial # NoSerial
         /\ "tcpip" \in Selectors <=> opts.tcpip # NoSerial
         /\ "usb" \in Selectors <=> opts.usb
         /\ "tcp" \in Selectors <=> opts.tcp
         /\ Selectors \subseteq {"serial", "tcpip", "usb", "tcp"}
  <1> DEFINE S == {"serial", "tcpip", "usb", "tcp"}
             Given(s) == CASE s = "serial" -> opts.serial # NoSerial
                           [] s = "tcpip" -> opts.tcpip # NoSerial
                           [] s = "usb" -> opts.usb
                           [] s = "tcp" -> opts.tcp
  <1>1. Selectors = {s \in S : Given(s)} BY DEF Selectors
  <1>2. Given("serial") <=> opts.serial # NoSerial BY Zenon
  <1>3. Given("tcpip") <=> opts.tcpip # NoSerial BY Zenon
  <1>4. Given("usb") <=> opts.usb BY Zenon
  <1>5. Given("tcp") <=> opts.tcp BY Zenon
  <1> HIDE DEF Given
  <1> QED BY <1>1, <1>2, <1>3, <1>4, <1>5

(* Two different selectors contradict each other. *)
LEMMA OneSelector ==
  ASSUME Types, ~Contradictory, NEW a \in Selectors, NEW b \in Selectors
  PROVE  a = b
  <1> SUFFICES ASSUME a # b PROVE FALSE OBVIOUS
  <1> DEFINE S == {"serial", "tcpip", "usb", "tcp"}
  <1>1. IsFiniteSet(S)
        <2>1. IsFiniteSet({}) BY FS_EmptySet
        <2>2. IsFiniteSet({} \cup {"serial"}) BY <2>1, FS_AddElement
        <2>3. IsFiniteSet({} \cup {"serial"} \cup {"tcpip"}) BY <2>2, FS_AddElement
        <2>4. IsFiniteSet({} \cup {"serial"} \cup {"tcpip"} \cup {"usb"}) BY <2>3, FS_AddElement
        <2>5. IsFiniteSet({} \cup {"serial"} \cup {"tcpip"} \cup {"usb"} \cup {"tcp"})
              BY <2>4, FS_AddElement
        <2>6. S = {} \cup {"serial"} \cup {"tcpip"} \cup {"usb"} \cup {"tcp"} OBVIOUS
        <2> QED BY <2>5, <2>6
  <1>2. IsFiniteSet(Selectors) BY <1>1, SelectorFacts, FS_Subset
  <1>3. IsFiniteSet({a}) /\ Cardinality({a}) = 1 BY FS_Singleton
  <1>4. Cardinality({a} \cup {b}) = 2
        BY <1>3, FS_AddElement
  <1>5. Cardinality({a} \cup {b}) <= Cardinality(Selectors)
        <2>1. {a} \cup {b} \subseteq Selectors OBVIOUS
        <2> QED BY <1>2, <2>1, FS_Subset
  <1>6. Cardinality(Selectors) \in Nat BY <1>2, FS_CardinalityType
  <1>7. ~(Cardinality(Selectors) > 1) BY DEF Contradictory
  <1> QED BY <1>4, <1>5, <1>6, <1>7, SMT

(* The choice, made by a command line that does not contradict itself. *)
LEMMA ChoiceObeys ==
  ASSUME Types, ~opts.list => ~Contradictory, NEW d \in Serials,
         \/ NamedSerial # NoSerial /\ d = NamedSerial
         \/ NamedSerial = NoSerial /\ d \in DeviceFilter
  PROVE  ~opts.list =>
           /\ opts.serial # NoSerial => d = opts.serial
           /\ opts.tcpip # NoSerial => d = opts.tcpip
           /\ opts.usb => d \notin TcpSerials
           /\ opts.tcp => d \in TcpSerials
           /\ (opts.env # NoSerial /\ Selectors = {}) => d = opts.env
  <1> SUFFICES ASSUME ~opts.list
               PROVE  /\ opts.serial # NoSerial => d = opts.serial
                      /\ opts.tcpip # NoSerial => d = opts.tcpip
                      /\ opts.usb => d \notin TcpSerials
                      /\ opts.tcp => d \in TcpSerials
                      /\ (opts.env # NoSerial /\ Selectors = {}) => d = opts.env
      OBVIOUS
  <1>1. \A a, b \in Selectors : a = b BY OneSelector
  <1>2. opts.serial # NoSerial => NamedSerial = opts.serial BY DEF NamedSerial
  <1>3. opts.tcpip # NoSerial => opts.serial = NoSerial /\ NamedSerial = opts.tcpip
        <2>1. ASSUME opts.tcpip # NoSerial PROVE opts.serial = NoSerial
              BY <1>1, <2>1, SelectorFacts
        <2>2. ASSUME opts.tcpip # NoSerial, opts.serial = NoSerial PROVE NamedSerial = opts.tcpip
              BY <2>2 DEF NamedSerial
        <2> QED BY <2>1, <2>2
  <1>4. opts.usb => opts.serial = NoSerial /\ opts.tcpip = NoSerial /\ ~opts.tcp
        BY <1>1, SelectorFacts
  <1>5. opts.tcp => opts.serial = NoSerial /\ opts.tcpip = NoSerial /\ ~opts.usb
        BY <1>1, SelectorFacts
  <1>6. ASSUME opts.usb PROVE d \notin TcpSerials
        <2>1. DeviceFilter = Serials \ TcpSerials BY <1>4, <1>6 DEF DeviceFilter
        <2>2. NamedSerial = NoSerial BY <1>4, <1>6, OptionFacts DEF NamedSerial
        <2> QED BY <2>1, <2>2
  <1>7. ASSUME opts.tcp PROVE d \in TcpSerials
        <2>1. DeviceFilter = TcpSerials BY <1>5, <1>7, OptionFacts DEF DeviceFilter
        <2>2. NamedSerial = NoSerial BY <1>5, <1>7, OptionFacts DEF NamedSerial
        <2> QED BY <2>1, <2>2
  <1>8. ASSUME opts.env # NoSerial, Selectors = {} PROVE d = opts.env
        <2>1. opts.serial = NoSerial /\ opts.tcpip = NoSerial /\ ~opts.usb /\ ~opts.tcp
              BY <1>8, SelectorFacts
        <2>2. NamedSerial = opts.env BY <2>1, OptionFacts DEF NamedSerial
        <2> QED BY <1>8, <2>2
  <1> QED BY <1>2, <1>3, <1>6, <1>7, <1>8

(* The sockets wanted, and the place of each stream among them. *)
LEMMA WantedFacts ==
  ASSUME Types
  PROVE  /\ Wanted \in Seq({"video", "audio", "control"}) /\ Len(Wanted) \in Nat
         /\ \A s \in opts.streams : Place(s) \in 1 .. Len(Wanted)
  <1> DEFINE N == {"video", "audio", "control"}
  <1>1. ASSUME NEW s \in N PROVE Only(s) \in Seq(N)
        <2>1. <<s>> \in Seq(N) /\ << >> \in Seq(N) BY EmptySeq, SMT
        <2> QED BY <2>1 DEF Only
  <1>2. Only("video") \o Only("audio") \in Seq(N) BY <1>1, ConcatProperties
  <1>3. Wanted \in Seq(N) BY <1>1, <1>2, ConcatProperties DEF Wanted
  <1>4. ASSUME NEW s \in opts.streams PROVE \E i \in 1 .. Len(Wanted) : Wanted[i] = s
        <2>1. s \in N BY OptionFacts
        <2>2. Only(s) = <<s>> BY DEF Only
        <2>3. \A t \in N : Only(t) \in Seq(N) BY <1>1
        <2>4. CASE s = "video"
              <3>1. Wanted = <<"video">> \o Only("audio") \o Only("control")
                    BY <2>2, <2>4 DEF Wanted
              <3> DEFINE b == Only("audio") c == Only("control")
              <3>2. b \in Seq(N) /\ c \in Seq(N) BY <2>3
              <3> HIDE DEF b, c
              <3>3. Wanted = <<"video">> \o b \o c BY <3>1 DEF b, c
              <3>4. Wanted[1] = "video" /\ Len(Wanted) >= 1 /\ Len(Wanted) \in Nat
                    BY <3>2, <3>3, SMT
              <3>5. 1 \in 1 .. Len(Wanted) BY <3>4, SMT
              <3> QED BY <2>4, <3>4, <3>5
        <2>5. CASE s = "audio"
              <3> DEFINE a == Only("video") c == Only("control")
              <3>2. a \in Seq(N) /\ c \in Seq(N) BY <2>3
              <3>1. Wanted = a \o <<"audio">> \o c BY <2>2, <2>5 DEF Wanted
              <3> HIDE DEF a, c
              <3>3. Len(a) + 1 \in 1 .. Len(Wanted) /\ Wanted[Len(a) + 1] = "audio"
                    BY <3>1, <3>2, SMT
              <3> QED BY <2>5, <3>3
        <2>6. CASE s = "control"
              <3> DEFINE a == Only("video") \o Only("audio")
              <3>2. a \in Seq(N) BY <1>2
              <3>1. Wanted = a \o <<"control">> BY <2>2, <2>6 DEF Wanted
              <3> HIDE DEF a
              <3>3. Len(a) + 1 \in 1 .. Len(Wanted) /\ Wanted[Len(a) + 1] = "control"
                    BY <3>1, <3>2, SMT
              <3> QED BY <2>6, <3>3
        <2> QED BY <2>1, <2>4, <2>5, <2>6
  <1>5. ASSUME NEW s \in opts.streams PROVE Place(s) \in 1 .. Len(Wanted)
        BY <1>4 DEF Place
  <1> QED BY <1>3, <1>5, LenProperties

-------------------------------------------------------------------------------
(* Sequences *)

(* A connection goes from the head of the backlog to the end of the sockets. *)
LEMMA MoveHead ==
  ASSUME NEW a \in Seq(Nat), NEW b \in Seq(Nat), b # << >>
  PROVE  /\ Append(a, Head(b)) \o Tail(b) = a \o b
         /\ Head(b) \in Nat /\ Tail(b) \in Seq(Nat) /\ Append(a, Head(b)) \in Seq(Nat)
         /\ Len(Append(a, Head(b))) = Len(a) + 1 /\ Len(a) \in Nat
  <1>1. /\ Head(b) \in Nat /\ Tail(b) \in Seq(Nat) /\ Append(a, Head(b)) \in Seq(Nat)
        /\ Len(Append(a, Head(b))) = Len(a) + 1 /\ Len(a) \in Nat
        BY SMT
  <1>2. b = <<Head(b)>> \o Tail(b) BY SMT
  <1>3. Append(a, Head(b)) = a \o <<Head(b)>> BY <1>1, AppendIsConcat
  <1>4. <<Head(b)>> \in Seq(Nat) BY <1>1, SMT
  <1>5. (a \o <<Head(b)>>) \o Tail(b) = a \o (<<Head(b)>> \o Tail(b))
        BY <1>1, <1>4, ConcatAssociative
  <1> QED BY <1>1, <1>2, <1>3, <1>5

LEMMA AppendLast ==
  ASSUME NEW a \in Seq(Nat), NEW b \in Seq(Nat), NEW x \in Nat
  PROVE  /\ a \o Append(b, x) = Append(a \o b, x)
         /\ Append(b, x) \in Seq(Nat) /\ a \o b \in Seq(Nat)
  <1>1. <<x>> \in Seq(Nat) /\ Append(b, x) = b \o <<x>> BY AppendIsConcat, SMT
  <1>2. a \o b \in Seq(Nat) BY ConcatProperties
  <1>3. Append(a \o b, x) = (a \o b) \o <<x>> BY <1>2, AppendIsConcat
  <1>4. a \o (b \o <<x>>) = (a \o b) \o <<x>> BY <1>1, ConcatAssociative
  <1> QED BY <1>1, <1>2, <1>3, <1>4, AppendProperties

LEMMA LineFacts ==
  ASSUME Types
  PROVE  /\ Line \in Seq(Nat) /\ Len(Line) = Len(opened) + Len(backlog)
         /\ Len(opened) \in Nat /\ Len(backlog) \in Nat /\ Len(sockets) \in Nat
         /\ \A i \in 1 .. Len(opened) : Line[i] = opened[i]
  <1>1. Len(opened) \in Nat /\ Len(backlog) \in Nat /\ Len(sockets) \in Nat
        BY LenProperties DEF Types
  <1>2. /\ Line \in Seq(Nat) /\ Len(Line) = Len(opened) + Len(backlog)
        /\ \A i \in 1 .. Len(opened) + Len(backlog) :
             Line[i] = IF i <= Len(opened) THEN opened[i] ELSE backlog[i - Len(opened)]
        BY ConcatProperties DEF Types, Line
  <1>3. \A i \in 1 .. Len(opened) : i \in 1 .. Len(opened) + Len(backlog) /\ i <= Len(opened)
        BY <1>1, SMT
  <1> QED BY <1>1, <1>2, <1>3

(* The latest connection is the first the server accepted: there is no other. *)
LEMMA LatestIsOnly ==
  ASSUME Types, Rising(Line), Made(Line, made),
         opened # << >>, opened[1] = made
  PROVE  opened = <<made>> /\ backlog = << >> /\ Line = <<made>>
  <1>1. Len(opened) >= 1
        BY EmptySeq, LineFacts, SMT DEF Types
  <1>2. 1 \in 1 .. Len(opened) /\ 1 \in 1 .. Len(Line) BY <1>1, LineFacts, SMT
  <1>3. Line[1] = made BY <1>2, LineFacts
  <1>4. Len(Line) = 1
        <2> SUFFICES ASSUME Len(Line) # 1 PROVE FALSE OBVIOUS
        <2>1. 2 \in 1 .. Len(Line) BY <1>1, LineFacts, SMT
        <2>2. Line[1] < Line[2] BY <1>2, <2>1, SMT DEF Rising
        <2>3. Line[2] <= made /\ Line[2] \in Nat BY <2>1, LineFacts, ElementOfSeq DEF Made
        <2> QED BY <1>3, <2>2, <2>3, SMT DEF Types
  <1>5. Len(opened) = 1 /\ Len(backlog) = 0
        <2>1. /\ Len(Line) = Len(opened) + Len(backlog)
              /\ Len(opened) \in Nat /\ Len(backlog) \in Nat
              BY LineFacts
        <2> HIDE DEF Line
        <2> QED BY <1>1, <1>4, <2>1, SMT
  <1>6. opened = <<made>> BY <1>5, SMT DEF Types
  <1>7. backlog = << >> BY <1>5, SMT DEF Types
  <1>8. Line = <<made>> BY <1>6, <1>7, ConcatEmptySeq DEF Line, Types
  <1> QED BY <1>6, <1>7, <1>8

(* A new connection is behind all the others. *)
LEMMA RisingAppend ==
  ASSUME NEW s \in Seq(Nat), NEW n \in Nat, Rising(s), Made(s, n)
  PROVE  /\ Rising(Append(s, n + 1))
         /\ Made(Append(s, n + 1), n + 1)
  <1> DEFINE t == Append(s, n + 1)
  <1>1. /\ Len(t) = Len(s) + 1 /\ Len(s) \in Nat
        /\ \A i \in 1 .. Len(s) : t[i] = s[i] /\ s[i] \in Nat
        /\ t[Len(s) + 1] = n + 1
        BY AppendProperties, LenProperties, ElementOfSeq
  <1> HIDE DEF t
  <1>2. \A i \in 1 .. Len(t) : i \in 1 .. Len(s) \/ i = Len(s) + 1 BY <1>1, SMT
  <1>3. Made(t, n + 1) BY <1>1, <1>2, SMT DEF Made
  <1>4. Rising(t)
        <2> SUFFICES ASSUME NEW i \in 1 .. Len(t), NEW j \in 1 .. Len(t), i < j
                     PROVE  t[i] < t[j]
            BY DEF Rising
        <2>1. i \in 1 .. Len(s) BY <1>1, SMT
        <2>2. CASE j \in 1 .. Len(s) BY <1>1, <2>1, <2>2 DEF Rising
        <2>3. CASE j = Len(s) + 1 BY <1>1, <2>1, <2>3, SMT DEF Made
        <2> QED BY <1>2, <2>2, <2>3
  <1> QED BY <1>3, <1>4 DEF t

-------------------------------------------------------------------------------
(* Kinds of steps *)

LEMMA ObeyedKeeps ==
  ASSUME Obeyed, UNCHANGED <<opts, serial>>
  PROVE  Obeyed'
  <1>1. Selectors' = Selectors BY DEF Selectors
  <1> QED BY <1>1 DEF Obeyed

(* Once the start has failed or the session is going down nothing is claimed. *)
LEMMA GoneKeeps ==
  ASSUME Inv, Types', pc' \in Gone, UNCHANGED <<opts, serial>>
  PROVE  Inv'
  <1>1. Obeyed' BY ObeyedKeeps DEF Inv
  <1>2. pc' \notin Reaching /\ pc' \notin Unserved BY DEF Gone, Reaching, Streamed, Unserved
  <1>3. Unchosen' BY <1>2 DEF Unchosen, Unserved
  <1>4. NotYet' BY <1>2 DEF NotYet
  <1>5. Roads' BY <1>2 DEF Roads, Unserved
  <1>6. Reached'
        BY <1>2 DEF Reached, Reversed, Forwarded, Filled, Sounding, Reaching, Streamed
  <1> QED BY <1>1, <1>3, <1>4, <1>5, <1>6 DEF Inv

LEMMA LeaveKeeps ==
  ASSUME Inv, NEW r, Leave(r)
  PROVE  Inv'
  <1>1. pc' \in Gone /\ UNCHANGED <<opts, serial>> BY DEF Leave, Gone
  <1>2. << >> \in Seq(Nat) /\ 0 \in Nat BY EmptySeq, SMT
  <1>3. Types' BY <1>1, <1>2 DEF Leave, DropAll, serverVars, Types, Inv
  <1> QED BY <1>1, <1>3, GoneKeeps

LEMMA GoesDownKeeps ==
  ASSUME Inv, GoesDown
  PROVE  Inv'
  <1>1. pc' \in Gone /\ UNCHANGED <<opts, serial>> BY DEF GoesDown, Gone
  <1>2. Types' BY <1>1 DEF GoesDown, serverVars, Types, Inv
  <1> QED BY <1>1, <1>2, GoneKeeps

(* Before the server. *)
LEMMA EarlyKeeps ==
  ASSUME Inv, pc \in Unserved, pc' \in Unserved,
         UNCHANGED <<opts, server, served, sockets, backlog, opened, trying, made>>,
         serial' \in Serials \cup {NoSerial}, Obeyed', Unchosen',
         pc' \in {"tunnel", "asking", "shell"} => road' \in {"reverse", "forward"}
  PROVE  Inv'
  <1>1. pc' \notin Reaching BY DEF Reaching, Streamed, Unserved
  <1>2. Types' BY DEF Inv, Types
  <1>3. NotYet' BY DEF Inv, NotYet
  <1>4. Roads' BY <1>1 DEF Roads
  <1>5. Reached' BY <1>1 DEF Reached, Reversed, Forwarded, Filled, Sounding, Reaching, Streamed
  <1> QED BY <1>2, <1>3, <1>4, <1>5 DEF Inv

(* A step of the streams' connecting, or of the server. *)
LEMMA LiveKeeps ==
  ASSUME Inv, Types', pc \notin Unserved, UNCHANGED <<opts, pc, serial, road, running>>,
         pc \in Reaching => /\ server' = "listening" => road = "forward"
                            /\ server' = "connecting" => road = "reverse"
                            /\ Reversed' /\ Forwarded' /\ Filled'
  PROVE  Inv'
  <1>1. Obeyed' BY ObeyedKeeps DEF Inv
  <1>2. Unchosen' BY DEF Unchosen, Unserved
  <1>3. NotYet' BY DEF NotYet
  <1>4. Roads' BY DEF Roads, Inv
  <1>5. Sounding' BY DEF Sounding, Inv, Reached
  <1>6. Reversed' /\ Forwarded' /\ Filled'
        <2>1. CASE pc \in Reaching BY <2>1
        <2>2. CASE pc \notin Reaching
              BY <2>2 DEF Reversed, Forwarded, Filled, Reaching, Streamed
        <2> QED BY <2>1, <2>2
  <1> QED BY <1>1, <1>2, <1>3, <1>4, <1>5, <1>6 DEF Inv, Reached

(* The start moves on, and nothing is connected. *)
LEMMA MovesOnKeeps ==
  ASSUME Inv, pc \in Reaching, pc' \in Reaching,
         UNCHANGED <<opts, serial, road, server, served, sockets, backlog, opened, trying, made>>,
         Filled', Sounding'
  PROVE  Inv'
  <1>1. Obeyed' BY ObeyedKeeps DEF Inv
  <1>2. pc' \notin Unserved BY DEF Reaching, Streamed, Unserved
  <1>3. Unchosen' /\ NotYet' BY <1>2 DEF Unchosen, NotYet, Unserved
  <1>4. Roads' BY DEF Roads, Inv
  <1>5. Types' BY DEF Types, Inv
  <1>6. Reversed' BY DEF Inv, Reached, Reversed
  <1>7. Line' = Line /\ Wanted' = Wanted BY DEF Line, Wanted, Only
  <1>8. Forwarded' BY <1>7 DEF Inv, Reached, Forwarded, Rising, Made
  <1> QED BY <1>1, <1>3, <1>4, <1>5, <1>6, <1>8 DEF Inv, Reached

LEMMA SameKeeps ==
  ASSUME Inv, UNCHANGED <<opts, pc, serial, road, server, served, sockets, backlog, opened,
                          trying, made, running>>
  PROVE  Inv'
  <1>1. Line' = Line /\ Wanted' = Wanted BY DEF Line, Wanted, Only
  <1>2. Types' BY DEF Inv, Types
  <1>3. Obeyed' BY ObeyedKeeps DEF Inv
  <1>4. Contradictory' = Contradictory BY DEF Contradictory, AudioContradicts, Selectors
  <1>5. Unchosen' BY <1>4 DEF Inv, Unchosen
  <1>6. NotYet' /\ Roads' BY DEF Inv, NotYet, Roads
  <1>7. Reversed' BY DEF Inv, Reached, Reversed
  <1>8. Forwarded' BY <1>1 DEF Inv, Reached, Forwarded, Rising, Made
  <1>9. Filled' /\ Sounding' BY <1>1 DEF Inv, Reached, Filled, Sounding
  <1> QED BY <1>2, <1>3, <1>5, <1>6, <1>7, <1>8, <1>9 DEF Inv, Reached

(* The server dies or hangs. *)
LEMMA ServerLeavesKeeps ==
  ASSUME Inv, server # "off", server' \in {"hung", "gone"},
         UNCHANGED <<opts, pc, serial, road, served, sockets, backlog, opened, trying, made,
                     running>>
  PROVE  Inv'
  <1>1. Line' = Line /\ Wanted' = Wanted BY DEF Line, Wanted, Only
  <1>2. Types' BY DEF Inv, Types
  <1>3. pc \notin Unserved BY DEF Inv, NotYet
  <1>4. Reversed' BY DEF Inv, Reached, Reversed
  <1>5. Forwarded' BY <1>1 DEF Inv, Reached, Forwarded, Rising, Made
  <1>6. Filled' BY <1>1 DEF Inv, Reached, Filled
  <1> QED BY <1>2, <1>3, <1>4, <1>5, <1>6, LiveKeeps

-------------------------------------------------------------------------------
(* The start *)

LEMMA InitKeeps == Init => Inv
  <1> SUFFICES ASSUME Init PROVE Inv OBVIOUS
  <1>1. << >> \in Seq(Nat) /\ 0 \in Nat BY EmptySeq, SMT
  <1>2. pc \in Unserved /\ pc \notin Reaching BY DEF Init, Unserved, Reaching, Streamed
  <1>3. Types BY <1>1, <1>2 DEF Init, Types
  <1>4. Obeyed /\ Unchosen /\ NotYet BY DEF Init, Obeyed, Unchosen, NotYet
  <1>5. Roads BY <1>2 DEF Init, Roads
  <1>6. Reached BY <1>2 DEF Reached, Reversed, Forwarded, Filled, Sounding, Reaching, Streamed
  <1> QED BY <1>3, <1>4, <1>5, <1>6 DEF Inv

LEMMA OptionsKeep ==
  ASSUME Inv, ReadOptions \/ ConnectTcpip
  PROVE  Inv'
  <1>1. CASE \E r \in {"options"} : Leave(r) BY <1>1, LeaveKeeps
  <1>2. CASE ~(\E r \in {"options"} : Leave(r))
        <2>1. /\ pc \in {"options", "tcpip"} /\ pc' \in {"tcpip", "select"}
              /\ UNCHANGED <<opts, serial, server, served, sockets, backlog, opened, trying, made>>
              /\ pc = "options" => opts.list \/ ~Contradictory
              BY <1>2 DEF ReadOptions, ConnectTcpip, serverVars
        <2>2. pc \in Unserved /\ pc' \in Unserved BY <2>1 DEF Unserved
        <2>3. Obeyed' BY <2>1, ObeyedKeeps DEF Inv
        <2>4. Contradictory' = Contradictory
              BY <2>1 DEF Contradictory, AudioContradicts, Selectors
        <2>5. serial = NoSerial /\ (opts.list \/ ~Contradictory)
              BY <2>1 DEF Inv, Unchosen
        <2>6. Unchosen' BY <2>1, <2>4, <2>5 DEF Unchosen
        <2> QED BY <2>1, <2>2, <2>3, <2>5, <2>6, EarlyKeeps
  <1> QED BY <1>1, <1>2

LEMMA SelectKeeps ==
  ASSUME Inv, SelectDevice
  PROVE  Inv'
  <1>1. CASE Leave("device") BY <1>1, LeaveKeeps
  <1>2. CASE ~Leave("device")
        <2>1. /\ pc = "select" /\ pc' = "push"
              /\ UNCHANGED <<opts, server, served, sockets, backlog, opened, trying, made>>
              /\ serial' \in IF NamedSerial # NoSerial THEN {NamedSerial}
                             ELSE LET accepted == ReadyDevices \cap DeviceFilter IN
                                  IF Cardinality(accepted) = 1 THEN accepted ELSE {}
              BY <1>2 DEF SelectDevice, serverVars
        <2>2. /\ serial' \in Serials
              /\ \/ NamedSerial # NoSerial /\ serial' = NamedSerial
                 \/ NamedSerial = NoSerial /\ serial' \in DeviceFilter
              <3>1. CASE NamedSerial # NoSerial
                    <4>1. serial' = NamedSerial BY <2>1, <3>1
                    <4>2. NamedSerial \in Serials
                          BY <3>1, OptionFacts DEF Inv, NamedSerial
                    <4> QED BY <3>1, <4>1, <4>2
              <3>2. CASE NamedSerial = NoSerial
                    <4>1. serial' \in ReadyDevices \cap DeviceFilter BY <2>1, <3>2
                    <4> QED BY <3>2, <4>1 DEF ReadyDevices
              <3> QED BY <3>1, <3>2
        <2>3. ~opts.list => ~Contradictory BY <2>1 DEF Inv, Unchosen
        <2>4. ~opts.list =>
                /\ opts.serial # NoSerial => serial' = opts.serial
                /\ opts.tcpip # NoSerial => serial' = opts.tcpip
                /\ opts.usb => serial' \notin TcpSerials
                /\ opts.tcp => serial' \in TcpSerials
                /\ (opts.env # NoSerial /\ Selectors = {}) => serial' = opts.env
              <3> DEFINE d == serial'
              <3>1. Types BY DEF Inv
              <3>2. d \in Serials /\ (\/ NamedSerial # NoSerial /\ d = NamedSerial
                                      \/ NamedSerial = NoSerial /\ d \in DeviceFilter)
                    BY <2>2
              <3> HIDE DEF d
              <3>3. ~opts.list =>
                      /\ opts.serial # NoSerial => d = opts.serial
                      /\ opts.tcpip # NoSerial => d = opts.tcpip
                      /\ opts.usb => d \notin TcpSerials
                      /\ opts.tcp => d \in TcpSerials
                      /\ (opts.env # NoSerial /\ Selectors = {}) => d = opts.env
                    BY <2>3, <3>1, <3>2, ChoiceObeys
              <3> QED BY <3>3 DEF d
        <2>5. Selectors' = Selectors BY <2>1 DEF Selectors
        <2>6. Obeyed' BY <2>1, <2>4, <2>5 DEF Obeyed
        <2>7. Unchosen' BY <2>1 DEF Unchosen
        <2>8. pc \in Unserved /\ pc' \in Unserved BY <2>1 DEF Unserved
        <2> QED BY <2>1, <2>2, <2>6, <2>7, <2>8, EarlyKeeps
  <1> QED BY <1>1, <1>2

LEMMA TunnelKeeps ==
  ASSUME Inv, Push \/ BindReverse \/ ReverseAnswers \/ Forward
  PROVE  Inv'
  <1>1. CASE \E r \in {"push", "listed", "ports"} : Leave(r) BY <1>1, LeaveKeeps
  <1>2. CASE ~(\E r \in {"push", "listed", "ports"} : Leave(r))
        <2>1. /\ pc \in {"push", "tunnel", "asking"} /\ pc' \in {"tunnel", "asking", "shell"}
              /\ UNCHANGED <<opts, serial, server, served, sockets, backlog, opened, trying, made>>
              /\ road' = road \/ road' \in {"reverse", "forward"}
              /\ pc = "push" => road' \in {"reverse", "forward"}
              <3>1. CASE Push BY <1>2, <3>1 DEF Push, FirstRoad, serverVars
              <3>2. CASE BindReverse BY <3>2 DEF BindReverse, serverVars
              <3>3. CASE ReverseAnswers BY <3>3 DEF ReverseAnswers, serverVars
              <3>4. CASE Forward BY <1>2, <3>4 DEF Forward, serverVars
              <3> QED BY <3>1, <3>2, <3>3, <3>4
        <2>2. pc \in Unserved /\ pc' \in Unserved BY <2>1 DEF Unserved
        <2>3. Obeyed' BY <2>1, ObeyedKeeps DEF Inv
        <2>4. Unchosen' BY <2>1 DEF Unchosen
        <2>5. road' \in {"reverse", "forward"} BY <2>1 DEF Inv, Roads
        <2>6. serial' \in Serials \cup {NoSerial} BY <2>1 DEF Inv, Types
        <2> QED BY <2>1, <2>2, <2>3, <2>4, <2>5, <2>6, EarlyKeeps
  <1> QED BY <1>1, <1>2

LEMMA StartServerKeeps ==
  ASSUME Inv, StartServer
  PROVE  Inv'
  <1>1. CASE Leave("shell") BY <1>1, LeaveKeeps
  <1>2. CASE ~Leave("shell")
        <2>1. /\ pc = "shell" /\ pc' = "sockets" /\ server' = "starting"
              /\ UNCHANGED <<opts, serial, road, served, sockets, backlog, opened, trying, made>>
              BY <1>2 DEF StartServer
        <2>2. /\ ~served /\ sockets = << >> /\ backlog = << >> /\ opened = << >> /\ trying = 0
              BY <2>1 DEF Inv, NotYet, Unserved
        <2>3. Types' BY <2>1 DEF Inv, Types, Reaching
        <2>4. Obeyed' BY <2>1, ObeyedKeeps DEF Inv
        <2>5. pc' \in Reaching /\ pc' \notin Unserved /\ pc' \notin Streamed
              BY <2>1 DEF Reaching, Unserved, Streamed
        <2>6. Unchosen' /\ NotYet' BY <2>1, <2>5 DEF Unchosen, NotYet
        <2>7. Roads' BY <2>1 DEF Inv, Roads
        <2>8. << >> \o << >> = << >> /\ Len(<< >>) = 0 BY EmptySeq, ConcatEmptySeq
        <2>9. Line' = << >> BY <2>1, <2>2, <2>8 DEF Line
        <2>10. 1 .. 0 = {} BY SMT
        <2>11. Reversed' BY <2>1, <2>2, <2>8 DEF Reversed
        <2>12. Forwarded' BY <2>1, <2>2, <2>8, <2>9, <2>10 DEF Forwarded, Rising, Made
        <2>13. Len(Wanted) \in Nat /\ Wanted' = Wanted
               BY <2>1, WantedFacts DEF Inv, Wanted, Only
        <2>14. 0 <= Len(Wanted) BY <2>13, SMT
        <2>15. Filled' BY <2>1, <2>2, <2>5, <2>8, <2>13, <2>14 DEF Filled
        <2>16. Sounding' BY <2>1 DEF Sounding
        <2> QED BY <2>3, <2>4, <2>6, <2>7, <2>11, <2>12, <2>15, <2>16 DEF Inv, Reached
  <1> QED BY <1>1, <1>2

-------------------------------------------------------------------------------
(* The sockets *)

LEMMA SocketFacts ==
  ASSUME Inv, Waiting
  PROVE  /\ pc = "sockets" /\ pc \in Reaching /\ pc \notin Unserved /\ pc \notin Streamed
         /\ Len(sockets) < Len(Wanted) /\ Len(Wanted) \in Nat /\ Len(sockets) \in Nat
         /\ Len(opened) \in Nat
  BY WantedFacts, LineFacts DEF Inv, Waiting, Reaching, Unserved, Streamed

(* While one is awaited on the client's road, the first has not been served. *)
LEMMA NotServedYet ==
  ASSUME Inv, Waiting, road = "forward", served
  PROVE  sockets = << >> /\ trying # 0 /\ opened = <<trying>>
  <1>1. Len(opened) = Len(Wanted) /\ (sockets = opened \/
          (sockets = << >> /\ trying # 0 /\ opened = <<trying>>))
        BY SocketFacts DEF Inv, Reached, Forwarded
  <1>2. sockets # opened BY <1>1, SocketFacts, SMT
  <1> QED BY <1>1, <1>2

LEMMA AcceptKeeps ==
  ASSUME Inv, Accept
  PROVE  Inv'
  <1>1. /\ Waiting /\ road = "reverse" /\ backlog # << >>
        /\ sockets' = Append(sockets, Head(backlog)) /\ backlog' = Tail(backlog)
        /\ UNCHANGED <<opts, pc, serial, road, trying, made, server, opened, served, running>>
        BY DEF Accept
  <1>2. /\ Append(sockets, Head(backlog)) \o Tail(backlog) = sockets \o backlog
        /\ Tail(backlog) \in Seq(Nat) /\ Append(sockets, Head(backlog)) \in Seq(Nat)
        /\ Len(sockets') = Len(sockets) + 1
        BY <1>1, MoveHead DEF Inv, Types
  <1>3. Types' BY <1>1, <1>2 DEF Inv, Types
  <1>4. opened = sockets \o backlog /\ trying = 0
        BY <1>1, SocketFacts DEF Inv, Reached, Reversed
  <1>5. sockets' \o backlog' = sockets \o backlog BY <1>1, <1>2
  <1>6. Reversed' BY <1>1, <1>4, <1>5 DEF Reversed
  <1>7. Forwarded' BY <1>1 DEF Forwarded
  <1>8. Wanted' = Wanted BY <1>1 DEF Wanted, Only
  <1>9. Len(sockets') <= Len(Wanted) BY <1>1, <1>2, SocketFacts, SMT
  <1>10. Filled' BY <1>1, <1>8, <1>9, SocketFacts DEF Filled
  <1>11. /\ server' = "listening" => road = "forward"
         /\ server' = "connecting" => road = "reverse"
         BY <1>1, SocketFacts DEF Inv, Roads
  <1> QED BY <1>1, <1>3, <1>6, <1>7, <1>10, <1>11, SocketFacts, LiveKeeps

(* An attempt that fails gives up a connection that was not served. *)
LEMMA AttemptFailsKeeps ==
  ASSUME Inv, Waiting, AttemptFails, road = "forward" /\ served => ~(opened = <<trying>>)
  PROVE  Inv'
  <1>1. CASE Leave("exited") BY <1>1, LeaveKeeps
  <1>2. CASE ~Leave("exited")
        <2>1. /\ trying' = 0
              /\ UNCHANGED <<opts, pc, serial, road, sockets, made, server, backlog, opened,
                             served, running>>
              BY <1>2 DEF AttemptFails, serverVars
        <2>2. Line' = Line /\ Wanted' = Wanted BY <2>1 DEF Line, Wanted, Only
        <2>3. Types' BY <2>1 DEF Inv, Types
        <2>4. Reversed' BY <2>1 DEF Inv, Reached, Reversed
        <2>5. Filled' BY <2>1, <2>2 DEF Inv, Reached, Filled
        <2>6. ~(road = "forward" /\ served) BY NotServedYet
        <2>7. Forwarded' BY <2>1, <2>2, <2>6 DEF Inv, Reached, Forwarded, Rising, Made
        <2>8. /\ server' = "listening" => road = "forward"
              /\ server' = "connecting" => road = "reverse"
              BY <2>1, SocketFacts DEF Inv, Roads
        <2> QED BY <2>1, <2>3, <2>4, <2>5, <2>7, <2>8, SocketFacts, LiveKeeps
  <1> QED BY <1>1, <1>2

LEMMA ConnectFirstKeeps ==
  ASSUME Inv, ConnectFirst
  PROVE  Inv'
  <1>1. Waiting /\ road = "forward" /\ trying = 0 /\ sockets = << >>
        BY DEF ConnectFirst, CanTry, IsFirst
  <1>2. ~served BY <1>1, NotServedYet
  <1>3. CASE AttemptFails BY <1>1, <1>2, <1>3, AttemptFailsKeeps
  <1>4. CASE ~AttemptFails
        <2>1. /\ server = "listening" /\ made' = made + 1 /\ trying' = made + 1
              /\ backlog' = Append(backlog, made + 1)
              /\ UNCHANGED <<opts, pc, serial, road, sockets, server, opened, served, running>>
              BY <1>4 DEF ConnectFirst
        <2>2. made \in Nat /\ made + 1 \in Nat BY SMT DEF Inv, Types
        <2>3. /\ Line' = Append(Line, made + 1) /\ backlog' \in Seq(Nat)
              BY <2>1, <2>2, AppendLast DEF Inv, Types, Line
        <2>4. Types' BY <2>1, <2>2, <2>3 DEF Inv, Types
        <2>5. Rising(Line) /\ Made(Line, made)
              BY <1>1, SocketFacts DEF Inv, Reached, Forwarded
        <2>6. Line \in Seq(Nat) BY LineFacts DEF Inv
        <2>7. /\ Rising(Append(Line, made + 1))
              /\ Made(Append(Line, made + 1), made + 1)
              <3> HIDE DEF Line
              <3> QED BY <2>2, <2>5, <2>6, RisingAppend
        <2>8. Rising(Line)' /\ Made(Line', made')
              BY <2>1, <2>3, <2>7 DEF Rising
        <2>9. Forwarded' BY <1>1, <1>2, <2>1, <2>8 DEF Forwarded
        <2>10. Reversed' BY <1>1, <2>1 DEF Reversed
        <2>11. Wanted' = Wanted BY <2>1 DEF Wanted, Only
        <2>12. Filled' BY <2>1, <2>11 DEF Inv, Reached, Filled
        <2> QED BY <1>1, <2>1, <2>4, <2>9, <2>10, <2>12, SocketFacts, LiveKeeps
  <1> QED BY <1>3, <1>4

LEMMA ConnectNextKeeps ==
  ASSUME Inv, ConnectNext
  PROVE  Inv'
  <1>1. /\ Waiting /\ road = "forward" /\ trying = 0 /\ sockets # << >>
        /\ made' = made + 1 /\ sockets' = Append(sockets, made + 1)
        /\ backlog' = IF server = "listening" THEN Append(backlog, made + 1) ELSE backlog
        /\ UNCHANGED <<opts, pc, serial, road, trying, server, opened, served, running>>
        BY DEF ConnectNext, CanTry, IsFirst
  <1>2. ~served BY <1>1, NotServedYet
  <1>3. made \in Nat /\ made + 1 \in Nat /\ made <= made + 1 BY SMT DEF Inv, Types
  <1>4. sockets' \in Seq(Nat) /\ Len(sockets') = Len(sockets) + 1
        BY <1>1, <1>3, AppendProperties DEF Inv, Types
  <1>5. /\ opened \o Append(backlog, made + 1) = Append(Line, made + 1)
        /\ Append(backlog, made + 1) \in Seq(Nat)
        BY <1>3, AppendLast DEF Inv, Types, Line
  <1>6. Types' BY <1>1, <1>3, <1>4, <1>5 DEF Inv, Types
  <1>7. /\ Rising(Line) /\ Made(Line, made)
        /\ server # "starting"
        /\ server = "listening" => sockets = Line
        BY <1>1, SocketFacts DEF Inv, Reached, Forwarded
  <1>8. Line \in Seq(Nat) BY LineFacts DEF Inv
  <1>9. /\ Rising(Append(Line, made + 1))
        /\ Made(Append(Line, made + 1), made + 1)
        <2> HIDE DEF Line
        <2> QED BY <1>3, <1>7, <1>8, RisingAppend
  <1>10. ASSUME server = "listening" PROVE Forwarded'
        <2>1. Line' = Append(Line, made + 1) BY <1>1, <1>5, <1>10 DEF Line
        <2>2. Rising(Line)' /\ Made(Line', made')
              BY <1>1, <1>9, <2>1 DEF Rising
        <2>3. sockets' = Line' BY <1>1, <1>7, <1>10, <2>1
        <2> QED BY <1>1, <1>2, <1>7, <1>10, <2>2, <2>3 DEF Forwarded
  <1>11. ASSUME server # "listening" PROVE Forwarded'
        <2>1. Line' = Line BY <1>1, <1>11 DEF Line
        <2>2. Made(Line, made + 1)
              <3>1. \A i \in 1 .. Len(Line) : Line[i] \in Nat BY <1>8, ElementOfSeq
              <3> HIDE DEF Line
              <3> QED BY <1>3, <1>7, <3>1, SMT DEF Made
        <2>3. Rising(Line)' BY <1>7, <2>1 DEF Rising
        <2> QED BY <1>1, <1>2, <1>7, <1>11, <2>1, <2>2, <2>3 DEF Forwarded
  <1>12. Forwarded' BY <1>10, <1>11
  <1>13. Reversed' BY <1>1 DEF Reversed
  <1>14. Wanted' = Wanted BY <1>1 DEF Wanted, Only
  <1>15. Len(sockets') <= Len(Wanted) BY <1>1, <1>4, SocketFacts, SMT
  <1>16. Filled' BY <1>1, <1>14, <1>15, SocketFacts DEF Filled
  <1>17. /\ server' = "listening" => road = "forward"
         /\ server' = "connecting" => road = "reverse"
         BY <1>1, SocketFacts DEF Inv, Roads
  <1> QED BY <1>1, <1>6, <1>12, <1>13, <1>16, <1>17, SocketFacts, LiveKeeps

(* The byte has come on the latest connection, and so on the server's only one. *)
LEMMA ByteArrivesKeeps ==
  ASSUME Inv, ByteArrives
  PROVE  Inv'
  <1>1. /\ Waiting /\ trying # 0 /\ opened # << >> /\ opened[1] = trying
        /\ sockets' = <<trying>> /\ trying' = 0
        /\ UNCHANGED <<opts, pc, serial, road, made, server, backlog, opened, served, running>>
        BY DEF ByteArrives, HasByte, serverVars
  <1>2. road = "forward"
        BY <1>1, SocketFacts DEF Inv, Roads, Reached, Reversed
  <1>3. /\ Rising(Line) /\ Made(Line, made)
        /\ trying = made /\ server # "starting"
        /\ served => Len(opened) = Len(Wanted)
        BY <1>1, <1>2, SocketFacts DEF Inv, Reached, Forwarded
  <1>4. opened = <<made>> /\ Line = <<made>> BY <1>1, <1>3, LatestIsOnly DEF Inv
  <1>5. <<trying>> \in Seq(Nat) /\ Len(<<trying>>) = 1 BY SMT DEF Inv, Types
  <1>6. Types' BY <1>1, <1>5, SMT DEF Inv, Types
  <1>7. Line' = Line /\ Wanted' = Wanted BY <1>1 DEF Line, Wanted, Only
  <1>8. Forwarded' BY <1>1, <1>2, <1>3, <1>4, <1>7 DEF Forwarded, Rising, Made
  <1>9. Reversed' BY <1>1, <1>2 DEF Reversed
  <1>10. Len(sockets') <= Len(Wanted) BY <1>1, <1>5, SocketFacts, SMT
  <1>11. Filled' BY <1>1, <1>7, <1>10, SocketFacts DEF Filled
  <1>12. /\ server' = "listening" => road = "forward"
         /\ server' = "connecting" => road = "reverse"
         BY <1>1, SocketFacts DEF Inv, Roads
  <1> QED BY <1>1, <1>6, <1>8, <1>9, <1>11, <1>12, SocketFacts, LiveKeeps

LEMMA ByteTimesOutKeeps ==
  ASSUME Inv, ByteTimesOut
  PROVE  Inv'
  <1>1. Waiting /\ trying # 0 /\ ~HasByte(trying) /\ AttemptFails BY DEF ByteTimesOut
  <1>2. opened # <<trying>> BY <1>1, SMT DEF HasByte
  <1> QED BY <1>1, <1>2, AttemptFailsKeeps

LEMMA ConnectKeeps ==
  ASSUME Inv, Connect
  PROVE  Inv'
  <1>1. CASE NoStreams BY <1>1, LeaveKeeps DEF NoStreams
  <1>2. CASE AllConnected
        <2>1. /\ pc = "sockets" /\ pc' = "info" /\ Len(sockets) = Len(Wanted)
              /\ UNCHANGED <<opts, serial, road, server, served, sockets, backlog, opened,
                             trying, made>>
              BY <1>2 DEF AllConnected, serverVars
        <2>2. pc \in Reaching /\ pc' \in Reaching /\ pc' \notin Streamed
              BY <2>1 DEF Reaching, Streamed
        <2>3. Wanted' = Wanted BY <2>1 DEF Wanted, Only
        <2>4. Len(sockets) <= Len(Wanted) BY <2>1, <2>2 DEF Inv, Reached, Filled
        <2>5. Filled' BY <2>1, <2>2, <2>3, <2>4 DEF Filled
        <2>6. Sounding' BY <2>1 DEF Sounding
        <2> QED BY <2>1, <2>2, <2>5, <2>6, MovesOnKeeps
  <1>3. CASE Accept BY <1>3, AcceptKeeps
  <1>4. CASE AcceptGivesUp BY <1>4, LeaveKeeps DEF AcceptGivesUp
  <1>5. CASE ConnectRefused
        <2>1. Waiting /\ AttemptFails /\ trying = 0 /\ road = "forward"
              BY <1>5 DEF ConnectRefused, CanTry
        <2>2. ~served BY <2>1, NotServedYet
        <2> QED BY <2>1, <2>2, AttemptFailsKeeps
  <1>6. CASE ConnectFirst BY <1>6, ConnectFirstKeeps
  <1>7. CASE ConnectNext BY <1>7, ConnectNextKeeps
  <1>8. CASE ByteArrives BY <1>8, ByteArrivesKeeps
  <1>9. CASE ByteTimesOut BY <1>9, ByteTimesOutKeeps
  <1>10. CASE ConnectGivesUp BY <1>10, LeaveKeeps DEF ConnectGivesUp
  <1> QED BY <1>1, <1>2, <1>3, <1>4, <1>5, <1>6, <1>7, <1>8, <1>9, <1>10 DEF Connect

-------------------------------------------------------------------------------
(* The streams, and the session's end *)

LEMMA StreamsKeep ==
  ASSUME Inv, ReadInfo \/ Streaming
  PROVE  Inv'
  <1>1. CASE \E r \in {"info", "audio", "control"} : Leave(r) BY <1>1, LeaveKeeps
  <1>2. CASE GoesDown BY <1>2, GoesDownKeeps
  <1>3. CASE ~(\E r \in {"info", "audio", "control"} : Leave(r)) /\ ~GoesDown
        <2>1. /\ pc \in {"info", "streams", "control", "video"}
              /\ pc' \in {"streams", "control", "video", "up"}
              /\ pc = "info" => served /\ pc' = "streams"
              /\ UNCHANGED <<opts, serial, road, server, served, sockets, backlog, opened,
                             trying, made>>
              /\ pc = "streams" => pc' = "control" /\ (opts.requireAudio => "audio" \in running')
              /\ pc \in {"control", "video"} => running \subseteq running'
              <3>1. CASE ReadInfo BY <1>3, <3>1 DEF ReadInfo, serverVars
              <3>2. CASE StartAudio
                    <4>1. PICK header \in Comes("audio", AudioHeaders) :
                            \/ opts.requireAudio /\ header # "codec" /\ Leave("audio")
                            \/ /\ opts.requireAudio => header = "codec"
                               /\ pc' = "control"
                               /\ running' \in IF header = "codec" THEN Heard ELSE {{}}
                               /\ UNCHANGED <<opts, why, serial, road, port, listener, sockets,
                                              trying, attempts, made, serverVars, bus, busy,
                                              reversed, forwarded, shell>>
                          BY <3>2 DEF StartAudio
                    <4>2. pc = "streams" BY <3>2 DEF StartAudio
                    <4> QED BY <1>3, <4>1, <4>2 DEF serverVars, Heard
              <3>3. CASE StartControl BY <1>3, <3>3 DEF StartControl, serverVars
              <3>4. CASE StartVideo
                    <4>1. PICK header \in Comes("video", VideoHeaders) :
                            \/ "video" \in opts.streams /\ GoesDown /\ fault' = TRUE
                            \/ /\ "video" \in opts.streams => header = "codec"
                               /\ pc' = "up"
                               /\ running' = running \cup (opts.streams \cap {"video"})
                               /\ UNCHANGED <<opts, why, serial, road, port, listener, sockets,
                                              trying, attempts, made, serverVars, bus, busy,
                                              reversed, forwarded, shell, fault>>
                          BY <3>4 DEF StartVideo
                    <4>2. pc = "video" BY <3>4 DEF StartVideo
                    <4> QED BY <1>3, <4>1, <4>2 DEF serverVars
              <3> QED BY <3>1, <3>2, <3>3, <3>4 DEF Streaming
        <2>2. pc \in Reaching \ {"sockets"} /\ pc' \in Reaching \ {"sockets"}
              BY <2>1 DEF Reaching, Streamed
        <2>3. Wanted' = Wanted BY <2>1 DEF Wanted, Only
        <2>4. served BY <2>1 DEF Inv, Reached, Filled, Streamed
        <2>5. Filled' BY <2>1, <2>2, <2>3, <2>4 DEF Inv, Reached, Filled
        <2>6. Sounding' BY <2>1 DEF Inv, Reached, Sounding
        <2> QED BY <2>1, <2>2, <2>5, <2>6, MovesOnKeeps
  <1> QED BY <1>1, <1>2, <1>3

LEMMA EndKeeps ==
  ASSUME Inv, RunEnds \/ Stop \/ ShutDown
  PROVE  Inv'
  BY LeaveKeeps, GoesDownKeeps DEF RunEnds, Stop, ShutDown

-------------------------------------------------------------------------------
(* The server, and the desk *)

LEMMA StartsKeeps ==
  ASSUME Inv, Starts
  PROVE  Inv'
  <1>1. /\ server = "starting"
        /\ server' = IF road = "forward" THEN "listening" ELSE "connecting"
        /\ UNCHANGED <<opts, pc, serial, road, served, sockets, backlog, opened, trying, made,
                       running>>
        BY DEF Starts, Told, clientVars
  <1>2. Line' = Line /\ Wanted' = Wanted BY <1>1 DEF Line, Wanted, Only
  <1>3. Types' BY <1>1 DEF Inv, Types
  <1>4. pc \notin Unserved BY <1>1 DEF Inv, NotYet
  <1>5. Reversed' BY <1>1 DEF Inv, Reached, Reversed
  <1>6. Forwarded' BY <1>1, <1>2 DEF Inv, Reached, Forwarded, Rising, Made
  <1>7. Filled' BY <1>1, <1>2 DEF Inv, Reached, Filled
  <1>8. pc \in Reaching => /\ server' = "listening" => road = "forward"
                           /\ server' = "connecting" => road = "reverse"
        BY <1>1 DEF Inv, Roads
  <1> QED BY <1>1, <1>3, <1>4, <1>5, <1>6, <1>7, <1>8, LiveKeeps

LEMMA ConnectsKeeps ==
  ASSUME Inv, Connects
  PROVE  Inv'
  <1>1. /\ server = "connecting"
        /\ UNCHANGED <<opts, pc, serial, road, sockets, trying, served, running>>
        BY DEF Connects
  <1>2. CASE server' = server
        <2>1. /\ made' = made + 1 /\ opened' = Append(opened, made + 1)
              /\ backlog' = Append(backlog, made + 1)
              BY <1>1, <1>2 DEF Connects
        <2>2. made + 1 \in Nat BY SMT DEF Inv, Types
        <2>3. /\ sockets \o Append(backlog, made + 1) = Append(sockets \o backlog, made + 1)
              /\ Append(backlog, made + 1) \in Seq(Nat) /\ Append(opened, made + 1) \in Seq(Nat)
              BY <2>2, AppendLast DEF Inv, Types
        <2>4. Types' BY <1>1, <2>1, <2>2, <2>3 DEF Inv, Types
        <2>5. pc \in Reaching => road = "reverse" BY <1>1 DEF Inv, Roads
        <2>6. Reversed' BY <1>1, <2>1, <2>3 DEF Inv, Reached, Reversed
        <2>7. pc \in Reaching => Forwarded' BY <1>1, <2>5 DEF Forwarded
        <2>8. Wanted' = Wanted BY <1>1 DEF Wanted, Only
        <2>9. Filled' BY <1>1, <2>8 DEF Inv, Reached, Filled
        <2>10. pc \notin Unserved BY <1>1 DEF Inv, NotYet
        <2> QED BY <1>1, <1>2, <2>4, <2>5, <2>6, <2>7, <2>9, <2>10, LiveKeeps
  <1>3. CASE server' # server
        <2>1. server' = "gone" /\ UNCHANGED <<made, opened, backlog>> BY <1>3 DEF Connects
        <2> QED BY <1>1, <2>1, ServerLeavesKeeps
  <1> QED BY <1>2, <1>3

LEMMA AcceptsKeeps ==
  ASSUME Inv, Accepts
  PROVE  Inv'
  <1>1. /\ server = "listening" /\ backlog # << >> /\ Len(opened) < Len(Wanted)
        /\ opened' = Append(opened, Head(backlog)) /\ backlog' = Tail(backlog)
        /\ UNCHANGED <<opts, pc, serial, road, sockets, trying, made, server, served, running>>
        BY DEF Accepts, clientVars
  <1>2. /\ Append(opened, Head(backlog)) \o Tail(backlog) = opened \o backlog
        /\ Tail(backlog) \in Seq(Nat) /\ Append(opened, Head(backlog)) \in Seq(Nat)
        BY <1>1, MoveHead DEF Inv, Types
  <1>3. Types' BY <1>1, <1>2 DEF Inv, Types
  <1>4. Line' = Line /\ Wanted' = Wanted BY <1>1, <1>2 DEF Line, Wanted, Only
  <1>5. pc \notin Unserved BY <1>1 DEF Inv, NotYet
  <1>6. pc \in Reaching => road = "forward" BY <1>1 DEF Inv, Roads
  <1>7. pc \in Reaching => ~served
        <2> SUFFICES ASSUME pc \in Reaching, served PROVE FALSE OBVIOUS
        <2>1. Len(opened) = Len(Wanted) BY <1>6 DEF Inv, Reached, Forwarded
        <2> QED BY <1>1, <2>1, LineFacts, SMT DEF Inv
  <1>8. pc \in Reaching => Reversed' BY <1>1, <1>6 DEF Reversed
  <1>9. pc \in Reaching => Forwarded'
        BY <1>1, <1>4, <1>7 DEF Inv, Reached, Forwarded, Rising, Made
  <1>10. Filled' BY <1>1, <1>4 DEF Inv, Reached, Filled
  <1> QED BY <1>1, <1>3, <1>5, <1>6, <1>8, <1>9, <1>10, LiveKeeps

(* The first socket is still held: it is the latest, or the client has what *)
(* the server has.                                                          *)
LEMMA ServesKeeps ==
  ASSUME Inv, Serves
  PROVE  Inv'
  <1>1. /\ server \in {"listening", "connecting"} /\ Wanted # << >> /\ Len(opened) = Len(Wanted)
        /\ UNCHANGED <<opts, pc, serial, road, sockets, trying, made, backlog, opened, running>>
        BY DEF Serves, clientVars
  <1>2. CASE ~IsHeld(opened[1])
        <2>1. server' = "gone" /\ UNCHANGED served BY <1>2 DEF Serves
        <2> QED BY <1>1, <2>1, ServerLeavesKeeps
  <1>3. CASE IsHeld(opened[1])
        <2>1. server' = "serving" /\ served' = TRUE BY <1>3 DEF Serves
        <2>2. Types' BY <1>1, <2>1 DEF Inv, Types
        <2>3. Line' = Line /\ Wanted' = Wanted BY <1>1 DEF Line, Wanted, Only
        <2>4. pc \notin Unserved BY <1>1 DEF Inv, NotYet
        <2>5. Reversed' BY <1>1 DEF Inv, Reached, Reversed
        <2>6. Filled' BY <1>1, <2>1, <2>3 DEF Inv, Reached, Filled
        <2>7. Len(Wanted) \in Nat /\ Len(Wanted) # 0
              BY <1>1, WantedFacts, EmptySeq, SMT DEF Inv
        <2>8. opened # << >>
              BY <1>1, <2>7, EmptySeq
        <2>9. ASSUME pc \in Reaching, road = "forward"
              PROVE  sockets = opened \/ (sockets = << >> /\ trying # 0 /\ opened = <<trying>>)
              <3>1. server = "listening" BY <1>1, <2>9 DEF Inv, Roads
              <3>2. /\ Rising(Line) /\ Made(Line, made)
                    /\ trying # 0 => trying = made /\ sockets = << >>
                    /\ sockets # << >> => sockets = Line
                    BY <2>9, <3>1 DEF Inv, Reached, Forwarded
              <3>3. opened[1] = trying \/ opened[1] \in ToSet(sockets)
                    BY <1>3, <2>9 DEF IsHeld
              <3>4. CASE sockets = << >>
                    <4>1. ToSet(sockets) = {}
                          <5>1. 1 .. 0 = {} BY SMT
                          <5> QED BY <3>4, <5>1, EmptySeq DEF ToSet
                    <4>2. opened[1] = trying BY <3>3, <4>1
                    <4>3. opened[1] # 0
                          <5>1. Len(opened) >= 1 BY <1>1, <2>7, SMT
                          <5>2. 1 \in 1 .. Len(Line) /\ Line[1] = opened[1]
                                <6> HIDE DEF Line
                                <6>1. /\ Len(Line) = Len(opened) + Len(backlog)
                                      /\ Len(opened) \in Nat /\ Len(backlog) \in Nat
                                      BY LineFacts DEF Inv
                                <6>2. 1 \in 1 .. Len(Line) /\ 1 \in 1 .. Len(opened)
                                      BY <5>1, <6>1, SMT
                                <6> QED BY <6>2, LineFacts DEF Inv
                          <5>3. 0 < opened[1] BY <3>2, <5>2 DEF Made
                          <5> QED BY <5>3, SMT
                    <4> QED BY <2>8, <3>2, <3>4, <4>2, <4>3, LatestIsOnly DEF Inv
              <3>5. CASE sockets # << >>
                    <4>1. sockets = Line BY <3>2, <3>5
                    <4>2. Len(sockets) <= Len(Wanted) BY <2>9 DEF Inv, Reached, Filled
                    <4>3. Len(backlog) = 0
                          <5>1. /\ Len(Line) = Len(opened) + Len(backlog)
                                /\ Len(opened) \in Nat /\ Len(backlog) \in Nat
                                BY LineFacts DEF Inv
                          <5> QED BY <1>1, <4>1, <4>2, <5>1, SMT
                    <4>4. backlog = << >> BY <4>3, EmptySeq DEF Inv, Types
                    <4>5. Line = opened BY <4>4, ConcatEmptySeq DEF Line, Inv, Types
                    <4> QED BY <4>1, <4>5
              <3> QED BY <3>4, <3>5
        <2>10. pc \in Reaching => Forwarded'
              BY <1>1, <2>1, <2>3, <2>8, <2>9 DEF Inv, Reached, Forwarded, Rising, Made
        <2> QED BY <1>1, <2>1, <2>2, <2>4, <2>5, <2>6, <2>10, LiveKeeps
  <1> QED BY <1>2, <1>3

LEMMA ServerKeeps ==
  ASSUME Inv, Server \/ Fails \/ DeviceLeaves
  PROVE  Inv'
  <1>1. CASE Starts BY <1>1, StartsKeeps
  <1>2. CASE Connects BY <1>2, ConnectsKeeps
  <1>3. CASE Accepts BY <1>3, AcceptsKeeps
  <1>4. CASE Serves BY <1>4, ServesKeeps
  <1>5. CASE IsKilled BY <1>5, ServerLeavesKeeps DEF IsKilled, clientVars
  <1>6. CASE Fails BY <1>6, ServerLeavesKeeps DEF Fails, clientVars
  <1>7. CASE DeviceLeaves /\ server = "off" BY <1>7, SameKeeps DEF DeviceLeaves, clientVars
  <1>8. CASE DeviceLeaves /\ server # "off"
        BY <1>8, ServerLeavesKeeps DEF DeviceLeaves, clientVars
  <1> QED BY <1>1, <1>2, <1>3, <1>4, <1>5, <1>6, <1>7, <1>8 DEF Server

LEMMA OthersKeep ==
  ASSUME Inv, ReaderEnds \/ PortsChange \/ Done \/ UNCHANGED vars
  PROVE  Inv'
  <1>1. UNCHANGED <<opts, pc, serial, road, server, served, sockets, backlog, opened,
                    trying, made, running>>
        BY DEF ReaderEnds, PortsChange, Done, vars, clientVars, serverVars
  <1> QED BY <1>1, SameKeeps

-------------------------------------------------------------------------------
(* What is proved *)

(* The inductive invariant: the device chosen is allowed, and the sockets   *)
(* the client holds, those that wait and those the server opened are in one *)
(* order (connection.rs, connect_sockets).                                  *)
THEOREM Invariance == Spec => []Inv
  <1>1. Init => Inv BY InitKeeps
  <1>2. Inv /\ [Next]_vars => Inv'
        <2> SUFFICES ASSUME Inv, [Next]_vars PROVE Inv' OBVIOUS
        <2>1. CASE ReadOptions \/ ConnectTcpip BY <2>1, OptionsKeep
        <2>2. CASE SelectDevice BY <2>2, SelectKeeps
        <2>3. CASE Push \/ BindReverse \/ ReverseAnswers \/ Forward BY <2>3, TunnelKeeps
        <2>4. CASE StartServer BY <2>4, StartServerKeeps
        <2>5. CASE Connect BY <2>5, ConnectKeeps
        <2>6. CASE ReadInfo \/ Streaming BY <2>6, StreamsKeep
        <2>7. CASE RunEnds \/ Stop \/ ShutDown BY <2>7, EndKeeps
        <2>8. CASE Server \/ Fails \/ DeviceLeaves BY <2>8, ServerKeeps
        <2>9. CASE ReaderEnds \/ PortsChange \/ Done \/ UNCHANGED vars BY <2>9, OthersKeep
        <2> QED BY <2>1, <2>2, <2>3, <2>4, <2>5, <2>6, <2>7, <2>8, <2>9 DEF Next, Client, Start
  <1> QED BY <1>1, <1>2, PTL DEF Spec

(* A session that is up is on a device its selectors allow, each of its     *)
(* streams has the socket the server opened for it, whatever connections    *)
(* were given up on the way, and it has sound if it must (connection.rs,    *)
(* connect_sockets; commands.rs, named_serial; pipeline.rs, start_audio).   *)
THEOREM RightSockets == Spec => []WhatIsUpIsWhatWasAsked
  <1>1. Inv => WhatIsUpIsWhatWasAsked
        <2> SUFFICES ASSUME Inv PROVE WhatIsUpIsWhatWasAsked OBVIOUS
        <2>1. ASSUME pc = "up"
              PROVE  /\ \A s \in opts.streams : Assigned(s) = opened[Place(s)]
                     /\ opts.requireAudio => "audio" \in running
              <3>1. pc \in Reaching /\ pc \in Reaching \ {"sockets"} /\ pc \in Streamed
                    BY <2>1 DEF Reaching, Streamed
              <3>2. served /\ Len(sockets) = Len(Wanted) BY <3>1 DEF Inv, Reached, Filled
              <3>3. \A i \in 1 .. Len(sockets) : sockets[i] = opened[i]
                    <4>1. CASE road = "reverse"
                          <5>1. opened = sockets \o backlog
                                BY <3>1, <4>1 DEF Inv, Reached, Reversed
                          <5>2. sockets \in Seq(Nat) /\ backlog \in Seq(Nat) BY DEF Inv, Types
                          <5> QED BY <5>1, <5>2, SMT
                    <4>2. CASE road = "forward"
                          <5>1. Len(opened) = Len(sockets)
                                BY <3>1, <3>2, <4>2 DEF Inv, Reached, Forwarded
                          <5>2. ~(sockets = << >> /\ opened = <<trying>>) BY <5>1, SMT
                          <5> QED BY <3>1, <3>2, <4>2, <5>2 DEF Inv, Reached, Forwarded
                    <4> QED BY <3>1, <4>1, <4>2 DEF Inv, Roads
              <3>4. ASSUME NEW s \in opts.streams PROVE Assigned(s) = opened[Place(s)]
                    <4>1. Place(s) \in 1 .. Len(sockets) BY <3>2, WantedFacts DEF Inv
                    <4> QED BY <3>3, <4>1 DEF Assigned
              <3> QED BY <2>1, <3>4 DEF Inv, Reached, Sounding
        <2> QED BY <2>1 DEF Inv, Obeyed, WhatIsUpIsWhatWasAsked
  <1> QED BY <1>1, Invariance, PTL

-------------------------------------------------------------------------------
(* A step makes an attempt only of a server that has not gone, and only a   *)
(* step of the client's ends the wait.                                      *)
LEMMA AttemptsAre ==
  ASSUME [Next]_vars
  PROVE  attempts' \in {attempts, 0} \/ (~HasEnded /\ attempts' = attempts + 1)
  <1>1. CASE Connect
        <2>1. AttemptFails => attempts' = attempts \/ (~HasEnded /\ attempts' = attempts + 1)
              BY DEF AttemptFails, Leave
        <2> QED BY <1>1, <2>1 DEF Connect, NoStreams, AllConnected, Accept, AcceptGivesUp,
                ConnectRefused, ConnectFirst, ConnectNext, ByteArrives, ByteTimesOut,
                ConnectGivesUp, Leave
  <1>2. CASE Start
        BY <1>2 DEF Start, ReadOptions, ConnectTcpip, SelectDevice, Push, BindReverse,
           ReverseAnswers, Forward, StartServer, Leave, clientVars
  <1>3. CASE ReadInfo \/ Streaming \/ RunEnds \/ Stop \/ ShutDown
        BY <1>3 DEF ReadInfo, Streaming, StartAudio, StartControl, StartVideo, RunEnds, Stop,
           ShutDown, GoesDown, Leave
  <1>4. CASE Server \/ Fails \/ ReaderEnds \/ PortsChange \/ DeviceLeaves \/ Done \/ UNCHANGED vars
        BY <1>4 DEF Server, Starts, Connects, Accepts, Serves, IsKilled, Fails, ReaderEnds,
           PortsChange, DeviceLeaves, Done, vars, clientVars
  <1> QED BY <1>1, <1>2, <1>3, <1>4 DEF Next, Client

LEMMA WaitsEnd ==
  ASSUME Inv, [Next]_vars, Waiting, HasEnded, pc' = "over"
  PROVE  why' = "exited" \/ attempts = MaxAttempts
  <1>1. pc = "sockets" /\ Len(sockets) < Len(Wanted) BY DEF Waiting
  <1>2. Wanted # << >>
        <2>1. Len(sockets) \in Nat BY DEF Inv, Types
        <2>2. Len(<< >>) = 0 /\ \A n \in Nat : ~(n < 0) BY SMT
        <2> QED BY <1>1, <2>1, <2>2
  <1>3. CASE Connect
        <2>1. AttemptFails => why' = "exited" BY DEF AttemptFails, Leave
        <2>2. NoStreams \/ AllConnected \/ Accept \/ ConnectNext \/ ByteArrives => FALSE
              BY <1>1, <1>2 DEF NoStreams, AllConnected, Accept, ConnectNext, ByteArrives
        <2>3. AcceptGivesUp => why' = "exited" BY DEF AcceptGivesUp, Leave
        <2>4. ConnectRefused \/ ByteTimesOut => AttemptFails
              BY DEF ConnectRefused, ByteTimesOut
        <2>5. ConnectFirst => AttemptFails BY <1>1 DEF ConnectFirst
        <2>6. ConnectGivesUp => attempts = MaxAttempts BY DEF ConnectGivesUp
        <2> QED BY <1>3, <2>1, <2>2, <2>3, <2>4, <2>5, <2>6 DEF Connect
  <1>4. CASE Start
        BY <1>1, <1>4 DEF Start, ReadOptions, ConnectTcpip, SelectDevice, Push, BindReverse,
           ReverseAnswers, Forward, StartServer
  <1>5. CASE ReadInfo \/ Streaming \/ RunEnds \/ Stop \/ ShutDown
        BY <1>1, <1>5 DEF ReadInfo, Streaming, StartAudio, StartControl, StartVideo, RunEnds,
           Stop, ShutDown
  <1>6. CASE Server \/ Fails \/ ReaderEnds \/ PortsChange \/ DeviceLeaves \/ Done \/ UNCHANGED vars
        BY <1>1, <1>6 DEF Server, Starts, Connects, Accepts, Serves, IsKilled, Fails, ReaderEnds,
           PortsChange, DeviceLeaves, Done, vars, clientVars
  <1> QED BY <1>3, <1>4, <1>5, <1>6 DEF Next, Client

(* A server that has gone is not waited for: no further attempt is made of  *)
(* it, and the failure names it, for any number of attempts and whatever    *)
(* the server and the desk do (connection.rs, server_gone).                 *)
THEOREM GoneServersAreNotAwaited == Spec => AGoneServerIsNotAwaited
  <1> DEFINE Attempted == attempts \in Nat
  <1>1. Init => Attempted BY DEF Init
  <1>2. Attempted /\ [Next]_vars => Attempted'
        <2> SUFFICES ASSUME Attempted, [Next]_vars PROVE attempts' \in Nat OBVIOUS
        <2>1. attempts \in Nat /\ attempts + 1 \in Nat /\ 0 \in Nat BY SMT
        <2> QED BY <2>1, AttemptsAre
  <1>3. ASSUME Inv, Attempted, [Next]_vars
        PROVE  [(Waiting /\ HasEnded) =>
                   /\ attempts' <= attempts
                   /\ pc' = "over" => why' = "exited" \/ attempts = MaxAttempts]_vars
        <2> SUFFICES ASSUME Waiting, HasEnded
                     PROVE  /\ attempts' <= attempts
                            /\ pc' = "over" => why' = "exited" \/ attempts = MaxAttempts
            OBVIOUS
        <2>1. attempts' \in {attempts, 0} BY <1>3, AttemptsAre
        <2>2. attempts' <= attempts BY <1>3, <2>1, SMT
        <2> QED BY <1>3, <2>2, WaitsEnd
  <1> QED BY <1>1, <1>2, <1>3, Invariance, PTL DEF Spec, AGoneServerIsNotAwaited
=============================================================================
