--------------------------- MODULE AudioRegulator ---------------------------
(***************************************************************************)
(* The ring of interleaved samples between the audio feed thread, which    *)
(* pushes, and the sound card's callback, which pulls                      *)
(* (src/audio/regulator.rs).  Both take the mutex for the whole of their   *)
(* step, so a push and a pull are one action each.                         *)
(*                                                                         *)
(* A sample is the number it was decoded under, so its channel is its      *)
(* parity and the order of the sound is the order of the numbers.  The     *)
(* durations of the code (the target, a second, 60 ms, 10 ms, what the     *)
(* sound card holds) are numbers of frames.                                *)
(*                                                                         *)
(* Left out: the average, the underflow counter and the check of once a    *)
(* second, which only write to the log.                                    *)
(***************************************************************************)
EXTENDS Integers

CONSTANTS
  TargetFrames,   \* --audio-buffer: what playback waits for
  SecondFrames,   \* the ring's room beyond the target
  SixtyFrames,    \* the headroom of the cap
  TenFrames,      \* the headroom of the cap before playback
  Outputs,        \* the values of --audio-output-buffer tried
  Chunks,         \* the frames one decoded packet may hold
  Pulls           \* the frames one callback may ask for

ASSUME FramesAssumption ==
  /\ TargetFrames \in Nat
  /\ SecondFrames \in Nat \ {0}
  /\ SixtyFrames \in Nat
  /\ TenFrames \in Nat
  /\ Outputs \subseteq Nat
  /\ Pulls \subseteq Nat

Channels == 2
Capacity == (TargetFrames + SecondFrames) * Channels
Target == TargetFrames * Channels

\* A decoded packet is a fraction of a second: it always fits an empty ring.
ASSUME ChunksAssumption == Chunks \subseteq 0 .. (TargetFrames + SecondFrames)

VARIABLES
  ring,          \* AudioBuffer: data, write_pos, read_pos and count
  played,        \* the callback has begun to hand out sound
  outputBuffer,  \* what the sound card holds, in samples
  pushed         \* the samples pushed since the start (their next number)

rvars == <<ring, played, outputBuffer, pushed>>

Slots == 0 .. (Capacity - 1)
Least(a, b) == IF a < b THEN a ELSE b
Greater(a, b) == IF a > b THEN a ELSE b

\* A position past the end comes round once: no step is longer than the ring.
Wrap(p) == IF p >= Capacity THEN p - Capacity ELSE p

\* How far slot i lies after position p, going round.
After(p, i) == IF i >= p THEN i - p ELSE i + Capacity - p

\* Mutant: the drop is not rounded to whole frames.
WholeFrames_Not(n) == n

WholeFrames(n) == n - (n % Channels)

-----------------------------------------------------------------------------
(* AudioBuffer                                                             *)

EmptyRing == [data |-> [i \in Slots |-> 0], write |-> 0, read |-> 0, count |-> 0]

Room(b, len) == Least(len, Capacity - b.count)

\* As many of the len samples numbered from first as there is room for.
Write(b, first, len) ==
  LET n == Room(b, len) IN
    [data  |-> [i \in Slots |-> IF After(b.write, i) < n
                                THEN first + After(b.write, i) ELSE b.data[i]],
     write |-> Wrap(b.write + n),
     read  |-> b.read,
     count |-> b.count + n]

\* The oldest n samples, or all there are, leave: skipped or read alike.
Skip(b, n) ==
  LET k == Least(n, b.count) IN
    [b EXCEPT !.read = Wrap(@ + k), !.count = @ - k]

\* The i-th oldest sample.
At(b, i) == b.data[Wrap(b.read + i)]

-----------------------------------------------------------------------------
(* AudioRegulator::push and AudioRegulatorConsumer::pull                   *)

\* Mutant: before playback the cap forgets the target.
MaxBuffered_NoTarget ==
  IF played THEN Target + outputBuffer + SixtyFrames * Channels ELSE TenFrames * Channels

MaxBuffered ==
  IF played
  THEN Greater((Target \div 10) * 11 + SixtyFrames * Channels,
               Target + outputBuffer + SixtyFrames * Channels)
  ELSE Target + TenFrames * Channels

\* Mutant: a full ring refuses what is new instead of dropping what is old.
WriteRest_Refused(b, first, len) == b

\* What did not fit of a chunk: the oldest samples make room for it.
WriteRest(b, first, len) ==
  IF len = 0 THEN b ELSE Write(Skip(b, WholeFrames(len)), first, len)

Capped(b, most) ==
  IF b.count > most THEN Skip(b, WholeFrames(b.count - most)) ELSE b

\* (The quantifiers over one value name the ring after each of the steps.)
Push(frames) ==
  LET len == frames * Channels
      n == Room(ring, len) IN
    /\ \E b \in {Write(ring, pushed, len)} :
       \E c \in {WriteRest(b, pushed + n, len - n)} : ring' = Capped(c, MaxBuffered)
    /\ pushed' = pushed + len
    /\ UNCHANGED <<played, outputBuffer>>

\* Silence until the target is reached; from then on what there is, and
\* silence for the rest.
Waits == ~played /\ ring.count < Target

Pull(frames) ==
  /\ ~Waits
  /\ ring' = Skip(ring, frames * Channels)
  /\ played' = TRUE
  /\ UNCHANGED <<outputBuffer, pushed>>

RInit ==
  /\ ring = EmptyRing
  /\ played = FALSE
  /\ outputBuffer \in {f * Channels : f \in Outputs}
  /\ pushed = 0

-----------------------------------------------------------------------------
(* Properties                                                              *)

(* The ring holds the last samples that were pushed, in their order, with  *)
(* nothing twice and no hole: whatever the order of pushes that overflow,  *)
(* caps and callbacks that find too little, only the oldest sound is ever  *)
(* given up (write's two copies, the drop for room, the cap and read all   *)
(* move the same two positions).                                           *)
TheNewestAreKept ==
  \A i \in 0 .. (ring.count - 1) : At(ring, i) = pushed - ring.count + i

(* The next sample the callback takes is one of the left channel: no       *)
(* overflow and no cap, odd ones included, ever moves the sound into the   *)
(* other channel's place (whole_frames).                                   *)
ChannelsKeepTheirPlace ==
  ring.count > 0 => At(ring, 0) % Channels = 0

(* While sound is playing, a push that gives samples up leaves the target  *)
(* and one whole callback of the sound card behind: the cap is never what  *)
(* makes a callback run dry.                                               *)
TheCapLeavesACallback ==
  [][ played /\ pushed' > pushed /\ ring'.count < ring.count + (pushed' - pushed)
        => ring'.count >= Target + outputBuffer ]_rvars
=============================================================================
