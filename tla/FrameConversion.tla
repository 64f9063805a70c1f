-------------------------- MODULE FrameConversion --------------------------
(***************************************************************************)
(* How a decoded frame becomes the packed picture the window draws         *)
(* (src/media/decoder/convert.rs).                                         *)
(*                                                                         *)
(* A picture is three places: its body, its tail (the last row or two) and *)
(* its edge (the last columns of every row); behind it lies what is not    *)
(* the picture's.  swscale picks a converter for each pixel format and     *)
(* size, and what that converter does cannot be read anywhere: it may      *)
(* write past the last row it is given, leave the edge of a row without    *)
(* slack unwritten.                                                        *)
(***************************************************************************)
EXTENDS Integers, FiniteSets

CONSTANT Sizes                    \* the sizes a stream takes

Formats == {"yuv", "own"}         \* YUV420P, or the layout of the GPU
Keys == Formats \X Sizes          \* scaler_key
NoKey == <<"none", "none">>

\* What a converter does; what it writes past the picture is picture.
Converters == [past : BOOLEAN, short : BOOLEAN]

Exact == [past |-> FALSE, short |-> FALSE]

Whole == {"body", "tail", "edge"}

\* Where a conversion of the whole picture writes, given a row with slack.
Places(converter, slack) ==
  {"body", "tail"}
    \union (IF converter.short /\ ~slack THEN {} ELSE {"edge"})
    \union (IF converter.past THEN {"past"} ELSE {})

-----------------------------------------------------------------------------
(* choose_write                                                            *)

\* Mutant: the room is filled once, with a byte the picture may hold.
Fillings_One == {"aa"}

Fillings == {"aa", "55"}

\* A place both fillings were found in was not written; content is what the
\* picture holds at each place.
SeenWritten(converter, place, content) ==
  place \in Places(converter, FALSE) /\ \E canary \in Fillings : content[place] # canary

\* A hole is ruled out first, because every exact row has it; then a converter
\* that stays inside; then one that draws the tail the same when it is cut off.
ChooseWrite(converter, content, same) ==
  IF ~SeenWritten(converter, "edge", content) THEN "padded"
  ELSE IF ~SeenWritten(converter, "past", content) THEN "direct"
  ELSE IF same THEN "tail" ELSE "scratch"

\* The scalers a picture that has none yet may be built: with any of these
\* converters, measured on any picture.
Built(key, converters) ==
  UNION {{[key |-> key, converter |-> c, write |-> ChooseWrite(c, content, same)] :
            content \in [{"edge", "past"} -> {"aa", "55", "other"}], same \in BOOLEAN} :
         c \in converters}

-----------------------------------------------------------------------------
(* convert_to_rgb                                                          *)

\* Where the write reaches in the window's own buffer.
Reaches(write, converter) ==
  CASE write = "direct"  -> Places(converter, FALSE)
    [] write = "tail"    -> Places(converter, FALSE) \ {"past"}
    [] write = "scratch" -> Places(converter, FALSE) \ {"past"}
    [] write = "padded"  -> Places(converter, TRUE) \ {"past"}

\* Whether the scaler at hand was built, and measured, for such a picture.
Fresh(key, format, size) == key = <<format, size>>
=============================================================================
