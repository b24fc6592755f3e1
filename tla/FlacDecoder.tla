----------------------------- MODULE FlacDecoder ----------------------------
(***************************************************************************)
(* fx_flac, the decoder of support/flac.c.  It is handed a file piece by   *)
(* piece and stops wherever the bits run out, to go on from there when it  *)
(* is called again.                                                        *)
(*                                                                         *)
(* A file is the sizes of its fields; positions in it are counted in bits. *)
(* An action is one turn of a state handler, or of the loop over samples   *)
(* inside it, as far as a turn can be cut short.  Files are well formed,   *)
(* except that a frame may be damaged.                                     *)
(***************************************************************************)
EXTENDS Integers, Sequences, FiniteSetsExt

CONSTANTS Files,         \* what may be loaded
          MaxBlockSize,  \* max_block_size
          MaxChannels    \* max_channels

VARIABLES file,    \* the file being read
          given,   \* bits of it handed to the decoder so far
          pos,     \* bits the decoder has read
          flac,    \* struct fx_flac
          call,    \* "run" in fx_flac_process, "return" after it
          room,    \* values the caller still takes from this call
          out      \* history: values given to the caller

decoder == <<given, pos, flac, call, room, out>>

Chans == 0 .. MaxChannels - 1

-----------------------------------------------------------------------------
(* What a well-formed file is                                              *)

Listed(s) == Len(s) \in Nat /\ DOMAIN s = 1 .. Len(s)

SoundMeta(m) ==
  m.info \in BOOLEAN /\ m.len \in Nat /\ (m.info => m.len = 34)

SoundPart(p) ==
  p.head \in {4, 5} /\ p.raw \in BOOLEAN /\ p.unary \in Nat /\ p.bits \in Nat

(* The samples that predict the others are in the first partition.         *)
SoundSub(f, fr, sub) ==
  /\ sub.wasted \in 0 .. f.bits - 1
  /\ sub.type \in {"constant", "verbatim", "fixed", "lpc"}
  /\ sub.order \in Nat /\ sub.prec \in Nat
  /\ Listed(sub.parts) /\ \A i \in DOMAIN sub.parts : SoundPart(sub.parts[i])
  /\ sub.type \in {"fixed", "lpc"} =>
       Len(sub.parts) > 0 /\ sub.order <= fr.size \div Len(sub.parts)

SoundFrame(f, fr) ==
  /\ fr.size \in 1 .. MaxBlockSize
  /\ Listed(fr.subs) /\ Len(fr.subs) \in 1 .. MaxChannels
  /\ Len(fr.subs) = Len(f.frames[1].subs)
  /\ fr.variable \in BOOLEAN /\ fr.coded \in 1 .. (IF fr.variable THEN 7 ELSE 6)
  /\ fr.aux \in 0 .. 32 /\ fr.intact \in BOOLEAN /\ fr.side \in Int
  /\ \A i \in DOMAIN fr.subs : SoundSub(f, fr, fr.subs[i])

SoundFile(f) ==
  /\ f.bits \in 1 .. 32 /\ f.has \in Nat
  /\ Listed(f.meta) /\ Len(f.meta) > 0 /\ f.meta[1].info
  /\ \A k \in DOMAIN f.meta : SoundMeta(f.meta[k])
  /\ Listed(f.frames) /\ Len(f.frames) > 0
  /\ \A k \in DOMAIN f.frames : SoundFrame(f, f.frames[k])

ASSUME DecoderAssumption ==
  /\ MaxBlockSize \in Nat \ {0} /\ MaxChannels \in Nat \ {0}
  /\ \A f \in Files : f.kind = "flac" => SoundFile(f)

-----------------------------------------------------------------------------
(* The sizes of fields, in bits                                            *)

Total(n, term) ==
  LET upTo[i \in 0 .. n] == IF i = 0 THEN 0 ELSE upTo[i - 1] + term[i]
  IN upTo[n]

(* Width of a sample of channel c: a difference has a bit more.            *)
SampleBits(f, c, wasted) == file.bits - wasted + (IF c = f.side THEN 1 ELSE 0)

(* A partition is Rice coded, with `unary' zeros and `bits' more for each  *)
(* sample, or raw.                                                         *)
PartSamples(f, sub, k) == f.size \div Len(sub.parts) - (IF k = 0 THEN sub.order ELSE 0)

PartHead(p) == p.head + (IF p.raw THEN 5 ELSE 0)

PartBits(f, sub, k) ==
  LET p == sub.parts[k + 1]
  IN PartHead(p) + PartSamples(f, sub, k) * (IF p.raw THEN p.bits ELSE p.unary + 1 + p.bits)

ResidualBits(f, sub) ==
  6 + Total(Len(sub.parts), [i \in DOMAIN sub.parts |-> PartBits(f, sub, i - 1)])

SubframeBits(f, c) ==
  LET sub == f.subs[c + 1]
      bps == SampleBits(f, c, sub.wasted)
  IN 8 + sub.wasted +
     CASE sub.type = "constant" -> bps
       [] sub.type = "verbatim" -> f.size * bps
       [] sub.type = "fixed"    -> sub.order * bps + ResidualBits(f, sub)
       [] sub.type = "lpc"      -> sub.order * (bps + sub.prec) + 9 + ResidualBits(f, sub)

Pad(n) == (8 - (n % 8)) % 8

FrameBits(f) ==
  LET n == 32 + 8 * f.coded + f.aux + 8
           + Total(Len(f.subs), [i \in DOMAIN f.subs |-> SubframeBits(f, i - 1)])
  IN n + Pad(n) + 16

MetaBits ==
  32 + Total(Len(file.meta), [k \in DOMAIN file.meta |-> 32 + 8 * file.meta[k].len])

FrameStart(k) ==
  MetaBits + Total(k - 1, [j \in DOMAIN file.frames |-> FrameBits(file.frames[j])])

FlacBits == FrameStart(Len(file.frames) + 1)

-----------------------------------------------------------------------------

(* fx_flac_reset; `shifts' is a history: the wasted-bits shifts made on    *)
(* each block buffer since it was read.                                    *)
FlacReset ==
  [state |-> "init", priv |-> "sync_init", block |-> 1, rem |-> 0, frame |-> 0,
   chan |-> 0, cur |-> 0, coef |-> 0, part |-> 0, left |-> 0, unary |-> 0,
   order |-> 0, wasted |-> 0, shifts |-> [c \in Chans |-> 0]]

DecoderInit ==
  /\ given = 0 /\ pos = 0
  /\ flac = FlacReset
  /\ call = "return" /\ room = 0
  /\ out = <<>>

(* Bytes taken from the caller: eight are kept ahead of the position.      *)
Taken == IF pos = 0 THEN 0 ELSE Min({given \div 8, pos \div 8 + 8})

Go(d, s, p) == [d EXCEPT !.state = s, !.priv = p]

(* _fx_flac_handle_err                                                     *)
HandleErr(d) ==
  IF d.state \in {"init", "in_metadata"} THEN [d EXCEPT !.state = "err"]
  ELSE Go(d, "search_frame", "frame_sync")

(* Look ahead `need' bits, read `n' of them; or return and be called again *)
(* in the same state.                                                      *)
Take(need, n, d) ==
  /\ IF pos + need <= given
     THEN pos' = pos + n /\ flac' = d /\ UNCHANGED call
     ELSE call' = "return" /\ UNCHANGED <<pos, flac>>
  /\ UNCHANGED <<file, given, room, out>>

Turn(d) == Take(0, 0, d)
Read(n, d) == Take(n, n, d)

In(s, p) == call = "run" /\ flac.state = s /\ flac.priv = p

-----------------------------------------------------------------------------
(* Metadata                                                                *)

(* _fx_flac_process_init; what is loaded begins with `fLaC'.               *)
SyncStream ==
  \/ \E p \in {<<"sync_init", "sync_f">>, <<"sync_f", "sync_l">>, <<"sync_l", "sync_a">>} :
       In("init", p[1]) /\ Read(8, [flac EXCEPT !.priv = p[2]])
  \/ In("init", "sync_a") /\ Read(8, Go(flac, "in_metadata", "metadata_header"))

MetadataHeader ==
  LET m == file.meta[flac.block]
      d == [flac EXCEPT !.rem = m.len,
                        !.priv = IF m.info THEN "metadata_sinfo" ELSE "metadata_skip"]
  IN
  /\ In("in_metadata", "metadata_header")
  /\ Take(32, 32, IF m.info /\ m.len # 34 THEN HandleErr(d) ELSE d)

(* Fields of STREAMINFO, by the bytes left before them: bits and bytes.    *)
SInfoField ==
  [rem \in {34, 32, 30, 27, 24, 20} \cup 1 .. 16 |->
     CASE rem \in {34, 32} -> <<16, 2>>
       [] rem \in {30, 27} -> <<24, 3>>
       [] rem = 24         -> <<28, 4>>
       [] rem = 20         -> <<36, 4>>
       [] OTHER            -> <<8, 1>>]

MetadataSInfo ==
  /\ In("in_metadata", "metadata_sinfo")
  /\ IF flac.rem = 0 THEN Turn([flac EXCEPT !.priv = "metadata_skip"])
     ELSE Read(SInfoField[flac.rem][1], [flac EXCEPT !.rem = @ - SInfoField[flac.rem][2]])

MetadataSkip ==
  LET n == Min({7, flac.rem}) IN
  /\ In("in_metadata", "metadata_skip")
  /\ IF n > 0 THEN Read(8 * n, [flac EXCEPT !.rem = @ - n])
     ELSE IF flac.block = Len(file.meta) THEN Turn([flac EXCEPT !.state = "end_of_metadata"])
     ELSE Turn([flac EXCEPT !.priv = "metadata_header", !.block = @ + 1])

Metadata == MetadataHeader \/ MetadataSInfo \/ MetadataSkip

-----------------------------------------------------------------------------
(* The frame header                                                        *)

Frame == file.frames[flac.frame]
Sub   == Frame.subs[flac.chan + 1]

(* The sync code is found at the start of frames only.                     *)
FrameSync ==
  LET at == {k \in DOMAIN file.frames : FrameStart(k) = pos} IN
  /\ In("search_frame", "frame_sync")
  /\ IF Pad(pos) # 0 THEN Read(Pad(pos), flac)
     ELSE IF at = {} THEN Take(15, 8, flac)
     ELSE Read(15, [flac EXCEPT !.priv = "frame_header", !.frame = CHOOSE k \in at : TRUE])

FrameHeader ==
  In("search_frame", "frame_header") /\ Read(17, [flac EXCEPT !.priv = "sync_info"])

(* _fx_flac_reader_utf8_coded_int looks ahead for the longest number.      *)
SyncInfo ==
  /\ In("search_frame", "sync_info")
  /\ Take(IF Frame.variable THEN 56 ELSE 48, 8 * Frame.coded, [flac EXCEPT !.priv = "aux"])

Aux == In("search_frame", "aux") /\ Take(32, Frame.aux, [flac EXCEPT !.priv = "crc"])

HeaderCrc ==
  /\ In("search_frame", "crc")
  /\ Read(8, IF Frame.size > MaxBlockSize \/ Len(Frame.subs) > MaxChannels
             THEN HandleErr(flac)
             ELSE [Go(flac, "in_frame", "subframe_header") EXCEPT !.chan = 0])

SearchFrame == FrameSync \/ FrameHeader \/ SyncInfo \/ Aux \/ HeaderCrc

-----------------------------------------------------------------------------
(* Subframes                                                               *)

(* "bits per sample", with the wasted bits read last                       *)
Bps == SampleBits(Frame, flac.chan, flac.wasted)

\* Mutant: the cursor is not wound back between the channels.
SubframeStartsOn(d) ==
  [d EXCEPT !.wasted = Sub.wasted, !.shifts[d.chan] = 0,
            !.order = IF Sub.type \in {"fixed", "lpc"} THEN Sub.order ELSE @,
            !.priv = Sub.type]

SubframeStarts(d) ==
  [d EXCEPT !.cur = 0, !.wasted = Sub.wasted, !.shifts[d.chan] = 0,
            !.order = IF Sub.type \in {"fixed", "lpc"} THEN Sub.order ELSE @,
            !.priv = Sub.type]

(* The order that the block must hold may be that of an earlier subframe.  *)
SubframeHeader ==
  LET d == SubframeStarts(flac) IN
  /\ In("in_frame", "subframe_header")
  /\ IF Bps \notin 1 .. 32 THEN Turn(HandleErr(flac))
     ELSE Take(40, 8 + Sub.wasted,
               IF Frame.size >= d.order THEN d ELSE HandleErr(d))

Constant == In("in_frame", "constant") /\ Read(Bps, [flac EXCEPT !.priv = "finalize"])

AfterWarmUp == [verbatim |-> "finalize", fixed |-> "residual", lpc |-> "lpc_header"]

(* The whole block, or the samples that predict the others.                *)
WarmUp(type) ==
  LET n == IF type = "verbatim" THEN Frame.size ELSE flac.order IN
  /\ In("in_frame", type)
  /\ IF flac.cur < n THEN Read(Bps, [flac EXCEPT !.cur = @ + 1])
                     ELSE Turn([flac EXCEPT !.priv = AfterWarmUp[type]])

LpcHeader ==
  In("in_frame", "lpc_header") /\ Read(9, [flac EXCEPT !.coef = 0, !.priv = "lpc_coeffs"])

LpcCoeffs ==
  /\ In("in_frame", "lpc_coeffs")
  /\ IF flac.coef < flac.order THEN Read(Sub.prec, [flac EXCEPT !.coef = @ + 1])
                               ELSE Turn([flac EXCEPT !.priv = "residual"])

Residual ==
  In("in_frame", "residual") /\ Read(6, [flac EXCEPT !.part = 0, !.priv = "rice_init"])

Part == Sub.parts[flac.part + 1]

RiceInit ==
  LET n == PartSamples(Frame, Sub, flac.part) IN
  /\ In("in_frame", "rice_init")
  /\ Take(10, PartHead(Part),
          IF n < 0 \/ n + flac.cur > Frame.size THEN HandleErr(flac)
          ELSE [flac EXCEPT !.left = n, !.unary = 0,
                            !.priv = IF Part.raw THEN "rice_verbatim" ELSE "rice_unary"])

NextSample(p) ==
  [flac EXCEPT !.cur = @ + 1, !.left = @ - 1, !.unary = 0, !.priv = p]

RiceUnary ==
  /\ In("in_frame", "rice_unary")
  /\ IF flac.left = 0 THEN Turn([flac EXCEPT !.priv = "rice_finalize"])
     ELSE Read(1, IF flac.unary < Part.unary THEN [flac EXCEPT !.unary = @ + 1]
                                             ELSE [flac EXCEPT !.priv = "rice"])

Rice == In("in_frame", "rice") /\ Read(Part.bits, NextSample("rice_unary"))

RiceVerbatim ==
  /\ In("in_frame", "rice_verbatim")
  /\ IF flac.left = 0 THEN Turn([flac EXCEPT !.priv = "rice_finalize"])
     ELSE Read(Part.bits, NextSample("rice_verbatim"))

RiceFinalize ==
  /\ In("in_frame", "rice_finalize")
  /\ Turn([flac EXCEPT !.part = @ + 1,
                       !.priv = IF flac.part + 1 = Len(Sub.parts) THEN "finalize"
                                                                  ELSE "rice_init"])

(* The shift is made, and the channel counted, before the checksum is      *)
(* read, and both again if the decoder has to return for it.  There is no  *)
(* block buffer for a channel too many.                                    *)
Finalize ==
  LET c    == flac.chan
      next == [flac EXCEPT !.chan = c + 1,
                           !.shifts = [x \in Chans |-> IF x = c /\ flac.wasted # 0
                                                     THEN @[x] + 1 ELSE @[x]]]
      pad  == Pad(pos)
  IN
  /\ In("in_frame", "finalize")
  /\ IF flac.wasted # 0 /\ c \notin Chans
     THEN flac' = [flac EXCEPT !.state = "crashed"] /\ UNCHANGED <<pos, call>>
     ELSE IF c + 1 < Len(Frame.subs)
     THEN flac' = [next EXCEPT !.priv = "subframe_header"] /\ UNCHANGED <<pos, call>>
     ELSE IF pos + pad + 16 <= given
     THEN /\ pos' = pos + pad + 16
          /\ flac' = IF Frame.intact /\ pos' = FrameStart(flac.frame + 1)
                     THEN [next EXCEPT !.state = "decoded_frame", !.cur = 0, !.chan = 0]
                     ELSE HandleErr(next)
          /\ UNCHANGED call
     ELSE /\ pos' = IF pos + pad <= given THEN pos + pad ELSE pos
          /\ flac' = next /\ call' = "return"
  /\ UNCHANGED <<file, given, room, out>>

InFrame == SubframeHeader \/ Constant \/ (\E type \in {"verbatim", "fixed", "lpc"} : WarmUp(type))
        \/ LpcHeader \/ LpcCoeffs \/ Residual \/ RiceInit \/ RiceUnary \/ Rice
        \/ RiceVerbatim \/ RiceFinalize \/ Finalize

-----------------------------------------------------------------------------
(* Output                                                                  *)

(* The value of a channel at a sample, with the shifts it has had.         *)
Value(k, i, c, n) == [frame |-> k, sample |-> i, chan |-> c, shifts |-> n]

\* Mutant: the rest of a frame begins with its first sample.
CursorBack(j, cc) == [cur |-> 0, chan |-> j % cc]

Cursor(j, cc) == [cur |-> j \div cc, chan |-> j % cc]

(* _fx_flac_process_decoded_frame                                          *)
DecodedFrame ==
  LET cc   == Len(Frame.subs)
      from == flac.cur * cc + flac.chan
      n    == Min({Frame.size * cc - from, room})
      some == [i \in 1 .. n |->
                 LET j == from + i - 1
                 IN Value(flac.frame, j \div cc, j % cc, flac.shifts[j % cc])]
      ends == from + n = Frame.size * cc
  IN
  /\ call = "run" /\ flac.state = "decoded_frame"
  /\ out' = out \o some
  /\ room' = room - n
  /\ call' = "return"
  /\ flac' = [flac EXCEPT !.cur = Cursor(from + n, cc).cur, !.chan = Cursor(from + n, cc).chan,
                          !.state = IF ends THEN "end_of_frame" ELSE @]
  /\ UNCHANGED <<file, given, pos>>

(* At the end of the metadata and of a frame fx_flac_process returns; it   *)
(* searches a frame when it is called again.                               *)
EndOfMetadata ==
  /\ call = "run" /\ flac.state = "end_of_metadata"
  /\ call' = "return"
  /\ UNCHANGED <<file, given, pos, flac, room, out>>

(* fx_flac_process is called with `n' more bytes.                          *)
Process(n, outLen) ==
  /\ call = "return" /\ call' = "run"
  /\ given' = given + 8 * n
  /\ room' = outLen
  /\ flac' = IF flac.state \in {"end_of_metadata", "end_of_frame"}
             THEN Go(flac, "search_frame", "frame_sync") ELSE flac
  /\ UNCHANGED <<file, pos, out>>

Decode == SyncStream \/ Metadata \/ SearchFrame \/ InFrame \/ DecodedFrame \/ EndOfMetadata

=============================================================================
