----------------------------- MODULE MCFaunLoad -----------------------------
(* Instances of FaunLoad for TLC.                                           *)
EXTENDS FaunLoad

RicePart(u, b) == [head |-> 4, raw |-> FALSE, unary |-> u, bits |-> b]
Raw(b)     == [head |-> 4, raw |-> TRUE, unary |-> 0, bits |-> b]

Coded(type, order, wasted, prec, parts) ==
  [type |-> type, order |-> order, wasted |-> wasted, prec |-> prec, parts |-> parts]

Flat(w)  == Coded("constant", 0, w, 0, <<>>)
Plain(w) == Coded("verbatim", 0, w, 0, <<>>)
Lpc      == Coded("lpc", 2, 0, 5, <<RicePart(1, 3), RicePart(0, 7)>>)
Fixed    == Coded("fixed", 1, 3, 0, <<RicePart(2, 0), Raw(9)>>)

Sound(size, aux, side, subs) ==
  [size |-> size, aux |-> aux, coded |-> 1, variable |-> FALSE, side |-> side,
   subs |-> subs, intact |-> TRUE]

Whole == 10000   \* a file that is not cut short

FlacFile(n, frames) ==
  [kind |-> "flac", bits |-> 16, samples |-> n, frames |-> frames, has |-> Whole,
   meta |-> <<[info |-> TRUE, len |-> 34], [info |-> FALSE, len |-> 9]>>]

Stereo == FlacFile(40, <<Sound(12, 0, 1, <<Fixed, Plain(0)>>),
                         Sound(16, 0, 0, <<Lpc, Flat(0)>>),
                         Sound(12, 8, 2, <<Plain(0), Plain(0)>>)>>)

Mono == FlacFile(38, <<[Sound(14, 0, 2, <<Fixed>>) EXCEPT !.coded = 2, !.variable = TRUE],
                       Sound(24, 24, 2, <<Plain(1)>>)>>)

Damaged == [Stereo EXCEPT !.frames[2].intact = FALSE]
Unknown == [Mono EXCEPT !.samples = 0]

(* The last frame has more values than are taken at a time.                *)
LongTail == FlacFile(20, <<Sound(4, 8, 2, <<Plain(0), Plain(0)>>),
                           Sound(16, 0, 2, <<Plain(0), Plain(0)>>)>>)

Chunk(id, len, has) == [id |-> id, len |-> len, has |-> has]

WavFile(half, rateOk, has) ==
  [kind |-> "wav", half |-> half, rateOk |-> rateOk, bitsOk |-> TRUE,
   chunks |-> <<Chunk("other", 2, 2), Chunk("fmt", 0, 0), Chunk("other", 1, 1),
                Chunk("data", 4, has)>>]

OggFile(half, opens, readable) ==
  [kind |-> "ogg", half |-> half, opens |-> opens, len |-> 4, readable |-> readable]

SfxFile(opens) == [kind |-> "rfx", half |-> FALSE, opens |-> opens, len |-> 4]

LoadFiles ==
  {Stereo, Mono, Damaged, Unknown}
  \cup {WavFile(half, rateOk, has) : half \in BOOLEAN, rateOk \in BOOLEAN, has \in {3, 4}}
  \cup {OggFile(FALSE, opens, n) : opens \in BOOLEAN, n \in {2, 4}}
  \cup {SfxFile(opens) : opens \in BOOLEAN}

TailFiles == {LongTail}

Sizes    == 20 .. 46
OneSize  == {40}

=============================================================================
