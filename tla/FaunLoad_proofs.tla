--------------------------- MODULE FaunLoad_proofs ---------------------------
(***************************************************************************)
(* Proofs about FlacDecoder and FaunLoad, for every well-formed file and   *)
(* every size of the buffer that it is read into.                          *)
(*                                                                         *)
(* The invariant says where in the file the decoder is: its position is    *)
(* the sum of the sizes of all that was read before it, whatever the piece *)
(* of the file ends in (At).  What the caller was given follows from it.   *)
(***************************************************************************)
EXTENDS FaunLoad, FiniteSetTheorems, SequenceTheorems, TLAPS

(* Three things in a file are too much for the decoder: a difference of 33 *)
(* bits; a frame that is shorter than the order of an earlier subframe,    *)
(* which is looked at when a subframe has none; and wasted bits of a last  *)
(* channel that has the last block buffer, which a call that goes on with  *)
(* the checksum shifts in the buffer after it.                             *)
PlainFrame(f, fr) ==
  /\ \A i \in DOMAIN fr.subs : fr.subs[i].type \in {"fixed", "lpc"} =>
       \A k \in DOMAIN f.frames : fr.subs[i].order <= f.frames[k].size
  /\ fr.subs[Len(fr.subs)].wasted = 0 \/ Len(fr.subs) < MaxChannels

PlainFile(f) ==
  /\ SoundFile(f) /\ f.bits < 32
  /\ \A k \in DOMAIN f.frames : PlainFrame(f, f.frames[k])

PlainFiles == \A f \in Files : f.kind = "flac" => PlainFile(f)

-----------------------------------------------------------------------------
(* Sums over the parts of a file                                           *)

(* Induction, from a set of numbers rather than an operator: the prefixes   *)
(* of Nat are finite sets, which are well ordered by inclusion.             *)
LEMMA LeastOf ==
  ASSUME NEW T \in SUBSET Nat, T # {}
  PROVE  \E x \in T : \A y \in T : x <= y
  <1> DEFINE prefixes == {0 .. n : n \in T}
  <1>1. prefixes \subseteq FiniteSubsetsOf(Nat) /\ prefixes # {}
    <2>1. ASSUME NEW n \in T PROVE 0 .. n \in FiniteSubsetsOf(Nat)
      <3>1. IsFiniteSet(0 .. n)
        BY FS_Interval
      <3>2. QED
        BY <3>1 DEF FiniteSubsetsOf
    <2>2. QED
      BY <2>1
  <1>2. PICK b \in prefixes : \A c \in prefixes : <<c, b>> \notin StrictSubsetOrdering(Nat)
    <2> HIDE DEF prefixes
    <2>1. QED
      BY <1>1, FS_StrictSubsetOrderingWellFounded, WFMin
  <1>3. PICK x \in T : b = 0 .. x
    OBVIOUS
  <1>4. ASSUME NEW y \in T, y < x PROVE FALSE
    <2>1. 0 .. y \in prefixes
      OBVIOUS
    <2>2. <<0 .. y, b>> \in StrictSubsetOrdering(Nat)
      BY <1>3, <1>4 DEF StrictSubsetOrdering
    <2>3. QED
      BY <1>2, <2>1, <2>2
  <1>5. QED
    BY <1>4

LEMMA Upward ==
  ASSUME NEW T \in SUBSET Nat, 0 \in T, \A n \in T : n + 1 \in T
  PROVE  T = Nat
  <1>1. SUFFICES ASSUME Nat \ T # {} PROVE FALSE
    OBVIOUS
  <1>2. PICK x \in Nat \ T : \A y \in Nat \ T : x <= y
    BY <1>1, LeastOf
  <1>3. x - 1 \in Nat
    BY <1>2
  <1>4. x - 1 \in T /\ x - 1 + 1 = x
    BY <1>2, <1>3
  <1>5. QED
    BY <1>4, <1>2

-----------------------------------------------------------------------------
(* Totals                                                                  *)
Adds(d, n, g) == g = [i \in 0 .. n |-> IF i = 0 THEN 0 ELSE g[i - 1] + d[i]]

LEMMA AddsExist ==
  ASSUME NEW d, NEW n \in Nat
  PROVE  \E g : Adds(d, n, g)
  <1> DEFINE T == {k \in Nat : \E g : Adds(d, k, g)}
  <1>1. 0 \in T
    <2>1. Adds(d, 0, [i \in 0 .. 0 |-> 0])
      BY DEF Adds
    <2>2. QED
      BY <2>1
  <1>2. ASSUME NEW k \in T PROVE k + 1 \in T
    <2>1. PICK g : Adds(d, k, g)
      OBVIOUS
    <2> DEFINE h == [i \in 0 .. k + 1 |-> IF i <= k THEN g[i] ELSE g[k] + d[k + 1]]
    <2>2. ASSUME NEW i \in 0 .. k + 1
          PROVE  h[i] = IF i = 0 THEN 0 ELSE h[i - 1] + d[i]
      <3>1. CASE i = 0
        BY <2>1, <3>1 DEF Adds
      <3>2. CASE i \in 1 .. k
        <4>1. h[i] = g[i] /\ h[i - 1] = g[i - 1] /\ i \in 0 .. k
          BY <3>2
        <4>2. g[i] = g[i - 1] + d[i]
          BY <2>1, <3>2, <4>1 DEF Adds
        <4>3. QED
          BY <3>2, <4>1, <4>2
      <3>3. CASE i = k + 1
        BY <3>3
      <3>4. QED
        BY <3>1, <3>2, <3>3
    <2>3. DOMAIN h = 0 .. k + 1
      OBVIOUS
    <2>4. Adds(d, k + 1, h)
      BY <2>2 DEF Adds
    <2>5. QED
      BY <2>4
  <1>3. T = Nat
    <2>1. T \in SUBSET Nat
      OBVIOUS
    <2> HIDE DEF T
    <2>2. QED
      BY <1>1, <1>2, <2>1, Upward
  <1>4. QED
    BY <1>3

UpTo(d, n) ==
  LET upTo[i \in 0 .. n] == IF i = 0 THEN 0 ELSE upTo[i - 1] + d[i]
  IN upTo

LEMMA UpToAdds ==
  ASSUME NEW d, NEW n \in Nat
  PROVE  Adds(d, n, UpTo(d, n)) /\ Total(n, d) = UpTo(d, n)[n]
  <1>1. PICK g : Adds(d, n, g)
    BY AddsExist
  <1>2. UpTo(d, n) = CHOOSE u : Adds(d, n, u)
    BY DEF UpTo, Adds
  <1>3. QED
    BY <1>1, <1>2 DEF Total, UpTo

LEMMA TotalStep ==
  ASSUME NEW d, NEW n \in Nat
  PROVE  Total(0, d) = 0 /\ Total(n + 1, d) = Total(n, d) + d[n + 1]
  <1> DEFINE small == UpTo(d, n)
             large == UpTo(d, n + 1)
             T == {k \in Nat : k <= n => large[k] = small[k]}
  <1>1. Total(0, d) = 0
    <2>1. Adds(d, 0, UpTo(d, 0)) /\ Total(0, d) = UpTo(d, 0)[0]
      BY UpToAdds
    <2>2. QED
      BY <2>1 DEF Adds
  <1>2. /\ Adds(d, n, small) /\ Total(n, d) = small[n]
        /\ Adds(d, n + 1, large) /\ Total(n + 1, d) = large[n + 1]
    BY UpToAdds
  <1> HIDE DEF small, large
  <1>3. 0 \in T
    BY <1>2 DEF Adds
  <1>4. ASSUME NEW k \in T PROVE k + 1 \in T
    <2>1. CASE k + 1 <= n
      <3>1. PICK j \in 0 .. n : j = k + 1
        BY <2>1
      <3>2. large[j] = large[j - 1] + d[j] /\ small[j] = small[j - 1] + d[j]
        BY <1>2, <3>1 DEF Adds
      <3>3. j - 1 = k /\ large[k] = small[k]
        BY <3>1
      <3>4. QED
        BY <3>1, <3>2, <3>3
    <2>2. QED
      BY <2>1
  <1>5. T = Nat
    <2>1. T \in SUBSET Nat
      OBVIOUS
    <2> HIDE DEF T
    <2>2. QED
      BY <1>3, <1>4, <2>1, Upward
  <1>6. large[n] = small[n]
    BY <1>5
  <1>7. large[n + 1] = large[n] + d[n + 1]
    <2>1. PICK j \in 0 .. n + 1 : j = n + 1
      OBVIOUS
    <2>2. large[j] = large[j - 1] + d[j] /\ j - 1 = n
      BY <1>2, <2>1 DEF Adds
    <2>3. QED
      BY <2>1, <2>2
  <1>8. QED
    BY <1>1, <1>2, <1>6, <1>7

LEMMA TotalGrows ==
  ASSUME NEW d, NEW n \in Nat, \A i \in 1 .. n : d[i] \in Nat
  PROVE  \A k \in 0 .. n : Total(k, d) \in Nat /\ Total(k, d) <= Total(n, d)
  <1> DEFINE T == {k \in Nat : k <= n =>
                     \A j \in 0 .. k : Total(j, d) \in Nat /\ Total(j, d) <= Total(k, d)}
  <1>1. 0 \in T
    BY TotalStep
  <1>2. ASSUME NEW k \in T PROVE k + 1 \in T
    <2>1. CASE k + 1 <= n
      <3>1. /\ Total(k + 1, d) = Total(k, d) + d[k + 1] /\ d[k + 1] \in Nat
            /\ Total(k, d) \in Nat
        BY <2>1, TotalStep
      <3>2. ASSUME NEW j \in 0 .. k + 1
            PROVE  Total(j, d) \in Nat /\ Total(j, d) <= Total(k + 1, d)
        <4>1. CASE j = k + 1
          BY <3>1, <4>1
        <4>2. CASE j \in 0 .. k
          <5>1. Total(j, d) \in Nat /\ Total(j, d) <= Total(k, d)
            BY <2>1, <4>2
          <5>2. QED
            BY <3>1, <5>1, <2>1, <4>2
        <4>3. QED
          BY <4>1, <4>2
      <3>3. QED
        BY <3>1, <3>2
    <2>2. QED
      BY <2>1
  <1>3. T = Nat
    <2>1. T \in SUBSET Nat
      OBVIOUS
    <2> HIDE DEF T
    <2>2. QED
      BY <1>1, <1>2, <2>1, Upward
  <1>4. QED
    BY <1>3

LEMMA TotalWhole ==
  ASSUME NEW d, NEW n \in Nat, \A i \in 1 .. n : d[i] \in Nat /\ d[i] % 8 = 0
  PROVE  \A k \in 0 .. n : Total(k, d) % 8 = 0
  <1> DEFINE T == {k \in Nat : k <= n => Total(k, d) % 8 = 0}
  <1>1. 0 \in T
    BY TotalStep
  <1>2. ASSUME NEW k \in T PROVE k + 1 \in T
    <2>1. CASE k + 1 <= n
      <3>1. /\ Total(k + 1, d) = Total(k, d) + d[k + 1] /\ d[k + 1] \in Nat
            /\ d[k + 1] % 8 = 0 /\ Total(k, d) % 8 = 0 /\ Total(k, d) \in Nat
        BY <2>1, TotalStep, TotalGrows
      <3>2. QED
        BY <3>1
    <2>2. QED
      BY <2>1
  <1>3. T = Nat
    <2>1. T \in SUBSET Nat
      OBVIOUS
    <2> HIDE DEF T
    <2>2. QED
      BY <1>1, <1>2, <2>1, Upward
  <1>4. QED
    BY <1>3

LEMMA PadFacts ==
  ASSUME NEW n \in Nat
  PROVE  /\ Pad(n) \in 0 .. 7 /\ (n + Pad(n)) % 8 = 0
         /\ n % 8 = 0 => Pad(n) = 0
         /\ \A m \in Nat : m % 8 = 0 => Pad(m + n) = Pad(n)
  BY DEF Pad

-----------------------------------------------------------------------------
(* The parts of a file                                                     *)
MetaSizes == [k \in DOMAIN file.meta |-> 32 + 8 * file.meta[k].len]
MetaStart(k) == 32 + Total(k - 1, MetaSizes)

FrameSizes == [j \in DOMAIN file.frames |-> FrameBits(file.frames[j])]
HeaderBits(f) == 32 + 8 * f.coded + f.aux + 8
SubSizes(f) == [i \in DOMAIN f.subs |-> SubframeBits(f, i - 1)]
SubStart(f, c) == HeaderBits(f) + Total(c, SubSizes(f))

PartSizes(f, sub) == [i \in DOMAIN sub.parts |-> PartBits(f, sub, i - 1)]
PartStart(f, sub, k) == Total(k, PartSizes(f, sub))

Residuals(sub) == sub.type \in {"fixed", "lpc"}

LEMMA ProductType ==
  /\ \A a \in Nat, b \in Nat : a * b \in Nat /\ (a + 1) * b = a * b + b
  /\ \A b \in Nat : 0 * b = 0
  OBVIOUS

LEMMA SampleWidth ==
  ASSUME NEW f, NEW sub, SoundSub(file, f, sub), file.bits \in 1 .. 31, NEW c
  PROVE  SampleBits(f, c, sub.wasted) \in 1 .. 32
  <1>1. sub.wasted \in 0 .. file.bits - 1
    BY DEF SoundSub
  <1>2. SampleBits(f, c, sub.wasted) \in {file.bits - sub.wasted, file.bits - sub.wasted + 1}
    BY <1>1 DEF SampleBits
  <1>3. QED
    BY <1>1, <1>2

LEMMA PartSound ==
  ASSUME NEW f, NEW sub, SoundSub(file, f, sub), f.size \in Nat, Residuals(sub),
         NEW k \in 0 .. Len(sub.parts) - 1
  PROVE  LET p == sub.parts[k + 1]
             n == PartSamples(f, sub, k)
             w == IF p.raw THEN p.bits ELSE p.unary + 1 + p.bits
         IN /\ SoundPart(p) /\ n \in Nat /\ w \in Nat
            /\ PartHead(p) \in 4 .. 10
            /\ PartBits(f, sub, k) = PartHead(p) + n * w /\ PartBits(f, sub, k) \in Nat
  <1> DEFINE p == sub.parts[k + 1]
             n == PartSamples(f, sub, k)
             w == IF p.raw THEN p.bits ELSE p.unary + 1 + p.bits
  <1>1. k + 1 \in DOMAIN sub.parts /\ Len(sub.parts) \in Nat /\ Len(sub.parts) > 0
    BY DEF SoundSub, Listed
  <1>2. SoundPart(p)
    BY <1>1 DEF SoundSub
  <1>3. n \in Nat
    <2>1. sub.order <= f.size \div Len(sub.parts) /\ sub.order \in Nat
      BY DEF SoundSub, Residuals
    <2>2. f.size \div Len(sub.parts) \in Nat
      BY <1>1
    <2>3. QED
      BY <2>1, <2>2 DEF PartSamples
  <1>4. w \in Nat /\ PartHead(p) \in 4 .. 10
    <2>1. p.head \in {4, 5} /\ p.raw \in BOOLEAN /\ p.unary \in Nat /\ p.bits \in Nat
      BY <1>2 DEF SoundPart
    <2> HIDE DEF p
    <2>2. w \in Nat
      BY <2>1
    <2>3. PartHead(p) \in {p.head, p.head + 5}
      BY <2>1 DEF PartHead
    <2>4. QED
      BY <2>1, <2>2, <2>3
  <1>5. PartBits(f, sub, k) = PartHead(p) + n * w
    BY DEF PartBits
  <1> HIDE DEF p, n, w
  <1>6. n * w \in Nat
    BY <1>3, <1>4, ProductType
  <1>7. PartBits(f, sub, k) \in Nat
    BY <1>4, <1>5, <1>6
  <1>8. QED
    BY <1>2, <1>3, <1>4, <1>5, <1>7 DEF p, n, w

LEMMA PartsAdd ==
  ASSUME NEW f, NEW sub, SoundSub(file, f, sub), f.size \in Nat, Residuals(sub)
  PROVE  /\ PartStart(f, sub, 0) = 0
         /\ \A k \in 0 .. Len(sub.parts) : PartStart(f, sub, k) \in Nat
         /\ \A k \in 0 .. Len(sub.parts) - 1 :
              PartStart(f, sub, k + 1) = PartStart(f, sub, k) + PartBits(f, sub, k)
         /\ ResidualBits(f, sub) = 6 + PartStart(f, sub, Len(sub.parts))
  <1> DEFINE d == PartSizes(f, sub)
  <1>1. Len(sub.parts) \in Nat /\ DOMAIN sub.parts = 1 .. Len(sub.parts)
    BY DEF SoundSub, Listed
  <1>2. \A k \in 0 .. Len(sub.parts) - 1 : d[k + 1] = PartBits(f, sub, k)
    BY <1>1 DEF PartSizes
  <1>3. \A i \in 1 .. Len(sub.parts) : d[i] \in Nat
    <2> SUFFICES ASSUME NEW i \in 1 .. Len(sub.parts) PROVE d[i] \in Nat
      OBVIOUS
    <2>1. PICK k \in 0 .. Len(sub.parts) - 1 : i = k + 1
      BY <1>1
    <2>2. PartBits(f, sub, k) \in Nat
      BY PartSound
    <2> HIDE DEF d
    <2>3. QED
      BY <1>2, <2>1, <2>2
  <1>4. ResidualBits(f, sub) = 6 + Total(Len(sub.parts), d)
    BY DEF ResidualBits, PartSizes
  <1> HIDE DEF d
  <1>5. Total(0, d) = 0
    BY TotalStep
  <1>6. \A k \in 0 .. Len(sub.parts) : Total(k, d) \in Nat
    BY <1>1, <1>3, TotalGrows
  <1>7. \A k \in 0 .. Len(sub.parts) - 1 : Total(k + 1, d) = Total(k, d) + d[k + 1]
    BY <1>1, TotalStep
  <1>8. QED
    BY <1>2, <1>4, <1>5, <1>6, <1>7 DEF d, PartStart

(* Bits of a subframe before what follows its samples that are not coded.  *)
Warmed(f, sub, c) ==
  LET bps == SampleBits(f, c, sub.wasted)
  IN 8 + sub.wasted + sub.order * bps + (IF sub.type = "lpc" THEN 9 + sub.order * sub.prec ELSE 0)

LEMMA SubSize ==
  ASSUME file.bits \in 1 .. 31, NEW f, NEW c \in Nat, SoundSub(file, f, f.subs[c + 1]),
         f.size \in Nat \ {0}
  PROVE  LET sub == f.subs[c + 1]
             bps == SampleBits(f, c, sub.wasted)
         IN /\ sub.type = "constant" => SubframeBits(f, c) = 8 + sub.wasted + bps
            /\ sub.type = "verbatim" => SubframeBits(f, c) = 8 + sub.wasted + f.size * bps
            /\ Residuals(sub) => SubframeBits(f, c) =
                 Warmed(f, sub, c) + 6 + PartStart(f, sub, Len(sub.parts))
            /\ SubframeBits(f, c) \in Nat /\ SubframeBits(f, c) >= 9
  <1> DEFINE sub == f.subs[c + 1]
             bps == SampleBits(f, c, sub.wasted)
  <1>1. bps \in 1 .. 32
    BY SampleWidth
  <1>2. /\ sub.wasted \in Nat /\ sub.order \in Nat /\ sub.prec \in Nat
        /\ sub.type \in {"constant", "verbatim", "fixed", "lpc"}
    BY DEF SoundSub
  <1>3. Residuals(sub) => /\ ResidualBits(f, sub) = 6 + PartStart(f, sub, Len(sub.parts))
                          /\ PartStart(f, sub, Len(sub.parts)) \in Nat
    <2>1. Len(sub.parts) \in Nat
      BY DEF SoundSub, Listed
    <2>2. QED
      BY <2>1, PartsAdd
  <1>4. SubframeBits(f, c) = 8 + sub.wasted +
          CASE sub.type = "constant" -> bps
            [] sub.type = "verbatim" -> f.size * bps
            [] sub.type = "fixed"    -> sub.order * bps + ResidualBits(f, sub)
            [] sub.type = "lpc"      -> sub.order * (bps + sub.prec) + 9 + ResidualBits(f, sub)
    BY DEF SubframeBits
  <1> DEFINE whole == f.size * bps
             warm == sub.order * bps
             coefs == sub.order * sub.prec
  <1>5. /\ whole \in Nat /\ whole >= 1 /\ warm \in Nat /\ coefs \in Nat
        /\ sub.order * (bps + sub.prec) = warm + coefs
    <2>1. ASSUME NEW a \in Nat, NEW b \in Nat, NEW e \in Nat
          PROVE  a * b \in Nat /\ a * (b + e) = a * b + a * e /\ (a >= 1 /\ b >= 1 => a * b >= 1)
      OBVIOUS
    <2>2. bps \in Nat /\ bps >= 1 /\ f.size >= 1
      BY <1>1
    <2>3. /\ sub.order * bps \in Nat /\ sub.order * sub.prec \in Nat /\ f.size * bps \in Nat
          /\ sub.order * (bps + sub.prec) = sub.order * bps + sub.order * sub.prec
          /\ f.size * bps >= 1
      <3> HIDE DEF sub, bps
      <3>1. QED
        BY <1>2, <2>1, <2>2
    <2>4. QED
      BY <2>3
  <1> DEFINE rice == PartStart(f, sub, Len(sub.parts))
             size == SubframeBits(f, c)
  <1> DEFINE warmed == Warmed(f, sub, c)
             residual == ResidualBits(f, sub)
  <1>6. warmed = 8 + sub.wasted + warm + (IF sub.type = "lpc" THEN 9 + coefs ELSE 0)
    BY DEF Warmed
  <1>7. /\ sub.type = "fixed" => warmed = 8 + sub.wasted + warm + 0
        /\ sub.type = "lpc" => warmed = 8 + sub.wasted + warm + (9 + coefs)
    <2> HIDE DEF sub, warmed, warm, coefs
    <2>1. QED
      BY <1>6
  <1>14. Residuals(sub) => residual = 6 + rice /\ rice \in Nat
    BY <1>3
  <1> HIDE DEF sub, rice, residual, bps, whole, warm, coefs, warmed
  <1>8. /\ sub.type = "constant" => size = 8 + sub.wasted + bps
        /\ sub.type = "verbatim" => size = 8 + sub.wasted + whole
        /\ sub.type = "fixed" => size = 8 + sub.wasted + (warm + residual)
        /\ sub.type = "lpc" => size = 8 + sub.wasted + (warm + coefs + 9 + residual)
    BY <1>4, <1>5 DEF whole, warm, residual
  <1>13. whole \in Nat /\ whole >= 1 /\ warm \in Nat /\ coefs \in Nat
    BY <1>5
  <1> HIDE DEF size
  <1>9. Residuals(sub) => size = warmed + 6 + rice
    <2>1. CASE sub.type = "fixed"
      BY <1>2, <1>14, <1>13, <1>7, <1>8, <2>1 DEF Residuals
    <2>2. CASE sub.type = "lpc"
      BY <1>2, <1>14, <1>13, <1>7, <1>8, <2>2 DEF Residuals
    <2>3. QED
      BY <2>1, <2>2 DEF Residuals
  <1>10. Residuals(sub) => rice \in Nat /\ warmed \in Nat /\ warmed >= 8
    BY <1>2, <1>14, <1>13, <1>7 DEF Residuals
  <1>11. size \in Nat /\ size >= 9
    <2>1. CASE Residuals(sub)
      BY <1>9, <1>10, <2>1
    <2>2. CASE sub.type = "constant"
      BY <1>1, <1>2, <1>8, <2>2
    <2>3. CASE sub.type = "verbatim"
      BY <1>1, <1>2, <1>13, <1>8, <2>3
    <2>4. QED
      BY <1>2, <2>1, <2>2, <2>3 DEF Residuals
  <1>12. QED
    BY <1>8, <1>9, <1>11 DEF sub, rice, residual, size, bps, whole, warmed

-----------------------------------------------------------------------------
(* Sizes and starts                                                        *)

LEMMA WholeBytes ==
  /\ \A a, b \in Nat : a % 8 = 0 /\ b % 8 = 0 => (a + b) % 8 = 0
  /\ \A a \in Nat : (8 * a) % 8 = 0
  /\ 16 % 8 = 0 /\ 32 % 8 = 0
  OBVIOUS

LEMMA FrameType ==
  ASSUME PlainFile(file), NEW k \in DOMAIN file.frames
  PROVE  LET f == file.frames[k] IN
         /\ file.bits \in 1 .. 31
         /\ f.size \in 1 .. MaxBlockSize
         /\ Len(f.subs) \in 1 .. MaxChannels /\ DOMAIN f.subs = 1 .. Len(f.subs)
         /\ f.variable \in BOOLEAN /\ f.intact \in BOOLEAN
         /\ f.coded \in 1 .. (IF f.variable THEN 7 ELSE 6) /\ f.aux \in 0 .. 32
         /\ \A c \in 0 .. Len(f.subs) - 1 : SoundSub(file, f, f.subs[c + 1])
  <1> DEFINE f == file.frames[k]
  <1>1. file.bits \in 1 .. 31 /\ SoundFrame(file, f)
    BY DEF PlainFile, SoundFile
  <1> HIDE DEF f
  <1>2. /\ f.size \in 1 .. MaxBlockSize
        /\ Len(f.subs) \in 1 .. MaxChannels /\ DOMAIN f.subs = 1 .. Len(f.subs)
        /\ f.variable \in BOOLEAN /\ f.intact \in BOOLEAN
        /\ f.coded \in 1 .. (IF f.variable THEN 7 ELSE 6) /\ f.aux \in 0 .. 32
        /\ \A i \in 1 .. Len(f.subs) : SoundSub(file, f, f.subs[i])
    BY <1>1 DEF SoundFrame, Listed
  <1>3. ASSUME NEW c \in 0 .. Len(f.subs) - 1 PROVE SoundSub(file, f, f.subs[c + 1])
    <2>1. c + 1 \in 1 .. Len(f.subs)
      BY <1>2, DecoderAssumption
    <2>2. QED
      BY <1>2, <2>1
  <1>4. QED
    BY <1>1, <1>2, <1>3 DEF f

LEMMA HeaderType ==
  ASSUME PlainFile(file), NEW k \in DOMAIN file.frames
  PROVE  LET f == file.frames[k] IN HeaderBits(f) \in 48 .. 128
  <1> DEFINE f == file.frames[k]
  <1>1. f.coded \in 1 .. 7 /\ f.aux \in 0 .. 32
    BY FrameType
  <1> HIDE DEF f
  <1>2. HeaderBits(f) \in 48 .. 128
    BY <1>1 DEF HeaderBits
  <1>3. QED
    BY <1>2 DEF f

LEMMA SubsAdd ==
  ASSUME PlainFile(file), NEW k \in DOMAIN file.frames
  PROVE  LET f == file.frames[k]
             cc == Len(f.subs)
         IN /\ SubStart(f, 0) = HeaderBits(f)
            /\ \A c \in 0 .. cc : SubStart(f, c) \in Nat /\ HeaderBits(f) <= SubStart(f, c)
                                  /\ SubStart(f, c) <= SubStart(f, cc)
            /\ \A c \in 0 .. cc - 1 : /\ SubframeBits(f, c) \in Nat
                                      /\ SubframeBits(f, c) >= 9
                                      /\ SubStart(f, c + 1) = SubStart(f, c) + SubframeBits(f, c)
            /\ FrameBits(f) = SubStart(f, cc) + Pad(SubStart(f, cc)) + 16
            /\ FrameBits(f) \in Nat /\ FrameBits(f) > 0 /\ FrameBits(f) % 8 = 0
  <1> DEFINE f == file.frames[k]
             cc == Len(f.subs)
             d == SubSizes(f)
             head == HeaderBits(f)
  <1>1. /\ file.bits \in 1 .. 31 /\ f.size \in 1 .. MaxBlockSize
        /\ cc \in 1 .. MaxChannels /\ DOMAIN f.subs = 1 .. cc
        /\ \A c \in 0 .. cc - 1 : SoundSub(file, f, f.subs[c + 1])
    BY FrameType
  <1>2. head \in 48 .. 128
    BY HeaderType
  <1> HIDE DEF f
  <1>3. cc \in Nat /\ cc > 0 /\ f.size \in Nat \ {0}
    BY <1>1, DecoderAssumption
  <1>4. ASSUME NEW c \in 0 .. cc - 1
        PROVE  d[c + 1] = SubframeBits(f, c) /\ SubframeBits(f, c) \in Nat
                 /\ SubframeBits(f, c) >= 9
    <2>1. SubframeBits(f, c) \in Nat /\ SubframeBits(f, c) >= 9
      BY <1>1, <1>3, SubSize
    <2>2. c + 1 \in DOMAIN f.subs /\ (c + 1) - 1 = c
      BY <1>1, <1>3
    <2>3. d[c + 1] = SubframeBits(f, (c + 1) - 1)
      BY <2>2 DEF SubSizes
    <2>4. QED
      BY <2>1, <2>2, <2>3
  <1>5. FrameBits(f) = SubStart(f, cc) + Pad(SubStart(f, cc)) + 16
    BY DEF FrameBits, SubStart, SubSizes, HeaderBits
  <1> HIDE DEF d, cc, head
  <1>6. \A i \in 1 .. cc : d[i] \in Nat
    <2>1. ASSUME NEW i \in 1 .. cc PROVE d[i] \in Nat
      <3>1. PICK c \in 0 .. cc - 1 : i = c + 1
        BY <1>3
      <3>2. QED
        BY <1>4, <3>1
    <2>2. QED
      BY <2>1
  <1>7. Total(0, d) = 0 /\ \A c \in 0 .. cc - 1 : Total(c + 1, d) = Total(c, d) + d[c + 1]
    BY <1>3, TotalStep
  <1>8. \A c \in 0 .. cc : Total(c, d) \in Nat /\ Total(c, d) <= Total(cc, d)
    BY <1>3, <1>6, TotalGrows
  <1>9. \A c \in 0 .. cc : SubStart(f, c) = head + Total(c, d)
    BY DEF SubStart, d, head
  <1>10. /\ SubStart(f, 0) = head
         /\ \A c \in 0 .. cc : SubStart(f, c) \in Nat /\ head <= SubStart(f, c)
                               /\ SubStart(f, c) <= SubStart(f, cc)
    BY <1>2, <1>3, <1>7, <1>8, <1>9
  <1>11. ASSUME NEW c \in 0 .. cc - 1
         PROVE  SubStart(f, c + 1) = SubStart(f, c) + SubframeBits(f, c)
    <2>1. c \in 0 .. cc /\ c + 1 \in 0 .. cc
      BY <1>3
    <2>2. QED
      BY <1>2, <1>4, <1>7, <1>8, <1>9, <2>1
  <1>12. FrameBits(f) \in Nat /\ FrameBits(f) > 0 /\ FrameBits(f) % 8 = 0
    <2>1. SubStart(f, cc) \in Nat
      BY <1>3, <1>10
    <2> DEFINE n == SubStart(f, cc)
    <2> HIDE DEF n
    <2> DEFINE t == n + Pad(n)
    <2>2. n \in Nat /\ Pad(n) \in 0 .. 7 /\ FrameBits(f) = n + Pad(n) + 16
      BY <1>5, <2>1, PadFacts DEF n
    <2>3. t \in Nat /\ t % 8 = 0 /\ FrameBits(f) = t + 16
      <3>1. t % 8 = 0
        BY <2>2, PadFacts
      <3>2. t \in Nat /\ FrameBits(f) = t + 16
        BY <2>2
      <3>3. QED
        BY <3>1, <3>2
    <2> HIDE DEF t
    <2>4. QED
      BY <2>3, WholeBytes
  <1>13. QED
    BY <1>4, <1>5, <1>10, <1>11, <1>12 DEF f, cc, head

LEMMA MetaAdds ==
  ASSUME PlainFile(file)
  PROVE  LET n == Len(file.meta) IN
         /\ n \in Nat /\ n > 0 /\ DOMAIN file.meta = 1 .. n
         /\ \A k \in 1 .. n : file.meta[k].len \in Nat /\ file.meta[k].info \in BOOLEAN
                              /\ (file.meta[k].info => file.meta[k].len = 34)
         /\ MetaStart(1) = 32
         /\ \A k \in 1 .. n : /\ MetaStart(k) \in Nat
                              /\ MetaStart(k + 1) = MetaStart(k) + 32 + 8 * file.meta[k].len
         /\ MetaBits = MetaStart(n + 1)
         /\ MetaBits \in Nat /\ MetaBits % 8 = 0 /\ MetaBits >= 160
  <1> DEFINE n == Len(file.meta)
             d == MetaSizes
  <1>1. /\ n \in Nat /\ n > 0 /\ DOMAIN file.meta = 1 .. n
        /\ \A k \in 1 .. n : /\ file.meta[k].len \in Nat /\ file.meta[k].info \in BOOLEAN
                             /\ (file.meta[k].info => file.meta[k].len = 34)
        /\ file.meta[1].info
    BY DEF PlainFile, SoundFile, Listed, SoundMeta
  <1>2. \A k \in 1 .. n : d[k] = 32 + 8 * file.meta[k].len
    BY <1>1 DEF MetaSizes
  <1>3. MetaBits = 32 + Total(n, d)
    BY DEF MetaBits, MetaSizes
  <1> HIDE DEF n, d
  <1>4. \A k \in 1 .. n : d[k] \in Nat /\ d[k] % 8 = 0
    <2>1. ASSUME NEW k \in 1 .. n PROVE d[k] \in Nat /\ d[k] % 8 = 0
      <3> DEFINE a == 8 * file.meta[k].len
      <3>1. a \in Nat /\ a % 8 = 0 /\ d[k] = 32 + a
        BY <1>1, <1>2, WholeBytes
      <3> HIDE DEF a
      <3>2. QED
        BY <3>1, WholeBytes
    <2>2. QED
      BY <2>1
  <1>5. \A k \in 0 .. n : Total(k, d) \in Nat /\ Total(k, d) <= Total(n, d)
    BY <1>1, <1>4, TotalGrows
  <1>6. \A k \in 0 .. n : Total(k, d) % 8 = 0
    BY <1>1, <1>4, TotalWhole
  <1>7. ASSUME NEW k \in 1 .. n
        PROVE  /\ MetaStart(k) \in Nat
               /\ MetaStart(k + 1) = MetaStart(k) + 32 + 8 * file.meta[k].len
    <2>1. PICK i \in 0 .. n - 1 : k = i + 1
      BY <1>1
    <2>2. Total(i + 1, d) = Total(i, d) + d[i + 1] /\ Total(i, d) \in Nat
      <3>1. i \in Nat /\ i \in 0 .. n
        BY <1>1, <2>1
      <3>2. Total(i, d) \in Nat
        BY <1>5, <3>1
      <3>3. QED
        BY <3>1, <3>2, TotalStep
    <2>3. MetaStart(k) = 32 + Total(i, d) /\ MetaStart(k + 1) = 32 + Total(i + 1, d)
      <3>1. k - 1 = i /\ (k + 1) - 1 = i + 1
        BY <2>1
      <3>2. QED
        BY <3>1 DEF MetaStart, d
    <2>4. file.meta[k].len \in Nat /\ d[i + 1] = 32 + 8 * file.meta[k].len
      BY <1>1, <1>2, <2>1
    <2>5. QED
      BY <2>2, <2>3, <2>4
  <1>8. MetaStart(1) = 32 /\ MetaBits = MetaStart(n + 1)
    <2>1. 1 - 1 = 0 /\ (n + 1) - 1 = n
      BY <1>1
    <2>2. QED
      BY <1>3, <2>1, TotalStep DEF MetaStart, d
  <1>9. MetaBits \in Nat /\ MetaBits % 8 = 0 /\ MetaBits >= 160
    <2>1. Total(1, d) = d[1] /\ d[1] >= 128 /\ Total(1, d) <= Total(n, d)
      <3>1. Total(0, d) = 0 /\ Total(0 + 1, d) = Total(0, d) + d[0 + 1] /\ 0 + 1 = 1
        BY TotalStep
      <3>2. 1 \in 0 .. n /\ 1 \in 1 .. n
        BY <1>1
      <3>3. d[1] = 32 + 8 * file.meta[1].len /\ file.meta[1].len = 34
        BY <1>1, <1>2, <3>2
      <3>4. QED
        BY <1>4, <1>5, <3>1, <3>2, <3>3
    <2>2. n \in 0 .. n
      BY <1>1
    <2>3. Total(n, d) \in Nat /\ Total(n, d) % 8 = 0
      BY <1>5, <1>6, <2>2
    <2> DEFINE t == Total(n, d)
    <2>4. t \in Nat /\ t % 8 = 0 /\ t >= 128 /\ MetaBits = 32 + t
      <3>1. d[1] \in Nat /\ Total(n, d) \in Nat
        BY <1>1, <1>4, <2>3
      <3>2. QED
        BY <1>3, <2>1, <2>3, <3>1
    <2> HIDE DEF t
    <2>5. QED
      BY <2>4, WholeBytes
  <1>10. QED
    BY <1>1, <1>7, <1>8, <1>9 DEF n

LEMMA StartsAdd ==
  ASSUME PlainFile(file)
  PROVE  LET n == Len(file.frames) IN
         /\ n \in Nat /\ n > 0 /\ DOMAIN file.frames = 1 .. n
         /\ FrameStart(1) = MetaBits
         /\ \A k \in 1 .. n + 1 : /\ FrameStart(k) \in Nat /\ FrameStart(k) % 8 = 0
                                  /\ FrameStart(k) >= 160 /\ FrameStart(k) <= FlacBits
         /\ \A k \in 1 .. n : FrameStart(k + 1) = FrameStart(k) + FrameBits(file.frames[k])
         /\ FlacBits = FrameStart(n + 1)
  <1> DEFINE n == Len(file.frames)
             d == FrameSizes
             meta == MetaBits
  <1>1. n \in Nat /\ n > 0 /\ DOMAIN file.frames = 1 .. n
    BY DEF PlainFile, SoundFile, Listed
  <1>2. meta \in Nat /\ meta % 8 = 0 /\ meta >= 160
    BY MetaAdds
  <1>3. \A k \in 1 .. n : d[k] = FrameBits(file.frames[k])
    BY <1>1 DEF FrameSizes
  <1>4. \A k \in 1 .. n : d[k] \in Nat /\ d[k] % 8 = 0
    BY <1>1, <1>3, SubsAdd
  <1>5. FlacBits = FrameStart(n + 1)
    BY DEF FlacBits
  <1>6. \A k \in Int : FrameStart(k) = meta + Total(k - 1, d)
    BY DEF FrameStart, FrameSizes
  <1> HIDE DEF n, d, meta
  <1>7. \A k \in 0 .. n : Total(k, d) \in Nat /\ Total(k, d) <= Total(n, d)
    BY <1>1, <1>4, TotalGrows
  <1>8. \A k \in 0 .. n : Total(k, d) % 8 = 0
    BY <1>1, <1>4, TotalWhole
  <1>9. ASSUME NEW k \in 1 .. n + 1
        PROVE  /\ FrameStart(k) \in Nat /\ FrameStart(k) % 8 = 0
               /\ FrameStart(k) >= 160 /\ FrameStart(k) <= FlacBits
    <2>1. PICK i \in 0 .. n : k - 1 = i /\ (n + 1) - 1 = n /\ n \in 0 .. n
      BY <1>1
    <2>2. FrameStart(k) = meta + Total(i, d) /\ FlacBits = meta + Total(n, d)
      BY <1>1, <1>5, <1>6, <2>1
    <2>3. Total(i, d) \in Nat /\ Total(i, d) % 8 = 0 /\ Total(i, d) <= Total(n, d)
          /\ Total(n, d) \in Nat
      <3>1. Total(i, d) \in Nat /\ Total(i, d) <= Total(n, d) /\ Total(n, d) \in Nat
        BY <1>7, <2>1, Zenon
      <3>2. Total(i, d) % 8 = 0
        BY <1>8, <2>1, Zenon
      <3>3. QED
        BY <3>1, <3>2, Zenon
    <2>4. QED
      BY <1>2, <2>2, <2>3
  <1>10. ASSUME NEW k \in 1 .. n
         PROVE  FrameStart(k + 1) = FrameStart(k) + FrameBits(file.frames[k])
    <2>1. PICK i \in 0 .. n - 1 : k = i + 1
      BY <1>1
    <2>2. (k + 1) - 1 = i + 1 /\ k - 1 = i /\ k \in Int /\ k + 1 \in Int
      BY <2>1
    <2>3. Total(i + 1, d) = Total(i, d) + d[i + 1] /\ Total(i, d) \in Nat
      <3>1. i \in Nat /\ i \in 0 .. n
        BY <1>1, <2>1
      <3>2. Total(i, d) \in Nat
        BY <1>7, <3>1, Zenon
      <3>3. QED
        BY <3>1, <3>2, TotalStep
    <2>4. d[i + 1] = FrameBits(file.frames[k]) /\ d[i + 1] \in Nat
      BY <1>3, <1>4, <2>1
    <2>5. QED
      BY <1>2, <1>6, <2>2, <2>3, <2>4
  <1>11. FrameStart(1) = meta
    <2>1. 1 - 1 = 0
      OBVIOUS
    <2>2. QED
      BY <1>2, <1>6, <2>1, TotalStep
  <1>12. QED
    BY <1>1, <1>5, <1>9, <1>10, <1>11 DEF n, meta

-----------------------------------------------------------------------------
(* Sequences joined                                                        *)

(* Sequences one after the other, as FlattenSeq puts them.                 *)
Joins(s, n, g) == g = [i \in 1 .. n |-> IF i = 1 THEN s[i] ELSE g[i - 1] \o s[i]]

LEMMA JoinsExist ==
  ASSUME NEW s, NEW n \in Nat \ {0}
  PROVE  \E g : Joins(s, n, g)
  <1> DEFINE T == {k \in Nat : \E g : Joins(s, k + 1, g)}
  <1>1. 0 \in T
    <2>1. Joins(s, 1, [i \in 1 .. 1 |-> s[1]])
      BY DEF Joins
    <2>2. QED
      BY <2>1
  <1>2. ASSUME NEW k \in T PROVE k + 1 \in T
    <2> DEFINE m == k + 1
    <2>1. PICK g : Joins(s, m, g)
      OBVIOUS
    <2>2. m \in Nat /\ m > 0
      OBVIOUS
    <2> HIDE DEF m
    <2> DEFINE h == [i \in 1 .. m + 1 |-> IF i <= m THEN g[i] ELSE g[m] \o s[m + 1]]
    <2>3. ASSUME NEW i \in 1 .. m + 1
          PROVE  h[i] = IF i = 1 THEN s[i] ELSE h[i - 1] \o s[i]
      <3>1. CASE i = 1
        BY <2>1, <2>2, <3>1 DEF Joins
      <3>2. CASE i \in 2 .. m
        <4>1. h[i] = g[i] /\ h[i - 1] = g[i - 1] /\ i \in 1 .. m /\ i # 1
          BY <2>2, <3>2
        <4>2. g[i] = IF i = 1 THEN s[i] ELSE g[i - 1] \o s[i]
          BY <2>1, <4>1, Zenon DEF Joins
        <4> HIDE DEF h
        <4>3. QED
          BY <4>1, <4>2, Zenon
      <3>3. CASE i = m + 1
        BY <2>2, <3>3
      <3>4. QED
        BY <2>2, <3>1, <3>2, <3>3
    <2>4. Joins(s, m + 1, h)
      BY <2>3 DEF Joins
    <2>5. k + 1 \in Nat /\ \E x : Joins(s, (k + 1) + 1, x)
      BY <2>4 DEF m
    <2>6. QED
      BY <2>5
  <1>3. T = Nat
    <2>1. T \in SUBSET Nat
      OBVIOUS
    <2> HIDE DEF T
    <2>2. QED
      BY <1>1, <1>2, <2>1, Upward
  <1>4. PICK k \in Nat : n = k + 1
    <2>1. n - 1 \in Nat /\ n = (n - 1) + 1
      OBVIOUS
    <2>2. QED
      BY <2>1
  <1>5. QED
    BY <1>3, <1>4

LEMMA FlattenJoins ==
  ASSUME NEW s, Len(s) \in Nat \ {0}
  PROVE  \E g : Joins(s, Len(s), g) /\ FlattenSeq(s) = g[Len(s)]
  <1> DEFINE flatten == CHOOSE g : g = [i \in 1 .. Len(s) |->
                                  IF i = 1 THEN s[i] ELSE g[i - 1] \o s[i]]
  <1>1. FlattenSeq(s) = flatten[Len(s)]
    BY DEF FlattenSeq
  <1>2. flatten = CHOOSE g : Joins(s, Len(s), g)
    BY DEF Joins
  <1>3. PICK g : Joins(s, Len(s), g)
    BY JoinsExist
  <1>4. Joins(s, Len(s), flatten)
    BY <1>2, <1>3
  <1>5. QED
    BY <1>1, <1>4

-----------------------------------------------------------------------------
(* The values of a file                                                    *)
ValueType == [frame : Nat, sample : Nat, chan : Nat, shifts : Nat]

ValueCounts == [k \in DOMAIN file.frames |-> Len(FrameValues(k))]
Heard(k) == Total(k, ValueCounts)

ShiftsOf(sub) == IF sub.wasted # 0 THEN 1 ELSE 0

LEMMA Quotient ==
  ASSUME NEW j \in Nat, NEW c \in Nat \ {0}
  PROVE  j \div c \in Nat /\ j = c * (j \div c) + (j % c) /\ j % c \in 0 .. c - 1
  OBVIOUS

LEMMA FrameValuesType ==
  ASSUME PlainFile(file), NEW k \in DOMAIN file.frames
  PROVE  LET f  == file.frames[k]
             cc == Len(f.subs)
         IN /\ FrameValues(k) \in Seq(ValueType)
            /\ ~f.intact => Len(FrameValues(k)) = 0
            /\ f.intact => /\ Len(FrameValues(k)) = f.size * cc
                           /\ \A j \in 0 .. f.size * cc - 1 :
                                FrameValues(k)[j + 1] =
                                  Value(k, j \div cc, j % cc, ShiftsOf(f.subs[(j % cc) + 1]))
            /\ f.size * cc \in Nat
  <1> DEFINE f == file.frames[k]
             cc == Len(f.subs)
             n == f.size * cc
  <1>1. k \in Nat /\ cc \in Nat \ {0} /\ f.size \in Nat \ {0} /\ f.intact \in BOOLEAN
    BY FrameType, StartsAdd, DecoderAssumption
  <1>2. n \in Nat
    <2> HIDE DEF f, cc
    <2>1. QED
      BY <1>1
  <1>3. FrameValues(k) =
          IF ~f.intact THEN <<>>
          ELSE [i \in 1 .. n |-> Value(k, (i - 1) \div cc, (i - 1) % cc,
                                       ShiftsOf(f.subs[((i - 1) % cc) + 1]))]
    BY DEF FrameValues, ShiftsOf
  <1> HIDE DEF f, cc, n
  <1>4. ASSUME NEW j \in Nat, NEW s \in {0, 1} PROVE Value(k, j \div cc, j % cc, s) \in ValueType
    <2>1. j \div cc \in Nat /\ j % cc \in Nat
      BY <1>1, Quotient
    <2>2. QED
      BY <1>1, <1>4, <2>1 DEF Value, ValueType
  <1>5. \A sub : ShiftsOf(sub) \in {0, 1}
    BY DEF ShiftsOf
  <1>6. CASE ~f.intact
    <2>1. FrameValues(k) = <<>>
      BY <1>3, <1>6
    <2>2. <<>> \in Seq(ValueType) /\ Len(<<>>) = 0
      OBVIOUS
    <2>3. QED
      BY <1>2, <1>6, <2>1, <2>2 DEF f, cc, n
  <1>7. CASE f.intact
    <2> DEFINE V == [i \in 1 .. n |-> Value(k, (i - 1) \div cc, (i - 1) % cc,
                                            ShiftsOf(f.subs[((i - 1) % cc) + 1]))]
    <2>1. \A i \in 1 .. n : V[i] \in ValueType
      BY <1>2, <1>4, <1>5
    <2>2. \A j \in 0 .. n - 1 :
            V[j + 1] = Value(k, j \div cc, j % cc, ShiftsOf(f.subs[(j % cc) + 1]))
      <3>1. ASSUME NEW j \in 0 .. n - 1
            PROVE  V[j + 1] = Value(k, j \div cc, j % cc, ShiftsOf(f.subs[(j % cc) + 1]))
        <4>1. j + 1 \in 1 .. n /\ (j + 1) - 1 = j
          BY <1>2
        <4>2. V[j + 1] = Value(k, ((j + 1) - 1) \div cc, ((j + 1) - 1) % cc,
                               ShiftsOf(f.subs[(((j + 1) - 1) % cc) + 1]))
          BY <4>1
        <4> HIDE DEF V
        <4>3. QED
          BY <4>1, <4>2
      <3>2. QED
        BY <3>1
    <2>3. V \in [1 .. n -> ValueType] /\ FrameValues(k) = V
      BY <1>3, <1>7, <2>1
    <2> HIDE DEF V
    <2>4. V \in Seq(ValueType) /\ Len(V) = n
      BY <1>2, <2>3
    <2>5. QED
      BY <1>2, <1>7, <2>2, <2>3, <2>4 DEF f, cc, n
  <1>8. QED
    BY <1>1, <1>6, <1>7 DEF f

LEMMA ValuesAdd ==
  ASSUME PlainFile(file)
  PROVE  LET n == Len(file.frames) IN
         /\ Heard(0) = 0
         /\ \A k \in 0 .. n : Heard(k) \in Nat /\ Heard(k) <= Heard(n)
         /\ \A k \in 1 .. n : Heard(k) = Heard(k - 1) + Len(FrameValues(k))
         /\ Values \in Seq(ValueType) /\ Len(Values) = Heard(n)
         /\ \A k \in 1 .. n : \A i \in 1 .. Len(FrameValues(k)) :
              Values[Heard(k - 1) + i] = FrameValues(k)[i]
  <1> DEFINE n == Len(file.frames)
             d == ValueCounts
             s == [k \in DOMAIN file.frames |-> FrameValues(k)]
  <1>1. n \in Nat /\ n > 0 /\ DOMAIN file.frames = 1 .. n
    BY StartsAdd
  <1>2. /\ s = [k \in 1 .. n |-> FrameValues(k)] /\ d = [k \in 1 .. n |-> Len(FrameValues(k))]
        /\ Values = FlattenSeq(s)
    BY <1>1 DEF Values, ValueCounts
  <1> HIDE DEF n, d, s
  <1>3. \A k \in 1 .. n : /\ s[k] = FrameValues(k) /\ s[k] \in Seq(ValueType)
                          /\ d[k] = Len(s[k]) /\ d[k] \in Nat
    <2> SUFFICES ASSUME NEW k \in 1 .. n
                 PROVE  /\ s[k] = FrameValues(k) /\ s[k] \in Seq(ValueType)
                        /\ d[k] = Len(s[k]) /\ d[k] \in Nat
      OBVIOUS
    <2>1. FrameValues(k) \in Seq(ValueType) /\ Len(FrameValues(k)) \in Nat
      <3>1. FrameValues(k) \in Seq(ValueType)
        BY <1>1, FrameValuesType
      <3>2. QED
        BY <3>1
    <2>2. QED
      BY <1>2, <2>1
  <1>4. \A k \in Nat : Heard(k) = Total(k, d)
    BY DEF Heard, d
  <1>5. \A k \in 0 .. n : Heard(k) \in Nat /\ Heard(k) <= Heard(n)
    <2>1. \A k \in 0 .. n : Total(k, d) \in Nat /\ Total(k, d) <= Total(n, d)
      BY <1>1, <1>3, TotalGrows
    <2>2. QED
      BY <1>1, <1>4, <2>1
  <1>6. Heard(0) = 0
    BY <1>4, TotalStep
  <1>7. ASSUME NEW k \in 1 .. n PROVE Heard(k) = Heard(k - 1) + Len(FrameValues(k))
    <2>1. PICK i \in Nat : k = i + 1 /\ k - 1 = i
      BY <1>1
    <2>2. Total(i + 1, d) = Total(i, d) + d[i + 1]
      BY <2>1, TotalStep
    <2>3. Heard(k) = Heard(k - 1) + d[k]
      BY <1>4, <2>1, <2>2
    <2>4. QED
      BY <1>3, <2>3
  <1>8. Len(s) = n
    <2>1. s \in [1 .. n -> Seq(ValueType)]
      BY <1>2, <1>3
    <2>2. QED
      BY <1>1, <2>1
  <1>9. PICK g : Joins(s, n, g) /\ Values = g[n]
    <2>1. Len(s) \in Nat \ {0}
      BY <1>1, <1>8
    <2>2. QED
      BY <1>2, <1>8, <2>1, FlattenJoins
  <1> DEFINE Right(k) == /\ g[k] \in Seq(ValueType) /\ Len(g[k]) = Heard(k)
                         /\ \A j \in 1 .. k : \A i \in 1 .. Len(s[j]) :
                              Heard(j - 1) + i \in 1 .. Heard(k) /\ g[k][Heard(j - 1) + i] = s[j][i]
             T == {k \in Nat : k + 1 <= n => Right(k + 1)}
  <1>10. 0 \in T
    <2>1. g[1] = s[1] /\ 1 \in 1 .. n
      BY <1>1, <1>9 DEF Joins
    <2>2. Heard(1) = Len(s[1]) /\ s[1] \in Seq(ValueType) /\ Len(s[1]) \in Nat
      <3>1. Heard(1) = Heard(1 - 1) + Len(FrameValues(1)) /\ 1 - 1 = 0
        BY <1>7, <2>1
      <3>2. QED
        BY <1>3, <1>6, <2>1, <3>1
    <2>3. \A j \in 1 .. 1 : j = 1 /\ j - 1 = 0
      OBVIOUS
    <2>4. Right(1)
      BY <1>6, <2>1, <2>2, <2>3
    <2> HIDE DEF Right
    <2>5. QED
      BY <2>4
  <1>11. ASSUME NEW k \in T PROVE k + 1 \in T
    <2> SUFFICES ASSUME (k + 1) + 1 <= n PROVE Right((k + 1) + 1)
      OBVIOUS
    <2>1. PICK m \in 1 .. n : m = k + 1 /\ m + 1 <= n /\ m \in Nat
      BY <1>1
    <2>2. PICK l \in 1 .. n : l = m + 1 /\ l - 1 = m
      BY <2>1
    <2>3. Right(m)
      <3> HIDE DEF Right
      <3>1. QED
        BY <1>1, <2>1
    <2>4. g[l] = g[m] \o s[l]
      <3>1. l \in 1 .. n /\ l # 1 /\ l - 1 = m
        BY <2>1, <2>2
      <3>2. g[l] = IF l = 1 THEN s[l] ELSE g[l - 1] \o s[l]
        BY <1>9, <3>1, Zenon DEF Joins
      <3>3. QED
        BY <3>1, <3>2
    <2>5. /\ g[m] \in Seq(ValueType) /\ Len(g[m]) = Heard(m)
          /\ s[l] \in Seq(ValueType) /\ Len(s[l]) \in Nat
          /\ Heard(m) \in Nat /\ Heard(l) = Heard(m) + Len(s[l])
      <3>1. g[m] \in Seq(ValueType) /\ Len(g[m]) = Heard(m)
        BY <2>3
      <3> HIDE DEF Right
      <3>2. s[l] \in Seq(ValueType) /\ Len(s[l]) \in Nat /\ s[l] = FrameValues(l)
        BY <1>3, <2>2
      <3>3. m \in 0 .. n
        BY <2>1
      <3>4. Heard(m) \in Nat
        BY <1>5, <3>3
      <3>5. Heard(l) = Heard(l - 1) + Len(FrameValues(l))
        BY <1>7
      <3>6. QED
        BY <2>2, <3>1, <3>2, <3>4, <3>5
    <2> HIDE DEF Right
    <2> DEFINE before == Heard(m)
               more == Len(s[l])
    <2>9. before \in Nat /\ more \in Nat /\ Heard(l) = before + more /\ Len(g[m]) = before
      BY <2>5
    <2>6. /\ g[m] \o s[l] \in Seq(ValueType)
          /\ Len(g[m] \o s[l]) = Len(g[m]) + more
          /\ \A i \in 1 .. Len(g[m]) + more :
               (g[m] \o s[l])[i] = IF i <= Len(g[m]) THEN g[m][i] ELSE s[l][i - Len(g[m])]
      <3>1. g[m] \in Seq(ValueType) /\ s[l] \in Seq(ValueType)
        BY <2>5
      <3>2. QED
        BY <3>1, ConcatProperties
    <2>11. /\ g[l] \in Seq(ValueType)
           /\ Len(g[l]) = before + more
           /\ \A i \in 1 .. before + more :
                g[l][i] = IF i <= before THEN g[m][i] ELSE s[l][i - before]
      BY <2>4, <2>6, <2>9, Zenon
    <2> HIDE DEF before, more
    <2>7. ASSUME NEW j \in 1 .. l, NEW i \in 1 .. Len(s[j])
          PROVE  Heard(j - 1) + i \in 1 .. Heard(l) /\ g[l][Heard(j - 1) + i] = s[j][i]
      <3>1. CASE j = l
        <4> DEFINE y == before + i
        <4>1. j - 1 = m /\ i \in 1 .. more /\ Heard(j - 1) = before
          BY <2>2, <3>1 DEF more, before
        <4>2. y \in 1 .. before + more /\ ~(y <= before) /\ y - before = i
          BY <2>9, <4>1
        <4> HIDE DEF y
        <4>3. g[l][y] = s[l][i]
          BY <2>11, <4>2
        <4>4. QED
          BY <2>9, <3>1, <4>1, <4>2, <4>3 DEF y
      <3>2. CASE j \in 1 .. m
        <4> DEFINE x == Heard(j - 1) + i
        <4>1. x \in 1 .. before /\ g[m][x] = s[j][i]
          BY <2>3, <3>2 DEF Right, before
        <4> HIDE DEF x
        <4>2. x \in 1 .. before + more /\ x <= before
          BY <2>9, <4>1
        <4>3. g[l][x] = g[m][x]
          BY <2>11, <4>2
        <4>4. QED
          BY <2>9, <4>1, <4>2, <4>3 DEF x
      <3>3. QED
        BY <2>1, <2>2, <3>1, <3>2
    <2>8. Right(l)
      BY <2>7, <2>9, <2>11 DEF Right
    <2>10. QED
      BY <2>1, <2>2, <2>8
  <1>12. T = Nat
    <2>1. T \in SUBSET Nat
      OBVIOUS
    <2> HIDE DEF T
    <2>2. QED
      BY <1>10, <1>11, <2>1, Upward
  <1>13. Right(n)
    <2>1. PICK k \in Nat : n = k + 1
      <3>1. n - 1 \in Nat /\ n = (n - 1) + 1
        BY <1>1
      <3>2. QED
        BY <3>1
    <2> HIDE DEF Right
    <2>2. k + 1 <= n => Right(k + 1)
      BY <1>12
    <2>3. k + 1 <= n
      BY <1>1, <2>1
    <2>4. QED
      BY <2>1, <2>2, <2>3
  <1>14. QED
    BY <1>3, <1>5, <1>6, <1>7, <1>9, <1>13 DEF n

-----------------------------------------------------------------------------
(* Where the decoder is, and the invariant                                 *)

DecoderFields ==
  {"state", "priv", "block", "rem", "frame", "chan", "cur", "coef", "part", "left", "unary",
   "order", "wasted", "shifts"}

DecoderType(d) ==
  /\ DOMAIN d = DecoderFields
  /\ d.block \in Nat /\ d.rem \in Nat /\ d.frame \in Nat /\ d.chan \in Nat /\ d.cur \in Nat
  /\ d.coef \in Nat /\ d.part \in Nat /\ d.left \in Nat /\ d.unary \in Nat
  /\ d.order \in Nat /\ d.wasted \in Nat
  /\ d.shifts \in [Chans -> Nat]

FrameOf(d) == file.frames[d.frame]
SubOf(d)   == FrameOf(d).subs[d.chan + 1]
PartOf(d)  == SubOf(d).parts[d.part + 1]

(* What a subframe leaves for the next one to look at.                     *)
Kept(d) ==
  /\ d.wasted \in 0 .. file.bits - 1
  /\ d.cur \in 0 .. MaxBlockSize
  /\ \A k \in DOMAIN file.frames : d.order <= file.frames[k].size

MetaAt(d, p) ==
  LET m     == file.meta[d.block]
      start == MetaStart(d.block)
  IN
  /\ d.frame = 0
  /\ \/ /\ d.state = "init" /\ d.block = 1
        /\ \/ d.priv = "sync_init" /\ p = 0
           \/ d.priv = "sync_f" /\ p = 8
           \/ d.priv = "sync_l" /\ p = 16
           \/ d.priv = "sync_a" /\ p = 24
     \/ /\ d.state = "in_metadata" /\ d.block \in DOMAIN file.meta
        /\ \/ d.priv = "metadata_header" /\ p = start
           \/ /\ d.priv = "metadata_sinfo" /\ m.info
              /\ d.rem \in 0 .. 16 \cup {20, 24, 27, 30, 32, 34}
              /\ p = start + 32 + 8 * (34 - d.rem) - (IF d.rem = 20 THEN 4 ELSE 0)
           \/ /\ d.priv = "metadata_skip" /\ d.rem \in 0 .. m.len
              /\ p = start + 32 + 8 * (m.len - d.rem)
     \/ d.state = "end_of_metadata" /\ p = MetaBits

SearchAt(d, p) ==
  LET f     == FrameOf(d)
      start == FrameStart(d.frame)
  IN
  /\ d.state = "search_frame"
  /\ \/ /\ d.priv = "frame_sync" /\ d.frame \in 0 .. Len(file.frames)
        /\ p = FrameStart(d.frame + 1)
     \/ /\ d.frame \in DOMAIN file.frames
        /\ \/ d.priv = "frame_header" /\ p = start + 15
           \/ d.priv = "sync_info" /\ p = start + 32
           \/ d.priv = "aux" /\ p = start + 32 + 8 * f.coded
           \/ d.priv = "crc" /\ p = start + 32 + 8 * f.coded + f.aux

Shifted(d, n) == \A c \in 0 .. n - 1 : d.shifts[c] = ShiftsOf(FrameOf(d).subs[c + 1])

(* In a subframe, whose header was read.                                   *)
Within(d) ==
  /\ d.state = "in_frame" /\ d.frame \in DOMAIN file.frames
  /\ d.chan \in 0 .. Len(FrameOf(d).subs) - 1
  /\ d.wasted = SubOf(d).wasted
  /\ Residuals(SubOf(d)) => d.order = SubOf(d).order
  /\ Shifted(d, d.chan) /\ d.shifts[d.chan] = 0

(* How far into the subframe.                                              *)
WarmUpAt(d, q) ==
  LET f    == FrameOf(d)
      sub  == SubOf(d)
      warm == 8 + sub.wasted + d.cur * SampleBits(f, d.chan, sub.wasted)
  IN
  \/ d.priv = "constant" /\ sub.type = "constant" /\ q = 8 + sub.wasted
  \/ d.priv = "verbatim" /\ sub.type = "verbatim" /\ d.cur \in 0 .. f.size /\ q = warm
  \/ d.priv = sub.type /\ Residuals(sub) /\ d.cur \in 0 .. sub.order /\ q = warm
  \/ d.priv = "lpc_header" /\ sub.type = "lpc" /\ d.cur = sub.order /\ q = warm
  \/ /\ d.priv = "lpc_coeffs" /\ sub.type = "lpc" /\ d.cur = sub.order
     /\ d.coef \in 0 .. sub.order /\ q = warm + 9 + d.coef * sub.prec

Each(d) == FrameOf(d).size \div Len(SubOf(d).parts)

RiceAt(d, q) ==
  LET f     == FrameOf(d)
      sub   == SubOf(d)
      part  == PartOf(d)
      n     == PartSamples(f, sub, d.part)
      start == Warmed(f, sub, d.chan) + 6 + PartStart(f, sub, d.part)
      each  == IF part.raw THEN part.bits ELSE part.unary + 1 + part.bits
      here  == start + PartHead(part) + (n - d.left) * each
  IN
  /\ Residuals(sub) /\ d.part \in 0 .. Len(sub.parts) - 1
  /\ \/ /\ d.priv = "rice_init" /\ d.cur = (IF d.part = 0 THEN sub.order ELSE d.part * Each(d))
        /\ q = start
     \/ /\ d.priv \in {"rice_unary", "rice", "rice_verbatim"}
        /\ part.raw = (d.priv = "rice_verbatim")
        /\ d.left \in 0 .. n /\ d.cur + d.left = (d.part + 1) * Each(d)
        /\ \/ d.priv = "rice_unary" /\ d.unary \in 0 .. part.unary /\ (d.left = 0 => d.unary = 0)
              /\ q = here + d.unary
           \/ d.priv = "rice" /\ d.left > 0 /\ q = here + part.unary + 1
           \/ d.priv = "rice_verbatim" /\ q = here
     \/ /\ d.priv = "rice_finalize" /\ d.cur = (d.part + 1) * Each(d)
        /\ q = Warmed(f, sub, d.chan) + 6 + PartStart(f, sub, d.part + 1)

InsideAt(d, q) ==
  \/ WarmUpAt(d, q)
  \/ /\ d.priv = "residual" /\ Residuals(SubOf(d)) /\ d.cur = SubOf(d).order
     /\ q = Warmed(FrameOf(d), SubOf(d), d.chan)
  \/ RiceAt(d, q)
  \/ d.priv = "finalize" /\ q = SubframeBits(FrameOf(d), d.chan)

SubframeAt(d, q) == Within(d) /\ InsideAt(d, q)

(* The checksum of the frame is read once more.                            *)
AgainAt(d, q) ==
  LET f  == FrameOf(d)
      cc == Len(f.subs)
      all == SubStart(f, cc)
  IN
  /\ d.state = "in_frame" /\ d.frame \in DOMAIN file.frames /\ d.priv = "finalize"
  /\ d.chan \in {cc, cc + 1}
  /\ d.wasted = f.subs[cc].wasted /\ Shifted(d, cc)
  /\ q \in {all, all + Pad(all)}

InFrameAt(d, p) ==
  LET start == FrameStart(d.frame) IN
  \/ /\ d.state = "in_frame" /\ d.frame \in DOMAIN file.frames /\ d.priv = "subframe_header"
     /\ d.chan \in 0 .. Len(FrameOf(d).subs) - 1 /\ Shifted(d, d.chan)
     /\ p = start + SubStart(FrameOf(d), d.chan)
  \/ SubframeAt(d, p - start - SubStart(FrameOf(d), d.chan))
  \/ AgainAt(d, p - start)

DecodedAt(d, p) ==
  LET f == FrameOf(d) IN
  /\ d.frame \in DOMAIN file.frames /\ p = FrameStart(d.frame + 1)
  /\ \/ /\ d.state = "decoded_frame" /\ f.intact
        /\ d.chan \in 0 .. Len(f.subs) - 1 /\ d.cur \in 0 .. f.size - 1
        /\ Shifted(d, Len(f.subs))
     \/ d.state = "end_of_frame"

(* Values the caller has, by where the decoder is.                         *)
ValuesAt(d) ==
  CASE d.state = "in_frame" \/ (d.state = "search_frame" /\ d.priv # "frame_sync") ->
         Heard(d.frame - 1)
    [] d.state = "decoded_frame" -> Heard(d.frame - 1) + d.cur * Len(FrameOf(d).subs) + d.chan
    [] OTHER -> Heard(d.frame)

At(d, p) ==
  /\ DecoderType(d) /\ Kept(d)
  /\ MetaAt(d, p) \/ SearchAt(d, p) \/ InFrameAt(d, p) \/ DecodedAt(d, p)

First(h) == [i \in 1 .. h |-> Values[i]]

Again(d) == d.state = "in_frame" /\ d.priv = "finalize" /\ d.chan >= Len(FrameOf(d).subs)
CrcFits == pos + Pad(pos) + 16 <= given
AllGiven == given = 8 * FileBytes

DecoderInv ==
  /\ At(flac, pos)
  /\ out = First(ValuesAt(flac))
  /\ given \in Nat /\ given % 8 = 0 /\ given <= 8 * FileBytes /\ pos \in 0 .. given
  /\ given \div 8 - Taken <= bufSize
  /\ Again(flac) =>
       LET cc == Len(FrameOf(flac).subs) IN
       \/ flac.chan = cc /\ call = "return" /\ ~CrcFits
       \/ flac.chan = cc /\ call = "run" /\ (CrcFits \/ AllGiven)
       \/ flac.chan = cc + 1 /\ call = "return" /\ AllGiven /\ ~CrcFits

-----------------------------------------------------------------------------
(* The file does not change                                                *)
LEMMA FileKept ==
  ASSUME file' = file
  PROVE  /\ \A f, c, w : SampleBits(f, c, w)' = SampleBits(f, c, w)
         /\ \A f, c : SubframeBits(f, c)' = SubframeBits(f, c) /\ SubStart(f, c)' = SubStart(f, c)
         /\ \A k : FrameStart(k)' = FrameStart(k) /\ MetaStart(k)' = MetaStart(k)
         /\ \A k : Heard(k)' = Heard(k)
         /\ MetaBits' = MetaBits /\ FlacBits' = FlacBits /\ FileBytes' = FileBytes
         /\ Values' = Values
  <1>1. ASSUME NEW f, NEW c, NEW w PROVE SampleBits(f, c, w)' = SampleBits(f, c, w)
    BY DEF SampleBits
  <1>2. ASSUME NEW f, NEW c PROVE SubframeBits(f, c)' = SubframeBits(f, c)
    BY <1>1 DEF SubframeBits
  <1>3. ASSUME NEW f, NEW c PROVE SubStart(f, c)' = SubStart(f, c)
    BY <1>2 DEF SubStart, SubSizes
  <1>4. ASSUME NEW f PROVE FrameBits(f)' = FrameBits(f)
    BY <1>2 DEF FrameBits
  <1>5. MetaBits' = MetaBits /\ \A k : MetaStart(k)' = MetaStart(k)
    BY DEF MetaBits, MetaStart, MetaSizes
  <1>6. ASSUME NEW k PROVE FrameStart(k)' = FrameStart(k)
    BY <1>4, <1>5 DEF FrameStart
  <1>7. FlacBits' = FlacBits /\ FileBytes' = FileBytes
    BY <1>6 DEF FlacBits, FileBytes
  <1>8. ASSUME NEW k PROVE FrameValues(k)' = FrameValues(k)
    BY DEF FrameValues
  <1>9. Values' = Values /\ \A k : Heard(k)' = Heard(k)
    BY <1>8 DEF Values, Heard, ValueCounts
  <1>10. QED
    BY <1>1, <1>2, <1>3, <1>5, <1>6, <1>7, <1>9

LEMMA AtKept ==
  ASSUME file' = file, NEW d, NEW p
  PROVE  /\ At(d, p) => At(d, p)'
         /\ ValuesAt(d)' = ValuesAt(d)
         /\ Again(d)' <=> Again(d)
  <1>1. FrameOf(d)' = FrameOf(d) /\ SubOf(d)' = SubOf(d) /\ PartOf(d)' = PartOf(d)
        /\ Each(d)' = Each(d)
    BY DEF FrameOf, SubOf, PartOf, Each
  <1>2. Kept(d)' <=> Kept(d)
    BY DEF Kept
  <1>3. MetaAt(d, p)' <=> MetaAt(d, p)
    BY FileKept DEF MetaAt
  <1>4. SearchAt(d, p)' <=> SearchAt(d, p)
    BY <1>1, FileKept DEF SearchAt
  <1>5. \A n : Shifted(d, n)' <=> Shifted(d, n)
    BY <1>1 DEF Shifted
  <1>6. Within(d)' <=> Within(d)
    BY <1>1, <1>5 DEF Within
  <1>7. \A f, sub, c : Warmed(f, sub, c)' = Warmed(f, sub, c)
    BY FileKept DEF Warmed
  <1>8. ASSUME NEW q PROVE SubframeAt(d, q)' <=> SubframeAt(d, q)
    <2>1. WarmUpAt(d, q)' <=> WarmUpAt(d, q)
      BY <1>1, FileKept DEF WarmUpAt
    <2>2. RiceAt(d, q)' <=> RiceAt(d, q)
      BY <1>1, <1>7 DEF RiceAt
    <2>3. QED
      BY <1>1, <1>6, <1>7, <2>1, <2>2, FileKept DEF SubframeAt, InsideAt
  <1>9. ASSUME NEW q PROVE AgainAt(d, q)' <=> AgainAt(d, q)
    BY <1>1, <1>5, FileKept DEF AgainAt
  <1>10. InFrameAt(d, p)' <=> InFrameAt(d, p)
    BY <1>1, <1>5, <1>8, <1>9, FileKept DEF InFrameAt
  <1>11. DecodedAt(d, p)' <=> DecodedAt(d, p)
    BY <1>1, <1>5, FileKept DEF DecodedAt
  <1>12. ValuesAt(d)' = ValuesAt(d)
    BY <1>1, FileKept DEF ValuesAt
  <1>13. Again(d)' <=> Again(d)
    BY <1>1 DEF Again
  <1>14. QED
    BY <1>2, <1>3, <1>4, <1>10, <1>11, <1>12, <1>13 DEF At

LEMMA FirstKept ==
  ASSUME file' = file, NEW h
  PROVE  First(h)' = First(h)
  BY FileKept DEF First

-----------------------------------------------------------------------------
LEMMA Lesser ==
  ASSUME NEW a \in Int, NEW b \in Int
  PROVE  Min({a, b}) = IF a <= b THEN a ELSE b
  <1> DEFINE m == IF a <= b THEN a ELSE b
  <1>1. m \in {a, b} /\ \A y \in {a, b} : m <= y
    OBVIOUS
  <1>2. \A x \in {a, b} : (\A y \in {a, b} : x <= y) => x = m
    OBVIOUS
  <1> HIDE DEF m
  <1>3. Min({a, b}) = m
    BY <1>1, <1>2 DEF Min
  <1>4. QED
    BY <1>3 DEF m

TakenAt(p) == IF p = 0 THEN 0
              ELSE IF given \div 8 <= p \div 8 + 8 THEN given \div 8
              ELSE p \div 8 + 8

LEMMA TakenIs ==
  ASSUME given \in Nat, pos \in Nat
  PROVE  Taken = TakenAt(pos)
  <1>1. given \div 8 \in Int /\ pos \div 8 + 8 \in Int
    OBVIOUS
  <1>2. QED
    BY <1>1, Lesser DEF Taken, TakenAt

LEMMA Eighths ==
  \A a, b \in Nat : a \div 8 \in Nat /\ 8 * (a \div 8) <= a /\ (a <= b => a \div 8 <= b \div 8)
  OBVIOUS

(* A piece is never longer than the buffer it is read into.                *)
LEMMA TakenGrows ==
  ASSUME given \in Nat, pos \in Nat, bufSize \in Nat, bufSize' = bufSize, given' = given,
         pos' \in Nat, pos <= pos', given \div 8 - Taken <= bufSize
  PROVE  given' \div 8 - Taken' <= bufSize'
  <1>1. Taken = TakenAt(pos)
    BY TakenIs
  <1>2. Taken' = TakenAt(pos)'
    <2>1. given' \in Nat /\ pos' \in Nat
      OBVIOUS
    <2>2. given' \div 8 \in Int /\ pos' \div 8 + 8 \in Int
      BY <2>1
    <2>3. QED
      BY <2>2, Lesser DEF Taken, TakenAt
  <1>3. /\ TakenAt(pos)' >= TakenAt(pos)
        /\ TakenAt(pos) \in Int /\ TakenAt(pos)' \in Int /\ given \div 8 \in Int
    <2> DEFINE g == given \div 8
               a == pos \div 8
               b == pos' \div 8
    <2>1. g \in Nat /\ a \in Nat /\ b \in Nat /\ a <= b /\ pos \in Nat /\ pos' \in Nat
      <3>1. given \in Nat /\ pos \in Nat /\ pos' \in Nat /\ pos <= pos'
        OBVIOUS
      <3> HIDE DEF g, a, b
      <3>2. QED
        BY <3>1, Eighths DEF g, a, b
    <2>2. /\ TakenAt(pos) = IF pos = 0 THEN 0 ELSE IF g <= a + 8 THEN g ELSE a + 8
          /\ TakenAt(pos)' = IF pos' = 0 THEN 0 ELSE IF g <= b + 8 THEN g ELSE b + 8
      BY DEF TakenAt
    <2> HIDE DEF g, a, b, TakenAt
    <2>3. TakenAt(pos)' >= TakenAt(pos) /\ TakenAt(pos) \in Int /\ TakenAt(pos)' \in Int
      BY <2>1, <2>2
    <2>4. QED
      BY <2>1, <2>3 DEF g
  <1> HIDE DEF TakenAt
  <1> DEFINE g == given \div 8
  <1>4. g \in Int /\ g - TakenAt(pos) <= bufSize /\ given' \div 8 = g
    BY <1>1, <1>3
  <1> HIDE DEF g
  <1>5. g - TakenAt(pos)' <= bufSize'
    BY <1>3, <1>4
  <1>6. QED
    BY <1>2, <1>4, <1>5

LEMMA TakeKeeps ==
  ASSUME PlainFile(file), DecoderInv, call \in {"run", "return"}, bufSize \in Nat,
         bufSize' = bufSize,
         NEW need \in Nat, NEW n \in 0 .. need, NEW d, Take(need, n, d),
         ~Again(flac) \/ pos + need <= given,
         pos + need <= given => At(d, pos + n) /\ ValuesAt(d) = ValuesAt(flac) /\ ~Again(d)
  PROVE  DecoderInv'
  <1>1. file' = file /\ given' = given /\ out' = out
    BY DEF Take
  <1>2. given \in Nat /\ given % 8 = 0 /\ given <= 8 * FileBytes /\ pos \in 0 .. given
        /\ given \div 8 - Taken <= bufSize
    BY DEF DecoderInv
  <1>3. CASE pos + need <= given
    <2>1. pos' = pos + n /\ flac' = d
      BY <1>3 DEF Take
    <2>2. At(flac, pos)'
      BY <1>1, <1>3, <2>1, AtKept
    <2>3. ~Again(flac)'
      BY <1>1, <1>3, <2>1, AtKept
    <2>4. out' = First(ValuesAt(flac))'
      <3>1. ValuesAt(flac)' = ValuesAt(flac)
        BY <1>1, <1>3, <2>1, AtKept
      <3>2. QED
        BY <1>1, <3>1, FirstKept DEF DecoderInv
    <2>5. pos' \in 0 .. given' /\ pos <= pos'
      BY <1>1, <1>2, <1>3, <2>1
    <2>6. given' \div 8 - Taken' <= bufSize'
      BY <1>1, <1>2, <2>5, TakenGrows
    <2>7. given' \in Nat /\ given' % 8 = 0 /\ given' <= 8 * FileBytes'
      BY <1>1, <1>2, FileKept
    <2>8. QED
      BY <2>2, <2>3, <2>4, <2>5, <2>6, <2>7 DEF DecoderInv
  <1>4. CASE ~(pos + need <= given)
    <2>1. UNCHANGED <<pos, flac>>
      BY <1>4 DEF Take
    <2>2. At(flac, pos)' /\ ~Again(flac)' /\ ValuesAt(flac)' = ValuesAt(flac)
      BY <1>1, <1>4, <2>1, AtKept DEF DecoderInv
    <2>3. out' = First(ValuesAt(flac))'
      BY <1>1, <2>2, FirstKept DEF DecoderInv
    <2>4. Taken' = Taken
      BY <1>1, <2>1 DEF Taken
    <2>5. QED
      BY <1>1, <1>2, <2>1, <2>2, <2>3, <2>4, FileKept DEF DecoderInv
  <1>5. QED
    BY <1>3, <1>4

-----------------------------------------------------------------------------
(* Metadata                                                                *)

LEMMA ByState ==
  ASSUME NEW d, NEW p, At(d, p)
  PROVE  /\ DecoderType(d) /\ Kept(d)
         /\ d.state \in {"init", "in_metadata", "end_of_metadata"} => MetaAt(d, p)
         /\ d.state = "search_frame" => SearchAt(d, p)
         /\ d.state = "in_frame" => InFrameAt(d, p)
         /\ d.state \in {"decoded_frame", "end_of_frame"} => DecodedAt(d, p)
         /\ d.state \in {"init", "in_metadata", "end_of_metadata", "search_frame", "in_frame",
                         "decoded_frame", "end_of_frame"}
  <1>1. DecoderType(d) /\ Kept(d)
    BY DEF At
  <1>2. MetaAt(d, p) => d.state \in {"init", "in_metadata", "end_of_metadata"}
    BY DEF MetaAt
  <1>3. SearchAt(d, p) => d.state = "search_frame"
    BY DEF SearchAt
  <1>4. InFrameAt(d, p) => d.state = "in_frame"
    BY DEF InFrameAt, SubframeAt, Within, AgainAt
  <1>5. DecodedAt(d, p) => d.state \in {"decoded_frame", "end_of_frame"}
    BY DEF DecodedAt
  <1>6. QED
    BY <1>1, <1>2, <1>3, <1>4, <1>5 DEF At

Ready ==
  /\ PlainFile(file) /\ DecoderInv
  /\ call \in {"run", "return"} /\ bufSize \in Nat

LEMMA ReadyFacts ==
  ASSUME Ready
  PROVE  /\ PlainFile(file) /\ At(flac, pos) /\ DecoderType(flac) /\ Kept(flac)
         /\ pos \in Nat
  BY DEF Ready, DecoderInv, At

(* One turn of a handler that is not the end of a frame.                   *)
LEMMA ReadKeeps ==
  ASSUME Ready, bufSize' = bufSize, NEW need \in Nat, NEW n \in 0 .. need, NEW d,
         ~Again(flac) \/ pos + need <= given, Take(need, n, d),
         pos + need <= given => At(d, pos + n) /\ ValuesAt(d) = ValuesAt(flac) /\ ~Again(d)
  PROVE  DecoderInv'
  BY TakeKeeps DEF Ready

LEMMA SyncStreamKeeps ==
  ASSUME Ready, bufSize' = bufSize, SyncStream
  PROVE  DecoderInv'
  <1> USE DEF DecoderType, DecoderFields
  <1>1. flac.state = "init" /\ MetaAt(flac, pos) /\ DecoderType(flac) /\ Kept(flac) /\ pos \in Nat
    BY ReadyFacts, ByState DEF SyncStream, In
  <1>2. ~Again(flac) /\ ValuesAt(flac) = Heard(flac.frame)
    BY <1>1 DEF Again, ValuesAt
  <1>3. MetaStart(1) = 32 /\ 1 \in DOMAIN file.meta
    <2>1. PlainFile(file)
      BY ReadyFacts
    <2>2. Len(file.meta) \in Nat /\ Len(file.meta) > 0 /\ DOMAIN file.meta = 1 .. Len(file.meta)
          /\ MetaStart(1) = 32
      BY <2>1, MetaAdds
    <2>3. QED
      BY <2>2
  <1>4. ASSUME NEW a, NEW b \in {"sync_f", "sync_l", "sync_a"}, flac.priv = a,
               <<a, b>> \in {<<"sync_init", "sync_f">>, <<"sync_f", "sync_l">>,
                              <<"sync_l", "sync_a">>},
               Read(8, [flac EXCEPT !.priv = b])
        PROVE  DecoderInv'
    <2> DEFINE d == [flac EXCEPT !.priv = b]
    <2>1. DecoderType(d) /\ d.state = "init" /\ d.priv = b /\ d.block = flac.block
          /\ d.frame = flac.frame /\ d.wasted = flac.wasted /\ d.cur = flac.cur
          /\ d.order = flac.order
      BY <1>1
    <2> HIDE DEF d
    <2>2. MetaAt(d, pos + 8)
      BY <1>1, <1>4, <2>1 DEF MetaAt
    <2>3. Kept(d)
      BY <1>1, <2>1 DEF Kept
    <2>4. At(d, pos + 8) /\ ~Again(d) /\ ValuesAt(d) = ValuesAt(flac)
      BY <1>2, <2>1, <2>2, <2>3 DEF At, Again, ValuesAt
    <2>5. Take(8, 8, d)
      BY <1>4 DEF d, Read
    <2>6. QED
      BY <1>2, <2>4, <2>5, ReadKeeps
  <1>5. ASSUME flac.priv = "sync_a", Read(8, Go(flac, "in_metadata", "metadata_header"))
        PROVE  DecoderInv'
    <2> DEFINE d == Go(flac, "in_metadata", "metadata_header")
    <2>1. DecoderType(d) /\ d.state = "in_metadata" /\ d.priv = "metadata_header"
          /\ d.block = flac.block
          /\ d.frame = flac.frame /\ d.wasted = flac.wasted /\ d.cur = flac.cur
          /\ d.order = flac.order
      BY <1>1 DEF Go
    <2> HIDE DEF d
    <2>2. MetaAt(d, pos + 8)
      BY <1>1, <1>3, <1>5, <2>1 DEF MetaAt
    <2>3. Kept(d)
      BY <1>1, <2>1 DEF Kept
    <2>4. At(d, pos + 8) /\ ~Again(d) /\ ValuesAt(d) = ValuesAt(flac)
      BY <1>2, <2>1, <2>2, <2>3 DEF At, Again, ValuesAt
    <2>5. Take(8, 8, d)
      BY <1>5 DEF d, Read
    <2>6. QED
      BY <1>2, <2>4, <2>5, ReadKeeps
  <1>6. QED
    BY <1>4, <1>5 DEF SyncStream, In

(* What the decoder knows while it reads metadata.                         *)
LEMMA InMetadata ==
  ASSUME Ready, flac.state = "in_metadata"
  PROVE  /\ MetaAt(flac, pos) /\ DecoderType(flac) /\ Kept(flac) /\ pos \in Nat
         /\ flac.block \in 1 .. Len(file.meta) /\ flac.frame = 0
         /\ LET m == file.meta[flac.block] IN
            /\ m.len \in Nat /\ m.info \in BOOLEAN /\ (m.info => m.len = 34)
            /\ MetaStart(flac.block) \in Nat
            /\ MetaStart(flac.block + 1) = MetaStart(flac.block) + 32 + 8 * m.len
         /\ Len(file.meta) \in Nat /\ DOMAIN file.meta = 1 .. Len(file.meta)
         /\ MetaBits = MetaStart(Len(file.meta) + 1)
         /\ ~Again(flac) /\ ValuesAt(flac) = Heard(0)
  <1>1. PlainFile(file) /\ MetaAt(flac, pos) /\ DecoderType(flac) /\ Kept(flac) /\ pos \in Nat
    BY ReadyFacts, ByState
  <1>2. flac.block \in DOMAIN file.meta /\ flac.frame = 0
    BY <1>1 DEF MetaAt
  <1>3. ~Again(flac) /\ ValuesAt(flac) = Heard(0)
    BY <1>2 DEF Again, ValuesAt
  <1>4. QED
    BY <1>1, <1>2, <1>3, MetaAdds

(* What a handler of metadata has to keep.                                 *)
LEMMA MetaKeeps ==
  ASSUME Ready, bufSize' = bufSize, flac.state = "in_metadata",
         NEW need \in Nat, NEW n \in 0 .. need, NEW d, Take(need, n, d),
         DecoderType(d), d.frame = 0, d.wasted = flac.wasted, d.cur = flac.cur,
         d.order = flac.order, MetaAt(d, pos + n)
  PROVE  DecoderInv'
  <1>1. Kept(d)
    BY InMetadata DEF Kept
  <1>2. d.state \in {"init", "in_metadata", "end_of_metadata"}
    BY DEF MetaAt
  <1>3. At(d, pos + n) /\ ~Again(d) /\ ValuesAt(d) = ValuesAt(flac)
    BY <1>1, <1>2, InMetadata DEF At, Again, ValuesAt
  <1>4. QED
    BY <1>3, InMetadata, ReadKeeps

LEMMA MetadataHeaderKeeps ==
  ASSUME Ready, bufSize' = bufSize, MetadataHeader
  PROVE  DecoderInv'
  <1> USE DEF DecoderType, DecoderFields
  <1> DEFINE m == file.meta[flac.block]
             d == [flac EXCEPT !.rem = m.len,
                               !.priv = IF m.info THEN "metadata_sinfo" ELSE "metadata_skip"]
  <1>1. flac.state = "in_metadata" /\ flac.priv = "metadata_header"
    BY DEF MetadataHeader, In
  <1>2. /\ MetaAt(flac, pos) /\ DecoderType(flac) /\ pos \in Nat /\ flac.frame = 0
        /\ flac.block \in DOMAIN file.meta
        /\ m.len \in Nat /\ m.info \in BOOLEAN /\ (m.info => m.len = 34)
        /\ MetaStart(flac.block) \in Nat
    BY <1>1, InMetadata
  <1>3. Take(32, 32, d)
    BY <1>2 DEF MetadataHeader
  <1>4. DecoderType(d) /\ d.frame = 0 /\ d.wasted = flac.wasted /\ d.cur = flac.cur
        /\ d.order = flac.order /\ d.state = "in_metadata" /\ d.rem = m.len
        /\ d.priv = (IF m.info THEN "metadata_sinfo" ELSE "metadata_skip")
        /\ d.block = flac.block
    BY <1>1, <1>2
  <1> HIDE DEF d
  <1>5. pos = MetaStart(flac.block)
    BY <1>1, <1>2 DEF MetaAt
  <1>6. MetaAt(d, pos + 32)
    <2>1. CASE m.info
      BY <1>2, <1>4, <1>5, <2>1 DEF MetaAt
    <2>2. CASE ~m.info
      BY <1>2, <1>4, <1>5, <2>2 DEF MetaAt
    <2>3. QED
      BY <1>2, <2>1, <2>2
  <1>7. QED
    BY <1>1, <1>3, <1>4, <1>6, MetaKeeps

LEMMA MetadataSInfoKeeps ==
  ASSUME Ready, bufSize' = bufSize, MetadataSInfo
  PROVE  DecoderInv'
  <1> USE DEF DecoderType, DecoderFields
  <1> DEFINE m == file.meta[flac.block]
             start == MetaStart(flac.block)
             read == SInfoField[flac.rem][1]
             less == SInfoField[flac.rem][2]
  <1>1. flac.state = "in_metadata" /\ flac.priv = "metadata_sinfo"
    BY DEF MetadataSInfo, In
  <1>2. /\ MetaAt(flac, pos) /\ DecoderType(flac) /\ pos \in Nat /\ flac.frame = 0
        /\ flac.block \in DOMAIN file.meta
        /\ m.len \in Nat /\ m.info \in BOOLEAN /\ (m.info => m.len = 34)
        /\ start \in Nat
    BY <1>1, InMetadata
  <1>3. m.info /\ m.len = 34 /\ flac.rem \in 0 .. 16 \cup {20, 24, 27, 30, 32, 34}
        /\ pos = start + 32 + 8 * (34 - flac.rem) - (IF flac.rem = 20 THEN 4 ELSE 0)
    BY <1>1, <1>2 DEF MetaAt
  <1> HIDE DEF m, start
  <1>4. CASE flac.rem = 0
    <2> DEFINE d == [flac EXCEPT !.priv = "metadata_skip"]
    <2>1. Take(0, 0, d)
      BY <1>4 DEF MetadataSInfo, Turn
    <2>2. DecoderType(d) /\ d.frame = 0 /\ d.wasted = flac.wasted /\ d.cur = flac.cur
          /\ d.order = flac.order /\ d.state = "in_metadata" /\ d.rem = 0
          /\ d.priv = "metadata_skip" /\ d.block = flac.block
      BY <1>1, <1>2, <1>4
    <2> HIDE DEF d
    <2>3. pos + 0 = start + 32 + 8 * (m.len - 0)
      BY <1>2, <1>3, <1>4
    <2>4. MetaAt(d, pos + 0)
      BY <1>2, <1>3, <2>2, <2>3 DEF MetaAt, m, start
    <2>5. QED
      BY <1>1, <2>1, <2>2, <2>4, MetaKeeps
  <1>5. CASE flac.rem # 0
    <2> DEFINE d == [flac EXCEPT !.rem = @ - less]
    <2>1. Take(read, read, d)
      BY <1>5 DEF MetadataSInfo, Read
    <2>2. /\ read \in Nat /\ flac.rem - less \in 0 .. 16 \cup {20, 24, 27, 30, 32, 34}
          /\ pos + read = start + 32 + 8 * (34 - (flac.rem - less))
                            - (IF flac.rem - less = 20 THEN 4 ELSE 0)
      <3>1. CASE flac.rem \in {34, 32}
        <4>1. read = 16 /\ less = 2
          BY <3>1 DEF SInfoField
        <4> HIDE DEF read, less
        <4>2. QED
          BY <1>2, <1>3, <3>1, <4>1
      <3>2. CASE flac.rem \in {30, 27}
        <4>1. read = 24 /\ less = 3
          BY <3>2 DEF SInfoField
        <4> HIDE DEF read, less
        <4>2. QED
          BY <1>2, <1>3, <3>2, <4>1
      <3>3. CASE flac.rem = 24
        <4>1. read = 28 /\ less = 4
          BY <3>3 DEF SInfoField
        <4> HIDE DEF read, less
        <4>2. QED
          BY <1>2, <1>3, <3>3, <4>1
      <3>4. CASE flac.rem = 20
        <4>1. read = 36 /\ less = 4
          BY <3>4 DEF SInfoField
        <4> HIDE DEF read, less
        <4>2. QED
          BY <1>2, <1>3, <3>4, <4>1
      <3>5. CASE flac.rem \in 1 .. 16
        <4>1. read = 8 /\ less = 1
          BY <3>5 DEF SInfoField
        <4> HIDE DEF read, less
        <4>2. QED
          BY <1>2, <1>3, <3>5, <4>1
      <3>6. QED
        BY <1>3, <1>5, <3>1, <3>2, <3>3, <3>4, <3>5
    <2> HIDE DEF read, less
    <2>3. DecoderType(d) /\ d.frame = 0 /\ d.wasted = flac.wasted /\ d.cur = flac.cur
          /\ d.order = flac.order /\ d.state = "in_metadata" /\ d.rem = flac.rem - less
          /\ d.priv = "metadata_sinfo" /\ d.block = flac.block
      BY <1>1, <1>2, <2>2
    <2> HIDE DEF d
    <2>4. MetaAt(d, pos + read)
      BY <1>2, <1>3, <2>2, <2>3 DEF MetaAt, m, start
    <2>5. read \in 0 .. read
      BY <2>2
    <2>6. QED
      BY <1>1, <2>1, <2>2, <2>3, <2>4, <2>5, MetaKeeps
  <1>6. QED
    BY <1>4, <1>5

LEMMA MetadataSkipKeeps ==
  ASSUME Ready, bufSize' = bufSize, MetadataSkip
  PROVE  DecoderInv'
  <1> DEFINE m == file.meta[flac.block]
             start == MetaStart(flac.block)
             n == Min({7, flac.rem})
  <1>1. flac.state = "in_metadata" /\ flac.priv = "metadata_skip"
    BY DEF MetadataSkip, In
  <1>2. /\ MetaAt(flac, pos) /\ DecoderType(flac) /\ pos \in Nat /\ flac.frame = 0
        /\ flac.block \in 1 .. Len(file.meta) /\ DOMAIN file.meta = 1 .. Len(file.meta)
        /\ Len(file.meta) \in Nat
        /\ m.len \in Nat /\ start \in Nat
        /\ MetaStart(flac.block + 1) = start + 32 + 8 * m.len
        /\ MetaBits = MetaStart(Len(file.meta) + 1)
    BY <1>1, InMetadata
  <1>3. flac.rem \in 0 .. m.len /\ pos = start + 32 + 8 * (m.len - flac.rem)
    BY <1>1, <1>2 DEF MetaAt
  <1>10. flac.rem \in Nat /\ flac.block \in Nat
    BY <1>2 DEF DecoderType
  <1>4. n = IF 7 <= flac.rem THEN 7 ELSE flac.rem
    BY <1>10, Lesser
  <1>5. n \in 0 .. flac.rem /\ flac.rem - n \in Nat
    <2> HIDE DEF n
    <2>1. QED
      BY <1>4, <1>10
  <1> HIDE DEF m, start, n
  <1>11. /\ pos \in Nat /\ start \in Nat /\ m.len \in Nat /\ flac.frame = 0
         /\ flac.block + 1 \in Nat
    <2>1. flac.block + 1 \in Nat
      BY <1>10
    <2>2. QED
      BY <1>2, <2>1
  <1>6. CASE n > 0
    <2> DEFINE d == [flac EXCEPT !.rem = @ - n]
    <2>1. Take(8 * n, 8 * n, d)
      BY <1>6 DEF MetadataSkip, Read, n
    <2>2. DecoderType(d) /\ d.frame = 0 /\ d.wasted = flac.wasted /\ d.cur = flac.cur
          /\ d.order = flac.order /\ d.state = "in_metadata" /\ d.rem = flac.rem - n
          /\ d.priv = "metadata_skip" /\ d.block = flac.block
      BY <1>1, <1>2, <1>5 DEF DecoderType, DecoderFields
    <2> HIDE DEF d
    <2>3. d.rem \in 0 .. m.len /\ pos + 8 * n = start + 32 + 8 * (m.len - d.rem)
      <3>1. d.rem = flac.rem - n
        BY <2>2
      <3>2. QED
        BY <1>3, <1>5, <1>10, <1>11, <3>1
    <2>4. MetaAt(d, pos + 8 * n)
      BY <1>2, <2>2, <2>3 DEF MetaAt, m, start
    <2>5. 8 * n \in Nat /\ 8 * n \in 0 .. 8 * n
      BY <1>2, <1>5
    <2>6. QED
      BY <1>1, <2>1, <2>2, <2>4, <2>5, MetaKeeps
  <1>7. CASE ~(n > 0) /\ flac.block = Len(file.meta)
    <2> DEFINE d == [flac EXCEPT !.state = "end_of_metadata"]
    <2>1. Take(0, 0, d)
      BY <1>7 DEF MetadataSkip, Turn, n
    <2>2. DecoderType(d) /\ d.frame = 0 /\ d.wasted = flac.wasted /\ d.cur = flac.cur
          /\ d.order = flac.order /\ d.state = "end_of_metadata"
      BY <1>1, <1>2, <1>11 DEF DecoderType, DecoderFields
    <2> HIDE DEF d
    <2>3. flac.rem = 0
      BY <1>10, <1>4, <1>7
    <2>4. pos + 0 = MetaBits
      <3>1. MetaBits = start + 32 + 8 * m.len
        BY <1>2, <1>7
      <3>2. QED
        BY <1>2, <1>3, <2>3, <3>1
    <2>5. MetaAt(d, pos + 0)
      BY <2>2, <2>4 DEF MetaAt
    <2>6. QED
      BY <1>1, <2>1, <2>2, <2>5, MetaKeeps
  <1>8. CASE ~(n > 0) /\ flac.block # Len(file.meta)
    <2> DEFINE d == [flac EXCEPT !.priv = "metadata_header", !.block = @ + 1]
    <2>1. Take(0, 0, d)
      BY <1>8 DEF MetadataSkip, Turn, n
    <2>2. DecoderType(d) /\ d.frame = 0 /\ d.wasted = flac.wasted /\ d.cur = flac.cur
          /\ d.order = flac.order /\ d.state = "in_metadata" /\ d.priv = "metadata_header"
          /\ d.block = flac.block + 1
      BY <1>1, <1>2, <1>11 DEF DecoderType, DecoderFields
    <2> HIDE DEF d
    <2>3. flac.rem = 0
      BY <1>10, <1>4, <1>8
    <2>4. pos + 0 = MetaStart(d.block) /\ d.block \in DOMAIN file.meta
      <3>1. d.block = flac.block + 1
        BY <2>2
      <3>2. flac.block + 1 \in DOMAIN file.meta
        <4> DEFINE N == Len(file.meta)
        <4>1. N \in Nat /\ flac.block \in 1 .. N /\ flac.block # N /\ DOMAIN file.meta = 1 .. N
          BY <1>2, <1>8
        <4> HIDE DEF N
        <4>2. QED
          BY <4>1
      <3>3. MetaStart(flac.block + 1) = pos + 0
        BY <1>2, <1>3, <2>3
      <3>4. QED
        BY <3>1, <3>2, <3>3
    <2>5. MetaAt(d, pos + 0)
      BY <2>2, <2>4 DEF MetaAt
    <2>6. QED
      BY <1>1, <2>1, <2>2, <2>5, MetaKeeps
  <1>9. QED
    BY <1>6, <1>7, <1>8

-----------------------------------------------------------------------------
(* Searching a frame, and its header                                       *)

LEMMA StartsGrow ==
  ASSUME PlainFile(file)
  PROVE  \A j, k \in 1 .. Len(file.frames) + 1 : FrameStart(j) = FrameStart(k) => j = k
  <1> DEFINE n == Len(file.frames)
             d == FrameSizes
  <1>1. /\ n \in Nat /\ n > 0 /\ DOMAIN file.frames = 1 .. n
        /\ \A k \in 1 .. n + 1 : FrameStart(k) \in Nat
        /\ \A k \in 1 .. n : FrameStart(k + 1) = FrameStart(k) + FrameBits(file.frames[k])
    BY StartsAdd
  <1>2. \A k \in 1 .. n : d[k] = FrameBits(file.frames[k])
    BY <1>1 DEF FrameSizes
  <1>3. \A k \in 1 .. n : d[k] \in Nat /\ d[k] > 0
    BY <1>1, <1>2, SubsAdd
  <1>4. \A k \in Int : FrameStart(k) = MetaBits + Total(k - 1, d)
    BY DEF FrameStart, FrameSizes
  <1>5. MetaBits \in Nat
    BY MetaAdds
  <1> HIDE DEF n, d
  <1>6. ASSUME NEW j \in 1 .. n + 1, NEW k \in 1 .. n + 1, j < k
        PROVE  FrameStart(j) < FrameStart(k)
    <2>1. j \in 1 .. n /\ k - 1 \in Nat /\ j \in 0 .. k - 1 /\ \A i \in 1 .. k - 1 : i \in 1 .. n
      BY <1>1, <1>6
    <2>2. Total(j, d) <= Total(k - 1, d) /\ Total(j, d) \in Nat /\ Total(k - 1, d) \in Nat
      <3>1. \A i \in 1 .. k - 1 : d[i] \in Nat
        BY <1>3, <2>1
      <3>2. \A i \in 0 .. k - 1 : Total(i, d) \in Nat /\ Total(i, d) <= Total(k - 1, d)
        BY <2>1, <3>1, TotalGrows
      <3>3. k - 1 \in 0 .. k - 1
        BY <2>1
      <3>4. QED
        BY <2>1, <3>2, <3>3
    <2>3. FrameStart(j + 1) = MetaBits + Total(j, d) /\ FrameStart(k) = MetaBits + Total(k - 1, d)
      <3>1. (j + 1) - 1 = j /\ j + 1 \in Int /\ k \in Int
        BY <2>1
      <3>2. QED
        BY <1>4, <3>1
    <2>4. FrameStart(j + 1) = FrameStart(j) + d[j] /\ d[j] \in Nat /\ d[j] > 0
      BY <1>1, <1>2, <1>3, <2>1
    <2>5. FrameStart(j) \in Nat
      BY <1>1
    <2>6. QED
      BY <1>5, <2>2, <2>3, <2>4, <2>5
  <1>7. QED
    <2> SUFFICES ASSUME NEW j \in 1 .. n + 1, NEW k \in 1 .. n + 1, FrameStart(j) = FrameStart(k)
                 PROVE  j = k
      BY DEF n
    <2>1. ~(j < k) /\ ~(k < j)
      BY <1>1, <1>6
    <2>2. QED
      BY <1>1, <2>1

LEMMA GivenInside ==
  ASSUME Ready
  PROVE  given \in Nat /\ given <= FlacBits /\ FlacBits \in Nat
  <1>1. PlainFile(file) /\ given \in Nat /\ given <= 8 * FileBytes
    BY DEF Ready, DecoderInv
  <1>2. FlacBits \in Nat
    <2>1. Len(file.frames) + 1 \in 1 .. Len(file.frames) + 1
      BY <1>1, StartsAdd
    <2>2. QED
      BY <1>1, <2>1, StartsAdd
  <1>3. file.has \in Nat
    BY <1>1 DEF PlainFile, SoundFile
  <1> DEFINE b == FlacBits \div 8
  <1>4. b \in Nat /\ 8 * b <= FlacBits
    BY <1>2, Eighths
  <1>5. FileBytes = IF file.has <= b THEN file.has ELSE b
    <2> HIDE DEF b
    <2>1. Min({file.has, b}) = IF file.has <= b THEN file.has ELSE b
      BY <1>3, <1>4, Lesser
    <2>2. QED
      BY <2>1 DEF FileBytes, b
  <1> HIDE DEF b
  <1>6. 8 * FileBytes <= 8 * b
    BY <1>3, <1>4, <1>5
  <1>7. QED
    BY <1>1, <1>2, <1>3, <1>4, <1>5, <1>6

LEMMA InSearch ==
  ASSUME Ready, flac.state = "search_frame"
  PROVE  /\ SearchAt(flac, pos) /\ DecoderType(flac) /\ Kept(flac) /\ pos \in Nat
         /\ flac.frame \in 0 .. Len(file.frames) /\ ~Again(flac)
         /\ ValuesAt(flac) = Heard(IF flac.priv = "frame_sync" THEN flac.frame ELSE flac.frame - 1)
         /\ flac.priv # "frame_sync" => flac.frame \in DOMAIN file.frames
         /\ DOMAIN file.frames = 1 .. Len(file.frames) /\ Len(file.frames) \in Nat
  <1>1. PlainFile(file) /\ SearchAt(flac, pos) /\ DecoderType(flac) /\ Kept(flac) /\ pos \in Nat
    BY ReadyFacts, ByState
  <1>2. DOMAIN file.frames = 1 .. Len(file.frames) /\ Len(file.frames) \in Nat
    BY <1>1, StartsAdd
  <1>3. flac.priv # "frame_sync" => flac.frame \in DOMAIN file.frames
    BY <1>1 DEF SearchAt
  <1>4. flac.frame \in 0 .. Len(file.frames)
    BY <1>1, <1>2, <1>3 DEF SearchAt
  <1>5. ~Again(flac)
    BY DEF Again
  <1>6. ValuesAt(flac) = Heard(IF flac.priv = "frame_sync" THEN flac.frame ELSE flac.frame - 1)
    BY DEF ValuesAt
  <1>7. QED
    BY <1>1, <1>2, <1>3, <1>4, <1>5, <1>6

(* A handler of a frame header reads on.                                   *)
LEMMA SearchKeeps ==
  ASSUME Ready, bufSize' = bufSize, flac.state = "search_frame", flac.priv # "frame_sync",
         NEW need \in Nat, NEW n \in 0 .. need, NEW p, p # "frame_sync",
         Take(need, n, [flac EXCEPT !.priv = p]), SearchAt([flac EXCEPT !.priv = p], pos + n)
  PROVE  DecoderInv'
  <1> DEFINE d == [flac EXCEPT !.priv = p]
  <1>1. /\ DecoderType(flac) /\ Kept(flac) /\ ~Again(flac)
        /\ ValuesAt(flac) = Heard(flac.frame - 1)
    BY InSearch
  <1>2. DecoderType(d) /\ d.state = "search_frame" /\ d.priv = p /\ d.frame = flac.frame
        /\ d.wasted = flac.wasted /\ d.cur = flac.cur /\ d.order = flac.order
    BY <1>1 DEF DecoderType, DecoderFields
  <1>3. SearchAt(d, pos + n) /\ Take(need, n, d)
    OBVIOUS
  <1> HIDE DEF d
  <1>4. Kept(d)
    BY <1>1, <1>2 DEF Kept
  <1>5. At(d, pos + n) /\ ~Again(d) /\ ValuesAt(d) = ValuesAt(flac)
    BY <1>1, <1>2, <1>3, <1>4 DEF At, Again, ValuesAt
  <1>6. QED
    BY <1>1, <1>3, <1>5, ReadKeeps

LEMMA FrameSyncKeeps ==
  ASSUME Ready, bufSize' = bufSize, FrameSync
  PROVE  DecoderInv'
  <1> DEFINE n == Len(file.frames)
             at == {k \in DOMAIN file.frames : FrameStart(k) = pos}
             k == CHOOSE x \in at : TRUE
             d == [flac EXCEPT !.priv = "frame_header", !.frame = k]
  <1>1. flac.state = "search_frame" /\ flac.priv = "frame_sync"
    BY DEF FrameSync, In
  <1>2. /\ SearchAt(flac, pos) /\ DecoderType(flac) /\ Kept(flac) /\ pos \in Nat
        /\ flac.frame \in 0 .. n /\ ~Again(flac) /\ ValuesAt(flac) = Heard(flac.frame)
        /\ DOMAIN file.frames = 1 .. n /\ n \in Nat
    BY <1>1, InSearch
  <1>3. pos = FrameStart(flac.frame + 1)
    BY <1>1, <1>2 DEF SearchAt
  <1>4. PlainFile(file)
    BY ReadyFacts
  <1>5. pos % 8 = 0 /\ Pad(pos) = 0
    <2>1. flac.frame + 1 \in 1 .. n + 1
      BY <1>2
    <2>2. pos % 8 = 0
      BY <1>3, <1>4, <2>1, StartsAdd
    <2>3. QED
      BY <1>2, <2>2, PadFacts
  <1> USE DEF Read
  <1>6. IF at = {} THEN Take(15, 8, flac) ELSE Take(15, 15, d)
    BY <1>5 DEF FrameSync
  <1>7. CASE at = {}
    <2>1. flac.frame = n
      <3>1. ASSUME flac.frame # n PROVE FALSE
        <4>1. flac.frame + 1 \in 1 .. n
          BY <1>2, <3>1
        <4>2. flac.frame + 1 \in at
          BY <1>2, <1>3, <4>1
        <4>3. QED
          BY <1>7, <4>2
      <3>2. QED
        BY <3>1
    <2>2. pos = FlacBits
      BY <1>3, <1>4, <2>1, StartsAdd
    <2>3. ~(pos + 15 <= given)
      BY <1>2, <2>2, GivenInside
    <2>4. 15 \in Nat /\ 8 \in 0 .. 15 /\ Take(15, 8, flac)
      BY <1>6, <1>7
    <2>5. QED
      BY <1>2, <2>3, <2>4, ReadKeeps
  <1>8. CASE at # {}
    <2>1. k \in 1 .. n /\ FrameStart(k) = pos
      BY <1>2, <1>8
    <2>2. k = flac.frame + 1
      <3>1. flac.frame + 1 \in 1 .. n + 1 /\ k \in 1 .. n + 1
        BY <1>2, <2>1
      <3>2. QED
        BY <1>3, <1>4, <2>1, <3>1, StartsGrow
    <2>3. Take(15, 15, d)
      BY <1>6, <1>8
    <2> HIDE DEF k, at
    <2>4. DecoderType(d) /\ d.state = "search_frame" /\ d.priv = "frame_header" /\ d.frame = k
          /\ d.wasted = flac.wasted /\ d.cur = flac.cur /\ d.order = flac.order
      BY <1>1, <1>2, <2>1 DEF DecoderType, DecoderFields
    <2> HIDE DEF d
    <2>5. Kept(d)
      BY <1>2, <2>4 DEF Kept
    <2>6. SearchAt(d, pos + 15)
      BY <1>2, <2>1, <2>4 DEF SearchAt
    <2>7. d.frame - 1 = flac.frame
      BY <1>2, <2>2, <2>4
    <2>8. At(d, pos + 15) /\ ~Again(d) /\ ValuesAt(d) = ValuesAt(flac)
      BY <1>2, <2>4, <2>5, <2>6, <2>7 DEF At, Again, ValuesAt
    <2>9. QED
      BY <1>2, <2>3, <2>8, ReadKeeps
  <1>9. QED
    BY <1>7, <1>8

(* What the header of the frame that was found is.                         *)
LEMMA InHeader ==
  ASSUME Ready, flac.state = "search_frame", flac.priv # "frame_sync"
  PROVE  /\ FrameStart(flac.frame) \in Nat /\ FrameStart(flac.frame) >= 160
         /\ Frame.variable \in BOOLEAN /\ Frame.aux \in 0 .. 32
         /\ Frame.coded \in 1 .. (IF Frame.variable THEN 7 ELSE 6)
         /\ Frame.size \in 1 .. MaxBlockSize /\ Len(Frame.subs) \in 1 .. MaxChannels
         /\ FrameOf(flac) = Frame /\ pos \in Nat /\ DecoderType(flac)
  <1>1. PlainFile(file) /\ flac.frame \in DOMAIN file.frames /\ pos \in Nat /\ DecoderType(flac)
    BY InSearch, ReadyFacts
  <1>2. FrameStart(flac.frame) \in Nat /\ FrameStart(flac.frame) >= 160
    <2>1. flac.frame \in 1 .. Len(file.frames) + 1
      BY <1>1, StartsAdd
    <2>2. QED
      BY <1>1, <2>1, StartsAdd
  <1>3. QED
    BY <1>1, <1>2, FrameType DEF Frame, FrameOf

LEMMA FrameHeaderKeeps ==
  ASSUME Ready, bufSize' = bufSize, FrameHeader
  PROVE  DecoderInv'
  <1> DEFINE d == [flac EXCEPT !.priv = "sync_info"]
  <1>1. flac.state = "search_frame" /\ flac.priv = "frame_header" /\ Take(17, 17, d)
    BY DEF FrameHeader, In, Read
  <1>2. SearchAt(flac, pos) /\ DecoderType(flac) /\ FrameStart(flac.frame) \in Nat
    BY <1>1, InSearch, InHeader
  <1>3. SearchAt(d, pos + 17)
    <2>1. d.state = "search_frame" /\ d.priv = "sync_info" /\ d.frame = flac.frame
      BY <1>1, <1>2 DEF DecoderType, DecoderFields
    <2> HIDE DEF d
    <2>2. QED
      BY <1>1, <1>2, <2>1 DEF SearchAt, FrameOf
  <1>4. 17 \in Nat /\ 17 \in 0 .. 17 /\ flac.priv # "frame_sync" /\ "sync_info" # "frame_sync"
    BY <1>1
  <1>5. QED
    BY <1>1, <1>3, <1>4, SearchKeeps

LEMMA SyncInfoKeeps ==
  ASSUME Ready, bufSize' = bufSize, SyncInfo
  PROVE  DecoderInv'
  <1> DEFINE d == [flac EXCEPT !.priv = "aux"]
             need == IF Frame.variable THEN 56 ELSE 48
             n == 8 * Frame.coded
  <1>1. flac.state = "search_frame" /\ flac.priv = "sync_info" /\ Take(need, n, d)
    BY DEF SyncInfo, In
  <1>2. /\ SearchAt(flac, pos) /\ DecoderType(flac) /\ FrameStart(flac.frame) \in Nat
        /\ Frame.coded \in 1 .. (IF Frame.variable THEN 7 ELSE 6) /\ Frame.variable \in BOOLEAN
        /\ FrameOf(flac) = Frame
    BY <1>1, InSearch, InHeader
  <1>3. n \in 0 .. need /\ need \in Nat
    BY <1>2
  <1>4. SearchAt(d, pos + n)
    <2>1. d.state = "search_frame" /\ d.priv = "aux" /\ d.frame = flac.frame
      BY <1>1, <1>2 DEF DecoderType, DecoderFields
    <2> HIDE DEF d
    <2>2. FrameOf(d) = Frame
      BY <1>2, <2>1 DEF FrameOf
    <2>3. QED
      BY <1>1, <1>2, <2>1, <2>2 DEF SearchAt
  <1>5. QED
    BY <1>1, <1>3, <1>4, SearchKeeps

LEMMA AuxKeeps ==
  ASSUME Ready, bufSize' = bufSize, Aux
  PROVE  DecoderInv'
  <1> DEFINE d == [flac EXCEPT !.priv = "crc"]
  <1>1. flac.state = "search_frame" /\ flac.priv = "aux" /\ Take(32, Frame.aux, d)
    BY DEF Aux, In
  <1>2. /\ SearchAt(flac, pos) /\ DecoderType(flac) /\ FrameStart(flac.frame) \in Nat
        /\ Frame.coded \in 1 .. (IF Frame.variable THEN 7 ELSE 6) /\ Frame.aux \in 0 .. 32
        /\ FrameOf(flac) = Frame
    BY <1>1, InSearch, InHeader
  <1>3. SearchAt(d, pos + Frame.aux)
    <2>1. d.state = "search_frame" /\ d.priv = "crc" /\ d.frame = flac.frame
      BY <1>1, <1>2 DEF DecoderType, DecoderFields
    <2> HIDE DEF d
    <2>2. FrameOf(d) = Frame
      BY <1>2, <2>1 DEF FrameOf
    <2>3. QED
      BY <1>1, <1>2, <2>1, <2>2 DEF SearchAt
  <1>4. QED
    BY <1>1, <1>2, <1>3, SearchKeeps

LEMMA HeaderCrcKeeps ==
  ASSUME Ready, bufSize' = bufSize, HeaderCrc
  PROVE  DecoderInv'
  <1> DEFINE d == [Go(flac, "in_frame", "subframe_header") EXCEPT !.chan = 0]
  <1>1. flac.state = "search_frame" /\ flac.priv = "crc"
    BY DEF HeaderCrc, In
  <1>2. /\ SearchAt(flac, pos) /\ DecoderType(flac) /\ Kept(flac) /\ FrameStart(flac.frame) \in Nat
        /\ Frame.coded \in 1 .. (IF Frame.variable THEN 7 ELSE 6) /\ Frame.aux \in 0 .. 32
        /\ FrameOf(flac) = Frame /\ flac.frame \in DOMAIN file.frames
        /\ ~Again(flac) /\ ValuesAt(flac) = Heard(flac.frame - 1)
        /\ Frame.size \in 1 .. MaxBlockSize /\ Len(Frame.subs) \in 1 .. MaxChannels
        /\ PlainFile(file)
    BY <1>1, InSearch, InHeader, ReadyFacts
  <1>3. Take(8, 8, d)
    <2>1. ~(Frame.size > MaxBlockSize \/ Len(Frame.subs) > MaxChannels)
      BY <1>2, DecoderAssumption
    <2>2. QED
      BY <2>1 DEF HeaderCrc, Read
  <1>4. DecoderType(d) /\ d.state = "in_frame" /\ d.priv = "subframe_header" /\ d.chan = 0
        /\ d.frame = flac.frame /\ d.wasted = flac.wasted /\ d.cur = flac.cur
        /\ d.order = flac.order
    BY <1>1, <1>2 DEF DecoderType, DecoderFields, Go
  <1> HIDE DEF d
  <1>5. FrameOf(d) = Frame
    BY <1>2, <1>4 DEF FrameOf
  <1>6. SubStart(Frame, 0) = 32 + 8 * Frame.coded + Frame.aux + 8
    BY <1>2, SubsAdd DEF Frame, HeaderBits
  <1>7. pos + 8 = FrameStart(d.frame) + SubStart(FrameOf(d), d.chan)
    <2>1. pos = FrameStart(flac.frame) + 32 + 8 * Frame.coded + Frame.aux
      BY <1>1, <1>2 DEF SearchAt
    <2>2. FrameStart(d.frame) = FrameStart(flac.frame) /\ FrameOf(d) = Frame /\ d.chan = 0
      BY <1>4, <1>5
    <2> DEFINE a == FrameStart(flac.frame)
               b == 8 * Frame.coded
               c == Frame.aux
               h == SubStart(Frame, 0)
    <2>3. a \in Nat /\ b \in Nat /\ c \in Nat
      <3>1. Frame.coded \in 1 .. (IF Frame.variable THEN 7 ELSE 6)
        BY <1>2
      <3>2. Frame.coded \in Nat
        BY <3>1
      <3>3. Frame.aux \in 0 .. 32 /\ a \in Nat
        BY <1>2
      <3>4. QED
        BY <3>2, <3>3
    <2>4. pos = a + 32 + b + c /\ h = 32 + b + c + 8
      BY <1>6, <2>1
    <2> HIDE DEF a, b, c, h
    <2>5. pos + 8 = a + h
      BY <2>3, <2>4
    <2>6. QED
      BY <2>2, <2>5 DEF a, h
  <1>8. InFrameAt(d, pos + 8)
    <2>1. d.chan \in 0 .. Len(FrameOf(d).subs) - 1 /\ Shifted(d, d.chan)
      BY <1>2, <1>4, <1>5, DecoderAssumption DEF Shifted
    <2>2. QED
      BY <1>2, <1>4, <1>7, <2>1 DEF InFrameAt
  <1>9. Kept(d)
    BY <1>2, <1>4 DEF Kept
  <1>10. At(d, pos + 8) /\ ~Again(d) /\ ValuesAt(d) = ValuesAt(flac)
    BY <1>2, <1>4, <1>8, <1>9 DEF At, Again, ValuesAt
  <1>11. QED
    BY <1>2, <1>3, <1>10, ReadKeeps

-----------------------------------------------------------------------------
(* Subframes                                                               *)

(* Where the subframe begins, and how far in it the decoder is.            *)
SubframeBase == FrameStart(flac.frame) + SubStart(Frame, flac.chan)
Offset       == pos - FrameStart(flac.frame) - SubStart(Frame, flac.chan)

LEMMA FrameSound ==
  ASSUME Ready, flac.frame \in DOMAIN file.frames
  PROVE  /\ PlainFile(file) /\ file.bits \in 1 .. 31 /\ FrameOf(flac) = Frame
         /\ DecoderType(flac) /\ Kept(flac) /\ pos \in Nat
         /\ Frame.size \in Nat \ {0} /\ Frame.size <= MaxBlockSize /\ MaxBlockSize \in Nat
         /\ Len(Frame.subs) \in Nat \ {0} /\ Len(Frame.subs) <= MaxChannels
         /\ MaxChannels \in Nat
         /\ FrameStart(flac.frame) \in Nat
         /\ \A c \in 0 .. Len(Frame.subs) - 1 : SoundSub(file, Frame, Frame.subs[c + 1])
         /\ \A c \in 0 .. Len(Frame.subs) : SubStart(Frame, c) \in Nat
  <1>1. PlainFile(file) /\ pos \in Nat /\ DecoderType(flac) /\ Kept(flac)
    BY ReadyFacts
  <1>2. FrameStart(flac.frame) \in Nat
    <2>1. flac.frame \in 1 .. Len(file.frames) + 1
      BY <1>1, StartsAdd
    <2>2. QED
      BY <1>1, <2>1, StartsAdd
  <1>3. /\ file.bits \in 1 .. 31 /\ Frame.size \in 1 .. MaxBlockSize
        /\ Len(Frame.subs) \in 1 .. MaxChannels
        /\ \A c \in 0 .. Len(Frame.subs) - 1 : SoundSub(file, Frame, Frame.subs[c + 1])
    BY <1>1, FrameType DEF Frame
  <1>4. /\ Frame.size \in Nat \ {0} /\ Frame.size <= MaxBlockSize /\ MaxBlockSize \in Nat
        /\ Len(Frame.subs) \in Nat \ {0} /\ Len(Frame.subs) <= MaxChannels
        /\ MaxChannels \in Nat
    BY <1>3, DecoderAssumption
  <1>5. \A c \in 0 .. Len(Frame.subs) : SubStart(Frame, c) \in Nat
    BY <1>1, SubsAdd DEF Frame
  <1>6. QED
    BY <1>1, <1>2, <1>3, <1>4, <1>5 DEF FrameOf, Frame

(* What the decoder knows in a subframe.                                   *)
LEMMA InSubframe ==
  ASSUME Ready, flac.state = "in_frame", flac.priv \notin {"subframe_header", "finalize"}
  PROVE  /\ flac.frame \in DOMAIN file.frames
         /\ Within(flac) /\ InsideAt(flac, Offset)
         /\ flac.chan \in 0 .. Len(Frame.subs) - 1
         /\ SubOf(flac) = Sub /\ PartOf(flac) = Part
         /\ SoundSub(file, Frame, Sub)
         /\ Bps = SampleBits(Frame, flac.chan, Sub.wasted) /\ Bps \in 1 .. 32
         /\ Offset \in Int
         /\ ~Again(flac) /\ ValuesAt(flac) = Heard(flac.frame - 1)
  <1>1. InFrameAt(flac, pos) /\ pos \in Nat
    BY ReadyFacts, ByState
  <1>2. Within(flac) /\ flac.frame \in DOMAIN file.frames
    BY <1>1 DEF InFrameAt, SubframeAt, AgainAt, Within
  <1>3. /\ FrameOf(flac) = Frame /\ Len(Frame.subs) \in Nat \ {0} /\ file.bits \in 1 .. 31
        /\ \A c \in 0 .. Len(Frame.subs) - 1 : SoundSub(file, Frame, Frame.subs[c + 1])
        /\ \A c \in 0 .. Len(Frame.subs) : SubStart(Frame, c) \in Nat
        /\ FrameStart(flac.frame) \in Nat
    BY <1>2, FrameSound
  <1>4. flac.chan \in 0 .. Len(Frame.subs) - 1 /\ SubOf(flac) = Sub /\ PartOf(flac) = Part
        /\ flac.wasted = Sub.wasted
    BY <1>2, <1>3 DEF Within, SubOf, PartOf, Sub, Part
  <1>5. SubframeAt(flac, Offset)
    BY <1>1, <1>3 DEF InFrameAt, AgainAt, Offset
  <1>6. SoundSub(file, Frame, Sub)
    BY <1>3, <1>4 DEF Sub
  <1>7. Bps = SampleBits(Frame, flac.chan, Sub.wasted) /\ Bps \in 1 .. 32
    BY <1>3, <1>4, <1>6, SampleWidth DEF Bps
  <1>8. Offset \in Int
    <2>1. flac.chan \in 0 .. Len(Frame.subs)
      BY <1>3, <1>4
    <2>2. QED
      BY <1>1, <1>3, <2>1 DEF Offset
  <1>9. ~Again(flac)
    BY DEF Again
  <1>10. ValuesAt(flac) = Heard(flac.frame - 1)
    BY DEF ValuesAt
  <1>11. QED
    BY <1>2, <1>4, <1>5, <1>6, <1>7, <1>8, <1>9, <1>10 DEF SubframeAt

(* A handler of a subframe goes on in it.                                  *)
LEMMA SubframeKeeps ==
  ASSUME Ready, bufSize' = bufSize,
         flac.state = "in_frame", flac.priv \notin {"subframe_header", "finalize"},
         NEW need \in Nat, NEW n \in 0 .. need, NEW d, Take(need, n, d), DecoderType(d),
         d.state = "in_frame", d.frame = flac.frame, d.chan = flac.chan,
         d.wasted = flac.wasted, d.order = flac.order, d.shifts = flac.shifts,
         d.cur <= MaxBlockSize, InsideAt(d, Offset + n)
  PROVE  DecoderInv'
  <1>1. /\ flac.frame \in DOMAIN file.frames /\ Within(flac) /\ Offset \in Int
        /\ flac.chan \in 0 .. Len(Frame.subs) - 1
        /\ ~Again(flac) /\ ValuesAt(flac) = Heard(flac.frame - 1)
    BY InSubframe
  <1>2. /\ Kept(flac) /\ pos \in Nat /\ FrameStart(flac.frame) \in Nat
        /\ SubStart(Frame, flac.chan) \in Nat /\ Len(Frame.subs) \in Nat /\ MaxBlockSize \in Nat
    <2>1. /\ Kept(flac) /\ pos \in Nat /\ FrameStart(flac.frame) \in Nat
          /\ \A c \in 0 .. Len(Frame.subs) : SubStart(Frame, c) \in Nat
          /\ Len(Frame.subs) \in Nat /\ MaxBlockSize \in Nat
      BY <1>1, FrameSound
    <2>2. flac.chan \in 0 .. Len(Frame.subs)
      <3> DEFINE N == Len(Frame.subs)
      <3>1. N \in Nat /\ flac.chan \in 0 .. N - 1
        BY <1>1, <2>1
      <3> HIDE DEF N
      <3>2. flac.chan \in 0 .. N
        BY <3>1
      <3>3. QED
        BY <3>2 DEF N
    <2>3. QED
      BY <2>1, <2>2
  <1>3. FrameOf(d) = Frame /\ SubOf(d) = SubOf(flac) /\ FrameOf(flac) = Frame
    BY DEF FrameOf, SubOf, Frame
  <1>4. Within(d)
    BY <1>1, <1>3 DEF Within, Shifted
  <1>5. (pos + n) - FrameStart(d.frame) - SubStart(FrameOf(d), d.chan) = Offset + n
    <2> DEFINE a == FrameStart(flac.frame)
               b == SubStart(Frame, flac.chan)
    <2>1. a \in Nat /\ b \in Nat /\ pos \in Nat /\ n \in Nat /\ Offset = pos - a - b
      BY <1>2 DEF Offset
    <2> HIDE DEF a, b
    <2>2. (pos + n) - a - b = Offset + n
      BY <2>1
    <2>3. QED
      BY <1>3, <2>2 DEF a, b
  <1>6. SubframeAt(d, (pos + n) - FrameStart(d.frame) - SubStart(FrameOf(d), d.chan))
    BY <1>4, <1>5 DEF SubframeAt
  <1>7. InFrameAt(d, pos + n)
    BY <1>6 DEF InFrameAt
  <1>8. Kept(d)
    <2>1. d.cur \in 0 .. MaxBlockSize
      <3>1. d.cur \in Nat
        BY DEF DecoderType
      <3>2. MaxBlockSize \in Nat
        BY <1>2
      <3>3. QED
        BY <3>1, <3>2
    <2>2. QED
      BY <1>2, <2>1 DEF Kept
  <1>9. At(d, pos + n) /\ ValuesAt(d) = ValuesAt(flac)
    BY <1>1, <1>7, <1>8 DEF At, ValuesAt
  <1>10. ~Again(d)
    <2>1. ~(d.chan >= Len(FrameOf(d).subs))
      <3> DEFINE N == Len(Frame.subs)
      <3>1. N \in Nat /\ flac.chan \in 0 .. N - 1 /\ FrameOf(d) = Frame
        BY <1>1, <1>2, <1>3
      <3> HIDE DEF N
      <3>2. ~(d.chan >= N)
        BY <3>1
      <3>3. QED
        BY <3>1, <3>2 DEF N
    <2>2. QED
      BY <2>1 DEF Again
  <1>11. QED
    BY <1>1, <1>9, <1>10, ReadKeeps

LEMMA SubframeHeaderKeeps ==
  ASSUME Ready, bufSize' = bufSize, SubframeHeader
  PROVE  DecoderInv'
  <1> DEFINE d == SubframeStarts(flac)
             c == flac.chan
             N == Len(Frame.subs)
             base == SubframeBase
  <1>1. flac.state = "in_frame" /\ flac.priv = "subframe_header"
    BY DEF SubframeHeader, In
  <1>2. /\ InFrameAt(flac, pos) /\ DecoderType(flac) /\ Kept(flac) /\ pos \in Nat
        /\ PlainFile(file)
    BY <1>1, ReadyFacts, ByState
  <1>3. ~SubframeAt(flac, pos - FrameStart(flac.frame) - SubStart(FrameOf(flac), flac.chan))
    <2>1. SUFFICES ASSUME SubframeAt(flac, pos - FrameStart(flac.frame)
                                             - SubStart(FrameOf(flac), flac.chan))
                   PROVE  FALSE
      OBVIOUS
    <2>2. Within(flac) /\ InsideAt(flac, pos - FrameStart(flac.frame)
                                             - SubStart(FrameOf(flac), flac.chan))
      BY <2>1 DEF SubframeAt
    <2>3. SoundSub(file, FrameOf(flac), SubOf(flac))
      <3>1. flac.frame \in DOMAIN file.frames
        BY <2>2 DEF Within
      <3>2. flac.chan \in 0 .. Len(FrameOf(flac).subs) - 1
        BY <2>2 DEF Within
      <3>3. QED
        BY <3>1, <3>2, FrameSound DEF SubOf
    <2>4. SubOf(flac).type # "subframe_header"
      BY <2>3 DEF SoundSub
    <2>5. QED
      BY <1>1, <2>2, <2>4 DEF InsideAt, WarmUpAt, RiceAt
  <1>4. /\ flac.frame \in DOMAIN file.frames /\ FrameOf(flac) = Frame
        /\ c \in 0 .. N - 1 /\ Shifted(flac, c) /\ pos = base
    <2>1. FrameOf(flac) = Frame
      BY DEF FrameOf, Frame
    <2>2. QED
      BY <1>1, <1>2, <1>3, <2>1 DEF InFrameAt, AgainAt, SubframeBase
  <1>5. /\ N \in Nat \ {0} /\ N <= MaxChannels /\ MaxChannels \in Nat
        /\ file.bits \in 1 .. 31 /\ FrameStart(flac.frame) \in Nat
        /\ \A i \in 0 .. N : SubStart(Frame, i) \in Nat
        /\ Frame.size \in Nat \ {0}
    BY <1>4, FrameSound
  <1>6. SoundSub(file, Frame, Sub)
    BY <1>4, FrameSound DEF Sub
  <1> DEFINE w == Sub.wasted
             order == Sub.order
  <1>7. /\ w \in Nat /\ w <= 30 /\ order \in Nat
        /\ w \in 0 .. file.bits - 1
        /\ Residuals(Sub) => \A k \in DOMAIN file.frames : order <= file.frames[k].size
        /\ Sub.type \in {"constant", "verbatim", "fixed", "lpc"}
    <2>1. /\ w \in 0 .. file.bits - 1 /\ order \in Nat
          /\ Residuals(Sub) => \A k \in DOMAIN file.frames : order <= file.frames[k].size
          /\ Sub.type \in {"constant", "verbatim", "fixed", "lpc"}
      <3>1. PlainFrame(file, Frame) /\ c + 1 \in DOMAIN Frame.subs /\ Sub = Frame.subs[c + 1]
        <4>1. /\ PlainFrame(file, Frame) /\ c + 1 \in 1 .. N /\ Sub = Frame.subs[c + 1]
          BY <1>2, <1>4 DEF PlainFile, Frame, Sub
        <4>2. DOMAIN Frame.subs = 1 .. N
          BY <1>2, <1>4, FrameType DEF Frame
        <4>3. QED
          BY <4>1, <4>2
      <3>2. QED
        BY <1>6, <3>1 DEF PlainFrame, SoundSub, Residuals
    <2>2. file.bits \in 1 .. 31
      BY <1>5
    <2>3. w \in Nat /\ w <= 30
      <3> HIDE DEF w
      <3>1. QED
        BY <2>1, <2>2
    <2>4. QED
      BY <2>1, <2>3
  <1>8. c \in Chans /\ c \in 0 .. N /\ c \in Nat
    <2> HIDE DEF N, c
    <2>1. QED
      BY <1>4, <1>5 DEF Chans
  <1>9. ~(Bps \notin 1 .. 32)
    <2>1. flac.wasted \in 0 .. file.bits - 1
      BY <1>2 DEF Kept
    <2>2. file.bits \in 1 .. 31
      BY <1>5
    <2>3. Bps \in {file.bits - flac.wasted, file.bits - flac.wasted + 1}
      BY <2>1, <2>2 DEF Bps, SampleBits
    <2>4. Bps \in 1 .. 32
      BY <2>1, <2>2, <2>3
    <2>5. QED
      BY <2>4
  <1>10. /\ DecoderType(d) /\ d.state = "in_frame" /\ d.frame = flac.frame /\ d.chan = c
         /\ d.cur = 0 /\ d.wasted = w /\ d.priv = Sub.type
         /\ d.order = (IF Residuals(Sub) THEN order ELSE flac.order)
         /\ d.shifts = [flac.shifts EXCEPT ![c] = 0]
    <2>1. flac.shifts \in [Chans -> Nat]
      BY <1>2 DEF DecoderType
    <2>2. [flac.shifts EXCEPT ![c] = 0] \in [Chans -> Nat]
      BY <1>8, <2>1
    <2>3. QED
      BY <1>1, <1>2, <1>7, <1>8, <2>2
      DEF DecoderType, DecoderFields, SubframeStarts, Residuals
  <1>11. Frame.size >= d.order
    <2>1. \A k \in DOMAIN file.frames : flac.order <= file.frames[k].size
      BY <1>2 DEF Kept
    <2>2. d.order <= Frame.size /\ d.order \in Nat
      BY <1>2, <1>4, <1>7, <1>10, <2>1 DEF Frame, DecoderType
    <2>3. QED
      BY <1>5, <2>2
  <1>12. Take(40, 8 + w, d)
    BY <1>9, <1>11 DEF SubframeHeader
  <1> HIDE DEF d
  <1>13. FrameOf(d) = Frame /\ SubOf(d) = Sub
    BY <1>10 DEF FrameOf, SubOf, Sub, Frame
  <1>14. Within(d)
    <2>1. d.shifts[c] = 0 /\ \A i \in 0 .. c - 1 : d.shifts[i] = flac.shifts[i]
      <3>1. flac.shifts \in [Chans -> Nat]
        BY <1>2 DEF DecoderType
      <3>2. \A i \in 0 .. c - 1 : i \in Chans /\ i # c
        <4> HIDE DEF c, N
        <4>1. QED
          BY <1>4, <1>5, <1>8 DEF Chans
      <3>3. QED
        BY <1>8, <1>10, <3>1, <3>2
    <2>2. Shifted(d, c)
      BY <1>4, <1>13, <2>1 DEF Shifted
    <2>3. QED
      BY <1>4, <1>10, <1>13, <2>1, <2>2 DEF Within
  <1>15. InsideAt(d, 8 + w)
    <2> DEFINE b == SampleBits(Frame, c, w)
    <2>1. 8 + w + 0 * b = 8 + w
      <3>1. b \in 1 .. 32
        BY <1>5, <1>6, SampleWidth
      <3> HIDE DEF b
      <3>2. 0 * b = 0
        BY <3>1, ProductType
      <3>3. QED
        BY <1>7, <3>2
    <2>2. 0 \in 0 .. Frame.size /\ 0 \in 0 .. order
      BY <1>5, <1>7
    <2>3. WarmUpAt(d, 8 + w)
      BY <1>7, <1>10, <1>13, <2>1, <2>2 DEF WarmUpAt, Residuals
    <2>4. QED
      BY <2>3 DEF InsideAt
  <1>16. (pos + (8 + w)) - FrameStart(d.frame) - SubStart(FrameOf(d), d.chan) = 8 + w
    <2> DEFINE a == FrameStart(flac.frame)
               b == SubStart(Frame, c)
    <2>1. a \in Nat /\ b \in Nat /\ pos = a + b /\ w \in Nat
      BY <1>4, <1>5, <1>7, <1>8 DEF SubframeBase
    <2> HIDE DEF a, b, w
    <2>2. (pos + (8 + w)) - a - b = 8 + w
      BY <2>1
    <2>3. QED
      BY <1>10, <1>13, <2>2 DEF a, b
  <1>17. InFrameAt(d, pos + (8 + w))
    BY <1>14, <1>15, <1>16 DEF InFrameAt, SubframeAt
  <1>18. Kept(d)
    <2>1. 0 \in 0 .. MaxBlockSize
      BY DecoderAssumption
    <2>2. \A k \in DOMAIN file.frames : d.order <= file.frames[k].size
      BY <1>2, <1>7, <1>10 DEF Kept
    <2>3. QED
      BY <1>7, <1>10, <2>1, <2>2 DEF Kept
  <1>19. /\ At(d, pos + (8 + w)) /\ ValuesAt(d) = ValuesAt(flac)
         /\ ~Again(d) /\ ~Again(flac)
    <2>1. d.priv # "finalize"
      BY <1>7, <1>10
    <2>2. QED
      BY <1>1, <1>10, <1>17, <1>18, <2>1 DEF At, ValuesAt, Again
  <1>20. 40 \in Nat /\ 8 + w \in 0 .. 40
    BY <1>7
  <1>21. QED
    BY <1>12, <1>19, <1>20, ReadKeeps

LEMMA ConstantKeeps ==
  ASSUME Ready, bufSize' = bufSize, Constant
  PROVE  DecoderInv'
  <1> DEFINE d == [flac EXCEPT !.priv = "finalize"]
  <1>1. flac.state = "in_frame" /\ flac.priv = "constant" /\ Take(Bps, Bps, d)
    BY DEF Constant, In, Read
  <1>2. /\ flac.frame \in DOMAIN file.frames /\ InsideAt(flac, Offset) /\ SubOf(flac) = Sub
        /\ flac.chan \in 0 .. Len(Frame.subs) - 1
        /\ SoundSub(file, Frame, Sub)
        /\ Bps = SampleBits(Frame, flac.chan, Sub.wasted) /\ Bps \in 1 .. 32
    BY <1>1, InSubframe
  <1>3. /\ DecoderType(flac) /\ FrameOf(flac) = Frame /\ file.bits \in 1 .. 31 /\ Kept(flac)
        /\ Frame.size \in Nat \ {0}
    BY <1>2, FrameSound
  <1>4. DecoderType(d) /\ d.state = "in_frame" /\ d.priv = "finalize" /\ d.frame = flac.frame
        /\ d.chan = flac.chan /\ d.wasted = flac.wasted /\ d.order = flac.order
        /\ d.shifts = flac.shifts /\ d.cur = flac.cur
    BY <1>1, <1>3 DEF DecoderType, DecoderFields
  <1> HIDE DEF d
  <1>5. Sub.type = "constant" /\ Offset = 8 + Sub.wasted
    <2>1. Sub.type # "constant" => Sub.type \in {"verbatim", "fixed", "lpc"}
      BY <1>2 DEF SoundSub
    <2>2. QED
      BY <1>1, <1>2, <2>1 DEF InsideAt, WarmUpAt, RiceAt, Residuals
  <1>6. Offset + Bps = SubframeBits(Frame, flac.chan)
    <2>1. SubframeBits(Frame, flac.chan) = 8 + Sub.wasted + Bps
      <3>1. flac.chan \in Nat
        BY <1>3 DEF DecoderType
      <3>2. QED
        BY <1>2, <1>3, <1>5, <3>1, SubSize DEF Sub
    <2>2. QED
      BY <1>5, <2>1
  <1>7. InsideAt(d, Offset + Bps)
    <2>1. FrameOf(d) = Frame
      BY <1>3, <1>4 DEF FrameOf
    <2>2. QED
      BY <1>4, <1>6, <2>1 DEF InsideAt
  <1>8. d.cur <= MaxBlockSize /\ Bps \in Nat /\ Bps \in 0 .. Bps
        /\ flac.priv \notin {"subframe_header", "finalize"}
    <2>1. d.cur <= MaxBlockSize
      BY <1>3, <1>4 DEF Kept
    <2>2. Bps \in Nat /\ Bps \in 0 .. Bps
      <3>1. Bps \in 1 .. 32
        BY <1>2
      <3>2. QED
        BY <3>1
    <2>3. QED
      BY <1>1, <2>1, <2>2
  <1>9. QED
    BY <1>1, <1>4, <1>7, <1>8, SubframeKeeps

LEMMA WarmUpKeeps ==
  ASSUME Ready, bufSize' = bufSize, NEW type \in {"verbatim", "fixed", "lpc"}, WarmUp(type)
  PROVE  DecoderInv'
  <1> DEFINE w == Sub.wasted
             b == SampleBits(Frame, flac.chan, Sub.wasted)
             cur == flac.cur
             n == IF type = "verbatim" THEN Frame.size ELSE flac.order
  <1>1. flac.state = "in_frame" /\ flac.priv = type
        /\ flac.priv \notin {"subframe_header", "finalize"}
    BY DEF WarmUp, In
  <1>2. /\ flac.frame \in DOMAIN file.frames /\ InsideAt(flac, Offset) /\ SubOf(flac) = Sub
        /\ Within(flac) /\ Offset \in Int
        /\ flac.chan \in 0 .. Len(Frame.subs) - 1
        /\ SoundSub(file, Frame, Sub) /\ Bps = b
    BY <1>1, InSubframe
  <1>3. b \in 1 .. 32
    BY <1>1, <1>2, InSubframe
  <1>4. /\ DecoderType(flac) /\ FrameOf(flac) = Frame /\ file.bits \in 1 .. 31 /\ Kept(flac)
        /\ Frame.size \in Nat \ {0} /\ Frame.size <= MaxBlockSize /\ MaxBlockSize \in Nat
    BY <1>2, FrameSound
  <1>5. Sub.type = type /\ cur \in 0 .. n /\ Offset = 8 + w + cur * b
    <2>1. WarmUpAt(flac, Offset)
      BY <1>1, <1>2 DEF InsideAt, RiceAt
    <2>2. CASE type = "verbatim"
      BY <1>1, <1>2, <1>4, <2>1, <2>2 DEF WarmUpAt, Residuals
    <2>3. CASE type # "verbatim"
      <3>1. /\ Sub.type = type /\ Residuals(Sub) /\ cur \in 0 .. Sub.order
            /\ Offset = 8 + w + cur * b
        BY <1>1, <1>2, <1>4, <2>1, <2>3 DEF WarmUpAt, Residuals
      <3>2. flac.order = Sub.order
        BY <1>2, <3>1 DEF Within
      <3>3. QED
        BY <2>3, <3>1, <3>2
    <2>4. QED
      BY <2>2, <2>3
  <1>6. /\ cur \in Nat /\ n \in Nat /\ w \in Nat
        /\ n <= MaxBlockSize
        /\ type # "verbatim" => n = Sub.order /\ Residuals(Sub)
    <2>1. type # "verbatim" => flac.order = Sub.order /\ Residuals(Sub)
      BY <1>2, <1>5 DEF Within, Residuals
    <2>2. flac.order \in Nat /\ cur \in Nat
      BY <1>4 DEF DecoderType
    <2>3. flac.order <= Frame.size
      BY <1>2, <1>4 DEF Kept, Frame
    <2>4. w \in Nat
      BY <1>2 DEF SoundSub
    <2>5. n \in Nat /\ n <= MaxBlockSize
      BY <1>4, <2>2, <2>3
    <2>6. QED
      BY <2>1, <2>2, <2>4, <2>5
  <1>7. CASE cur < n
    <2> DEFINE d == [flac EXCEPT !.cur = @ + 1]
    <2>1. Take(b, b, d)
      BY <1>2, <1>7 DEF WarmUp, Read
    <2> HIDE DEF n
    <2>2. DecoderType(d) /\ d.state = "in_frame" /\ d.priv = type /\ d.frame = flac.frame
          /\ d.chan = flac.chan /\ d.wasted = flac.wasted /\ d.order = flac.order
          /\ d.shifts = flac.shifts /\ d.cur = cur + 1
      BY <1>1, <1>4, <1>6 DEF DecoderType, DecoderFields
    <2> HIDE DEF d
    <2>3. FrameOf(d) = Frame /\ SubOf(d) = Sub
      BY <2>2 DEF FrameOf, SubOf, Frame, Sub
    <2>4. d.cur \in 0 .. n /\ d.cur <= MaxBlockSize
      <3>1. cur + 1 \in 0 .. n /\ cur + 1 <= MaxBlockSize
        <4>1. MaxBlockSize \in Nat
          BY <1>4
        <4> HIDE DEF cur
        <4>2. QED
          BY <1>6, <1>7, <4>1
      <3>2. QED
        BY <2>2, <3>1
    <2>5. Offset + b = 8 + w + d.cur * b
      <3>1. cur \in Nat /\ b \in Nat
        BY <1>3, <1>6
      <3> DEFINE x == cur * b
      <3>2. x \in Nat /\ (cur + 1) * b = x + b
        <4> HIDE DEF cur, b
        <4>1. QED
          BY <3>1, ProductType
      <3>3. Offset = 8 + w + x
        BY <1>5
      <3> HIDE DEF x, cur, b, w
      <3>4. Offset + b = 8 + w + (x + b)
        BY <1>6, <3>1, <3>2, <3>3
      <3>5. QED
        BY <2>2, <3>2, <3>4
    <2>6. WarmUpAt(d, Offset + b)
      <3>1. CASE type = "verbatim"
        <4>1. d.cur \in 0 .. Frame.size
          BY <2>4, <3>1 DEF n
        <4>2. QED
          BY <1>5, <2>2, <2>3, <2>5, <3>1, <4>1 DEF WarmUpAt
      <3>2. CASE type # "verbatim"
        <4>1. d.cur \in 0 .. Sub.order /\ Residuals(Sub)
          BY <1>6, <2>4, <3>2
        <4>2. QED
          BY <1>5, <2>2, <2>3, <2>5, <4>1 DEF WarmUpAt
      <3>3. QED
        BY <3>1, <3>2
    <2>7. InsideAt(d, Offset + b) /\ b \in Nat /\ b \in 0 .. b
      <3> HIDE DEF b
      <3>1. b \in Nat /\ b \in 0 .. b
        BY <1>3
      <3>2. QED
        BY <2>6, <3>1 DEF InsideAt
    <2>8. QED
      BY <1>1, <2>1, <2>2, <2>4, <2>7, SubframeKeeps
  <1>8. CASE ~(cur < n)
    <2> DEFINE d == [flac EXCEPT !.priv = AfterWarmUp[type]]
    <2>1. Take(0, 0, d)
      BY <1>2, <1>8 DEF WarmUp, Turn
    <2>2. cur = n
      <3> HIDE DEF cur, n
      <3>1. QED
        BY <1>5, <1>6, <1>8
    <2>3. DecoderType(d) /\ d.state = "in_frame" /\ d.priv = AfterWarmUp[type]
          /\ d.frame = flac.frame
          /\ d.chan = flac.chan /\ d.wasted = flac.wasted /\ d.order = flac.order
          /\ d.shifts = flac.shifts /\ d.cur = cur
      BY <1>1, <1>4, <1>6 DEF DecoderType, DecoderFields
    <2> HIDE DEF d
    <2>4. FrameOf(d) = Frame /\ SubOf(d) = Sub
      BY <2>3 DEF FrameOf, SubOf, Frame, Sub
    <2>5. flac.chan \in Nat
      BY <1>4 DEF DecoderType
    <2>6. InsideAt(d, Offset)
      <3>1. CASE type = "verbatim"
        <4>1. Sub.type = "verbatim"
          BY <1>5, <3>1
        <4>3. SubframeBits(Frame, flac.chan) = 8 + w + Frame.size * b
          BY <1>2, <1>4, <2>5, <4>1, SubSize DEF Sub
        <4>2. d.priv = "finalize"
          BY <2>3, <3>1 DEF AfterWarmUp
        <4>4. QED
          BY <1>5, <2>2, <2>3, <2>4, <3>1, <4>2, <4>3 DEF InsideAt
      <3>2. CASE type = "fixed"
        <4>1. d.priv = "residual" /\ Residuals(Sub) /\ d.cur = Sub.order
          BY <1>6, <2>2, <2>3, <3>2 DEF AfterWarmUp
        <4>2. Warmed(Frame, Sub, flac.chan) = Offset
          <5> DEFINE x == Sub.order * b
          <5>1. x \in Nat
            <6>1. Sub.order \in Nat
              BY <1>2 DEF SoundSub
            <6>3. b \in Nat
              BY <1>3
            <6> HIDE DEF b
            <6>2. QED
              BY <6>1, <6>3, ProductType
          <5>2. Offset = 8 + w + x /\ Sub.type # "lpc"
            BY <1>5, <1>6, <2>2, <3>2
          <5>3. Warmed(Frame, Sub, flac.chan) = 8 + w + x +
                  (IF Sub.type = "lpc" THEN 9 + Sub.order * Sub.prec ELSE 0)
            BY DEF Warmed
          <5> HIDE DEF x, w
          <5>4. QED
            BY <1>6, <5>1, <5>2, <5>3
        <4>3. QED
          BY <2>3, <2>4, <4>1, <4>2 DEF InsideAt
      <3>3. CASE type = "lpc"
        <4>1. d.priv = "lpc_header" /\ Sub.type = "lpc" /\ d.cur = Sub.order
          BY <1>5, <1>6, <2>2, <2>3, <3>3 DEF AfterWarmUp
        <4>2. Offset = 8 + w + d.cur * b
          BY <1>5, <2>3
        <4>3. WarmUpAt(d, Offset)
          BY <2>3, <2>4, <4>1, <4>2 DEF WarmUpAt
        <4>4. QED
          BY <4>3 DEF InsideAt
      <3>4. QED
        BY <3>1, <3>2, <3>3
    <2>7. Offset + 0 = Offset /\ d.cur <= MaxBlockSize /\ 0 \in Nat /\ 0 \in 0 .. 0
      BY <1>2, <1>6, <2>2, <2>3
    <2>8. InsideAt(d, Offset + 0)
      BY <2>6, <2>7
    <2>9. QED
      BY <1>1, <2>1, <2>3, <2>7, <2>8, SubframeKeeps
  <1>9. QED
    BY <1>7, <1>8

(* What the decoder knows once the samples that are not coded are read.    *)
LEMMA InResidual ==
  ASSUME Ready, flac.state = "in_frame", flac.priv \notin {"subframe_header", "finalize"}
  PROVE  /\ DecoderType(flac) /\ InsideAt(flac, Offset) /\ Offset \in Int
         /\ SubOf(flac) = Sub /\ FrameOf(flac) = Frame /\ PartOf(flac) = Part
         /\ SoundSub(file, Frame, Sub) /\ Within(flac)
         /\ Frame.size \in Nat \ {0} /\ file.bits \in 1 .. 31
         /\ Sub.order \in Nat /\ Sub.prec \in Nat /\ Sub.wasted \in Nat
         /\ Sub.order <= MaxBlockSize \/ ~Residuals(Sub)
         /\ Frame.size <= MaxBlockSize /\ MaxBlockSize \in Nat
         /\ SampleBits(Frame, flac.chan, Sub.wasted) \in 1 .. 32
         /\ flac.cur <= MaxBlockSize
  <1>1. /\ flac.frame \in DOMAIN file.frames /\ InsideAt(flac, Offset) /\ SubOf(flac) = Sub
        /\ Within(flac) /\ Offset \in Int /\ PartOf(flac) = Part
        /\ SoundSub(file, Frame, Sub) /\ SampleBits(Frame, flac.chan, Sub.wasted) \in 1 .. 32
    BY InSubframe
  <1>2. /\ DecoderType(flac) /\ FrameOf(flac) = Frame /\ file.bits \in 1 .. 31 /\ Kept(flac)
        /\ Frame.size \in Nat \ {0} /\ Frame.size <= MaxBlockSize /\ MaxBlockSize \in Nat
    BY <1>1, FrameSound
  <1>3. Sub.order \in Nat /\ Sub.prec \in Nat /\ Sub.wasted \in Nat
    BY <1>1 DEF SoundSub
  <1>4. Residuals(Sub) => Sub.order <= Frame.size
    <2>1. PlainFrame(file, Frame) /\ Frame = file.frames[flac.frame]
      BY <1>1, ReadyFacts DEF PlainFile, Frame
    <2>2. flac.chan + 1 \in DOMAIN Frame.subs /\ Sub = Frame.subs[flac.chan + 1]
      <3>1. flac.chan + 1 \in 1 .. Len(Frame.subs)
        BY <1>1, <1>2, FrameSound DEF Within
      <3>2. DOMAIN Frame.subs = 1 .. Len(Frame.subs)
        BY <1>1, <2>1, ReadyFacts, FrameType
      <3>3. QED
        BY <3>1, <3>2 DEF Sub
    <2>3. ASSUME Sub.type \in {"fixed", "lpc"}
          PROVE  \A k \in DOMAIN file.frames : Sub.order <= file.frames[k].size
      BY <2>1, <2>2, <2>3, Zenon DEF PlainFrame
    <2>4. QED
      BY <1>1, <2>1, <2>3 DEF Residuals
  <1>5. Residuals(Sub) => Sub.order <= MaxBlockSize
    <2> DEFINE a == Sub.order
               s == Frame.size
    <2>1. a \in Nat /\ s \in Nat /\ s <= MaxBlockSize /\ MaxBlockSize \in Nat
          /\ (Residuals(Sub) => a <= s)
      BY <1>2, <1>3, <1>4
    <2> HIDE DEF a, s
    <2>2. Residuals(Sub) => a <= MaxBlockSize
      BY <2>1
    <2>3. QED
      BY <2>2 DEF a
  <1>6. flac.cur <= MaxBlockSize
    BY <1>2 DEF Kept
  <1>7. QED
    BY <1>1, <1>2, <1>3, <1>5, <1>6

LEMMA LpcHeaderKeeps ==
  ASSUME Ready, bufSize' = bufSize, LpcHeader
  PROVE  DecoderInv'
  <1> DEFINE d == [flac EXCEPT !.coef = 0, !.priv = "lpc_coeffs"]
             w == Sub.wasted
             x == flac.cur * SampleBits(Frame, flac.chan, w)
  <1>1. flac.state = "in_frame" /\ flac.priv = "lpc_header"
        /\ flac.priv \notin {"subframe_header", "finalize"} /\ Take(9, 9, d)
    BY DEF LpcHeader, In, Read
  <1>2. /\ DecoderType(flac) /\ InsideAt(flac, Offset) /\ Offset \in Int
        /\ SubOf(flac) = Sub /\ FrameOf(flac) = Frame
        /\ Sub.order \in Nat /\ w \in Nat /\ Sub.prec \in Nat
        /\ SoundSub(file, Frame, Sub) /\ flac.cur <= MaxBlockSize
    BY <1>1, InResidual
  <1>3. Sub.type = "lpc" /\ flac.cur = Sub.order /\ Offset = 8 + w + x
    <2>1. Sub.type \in {"constant", "verbatim", "fixed", "lpc"}
      BY <1>2 DEF SoundSub
    <2>2. QED
      BY <1>1, <1>2, <2>1 DEF InsideAt, WarmUpAt, RiceAt
  <1>4. x \in Nat
    <2>1. SampleBits(Frame, flac.chan, w) \in 1 .. 32
      BY <1>1, InResidual
    <2>2. flac.cur \in Nat /\ SampleBits(Frame, flac.chan, w) \in Nat
      BY <1>2, <2>1 DEF DecoderType
    <2>3. QED
      BY <2>2, ProductType
  <1>5. DecoderType(d) /\ d.state = "in_frame" /\ d.priv = "lpc_coeffs" /\ d.frame = flac.frame
        /\ d.chan = flac.chan /\ d.wasted = flac.wasted /\ d.order = flac.order
        /\ d.shifts = flac.shifts /\ d.cur = flac.cur /\ d.coef = 0
    BY <1>1, <1>2 DEF DecoderType, DecoderFields
  <1> HIDE DEF d
  <1>6. FrameOf(d) = Frame /\ SubOf(d) = Sub
    BY <1>5 DEF FrameOf, SubOf, Frame, Sub
  <1>7. Offset + 9 = 8 + w + x + 9 + d.coef * Sub.prec
    <2>1. 0 * Sub.prec = 0
      BY <1>2, ProductType
    <2> DEFINE y == 0 * Sub.prec
    <2>2. y = 0
      BY <2>1
    <2> HIDE DEF x, w, y
    <2>3. Offset + 9 = 8 + w + x + 9 + y
      BY <1>2, <1>3, <1>4, <2>2
    <2>4. QED
      BY <1>5, <2>3 DEF y
  <1>8. WarmUpAt(d, Offset + 9)
    <2>1. 0 \in 0 .. Sub.order
      BY <1>2
    <2>2. QED
      BY <1>3, <1>5, <1>6, <1>7, <2>1 DEF WarmUpAt
  <1>9. InsideAt(d, Offset + 9) /\ d.cur <= MaxBlockSize /\ 9 \in Nat /\ 9 \in 0 .. 9
    BY <1>2, <1>5, <1>8 DEF InsideAt
  <1>10. QED
    BY <1>1, <1>5, <1>9, SubframeKeeps

LEMMA LpcCoeffsKeeps ==
  ASSUME Ready, bufSize' = bufSize, LpcCoeffs
  PROVE  DecoderInv'
  <1> DEFINE w == Sub.wasted
             x == flac.cur * SampleBits(Frame, flac.chan, w)
             n == flac.order
             p == Sub.prec
             y == flac.coef * p
  <1>1. flac.state = "in_frame" /\ flac.priv = "lpc_coeffs"
        /\ flac.priv \notin {"subframe_header", "finalize"}
    BY DEF LpcCoeffs, In
  <1>2. /\ DecoderType(flac) /\ InsideAt(flac, Offset) /\ Offset \in Int
        /\ SubOf(flac) = Sub /\ FrameOf(flac) = Frame
        /\ Sub.order \in Nat /\ w \in Nat /\ p \in Nat
        /\ SoundSub(file, Frame, Sub) /\ flac.cur <= MaxBlockSize /\ Within(flac)
    BY <1>1, InResidual
  <1>3. /\ Sub.type = "lpc" /\ flac.cur = Sub.order /\ flac.coef \in 0 .. Sub.order
        /\ Offset = 8 + w + x + 9 + y
    <2>1. Sub.type \in {"constant", "verbatim", "fixed", "lpc"}
      BY <1>2 DEF SoundSub
    <2>2. QED
      BY <1>1, <1>2, <2>1 DEF InsideAt, WarmUpAt, RiceAt
  <1>4. n = Sub.order /\ Residuals(Sub)
    BY <1>2, <1>3 DEF Within, Residuals
  <1>5. x \in Nat
    <2>1. SampleBits(Frame, flac.chan, w) \in 1 .. 32
      BY <1>1, InResidual
    <2>2. flac.cur \in Nat /\ SampleBits(Frame, flac.chan, w) \in Nat
      BY <1>2, <2>1 DEF DecoderType
    <2>3. QED
      BY <2>2, ProductType
  <1>6. flac.coef \in Nat /\ y \in Nat /\ (flac.coef + 1) * p = y + p
    <2>1. flac.coef \in Nat
      BY <1>2 DEF DecoderType
    <2>2. QED
      BY <1>2, <2>1, ProductType
  <1>7. CASE flac.coef < n
    <2> DEFINE d == [flac EXCEPT !.coef = @ + 1]
    <2>1. Take(p, p, d)
      BY <1>7 DEF LpcCoeffs, Read
    <2>2. DecoderType(d) /\ d.state = "in_frame" /\ d.priv = "lpc_coeffs" /\ d.frame = flac.frame
          /\ d.chan = flac.chan /\ d.wasted = flac.wasted /\ d.order = flac.order
          /\ d.shifts = flac.shifts /\ d.cur = flac.cur /\ d.coef = flac.coef + 1
      BY <1>1, <1>2, <1>6 DEF DecoderType, DecoderFields
    <2> HIDE DEF d
    <2>3. FrameOf(d) = Frame /\ SubOf(d) = Sub
      BY <2>2 DEF FrameOf, SubOf, Frame, Sub
    <2>4. Offset + p = 8 + w + x + 9 + d.coef * p
      <3>1. Offset = 8 + w + x + 9 + y
        BY <1>3
      <3>2. d.coef * p = y + p
        BY <1>6, <2>2
      <3>3. x \in Nat /\ y \in Nat /\ p \in Nat /\ w \in Nat
        BY <1>2, <1>5, <1>6
      <3> DEFINE z == d.coef * p
      <3> HIDE DEF x, y, z, p, w
      <3>4. Offset + p = 8 + w + x + 9 + z
        BY <3>1, <3>2, <3>3 DEF z
      <3>5. QED
        BY <3>4 DEF z
    <2>5. d.coef \in 0 .. Sub.order
      <3>1. flac.coef \in Nat /\ Sub.order \in Nat /\ flac.coef < Sub.order
        BY <1>2, <1>4, <1>6, <1>7
      <3>2. flac.coef + 1 \in 0 .. Sub.order
        BY <3>1
      <3>3. QED
        BY <2>2, <3>2
    <2>6. WarmUpAt(d, Offset + p)
      BY <1>3, <2>2, <2>3, <2>4, <2>5 DEF WarmUpAt
    <2>7. InsideAt(d, Offset + p) /\ d.cur <= MaxBlockSize /\ p \in Nat /\ p \in 0 .. p
      <3>1. p \in Nat /\ p \in 0 .. p
        BY <1>2
      <3>2. QED
        BY <1>2, <2>2, <2>6, <3>1 DEF InsideAt
    <2>8. QED
      BY <1>1, <2>1, <2>2, <2>7, SubframeKeeps
  <1>8. CASE ~(flac.coef < n)
    <2> DEFINE d == [flac EXCEPT !.priv = "residual"]
    <2>1. Take(0, 0, d)
      BY <1>8 DEF LpcCoeffs, Turn
    <2>2. DecoderType(d) /\ d.state = "in_frame" /\ d.priv = "residual" /\ d.frame = flac.frame
          /\ d.chan = flac.chan /\ d.wasted = flac.wasted /\ d.order = flac.order
          /\ d.shifts = flac.shifts /\ d.cur = flac.cur
      BY <1>1, <1>2 DEF DecoderType, DecoderFields
    <2> HIDE DEF d
    <2>3. FrameOf(d) = Frame /\ SubOf(d) = Sub
      BY <2>2 DEF FrameOf, SubOf, Frame, Sub
    <2>4. flac.coef = Sub.order
      <3>1. flac.coef \in 0 .. Sub.order /\ Sub.order \in Nat /\ ~(flac.coef < Sub.order)
        BY <1>2, <1>3, <1>4, <1>8
      <3>2. QED
        BY <3>1
    <2>5. Offset = Warmed(Frame, Sub, flac.chan)
      <3>1. Offset = 8 + w + x + 9 + y /\ x \in Nat /\ y \in Nat /\ w \in Nat
        BY <1>2, <1>3, <1>5, <1>6
      <3>2. Warmed(Frame, Sub, flac.chan) = 8 + w + x + (9 + y)
        BY <1>3, <2>4 DEF Warmed
      <3> HIDE DEF x, y, w
      <3>3. QED
        BY <3>1, <3>2
    <2>6. InsideAt(d, Offset)
      BY <1>3, <1>4, <2>2, <2>3, <2>5 DEF InsideAt
    <2>7. Offset + 0 = Offset /\ d.cur <= MaxBlockSize /\ 0 \in Nat /\ 0 \in 0 .. 0
      BY <1>2, <2>2
    <2>8. InsideAt(d, Offset + 0)
      BY <2>6, <2>7
    <2>9. QED
      BY <1>1, <2>1, <2>2, <2>7, <2>8, SubframeKeeps
  <1>9. QED
    BY <1>7, <1>8

LEMMA ResidualKeeps ==
  ASSUME Ready, bufSize' = bufSize, Residual
  PROVE  DecoderInv'
  <1> DEFINE d == [flac EXCEPT !.part = 0, !.priv = "rice_init"]
             start == Warmed(Frame, Sub, flac.chan)
  <1>1. flac.state = "in_frame" /\ flac.priv = "residual"
        /\ flac.priv \notin {"subframe_header", "finalize"} /\ Take(6, 6, d)
    BY DEF Residual, In, Read
  <1>2. /\ DecoderType(flac) /\ InsideAt(flac, Offset) /\ Offset \in Int
        /\ SubOf(flac) = Sub /\ FrameOf(flac) = Frame
        /\ Sub.order \in Nat /\ Frame.size \in Nat
        /\ SoundSub(file, Frame, Sub) /\ flac.cur <= MaxBlockSize
    BY <1>1, InResidual
  <1>3. Residuals(Sub) /\ flac.cur = Sub.order /\ Offset = start
    <2>1. Sub.type \in {"constant", "verbatim", "fixed", "lpc"}
      BY <1>2 DEF SoundSub
    <2>2. QED
      BY <1>1, <1>2, <2>1 DEF InsideAt, WarmUpAt, RiceAt
  <1>4. DecoderType(d) /\ d.state = "in_frame" /\ d.priv = "rice_init" /\ d.frame = flac.frame
        /\ d.chan = flac.chan /\ d.wasted = flac.wasted /\ d.order = flac.order
        /\ d.shifts = flac.shifts /\ d.cur = flac.cur /\ d.part = 0
    BY <1>1, <1>2 DEF DecoderType, DecoderFields
  <1> HIDE DEF d
  <1>5. FrameOf(d) = Frame /\ SubOf(d) = Sub
    BY <1>4 DEF FrameOf, SubOf, Frame, Sub
  <1>6. PartStart(Frame, Sub, 0) = 0 /\ 0 \in 0 .. Len(Sub.parts) - 1
    <2>1. Len(Sub.parts) \in Nat /\ Len(Sub.parts) > 0
      BY <1>2, <1>3 DEF SoundSub, Listed, Residuals
    <2>2. QED
      BY <1>2, <1>3, <2>1, PartsAdd
  <1>7. Offset + 6 = start + 6 + PartStart(Frame, Sub, 0)
    <2> HIDE DEF start
    <2>1. QED
      BY <1>2, <1>3, <1>6
  <1>8. RiceAt(d, Offset + 6)
    BY <1>3, <1>4, <1>5, <1>6, <1>7 DEF RiceAt
  <1>9. InsideAt(d, Offset + 6) /\ d.cur <= MaxBlockSize /\ 6 \in Nat /\ 6 \in 0 .. 6
    BY <1>2, <1>4, <1>8 DEF InsideAt
  <1>10. QED
    BY <1>1, <1>4, <1>9, SubframeKeeps

-----------------------------------------------------------------------------
(* Partitions                                                              *)

(* The partition that is read: where it begins, its samples, and the cursor *)
(* at its end.                                                             *)
PartBase  == Warmed(Frame, Sub, flac.chan) + 6 + PartStart(Frame, Sub, flac.part)
PartEach  == IF Part.raw THEN Part.bits ELSE Part.unary + 1 + Part.bits
PartCount == PartSamples(Frame, Sub, flac.part)
PartEnd   == (flac.part + 1) * (Frame.size \div Len(Sub.parts))

LEMMA ProductGrows ==
  \A a, b, e \in Nat : a <= b => a * e <= b * e
  OBVIOUS

LEMMA InRice ==
  ASSUME Ready, flac.state = "in_frame",
         flac.priv \in {"rice_init", "rice_unary", "rice", "rice_verbatim", "rice_finalize"}
  PROVE  /\ RiceAt(flac, Offset) /\ Residuals(Sub)
         /\ flac.part \in 0 .. Len(Sub.parts) - 1 /\ Len(Sub.parts) \in Nat
         /\ flac.part \in Nat /\ flac.cur \in Nat /\ flac.unary \in Nat /\ flac.left \in Nat
         /\ SoundPart(Part) /\ PartHead(Part) \in 4 .. 10
         /\ PartBase \in Nat /\ PartEach \in Nat /\ PartCount \in Nat /\ PartEnd \in Nat
         /\ PartEnd <= Frame.size /\ Frame.size <= MaxBlockSize
         /\ Warmed(Frame, Sub, flac.chan) + 6 + PartStart(Frame, Sub, flac.part + 1)
              = PartBase + PartHead(Part) + PartCount * PartEach
         /\ PartCount = (Frame.size \div Len(Sub.parts))
                          - (IF flac.part = 0 THEN Sub.order ELSE 0)
  <1> DEFINE L == Len(Sub.parts)
             k == flac.part
             E == Frame.size \div L
  <1>1. flac.priv \notin {"subframe_header", "finalize"}
    OBVIOUS
  <1>2. /\ DecoderType(flac) /\ InsideAt(flac, Offset)
        /\ SubOf(flac) = Sub /\ FrameOf(flac) = Frame
        /\ SoundSub(file, Frame, Sub)
        /\ Frame.size \in Nat /\ Frame.size <= MaxBlockSize
        /\ Sub.order \in Nat /\ Sub.prec \in Nat /\ Sub.wasted \in Nat
    BY <1>1, InResidual
  <1>3. RiceAt(flac, Offset) /\ Residuals(Sub) /\ k \in 0 .. L - 1
    <2>1. Sub.type \in {"constant", "verbatim", "fixed", "lpc"}
      BY <1>2 DEF SoundSub
    <2>2. RiceAt(flac, Offset)
      BY <1>2, <2>1 DEF InsideAt, WarmUpAt
    <2>3. QED
      BY <1>2, <2>2 DEF RiceAt
  <1>4. L \in Nat /\ L > 0
    BY <1>2, <1>3 DEF SoundSub, Listed, Residuals
  <1>5. k \in Nat /\ flac.cur \in Nat /\ flac.unary \in Nat /\ flac.left \in Nat
    BY <1>2 DEF DecoderType
  <1>6. /\ SoundPart(Part) /\ PartCount \in Nat /\ PartEach \in Nat /\ PartHead(Part) \in 4 .. 10
        /\ PartBits(Frame, Sub, k) = PartHead(Part) + PartCount * PartEach
        /\ PartBits(Frame, Sub, k) \in Nat
    BY <1>2, <1>3, PartSound DEF Part, PartCount, PartEach
  <1>7. /\ PartStart(Frame, Sub, k) \in Nat
        /\ PartStart(Frame, Sub, k + 1) = PartStart(Frame, Sub, k) + PartBits(Frame, Sub, k)
    <2>1. k \in 0 .. L
      <3> HIDE DEF k, L
      <3>1. QED
        BY <1>3, <1>4
    <2>2. QED
      BY <1>2, <1>3, <2>1, PartsAdd
  <1>8. Warmed(Frame, Sub, flac.chan) \in Nat
    <2> DEFINE b == SampleBits(Frame, flac.chan, Sub.wasted)
               x == Sub.order * b
               y == Sub.order * Sub.prec
    <2>1. b \in Nat
      <3>1. b \in 1 .. 32
        BY <1>1, InResidual
      <3>2. QED
        BY <3>1
    <2>2. x \in Nat /\ y \in Nat
      <3> HIDE DEF b
      <3>1. QED
        BY <1>2, <2>1, ProductType
    <2>3. Warmed(Frame, Sub, flac.chan) = 8 + Sub.wasted + x +
            (IF Sub.type = "lpc" THEN 9 + y ELSE 0)
      BY DEF Warmed
    <2> HIDE DEF x, y
    <2>4. QED
      BY <1>2, <2>2, <2>3
  <1>9. E \in Nat /\ PartEnd \in Nat /\ PartEnd <= Frame.size
    <2>1. L \in Nat \ {0}
      BY <1>4
    <2>2. E \in Nat /\ L * E <= Frame.size
      <3> DEFINE s == Frame.size
                 m == L * E
                 r == s % L
      <3>1. s \in Nat
        BY <1>2
      <3>2. E \in Nat /\ s = m + r /\ r \in 0 .. L - 1
        <4>1. Frame.size \div L \in Nat
              /\ Frame.size = L * (Frame.size \div L) + (Frame.size % L)
              /\ Frame.size % L \in 0 .. L - 1
          <5> HIDE DEF L
          <5>1. QED
            BY <1>2, <2>1, Quotient
        <4>2. QED
          BY <4>1
      <3>3. m \in Nat
        <4> HIDE DEF E, L
        <4>1. QED
          BY <2>1, <3>2, ProductType
      <3>4. r \in Nat
        <4> HIDE DEF r, L, m, E
        <4>1. QED
          BY <2>1, <3>2
      <3> HIDE DEF m, r, s
      <3>5. m <= s
        BY <3>1, <3>2, <3>3, <3>4
      <3>6. QED
        BY <3>2, <3>5 DEF m, s
    <2>3. k + 1 \in Nat /\ k + 1 <= L
      <3> HIDE DEF k, L
      <3>1. QED
        BY <1>3, <1>4
    <2>4. (k + 1) * E <= L * E /\ (k + 1) * E \in Nat /\ L * E \in Nat
      <3> HIDE DEF E, k, L
      <3>1. QED
        BY <2>1, <2>2, <2>3, ProductGrows, ProductType
    <2>5. PartEnd = (k + 1) * E
      BY DEF PartEnd
    <2> DEFINE a == (k + 1) * E
               b == L * E
    <2>6. a <= b /\ a \in Nat /\ b \in Nat /\ b <= Frame.size /\ PartEnd = a
      BY <2>2, <2>4, <2>5
    <2> HIDE DEF a, b
    <2>7. PartEnd \in Nat /\ PartEnd <= Frame.size
      BY <1>2, <2>6
    <2>8. QED
      BY <2>2, <2>7
  <1>10. /\ PartBase \in Nat
         /\ Warmed(Frame, Sub, flac.chan) + 6 + PartStart(Frame, Sub, k + 1)
              = PartBase + PartHead(Part) + PartCount * PartEach
    <2> DEFINE a == Warmed(Frame, Sub, flac.chan)
               b == PartStart(Frame, Sub, k)
               c == PartBits(Frame, Sub, k)
               h == PartHead(Part)
               m == PartCount * PartEach
    <2>1. m \in Nat
      BY <1>6, ProductType
    <2>2. a \in Nat /\ b \in Nat /\ c \in Nat /\ h \in Nat /\ c = h + m
          /\ PartStart(Frame, Sub, k + 1) = b + c /\ PartBase = a + 6 + b
      <3>1. h \in 4 .. 10 /\ c = h + m
        BY <1>6
      <3>2. a \in Nat /\ b \in Nat /\ c \in Nat /\ PartStart(Frame, Sub, k + 1) = b + c
            /\ PartBase = a + 6 + b
        BY <1>6, <1>7, <1>8 DEF PartBase
      <3> HIDE DEF h
      <3>3. h \in Nat
        BY <3>1
      <3>4. QED
        BY <3>1, <3>2, <3>3 DEF h
    <2> HIDE DEF a, b, c, h, m
    <2>3. PartBase \in Nat /\ a + 6 + (b + c) = PartBase + h + m
      BY <2>1, <2>2
    <2>4. QED
      BY <2>2, <2>3 DEF a, h, m
  <1>11. PartCount = E - (IF k = 0 THEN Sub.order ELSE 0)
    BY DEF PartCount, PartSamples
  <1>12. QED
    BY <1>2, <1>3, <1>4, <1>5, <1>6, <1>9, <1>10, <1>11

LEMMA RiceInitKeeps ==
  ASSUME Ready, bufSize' = bufSize, RiceInit
  PROVE  DecoderInv'
  <1> DEFINE n == PartCount
             h == PartHead(Part)
             p == IF Part.raw THEN "rice_verbatim" ELSE "rice_unary"
             d == [flac EXCEPT !.left = n, !.unary = 0, !.priv = p]
             E == Frame.size \div Len(Sub.parts)
  <1>1. flac.state = "in_frame" /\ flac.priv = "rice_init"
        /\ flac.priv \notin {"subframe_header", "finalize"}
    BY DEF RiceInit, In
  <1>2. /\ DecoderType(flac) /\ SubOf(flac) = Sub /\ FrameOf(flac) = Frame /\ PartOf(flac) = Part
        /\ Offset \in Int /\ flac.cur <= MaxBlockSize /\ Sub.order \in Nat
        /\ Frame.size \in Nat
    BY <1>1, InResidual
  <1>3. /\ RiceAt(flac, Offset) /\ Residuals(Sub) /\ flac.part \in 0 .. Len(Sub.parts) - 1
        /\ SoundPart(Part) /\ h \in 4 .. 10 /\ PartBase \in Nat /\ PartEach \in Nat /\ n \in Nat
        /\ PartEnd \in Nat /\ PartEnd <= Frame.size
    BY <1>1, InRice
  <1>4. n = E - (IF flac.part = 0 THEN Sub.order ELSE 0) /\ flac.part \in Nat
    BY <1>1, InRice
  <1>5. Offset = PartBase /\ flac.cur = (IF flac.part = 0 THEN Sub.order ELSE flac.part * E)
    BY <1>1, <1>2, <1>3 DEF RiceAt, PartBase, Each
  <1>6. E \in Nat
    <2>1. n = E - Sub.order \/ n = E - 0
      BY <1>4
    <2>2. Len(Sub.parts) \in Nat \ {0}
      <3> DEFINE N == Len(Sub.parts)
      <3>1. flac.part \in 0 .. N - 1 /\ N \in Nat
        BY <1>1, InRice
      <3> HIDE DEF N
      <3>2. N \in Nat \ {0}
        BY <3>1
      <3>3. QED
        BY <3>2 DEF N
    <2>3. QED
      BY <1>2, <2>2, Quotient
  <1>7. n + flac.cur = PartEnd
    <2>1. CASE flac.part = 0
      <3>1. PartEnd = E
        BY <1>6, <2>1 DEF PartEnd
      <3>2. n = E - Sub.order /\ flac.cur = Sub.order
        BY <1>4, <1>5, <2>1
      <3> HIDE DEF E, n
      <3>3. QED
        BY <1>2, <1>6, <3>1, <3>2
    <2>2. CASE flac.part # 0
      <3> DEFINE x == flac.part * E
      <3>1. x \in Nat /\ PartEnd = x + E
        <4>1. (flac.part + 1) * E = x + E /\ x \in Nat
          <5> HIDE DEF E
          <5>1. QED
            BY <1>4, <1>6, ProductType
        <4>2. QED
          BY <4>1 DEF PartEnd
      <3>2. n = E - 0 /\ flac.cur = x
        BY <1>4, <1>5, <2>2
      <3> HIDE DEF E, n, x
      <3>3. QED
        BY <1>6, <3>1, <3>2
    <2>3. QED
      BY <2>1, <2>2
  <1> HIDE DEF E
  <1>8. Take(10, h, d)
    <2>1. ~(n < 0 \/ n + flac.cur > Frame.size)
      <3> HIDE DEF n
      <3>1. QED
        BY <1>2, <1>3, <1>7
    <2>2. QED
      BY <2>1 DEF RiceInit, PartCount
  <1>9. /\ DecoderType(d) /\ d.state = "in_frame" /\ d.priv = p /\ d.frame = flac.frame
        /\ d.chan = flac.chan /\ d.wasted = flac.wasted /\ d.order = flac.order
        /\ d.shifts = flac.shifts /\ d.cur = flac.cur /\ d.part = flac.part
        /\ d.left = n /\ d.unary = 0
    <2> HIDE DEF n, p
    <2>1. QED
      BY <1>1, <1>2, <1>3 DEF DecoderType, DecoderFields
  <1> HIDE DEF d
  <1>10. FrameOf(d) = Frame /\ SubOf(d) = Sub /\ PartOf(d) = Part
         /\ Each(d) = Frame.size \div Len(Sub.parts)
    <2>1. FrameOf(d) = Frame
      BY <1>9 DEF FrameOf, Frame
    <2>2. SubOf(d) = Sub
      BY <1>9, <2>1 DEF SubOf, Sub
    <2>3. PartOf(d) = Part
      BY <1>9, <2>2 DEF PartOf, Part
    <2>4. QED
      BY <2>1, <2>2, <2>3 DEF Each
  <1> DEFINE z == (n - d.left) * PartEach
  <1>11. z = 0
    <2>1. n - d.left = 0
      <3> HIDE DEF n
      <3>1. QED
        BY <1>3, <1>9
    <2>2. QED
      BY <1>3, <2>1, ProductType
  <1>12. Offset + h = PartBase + h + z
    <2> HIDE DEF h, z
    <2>1. QED
      BY <1>3, <1>5, <1>11
  <1>13. d.cur + d.left = (d.part + 1) * Each(d) /\ d.left \in 0 .. n
    <2>1. d.cur + d.left = flac.cur + n /\ flac.cur + n = n + flac.cur /\ n \in 0 .. n
      <3>1. flac.cur \in Nat
        BY <1>2 DEF DecoderType
      <3> HIDE DEF n
      <3>2. QED
        BY <1>3, <1>9, <3>1
    <2>2. PartEnd = (d.part + 1) * Each(d)
      BY <1>9, <1>10 DEF PartEnd
    <2>3. QED
      BY <1>7, <1>9, <2>1, <2>2
  <1>14. RiceAt(d, Offset + h)
    <2> HIDE DEF h
    <2>1. Offset + h = (PartBase + h + z) + 0 /\ Part.raw \in BOOLEAN
          /\ 0 \in 0 .. Part.unary
      <3>1. Part.raw \in BOOLEAN /\ 0 \in 0 .. Part.unary
        BY <1>3 DEF SoundPart
      <3> HIDE DEF z
      <3>2. QED
        BY <1>2, <1>12, <1>3, <1>11, <3>1
    <2>2. CASE Part.raw
      BY <1>3, <1>9, <1>10, <1>12, <1>13, <2>2
      DEF RiceAt, PartBase, PartCount, PartEach, h
    <2>3. CASE ~Part.raw
      BY <1>3, <1>9, <1>10, <1>13, <2>1, <2>3
      DEF RiceAt, PartBase, PartCount, PartEach, h
    <2>4. QED
      BY <2>2, <2>3
  <1>15. InsideAt(d, Offset + h) /\ d.cur <= MaxBlockSize /\ 10 \in Nat /\ h \in 0 .. 10
    <2>1. h \in 0 .. 10
      <3> HIDE DEF h
      <3>1. QED
        BY <1>3
    <2>2. QED
      BY <1>2, <1>9, <1>14, <2>1 DEF InsideAt
  <1>16. QED
    BY <1>1, <1>8, <1>9, <1>15, SubframeKeeps

(* Where the sample of the partition that is read begins.                  *)
Here == PartBase + PartHead(Part) + (PartCount - flac.left) * PartEach

LEMMA InPart ==
  ASSUME Ready, flac.state = "in_frame", flac.priv \in {"rice_unary", "rice", "rice_verbatim"}
  PROVE  /\ flac.left \in 0 .. PartCount /\ flac.cur + flac.left = PartEnd
         /\ Part.raw = (flac.priv = "rice_verbatim")
         /\ Here \in Nat
         /\ flac.priv = "rice_unary" =>
              /\ flac.unary \in 0 .. Part.unary /\ (flac.left = 0 => flac.unary = 0)
              /\ Offset = Here + flac.unary
         /\ flac.priv = "rice" => flac.left > 0 /\ Offset = Here + Part.unary + 1
         /\ flac.priv = "rice_verbatim" => Offset = Here
         /\ SubOf(flac) = Sub /\ FrameOf(flac) = Frame /\ PartOf(flac) = Part
         /\ DecoderType(flac) /\ Offset \in Int
  <1>1. flac.priv \notin {"subframe_header", "finalize"}
    OBVIOUS
  <1>2. /\ SubOf(flac) = Sub /\ FrameOf(flac) = Frame /\ PartOf(flac) = Part
        /\ DecoderType(flac) /\ Offset \in Int
    BY <1>1, InResidual
  <1>3. RiceAt(flac, Offset) /\ PartBase \in Nat /\ PartHead(Part) \in 4 .. 10
        /\ PartEach \in Nat /\ PartCount \in Nat
    BY InRice
  <1>4. /\ flac.left \in 0 .. PartCount /\ flac.cur + flac.left = PartEnd
        /\ Part.raw = (flac.priv = "rice_verbatim")
    BY <1>2, <1>3 DEF RiceAt, PartCount, PartEnd, Each
  <1>5. /\ flac.priv = "rice_unary" =>
             /\ flac.unary \in 0 .. Part.unary /\ (flac.left = 0 => flac.unary = 0)
             /\ Offset = Here + flac.unary
        /\ flac.priv = "rice" => flac.left > 0 /\ Offset = Here + Part.unary + 1
        /\ flac.priv = "rice_verbatim" => Offset = Here
    BY <1>2, <1>3 DEF RiceAt, PartCount, PartBase, PartEach, Here
  <1>6. Here \in Nat
    <2> DEFINE n == PartCount - flac.left
               m == n * PartEach
               h == PartHead(Part)
    <2>1. n \in Nat
      BY <1>3, <1>4
    <2>2. m \in Nat
      <3> HIDE DEF n
      <3>1. QED
        BY <1>3, <2>1, ProductType
    <2>3. h \in 4 .. 10 /\ Here = PartBase + h + m
      BY <1>3 DEF Here
    <2> HIDE DEF m, h
    <2>4. QED
      BY <1>3, <2>2, <2>3
  <1>7. QED
    BY <1>2, <1>4, <1>5, <1>6

(* The decoder after a turn that stays in the partition.                   *)
LEMMA PartSame ==
  ASSUME NEW d, d.frame = flac.frame, d.chan = flac.chan, d.part = flac.part
  PROVE  /\ FrameOf(d) = Frame /\ SubOf(d) = Sub /\ PartOf(d) = Part
         /\ Each(d) = Frame.size \div Len(Sub.parts)
  <1>1. FrameOf(d) = Frame
    BY DEF FrameOf, Frame
  <1>2. SubOf(d) = Sub
    BY <1>1 DEF SubOf, Sub
  <1>3. PartOf(d) = Part
    BY <1>2 DEF PartOf, Part
  <1>4. QED
    BY <1>1, <1>2, <1>3 DEF Each

(* The partition is read: the next one begins here.                        *)
LEMMA PartEnds ==
  ASSUME Ready, bufSize' = bufSize, flac.state = "in_frame",
         flac.priv \in {"rice_unary", "rice_verbatim"}, flac.left = 0,
         Turn([flac EXCEPT !.priv = "rice_finalize"])
  PROVE  DecoderInv'
  <1> DEFINE d == [flac EXCEPT !.priv = "rice_finalize"]
  <1>1. /\ flac.cur + flac.left = PartEnd /\ Offset = Here
        /\ SubOf(flac) = Sub /\ FrameOf(flac) = Frame /\ DecoderType(flac)
    <2>1. /\ flac.cur + flac.left = PartEnd
          /\ SubOf(flac) = Sub /\ FrameOf(flac) = Frame /\ DecoderType(flac) /\ Here \in Nat
          /\ flac.priv = "rice_unary" => flac.unary = 0 /\ Offset = Here + flac.unary
          /\ flac.priv = "rice_verbatim" => Offset = Here
      BY InPart
    <2>2. QED
      BY <2>1
  <1>2. /\ Residuals(Sub) /\ flac.part \in 0 .. Len(Sub.parts) - 1
        /\ Warmed(Frame, Sub, flac.chan) + 6 + PartStart(Frame, Sub, flac.part + 1)
             = PartBase + PartHead(Part) + PartCount * PartEach
        /\ PartCount \in Nat /\ flac.cur \in Nat /\ PartEnd \in Nat
    BY InRice
  <1>3. flac.cur = PartEnd
    BY <1>1, <1>2
  <1>4. Offset = Warmed(Frame, Sub, flac.chan) + 6 + PartStart(Frame, Sub, flac.part + 1)
    <2>1. PartCount - flac.left = PartCount
      BY <1>2
    <2>2. QED
      BY <1>1, <1>2, <2>1 DEF Here
  <1>5. /\ DecoderType(d) /\ d.state = "in_frame" /\ d.priv = "rice_finalize"
        /\ d.frame = flac.frame /\ d.chan = flac.chan /\ d.part = flac.part
        /\ d.wasted = flac.wasted /\ d.order = flac.order
        /\ d.shifts = flac.shifts /\ d.cur = flac.cur
    BY <1>1 DEF DecoderType, DecoderFields
  <1>6. Take(0, 0, d)
    BY DEF Turn
  <1> HIDE DEF d
  <1>7. d.cur = (d.part + 1) * Each(d)
    BY <1>3, <1>5, PartSame DEF PartEnd
  <1>8. RiceAt(d, Offset)
    BY <1>2, <1>4, <1>5, <1>7, PartSame DEF RiceAt
  <1>9. Offset + 0 = Offset /\ d.cur <= MaxBlockSize /\ 0 \in Nat /\ 0 \in 0 .. 0
        /\ flac.priv \notin {"subframe_header", "finalize"}
    <2>1. flac.priv \notin {"subframe_header", "finalize"}
      OBVIOUS
    <2>2. Offset \in Int /\ flac.cur <= MaxBlockSize
      BY <2>1, InResidual
    <2>3. QED
      BY <1>5, <2>1, <2>2
  <1>10. InsideAt(d, Offset + 0)
    BY <1>8, <1>9 DEF InsideAt
  <1>11. QED
    BY <1>5, <1>6, <1>9, <1>10, SubframeKeeps

(* The bits of a sample are read.                                          *)
LEMMA NextSampleKeeps ==
  ASSUME Ready, bufSize' = bufSize, flac.state = "in_frame",
         flac.priv \in {"rice", "rice_verbatim"}, flac.left # 0,
         NEW p, p = IF Part.raw THEN "rice_verbatim" ELSE "rice_unary",
         Read(Part.bits, NextSample(p)), Offset + Part.bits = Here + PartEach
  PROVE  DecoderInv'
  <1> DEFINE d == NextSample(p)
             n == PartCount
             e == PartEach
  <1>1. /\ flac.left \in 0 .. n /\ flac.cur + flac.left = PartEnd
        /\ SubOf(flac) = Sub /\ FrameOf(flac) = Frame /\ DecoderType(flac)
    BY InPart
  <1>2. /\ Residuals(Sub) /\ flac.part \in 0 .. Len(Sub.parts) - 1 /\ SoundPart(Part)
        /\ n \in Nat /\ e \in Nat /\ flac.cur \in Nat /\ flac.left \in Nat
        /\ PartEnd \in Nat /\ PartEnd <= Frame.size /\ Frame.size <= MaxBlockSize
        /\ PartBase \in Nat /\ PartHead(Part) \in 4 .. 10
    BY InRice
  <1>3. flac.left - 1 \in Nat /\ flac.left - 1 \in 0 .. n
        /\ (flac.cur + 1) + (flac.left - 1) = PartEnd /\ flac.cur + 1 \in Nat
    <2> DEFINE l == flac.left
               c == flac.cur
    <2>1. l \in Nat /\ c \in Nat /\ n \in Nat /\ PartEnd \in Nat /\ l # 0
      BY <1>2
    <2>2. l \in 0 .. n /\ c + l = PartEnd
      BY <1>1
    <2> HIDE DEF l, c, n
    <2>3. l - 1 \in Nat /\ l - 1 \in 0 .. n /\ (c + 1) + (l - 1) = PartEnd /\ c + 1 \in Nat
      BY <2>1, <2>2
    <2>4. QED
      BY <2>3 DEF l, c
  <1>4. flac.priv \notin {"subframe_header", "finalize"}
    OBVIOUS
  <1>5. Part.bits \in Nat /\ Part.unary \in Nat /\ Part.raw \in BOOLEAN
    BY <1>2 DEF SoundPart
  <1>6. /\ DecoderType(d) /\ d.state = "in_frame" /\ d.priv = p
        /\ d.frame = flac.frame /\ d.chan = flac.chan /\ d.part = flac.part
        /\ d.wasted = flac.wasted /\ d.order = flac.order
        /\ d.shifts = flac.shifts /\ d.cur = flac.cur + 1 /\ d.left = flac.left - 1
        /\ d.unary = 0
    <2>1. DecoderType(flac) /\ flac.left - 1 \in Nat /\ flac.cur + 1 \in Nat
      BY <1>1, <1>3, Zenon
    <2>2. /\ DOMAIN d = DecoderFields /\ d.state = "in_frame" /\ d.priv = p
          /\ d.block = flac.block /\ d.rem = flac.rem /\ d.coef = flac.coef
          /\ d.frame = flac.frame /\ d.chan = flac.chan /\ d.part = flac.part
          /\ d.wasted = flac.wasted /\ d.order = flac.order
          /\ d.shifts = flac.shifts /\ d.cur = flac.cur + 1 /\ d.left = flac.left - 1
          /\ d.unary = 0
      BY <2>1 DEF DecoderType, DecoderFields, NextSample
    <2> HIDE DEF d
    <2>3. QED
      BY <2>1, <2>2 DEF DecoderType
  <1>7. Take(Part.bits, Part.bits, d)
    BY DEF Read
  <1> HIDE DEF d
  <1> DEFINE here == PartBase + PartHead(Part) + (n - d.left) * e
  <1>8. Offset + Part.bits = here
    <2> DEFINE a == n - flac.left
               x == a * e
               h == PartHead(Part)
    <2>1. a \in Nat /\ n - d.left = a + 1
      <3> DEFINE l == flac.left
      <3>1. l \in 0 .. n /\ n \in Nat /\ d.left = l - 1
        BY <1>1, <1>2, <1>6
      <3> HIDE DEF n, l
      <3>2. n - l \in Nat /\ n - d.left = (n - l) + 1
        BY <3>1
      <3>3. QED
        BY <3>2 DEF l
    <2>2. x \in Nat /\ (a + 1) * e = x + e
      <3> HIDE DEF a, e
      <3>1. QED
        BY <1>2, <2>1, ProductType
    <2>3. Here = PartBase + h + x /\ here = PartBase + h + (a + 1) * e
      BY <2>1 DEF Here
    <2>4. h \in Nat
      <3> HIDE DEF h
      <3>1. h \in 4 .. 10
        BY <1>2 DEF h
      <3>2. QED
        BY <3>1
    <2> DEFINE y == (a + 1) * e
               o == Offset + Part.bits
    <2>5. y = x + e /\ Here = PartBase + h + x /\ here = PartBase + h + y /\ o = Here + e
      BY <2>2, <2>3
    <2> HIDE DEF x, y, h, here, o, n, e
    <2>6. o = here
      BY <1>2, <2>2, <2>4, <2>5
    <2>7. QED
      BY <2>6 DEF o
  <1>9. d.cur + d.left = (d.part + 1) * Each(d) /\ d.left \in 0 .. n
    <2>1. PartEnd = (d.part + 1) * Each(d)
      BY <1>6, PartSame DEF PartEnd
    <2> HIDE DEF n
    <2>2. QED
      BY <1>3, <1>6, <2>1
  <1>10. RiceAt(d, Offset + Part.bits)
    <2>1. CASE Part.raw
      BY <1>2, <1>6, <1>8, <1>9, <2>1, PartSame
      DEF RiceAt, PartBase, PartCount, PartEach
    <2>2. CASE ~Part.raw
      <3>1. here + d.unary = here /\ d.unary \in 0 .. Part.unary
        <4>1. Offset \in Int
          BY InPart
        <4>2. here \in Int
          <5> HIDE DEF here
          <5>1. QED
            BY <1>5, <1>8, <4>1
        <4> HIDE DEF here
        <4>3. QED
          BY <1>5, <1>6, <4>2
      <3>2. Offset + Part.bits = here + d.unary /\ (d.left = 0 => d.unary = 0)
        BY <1>6, <1>8, <3>1
      <3>3. FrameOf(d) = Frame /\ SubOf(d) = Sub /\ PartOf(d) = Part /\ d.chan = flac.chan
            /\ d.part = flac.part /\ d.priv = "rice_unary"
        BY <1>6, <2>2, PartSame
      <3>4. Residuals(Sub) /\ flac.part \in 0 .. Len(Sub.parts) - 1
            /\ (Part.raw = (d.priv = "rice_verbatim"))
        BY <1>2, <2>2, <1>5, <3>3
      <3>5. QED
        BY <1>9, <2>2, <3>1, <3>2, <3>3, <3>4
        DEF RiceAt, PartBase, PartCount, PartEach
    <2>3. QED
      BY <2>1, <2>2
  <1>11. d.cur <= MaxBlockSize
    <2> DEFINE s == Frame.size
    <2>1. MaxBlockSize \in Nat /\ s \in Nat
      BY <1>4, InResidual
    <2>2. s <= MaxBlockSize /\ PartEnd <= s
      BY <1>2
    <2> HIDE DEF s
    <2>3. d.cur <= PartEnd /\ d.cur \in Nat
      <3> DEFINE l == flac.left - 1
                 c == flac.cur
      <3>1. l \in Nat /\ (c + 1) + l = PartEnd /\ c \in Nat /\ d.cur = c + 1
        BY <1>2, <1>3, <1>6
      <3> HIDE DEF l, c
      <3>2. QED
        BY <3>1
    <2>4. QED
      BY <1>2, <2>1, <2>2, <2>3
  <1>12. InsideAt(d, Offset + Part.bits) /\ Part.bits \in 0 .. Part.bits
    BY <1>5, <1>10 DEF InsideAt
  <1>13. QED
    BY <1>4, <1>5, <1>6, <1>7, <1>11, <1>12, SubframeKeeps

LEMMA RiceUnaryKeeps ==
  ASSUME Ready, bufSize' = bufSize, RiceUnary
  PROVE  DecoderInv'
  <1>1. flac.state = "in_frame" /\ flac.priv = "rice_unary"
        /\ flac.priv \notin {"subframe_header", "finalize"}
    BY DEF RiceUnary, In
  <1>2. /\ flac.left \in 0 .. PartCount /\ flac.cur + flac.left = PartEnd
        /\ ~Part.raw /\ Here \in Nat /\ flac.unary \in 0 .. Part.unary
        /\ Offset = Here + flac.unary /\ DecoderType(flac)
    <2>1. Part.raw \in BOOLEAN
      BY <1>1, InRice DEF SoundPart
    <2>2. QED
      BY <1>1, <2>1, InPart
  <1>3. /\ Residuals(Sub) /\ flac.part \in 0 .. Len(Sub.parts) - 1
        /\ flac.unary \in Nat /\ Part.unary \in Nat /\ Part.raw \in BOOLEAN
    BY <1>1, InRice DEF SoundPart
  <1>4. flac.cur <= MaxBlockSize
    BY <1>1, InResidual
  <1>5. CASE flac.left = 0
    <2>1. Turn([flac EXCEPT !.priv = "rice_finalize"])
      BY <1>5 DEF RiceUnary
    <2>2. QED
      BY <1>1, <1>5, <2>1, PartEnds
  <1>6. CASE flac.left # 0 /\ flac.unary < Part.unary
    <2> DEFINE d == [flac EXCEPT !.unary = @ + 1]
    <2>1. Take(1, 1, d)
      BY <1>6 DEF RiceUnary, Read
    <2>0. DecoderType(flac) /\ flac.state = "in_frame" /\ flac.priv = "rice_unary"
      BY <1>1, <1>2
    <2>2. /\ DecoderType(d) /\ d.state = "in_frame" /\ d.priv = "rice_unary"
          /\ d.frame = flac.frame /\ d.chan = flac.chan /\ d.part = flac.part
          /\ d.wasted = flac.wasted /\ d.order = flac.order
          /\ d.shifts = flac.shifts /\ d.cur = flac.cur /\ d.left = flac.left
          /\ d.unary = flac.unary + 1
      BY <2>0 DEF DecoderType, DecoderFields
    <2> HIDE DEF d
    <2>3. d.unary \in 0 .. Part.unary /\ Offset + 1 = Here + d.unary
      <3> DEFINE u == flac.unary
                 m == Part.unary
      <3>1. u \in Nat /\ m \in Nat /\ u < m /\ Offset = Here + u /\ Here \in Nat
            /\ d.unary = u + 1
        BY <1>2, <1>3, <1>6, <2>2
      <3> HIDE DEF u, m
      <3>2. u + 1 \in 0 .. m /\ Offset + 1 = Here + (u + 1)
        BY <3>1
      <3>3. QED
        BY <3>1, <3>2 DEF m
    <2>4. d.cur + d.left = (d.part + 1) * Each(d)
      BY <1>2, <2>2, PartSame DEF PartEnd
    <2>5. RiceAt(d, Offset + 1)
      <3>1. FrameOf(d) = Frame /\ SubOf(d) = Sub /\ PartOf(d) = Part
        BY <2>2, PartSame
      <3>2. (Part.raw = (d.priv = "rice_verbatim")) /\ d.left \in 0 .. PartCount
            /\ (d.left = 0 => d.unary = 0)
        BY <1>2, <1>3, <1>6, <2>2
      <3>3. Offset + 1 = PartBase + PartHead(Part) + (PartCount - d.left) * PartEach + d.unary
        BY <2>2, <2>3 DEF Here
      <3>4. QED
        BY <1>2, <1>3, <2>2, <2>3, <2>4, <3>1, <3>2, <3>3
        DEF RiceAt, PartBase, PartCount, PartEach
    <2>6. InsideAt(d, Offset + 1) /\ d.cur <= MaxBlockSize /\ 1 \in Nat /\ 1 \in 0 .. 1
      BY <1>4, <2>2, <2>5 DEF InsideAt
    <2>7. QED
      BY <1>1, <2>1, <2>2, <2>6, SubframeKeeps
  <1>7. CASE flac.left # 0 /\ ~(flac.unary < Part.unary)
    <2> DEFINE d == [flac EXCEPT !.priv = "rice"]
    <2>1. Take(1, 1, d)
      BY <1>7 DEF RiceUnary, Read
    <2>2. /\ DecoderType(d) /\ d.state = "in_frame" /\ d.priv = "rice"
          /\ d.frame = flac.frame /\ d.chan = flac.chan /\ d.part = flac.part
          /\ d.wasted = flac.wasted /\ d.order = flac.order
          /\ d.shifts = flac.shifts /\ d.cur = flac.cur /\ d.left = flac.left
      BY <1>1, <1>2 DEF DecoderType, DecoderFields
    <2> HIDE DEF d
    <2>3. Offset + 1 = Here + Part.unary + 1
      <3> DEFINE u == flac.unary
                 m == Part.unary
      <3>1. u \in 0 .. m /\ m \in Nat /\ ~(u < m) /\ Offset = Here + u /\ Here \in Nat
        BY <1>2, <1>3, <1>7
      <3> HIDE DEF u, m
      <3>2. Offset + 1 = Here + m + 1
        BY <3>1
      <3>3. QED
        BY <3>2 DEF m
    <2>4. d.cur + d.left = (d.part + 1) * Each(d)
      BY <1>2, <2>2, PartSame DEF PartEnd
    <2>5. RiceAt(d, Offset + 1)
      <3>1. FrameOf(d) = Frame /\ SubOf(d) = Sub /\ PartOf(d) = Part
        BY <2>2, PartSame
      <3>2. (Part.raw = (d.priv = "rice_verbatim")) /\ d.left \in 0 .. PartCount /\ d.left > 0
        <4>1. flac.left \in Nat /\ flac.left # 0
          BY <1>1, <1>7, InRice
        <4>2. QED
          BY <1>2, <1>3, <2>2, <4>1
      <3>3. Offset + 1 = PartBase + PartHead(Part) + (PartCount - d.left) * PartEach
                           + Part.unary + 1
        BY <2>2, <2>3 DEF Here
      <3>4. QED
        BY <1>2, <1>3, <2>2, <2>4, <3>1, <3>2, <3>3
        DEF RiceAt, PartBase, PartCount, PartEach
    <2>6. InsideAt(d, Offset + 1) /\ d.cur <= MaxBlockSize /\ 1 \in Nat /\ 1 \in 0 .. 1
      BY <1>4, <2>2, <2>5 DEF InsideAt
    <2>7. QED
      BY <1>1, <2>1, <2>2, <2>6, SubframeKeeps
  <1>8. QED
    BY <1>5, <1>6, <1>7

LEMMA RiceKeeps ==
  ASSUME Ready, bufSize' = bufSize, Rice
  PROVE  DecoderInv'
  <1>1. flac.state = "in_frame" /\ flac.priv = "rice" /\ Read(Part.bits, NextSample("rice_unary"))
    BY DEF Rice, In
  <1>2. ~Part.raw /\ flac.left > 0 /\ Offset = Here + Part.unary + 1 /\ Here \in Nat
    <2>1. SoundPart(Part)
      BY <1>1, InRice
    <2>2. QED
      BY <1>1, <2>1, InPart DEF SoundPart
  <1>3. Part.unary \in Nat /\ Part.bits \in Nat
    BY <1>1, InRice DEF SoundPart
  <1>4. Offset + Part.bits = Here + PartEach
    <2> DEFINE u == Part.unary
               b == Part.bits
    <2>1. PartEach = u + 1 + b /\ Offset = Here + u + 1
      BY <1>2 DEF PartEach
    <2>2. u \in Nat /\ b \in Nat /\ Here \in Nat
      BY <1>2, <1>3
    <2> HIDE DEF u, b
    <2>3. Offset + b = Here + PartEach
      BY <2>1, <2>2
    <2>4. QED
      BY <2>3 DEF b
  <1>5. flac.left # 0
    BY <1>2
  <1>6. QED
    BY <1>1, <1>2, <1>4, <1>5, NextSampleKeeps

LEMMA RiceVerbatimKeeps ==
  ASSUME Ready, bufSize' = bufSize, RiceVerbatim
  PROVE  DecoderInv'
  <1>1. flac.state = "in_frame" /\ flac.priv = "rice_verbatim"
    BY DEF RiceVerbatim, In
  <1>2. Part.raw /\ Offset = Here
    BY <1>1, InPart
  <1>3. CASE flac.left = 0
    <2>1. Turn([flac EXCEPT !.priv = "rice_finalize"])
      BY <1>3 DEF RiceVerbatim
    <2>2. QED
      BY <1>1, <1>3, <2>1, PartEnds
  <1>4. CASE flac.left # 0
    <2>1. Read(Part.bits, NextSample("rice_verbatim"))
      BY <1>4 DEF RiceVerbatim
    <2>2. Offset + Part.bits = Here + PartEach
      BY <1>2 DEF PartEach
    <2>3. QED
      BY <1>1, <1>2, <1>4, <2>1, <2>2, NextSampleKeeps
  <1>5. QED
    BY <1>3, <1>4

LEMMA RiceFinalizeKeeps ==
  ASSUME Ready, bufSize' = bufSize, RiceFinalize
  PROVE  DecoderInv'
  <1> DEFINE L == Len(Sub.parts)
             p == IF flac.part + 1 = L THEN "finalize" ELSE "rice_init"
             d == [flac EXCEPT !.part = @ + 1, !.priv = p]
             E == Frame.size \div L
  <1>1. flac.state = "in_frame" /\ flac.priv = "rice_finalize"
        /\ flac.priv \notin {"subframe_header", "finalize"}
    BY DEF RiceFinalize, In
  <1>2. /\ RiceAt(flac, Offset) /\ Residuals(Sub) /\ flac.part \in 0 .. L - 1 /\ L \in Nat
        /\ flac.part \in Nat
    BY <1>1, InRice
  <1>3. /\ DecoderType(flac) /\ SubOf(flac) = Sub /\ FrameOf(flac) = Frame
        /\ PartOf(flac) = Part
        /\ Offset \in Int /\ flac.cur <= MaxBlockSize
        /\ SoundSub(file, Frame, Sub) /\ Frame.size \in Nat \ {0} /\ file.bits \in 1 .. 31
    BY <1>1, InResidual
  <1>4. /\ flac.cur = (flac.part + 1) * E
        /\ Offset = Warmed(Frame, Sub, flac.chan) + 6 + PartStart(Frame, Sub, flac.part + 1)
    BY <1>1, <1>2, <1>3 DEF RiceAt, Each
  <1>5. Take(0, 0, d)
    BY DEF RiceFinalize, Turn
  <1>6. /\ DecoderType(d) /\ d.state = "in_frame" /\ d.priv = p
        /\ d.frame = flac.frame /\ d.chan = flac.chan /\ d.part = flac.part + 1
        /\ d.wasted = flac.wasted /\ d.order = flac.order
        /\ d.shifts = flac.shifts /\ d.cur = flac.cur
    <2> HIDE DEF p
    <2>1. DecoderType(flac) /\ flac.state = "in_frame"
      BY <1>1, <1>3
    <2>2. QED
      BY <2>1 DEF DecoderType, DecoderFields
  <1> HIDE DEF d
  <1>7. FrameOf(d) = Frame /\ SubOf(d) = Sub
    <2>1. FrameOf(d) = Frame
      BY <1>6 DEF FrameOf, Frame
    <2>2. QED
      BY <1>6, <2>1 DEF SubOf, Sub
  <1>8. InsideAt(d, Offset)
    <2>1. CASE flac.part + 1 = L
      <3>1. flac.chan \in Nat
        BY <1>3 DEF DecoderType
      <3>2. SubframeBits(Frame, flac.chan) = Offset
        <4>1. SubframeBits(Frame, flac.chan)
                = Warmed(Frame, Sub, flac.chan) + 6 + PartStart(Frame, Sub, L)
          BY <1>2, <1>3, <3>1, SubSize DEF Sub
        <4>2. QED
          BY <1>4, <2>1, <4>1
      <3>3. d.priv = "finalize" /\ d.chan = flac.chan
        BY <1>6, <2>1
      <3>4. QED
        BY <1>7, <3>2, <3>3 DEF InsideAt
    <2>2. CASE flac.part + 1 # L
      <3>1. d.part \in 0 .. L - 1 /\ d.part # 0
        <4> DEFINE k == flac.part
        <4>1. k \in 0 .. L - 1 /\ L \in Nat /\ k \in Nat /\ k + 1 # L /\ d.part = k + 1
          BY <1>2, <1>6, <2>2
        <4> HIDE DEF k, L
        <4>2. QED
          BY <4>1
      <3>2. d.priv = "rice_init" /\ d.cur = d.part * Each(d)
        BY <1>4, <1>6, <1>7, <2>2 DEF Each
      <3>3. Offset = Warmed(FrameOf(d), SubOf(d), d.chan) + 6
                     + PartStart(FrameOf(d), SubOf(d), d.part)
        BY <1>4, <1>6, <1>7
      <3>4. RiceAt(d, Offset)
        BY <1>2, <1>7, <3>1, <3>2, <3>3 DEF RiceAt
      <3>5. QED
        BY <3>4 DEF InsideAt
    <2>3. QED
      BY <2>1, <2>2
  <1>9. Offset + 0 = Offset /\ d.cur <= MaxBlockSize /\ 0 \in Nat /\ 0 \in 0 .. 0
    BY <1>3, <1>6
  <1>10. InsideAt(d, Offset + 0)
    BY <1>8, <1>9
  <1>11. QED
    BY <1>1, <1>5, <1>6, <1>9, <1>10, SubframeKeeps

-----------------------------------------------------------------------------
(* The end of a frame                                                      *)

(* The channel is counted, and its shift made.                             *)
NextChannel ==
  [flac EXCEPT !.chan = flac.chan + 1,
               !.shifts = [x \in Chans |-> IF x = flac.chan /\ flac.wasted # 0
                                         THEN @[x] + 1 ELSE @[x]]]

(* Where the samples of the frame end, without and with the padding.       *)
SamplesEnd == FrameStart(flac.frame) + SubStart(Frame, Len(Frame.subs))

(* What the decoder knows at the end of a subframe.                        *)
LEMMA InFinalize ==
  ASSUME Ready, call = "run", flac.state = "in_frame", flac.priv = "finalize"
  PROVE  /\ flac.frame \in DOMAIN file.frames /\ flac.chan \in Nat
         /\ \/ /\ flac.chan \in 0 .. Len(Frame.subs) - 1 /\ ~Again(flac)
               /\ flac.wasted = Frame.subs[flac.chan + 1].wasted
               /\ Shifted(flac, flac.chan) /\ flac.shifts[flac.chan] = 0
               /\ pos = FrameStart(flac.frame) + SubStart(Frame, flac.chan + 1)
            \/ /\ flac.chan = Len(Frame.subs) /\ Again(flac)
               /\ flac.wasted = Frame.subs[flac.chan].wasted
               /\ Shifted(flac, flac.chan)
               /\ pos \in {SamplesEnd, SamplesEnd + Pad(SamplesEnd)}
               /\ CrcFits \/ AllGiven
  <1> DEFINE start == FrameStart(flac.frame)
             N == Len(Frame.subs)
             c == flac.chan
  <1>1. InFrameAt(flac, pos) /\ pos \in Nat
    BY ReadyFacts, ByState
  <1>2. flac.frame \in DOMAIN file.frames
    BY <1>1 DEF InFrameAt, SubframeAt, AgainAt, Within
  <1>3. /\ PlainFile(file) /\ FrameOf(flac) = Frame /\ DecoderType(flac)
        /\ N \in Nat \ {0} /\ start \in Nat
        /\ \A i \in 0 .. N - 1 : SoundSub(file, Frame, Frame.subs[i + 1])
        /\ \A i \in 0 .. N : SubStart(Frame, i) \in Nat
    BY <1>2, FrameSound
  <1>4. c \in Nat
    BY <1>3 DEF DecoderType
  <1>5. CASE SubframeAt(flac, pos - start - SubStart(Frame, c))
    <2> DEFINE a == SubStart(Frame, c)
               b == SubframeBits(Frame, c)
    <2>1. /\ c \in 0 .. N - 1 /\ flac.wasted = SubOf(flac).wasted
          /\ Shifted(flac, c) /\ flac.shifts[c] = 0
          /\ InsideAt(flac, pos - start - a)
      BY <1>3, <1>5 DEF SubframeAt, Within
    <2>2. SubOf(flac) = Frame.subs[c + 1]
      BY <1>3 DEF SubOf
    <2>3. Frame.subs[c + 1].type \in {"constant", "verbatim", "fixed", "lpc"}
      BY <1>3, <2>1 DEF SoundSub
    <2>4. pos - start - a = b
      BY <1>3, <2>1, <2>2, <2>3 DEF InsideAt, WarmUpAt, RiceAt
    <2>5. SubStart(Frame, c + 1) = a + b /\ b \in Nat
      BY <1>2, <1>3, <2>1, SubsAdd DEF Frame
    <2>6. a \in Nat
      <3>1. c \in 0 .. N
        <4> HIDE DEF N, c
        <4>1. QED
          BY <1>3, <2>1
      <3>2. QED
        BY <1>3, <3>1
    <2>7. pos = start + SubStart(Frame, c + 1)
      <3> HIDE DEF a, b, start
      <3>1. QED
        BY <1>1, <1>3, <2>4, <2>5, <2>6
    <2>8. ~Again(flac)
      <3> HIDE DEF N, c
      <3>1. ~(c >= N)
        BY <1>3, <1>4, <2>1
      <3>2. QED
        BY <1>3, <3>1 DEF Again, N, c
    <2>9. QED
      BY <1>2, <1>4, <2>1, <2>2, <2>7, <2>8
  <1>6. CASE AgainAt(flac, pos - start)
    <2> DEFINE all == SubStart(Frame, N)
    <2>1. /\ c \in {N, N + 1} /\ flac.wasted = Frame.subs[N].wasted /\ Shifted(flac, N)
          /\ pos - start \in {all, all + Pad(all)}
      BY <1>3, <1>6 DEF AgainAt
    <2>2. Again(flac)
      <3>1. c >= N
        <4> HIDE DEF N, c
        <4>1. QED
          BY <1>3, <2>1
      <3>2. QED
        BY <1>3, <3>1 DEF Again
    <2>3. c = N /\ (CrcFits \/ AllGiven)
      <3>1. \/ c = N /\ (CrcFits \/ AllGiven)
            \/ call = "return"
        BY <1>3, <2>2 DEF Ready, DecoderInv
      <3>2. QED
        BY <3>1
    <2>4. all \in Nat
      <3>1. N \in 0 .. N
        BY <1>3
      <3>2. QED
        BY <1>3, <3>1
    <2>5. start % 8 = 0
      <3>1. flac.frame \in 1 .. Len(file.frames) + 1
        BY <1>2, <1>3, StartsAdd
      <3>2. QED
        BY <1>3, <3>1, StartsAdd
    <2>6. Pad(start + all) = Pad(all) /\ Pad(all) \in Nat
      <3>1. start \in Nat
        BY <1>3
      <3> HIDE DEF start, all
      <3>2. Pad(start + all) = Pad(all) /\ Pad(all) \in 0 .. 7
        BY <2>4, <2>5, <3>1, PadFacts
      <3>3. QED
        BY <3>2
    <2>7. pos \in {SamplesEnd, SamplesEnd + Pad(SamplesEnd)}
      <3> DEFINE p == Pad(all)
      <3>1. SamplesEnd = start + all /\ Pad(SamplesEnd) = p
        BY <2>6 DEF SamplesEnd
      <3>2. p \in Nat /\ pos - start \in {all, all + p} /\ start \in Nat /\ all \in Nat
              /\ pos \in Nat
        BY <1>1, <1>3, <2>1, <2>4, <2>6
      <3> HIDE DEF p, start, all
      <3>3. pos \in {start + all, (start + all) + p}
        BY <3>2
      <3>4. QED
        BY <3>1, <3>3
    <2>8. QED
      BY <1>2, <1>4, <2>1, <2>2, <2>3, <2>7
  <1>7. QED
    BY <1>1, <1>3, <1>5, <1>6 DEF InFrameAt

(* The channel that ends has had its shift.                                *)
LEMMA NextChannelShifts ==
  ASSUME Ready, call = "run", flac.state = "in_frame", flac.priv = "finalize"
  PROVE  LET d == NextChannel
             N == Len(Frame.subs)
         IN
         /\ DecoderType(d) /\ Kept(d)
         /\ d.state = "in_frame" /\ d.priv = "finalize" /\ d.frame = flac.frame
         /\ d.chan = flac.chan + 1 /\ d.wasted = flac.wasted /\ d.cur = flac.cur
         /\ d.order = flac.order
         /\ flac.chan < N => Shifted(d, d.chan)
         /\ flac.chan = N => Shifted(d, N)
         /\ ~(flac.wasted # 0 /\ flac.chan \notin Chans)
  <1> DEFINE d == NextChannel
             N == Len(Frame.subs)
             c == flac.chan
             S == [x \in Chans |-> IF x = c /\ flac.wasted # 0
                                   THEN flac.shifts[x] + 1 ELSE flac.shifts[x]]
  <1>1. flac.frame \in DOMAIN file.frames /\ c \in Nat
    BY InFinalize
  <1>2. /\ PlainFile(file) /\ FrameOf(flac) = Frame /\ DecoderType(flac) /\ Kept(flac)
        /\ N \in Nat \ {0} /\ N <= MaxChannels /\ MaxChannels \in Nat
    BY <1>1, FrameSound
  <1>3. flac.shifts \in [Chans -> Nat]
    BY <1>2 DEF DecoderType
  <1>4. S \in [Chans -> Nat]
    BY <1>3
  <1>5. d = [flac EXCEPT !.chan = c + 1, !.shifts = S]
    <2>1. [flac EXCEPT !.chan = c + 1].shifts = flac.shifts
      BY <1>2 DEF DecoderType, DecoderFields
    <2>2. d = [[flac EXCEPT !.chan = c + 1] EXCEPT !.shifts =
                 [x \in Chans |-> IF x = c /\ flac.wasted # 0 THEN @[x] + 1 ELSE @[x]]]
      BY DEF NextChannel
    <2>3. QED
      BY <2>1, <2>2
  <1> HIDE DEF S
  <1>6. /\ DecoderType(d) /\ d.state = "in_frame" /\ d.priv = "finalize" /\ d.frame = flac.frame
        /\ d.chan = c + 1 /\ d.wasted = flac.wasted /\ d.cur = flac.cur /\ d.order = flac.order
        /\ d.shifts = S
    BY <1>1, <1>2, <1>4, <1>5 DEF DecoderType, DecoderFields
  <1> HIDE DEF d
  <1>7. Kept(d)
    BY <1>2, <1>6 DEF Kept
  <1>8. FrameOf(d) = Frame
    BY <1>6 DEF FrameOf, Frame
  <1>9. \A x \in Chans : S[x] = IF x = c /\ flac.wasted # 0
                                THEN flac.shifts[x] + 1 ELSE flac.shifts[x]
    BY DEF S
  <1>10. ASSUME c < N PROVE Shifted(d, c + 1) /\ c \in Chans
    <2>1. /\ c \in 0 .. N - 1 /\ c \in Chans
          /\ \A i \in 0 .. c : i \in Chans
          /\ \A i \in 0 .. (c + 1) - 1 : i = c \/ i \in 0 .. c - 1
      <3> HIDE DEF N, c
      <3>1. QED
        BY <1>1, <1>2, <1>10 DEF Chans
    <2>2. /\ flac.wasted = Frame.subs[c + 1].wasted
          /\ Shifted(flac, c) /\ flac.shifts[c] = 0
      <3>1. c # N
        <4> HIDE DEF N, c
        <4>1. QED
          BY <1>1, <1>2, <1>10
      <3>2. QED
        BY <3>1, InFinalize
    <2>3. S[c] = ShiftsOf(Frame.subs[c + 1])
      <3>1. S[c] = IF flac.wasted # 0 THEN 0 + 1 ELSE 0
        BY <1>9, <2>1, <2>2
      <3>2. QED
        BY <2>2, <3>1 DEF ShiftsOf
    <2>4. \A i \in 0 .. c - 1 : S[i] = ShiftsOf(Frame.subs[i + 1])
      <3>1. \A i \in 0 .. c - 1 : flac.shifts[i] = ShiftsOf(Frame.subs[i + 1])
        BY <1>2, <2>2 DEF Shifted
      <3>2. \A i \in 0 .. c - 1 : i \in Chans /\ i # c
        <4> HIDE DEF N, c
        <4>1. QED
          BY <1>1, <2>1
      <3>3. QED
        BY <1>9, <3>1, <3>2
    <2>5. QED
      BY <1>6, <1>8, <2>1, <2>3, <2>4 DEF Shifted
  <1>11. ASSUME c = N PROVE Shifted(d, N) /\ ~(flac.wasted # 0 /\ c \notin Chans)
    <2>1. /\ flac.wasted = Frame.subs[N].wasted /\ Shifted(flac, N)
      <3>1. ~(c \in 0 .. N - 1)
        <4> HIDE DEF N, c
        <4>1. QED
          BY <1>2, <1>11
      <3>2. QED
        BY <1>11, <3>1, InFinalize
    <2>2. \A i \in 0 .. N - 1 : i \in Chans /\ i # c
      <3> HIDE DEF N, c
      <3>1. QED
        BY <1>2, <1>11 DEF Chans
    <2>3. \A i \in 0 .. N - 1 : S[i] = flac.shifts[i]
      BY <1>9, <2>2
    <2>4. Shifted(d, N)
      BY <1>2, <1>6, <1>8, <2>1, <2>3 DEF Shifted
    <2>5. Frame.subs[N].wasted = 0 \/ N < MaxChannels
      BY <1>1, <1>2 DEF PlainFile, PlainFrame, Frame
    <2>6. N < MaxChannels => c \in Chans
      <3> HIDE DEF N, c
      <3>1. QED
        BY <1>2, <1>11 DEF Chans
    <2>7. QED
      BY <2>1, <2>4, <2>5, <2>6
  <1>12. c < N \/ c = N
    <2>1. c \in 0 .. N - 1 \/ c = N
      BY InFinalize
    <2> HIDE DEF N, c
    <2>2. QED
      BY <1>2, <2>1
  <1>13. QED
    BY <1>6, <1>7, <1>10, <1>11, <1>12 DEF d

LEMMA EndOfSamples ==
  ASSUME Ready, flac.frame \in DOMAIN file.frames
  PROVE  LET e == SamplesEnd IN
         /\ e \in Nat /\ Pad(e) \in Nat /\ Pad(e + Pad(e)) = 0
         /\ e + Pad(e) + 16 = FrameStart(flac.frame + 1)
  <1> DEFINE a == FrameStart(flac.frame)
             b == SubStart(Frame, Len(Frame.subs))
  <1>1. /\ PlainFile(file) /\ a \in Nat /\ b \in Nat
    <2>1. /\ PlainFile(file) /\ a \in Nat /\ Len(Frame.subs) \in Nat
          /\ \A c \in 0 .. Len(Frame.subs) : SubStart(Frame, c) \in Nat
      BY FrameSound
    <2>2. Len(Frame.subs) \in 0 .. Len(Frame.subs)
      BY <2>1
    <2>3. QED
      BY <2>1, <2>2
  <1>2. /\ a % 8 = 0 /\ FrameStart(flac.frame + 1) = a + FrameBits(Frame)
    <2>1. flac.frame \in 1 .. Len(file.frames) /\ Len(file.frames) \in Nat
      BY <1>1, StartsAdd
    <2>2. flac.frame \in 1 .. Len(file.frames) + 1
      <3> DEFINE n == Len(file.frames)
      <3>1. n \in Nat /\ flac.frame \in 1 .. n
        BY <2>1
      <3> HIDE DEF n
      <3>2. flac.frame \in 1 .. n + 1
        BY <3>1
      <3>3. QED
        BY <3>2 DEF n
    <2>3. QED
      BY <1>1, <2>1, <2>2, StartsAdd DEF Frame
  <1>3. FrameBits(Frame) = b + Pad(b) + 16
    BY <1>1, SubsAdd DEF Frame
  <1> HIDE DEF a, b
  <1>4. Pad(a + b) = Pad(b) /\ Pad(b) \in 0 .. 7
    BY <1>1, <1>2, PadFacts
  <1> DEFINE p == Pad(b)
  <1>5. SamplesEnd = a + b
    BY DEF SamplesEnd, a, b
  <1>6. p \in Nat
    <2> HIDE DEF p
    <2>1. QED
      BY <1>4 DEF p
  <1>7. Pad((a + b) + p) = 0
    <2>1. a + b \in Nat
      BY <1>1
    <2>2. ((a + b) + Pad(a + b)) % 8 = 0
      BY <2>1, PadFacts
    <2>3. (a + b) + p \in Nat
      <3> HIDE DEF p
      <3>1. QED
        BY <1>6, <2>1
    <2>4. QED
      BY <1>4, <2>2, <2>3, PadFacts
  <1>8. (a + b) + p + 16 = a + (b + p + 16)
    <2> HIDE DEF p
    <2>1. QED
      BY <1>1, <1>6
  <1>9. QED
    <2>1. a + b \in Nat
      BY <1>1
    <2>2. QED
      BY <1>2, <1>3, <1>4, <1>5, <1>6, <1>7, <1>8, <2>1

(* The checksum of the frame is read next, after the padding.              *)
LEMMA ChecksumAt ==
  ASSUME Ready, call = "run", flac.state = "in_frame", flac.priv = "finalize",
         flac.chan + 1 >= Len(Frame.subs)
  PROVE  /\ pos \in {SamplesEnd, SamplesEnd + Pad(SamplesEnd)} /\ Pad(pos) \in Nat
         /\ pos + (Pad(pos) + 16) = FrameStart(flac.frame + 1)
         /\ flac.chan + 1 = Len(Frame.subs) \/ flac.chan = Len(Frame.subs)
  <1> DEFINE N == Len(Frame.subs)
             k == flac.frame
             n == Pad(pos) + 16
             e == SamplesEnd
  <1>1. k \in DOMAIN file.frames /\ flac.chan \in Nat
    BY InFinalize
  <1>2. /\ PlainFile(file) /\ FrameOf(flac) = Frame /\ DecoderType(flac) /\ Kept(flac)
        /\ N \in Nat \ {0} /\ pos \in Nat /\ Frame.size \in Nat \ {0}
    BY <1>1, FrameSound
  <1>3. flac.chan \in 0 .. N - 1 \/ flac.chan = N
    BY InFinalize
  <1>4. flac.chan + 1 = N \/ flac.chan = N
    <2> HIDE DEF N
    <2>1. N = Len(Frame.subs)
      BY DEF N
    <2>2. flac.chan + 1 >= N
      BY <2>1
    <2>3. QED
      BY <1>1, <1>2, <1>3, <2>2
  <1>5. /\ e \in Nat /\ Pad(e) \in Nat /\ Pad(e + Pad(e)) = 0
        /\ e + Pad(e) + 16 = FrameStart(k + 1)
    BY <1>1, EndOfSamples
  <1>6. pos \in {e, e + Pad(e)}
    <2>1. CASE flac.chan + 1 = N
      <3>1. ~(flac.chan = N)
        <4> HIDE DEF N
        <4>1. QED
          BY <1>1, <1>2, <2>1
      <3>2. pos = FrameStart(k) + SubStart(Frame, flac.chan + 1)
        BY <3>1, InFinalize
      <3>3. QED
        BY <2>1, <3>2 DEF SamplesEnd
    <2>2. CASE flac.chan = N
      <3>1. ~(flac.chan \in 0 .. N - 1)
        <4> HIDE DEF N
        <4>1. QED
          BY <1>1, <1>2, <2>2
      <3>2. QED
        BY <3>1, InFinalize
    <2>3. QED
      BY <1>4, <2>1, <2>2
  <1>7. pos + n = FrameStart(k + 1) /\ n \in Nat
    <2> HIDE DEF e
    <2>1. CASE pos = e
      <3> DEFINE p == Pad(e)
      <3>1. p \in Nat /\ n = p + 16 /\ e + p + 16 = FrameStart(k + 1) /\ pos = e /\ e \in Nat
        BY <1>5, <2>1
      <3> HIDE DEF p, n
      <3>2. QED
        BY <3>1
    <2>2. CASE pos = e + Pad(e)
      <3> DEFINE p == Pad(e)
      <3>1. p \in Nat /\ n = 0 + 16 /\ e + p + 16 = FrameStart(k + 1) /\ pos = e + p
        BY <1>5, <2>2
      <3> HIDE DEF p, n
      <3>2. QED
        BY <1>5, <3>1
    <2>3. QED
      BY <1>6, <2>1, <2>2
  <1>8. Pad(pos) \in Nat
    <2>1. Pad(pos) \in 0 .. 7
      BY <1>2, PadFacts
    <2>2. QED
      BY <2>1
  <1>9. QED
    BY <1>4, <1>6, <1>7, <1>8

WholeFrame == [NextChannel EXCEPT !.state = "decoded_frame", !.cur = 0, !.chan = 0]

(* The checksum of the frame is there.                                     *)
LEMMA FrameEnds ==
  ASSUME Ready, bufSize' = bufSize, call = "run", flac.state = "in_frame", flac.priv = "finalize",
         flac.chan + 1 >= Len(Frame.subs), CrcFits, NEW d,
         d = (IF Frame.intact
              THEN WholeFrame
              ELSE HandleErr(NextChannel)),
         Take(Pad(pos) + 16, Pad(pos) + 16, d)
  PROVE  DecoderInv' /\ pos' = FrameStart(flac.frame + 1)
  <1> DEFINE N == Len(Frame.subs)
             k == flac.frame
             n == Pad(pos) + 16
             next == NextChannel
  <1>1. k \in DOMAIN file.frames /\ flac.chan \in Nat
    BY InFinalize
  <1>2. /\ PlainFile(file) /\ FrameOf(flac) = Frame /\ DecoderType(flac) /\ Kept(flac)
        /\ N \in Nat \ {0} /\ pos \in Nat /\ Frame.size \in Nat \ {0}
    BY <1>1, FrameSound
  <1>4. flac.chan + 1 = N \/ flac.chan = N
    BY ChecksumAt
  <1>7. pos + n = FrameStart(k + 1) /\ n \in Nat
    BY ChecksumAt
  <1>8. pos + n <= given
    <2>1. pos + Pad(pos) + 16 <= given
      BY DEF CrcFits
    <2>2. Pad(pos) \in Nat
      <3>1. Pad(pos) \in 0 .. 7
        BY <1>2, PadFacts
      <3>2. QED
        BY <3>1
    <2> DEFINE p == Pad(pos)
    <2>3. p \in Nat /\ pos + p + 16 <= given /\ n = p + 16
      BY <2>1, <2>2
    <2> HIDE DEF p, n
    <2>4. QED
      BY <1>2, <2>3
  <1>9. pos' = FrameStart(k + 1)
    <2> HIDE DEF n
    <2>1. Take(n, n, d)
      BY DEF n
    <2>2. QED
      BY <1>7, <1>8, <2>1 DEF Take
  <1>10. /\ DecoderType(next) /\ Kept(next)
         /\ next.state = "in_frame" /\ next.priv = "finalize" /\ next.frame = k
         /\ next.chan = flac.chan + 1 /\ next.wasted = flac.wasted /\ next.cur = flac.cur
         /\ next.order = flac.order
         /\ Shifted(next, N)
    <2>1. /\ flac.chan < N => Shifted(next, next.chan)
          /\ flac.chan = N => Shifted(next, N)
          /\ next.chan = flac.chan + 1
      BY NextChannelShifts
    <2>2. Shifted(next, N)
      <3>1. flac.chan + 1 = N => flac.chan < N
        <4> HIDE DEF N
        <4>1. QED
          BY <1>1, <1>2
      <3>2. QED
        BY <1>4, <2>1, <3>1
    <2>3. QED
      BY <2>2, NextChannelShifts
  <1> HIDE DEF next, n
  <1>11. ValuesAt(flac) = Heard(k - 1)
    BY DEF ValuesAt
  <1>12. FrameOf(next) = Frame
    BY <1>10 DEF FrameOf, Frame
  <1>13. k \in 1 .. Len(file.frames) /\ Len(file.frames) \in Nat
    BY <1>1, <1>2, StartsAdd
  <1>14. CASE Frame.intact
    <2>1. d = [next EXCEPT !.state = "decoded_frame", !.cur = 0, !.chan = 0]
      BY <1>14 DEF next, WholeFrame
    <2>2. /\ DecoderType(d) /\ d.state = "decoded_frame" /\ d.frame = k /\ d.chan = 0 /\ d.cur = 0
          /\ d.wasted = next.wasted /\ d.order = next.order /\ d.shifts = next.shifts
      <3> DEFINE w == [next EXCEPT !.state = "decoded_frame", !.cur = 0, !.chan = 0]
      <3>1. DecoderType(next) /\ next.frame = k
        BY <1>10
      <3>2. /\ DecoderType(w) /\ w.state = "decoded_frame" /\ w.frame = k /\ w.chan = 0 /\ w.cur = 0
            /\ w.wasted = next.wasted /\ w.order = next.order /\ w.shifts = next.shifts
        BY <3>1 DEF DecoderType, DecoderFields
      <3> HIDE DEF w
      <3>3. d = w
        BY <2>1 DEF w
      <3>4. QED
        BY <3>2, <3>3
    <2>3. FrameOf(d) = Frame
      BY <2>2 DEF FrameOf, Frame
    <2>4. Shifted(d, N)
      BY <1>10, <1>12, <2>2, <2>3 DEF Shifted
    <2>5. 0 \in 0 .. N - 1 /\ 0 \in 0 .. Frame.size - 1
      <3> DEFINE s == Frame.size
      <3>1. N \in Nat \ {0} /\ s \in Nat \ {0}
        BY <1>2
      <3> HIDE DEF N, s
      <3>2. 0 \in 0 .. N - 1 /\ 0 \in 0 .. s - 1
        BY <3>1
      <3>3. QED
        BY <3>2 DEF N, s
    <2>6. DecodedAt(d, pos + n)
      BY <1>1, <1>7, <1>14, <2>2, <2>3, <2>4, <2>5 DEF DecodedAt
    <2>7. Kept(d)
      <3>1. 0 \in 0 .. MaxBlockSize
        BY DecoderAssumption
      <3>2. QED
        BY <1>10, <2>2, <3>1 DEF Kept
    <2>8. ValuesAt(d) = Heard(k - 1)
      <3>1. ValuesAt(d) = Heard(k - 1) + 0 * N + 0
        BY <2>2, <2>3 DEF ValuesAt
      <3>2. Heard(k - 1) \in Nat
        <4>1. k - 1 \in 0 .. Len(file.frames)
          BY <1>13
        <4>2. QED
          BY <1>2, <4>1, ValuesAdd
      <3>3. 0 * N = 0
        BY <1>2, ProductType
      <3>4. QED
        BY <3>1, <3>2, <3>3
    <2>9. At(d, pos + n) /\ ~Again(d)
      BY <2>2, <2>6, <2>7 DEF At, Again
    <2>10. Take(n, n, d) /\ n \in 0 .. n
      BY <1>7 DEF n
    <2>11. QED
      BY <1>7, <1>8, <1>9, <1>11, <2>8, <2>9, <2>10, ReadKeeps
  <1>15. CASE ~Frame.intact
    <2>1. d = Go(next, "search_frame", "frame_sync")
      <3>1. d = HandleErr(next)
        BY <1>15 DEF next
      <3>2. QED
        BY <1>10, <3>1 DEF HandleErr
    <2>2. /\ DecoderType(d) /\ d.state = "search_frame" /\ d.priv = "frame_sync" /\ d.frame = k
          /\ d.wasted = next.wasted /\ d.order = next.order /\ d.cur = next.cur
      BY <1>10, <2>1 DEF DecoderType, DecoderFields, Go
    <2>3. SearchAt(d, pos + n)
      <3>1. k \in 0 .. Len(file.frames)
        BY <1>13
      <3>2. QED
        BY <1>7, <2>2, <3>1 DEF SearchAt
    <2>4. Kept(d)
      BY <1>10, <2>2 DEF Kept
    <2>5. ValuesAt(d) = Heard(k - 1)
      <3>1. ValuesAt(d) = Heard(k)
        BY <2>2 DEF ValuesAt
      <3>2. Len(FrameValues(k)) = 0
        BY <1>1, <1>2, <1>15, FrameValuesType DEF Frame
      <3>3. Heard(k) = Heard(k - 1) + Len(FrameValues(k))
        BY <1>2, <1>13, ValuesAdd
      <3>4. Heard(k - 1) \in Nat
        <4>1. k - 1 \in 0 .. Len(file.frames)
          BY <1>13
        <4>2. QED
          BY <1>2, <4>1, ValuesAdd
      <3>5. QED
        BY <3>1, <3>2, <3>3, <3>4
    <2>6. At(d, pos + n) /\ ~Again(d)
      BY <2>2, <2>3, <2>4 DEF At, Again
    <2>7. Take(n, n, d) /\ n \in 0 .. n
      BY <1>7 DEF n
    <2>8. QED
      BY <1>7, <1>8, <1>9, <1>11, <2>5, <2>6, <2>7, ReadKeeps
  <1>16. QED
    BY <1>14, <1>15

LEMMA FinalizeKeeps ==
  ASSUME Ready, bufSize' = bufSize, Finalize
  PROVE  DecoderInv'
  <1> DEFINE N == Len(Frame.subs)
             k == flac.frame
             c == flac.chan
             next == NextChannel
             pad == Pad(pos)
  <1>1. call = "run" /\ flac.state = "in_frame" /\ flac.priv = "finalize"
        /\ UNCHANGED <<file, given, room, out>>
    BY DEF Finalize, In
  <1>2. k \in DOMAIN file.frames /\ c \in Nat
    BY <1>1, InFinalize
  <1>3. /\ PlainFile(file) /\ FrameOf(flac) = Frame /\ DecoderType(flac) /\ Kept(flac)
        /\ N \in Nat \ {0} /\ pos \in Nat /\ FrameStart(k) \in Nat
        /\ \A i \in 0 .. N : SubStart(Frame, i) \in Nat
    BY <1>2, FrameSound
  <1>4. /\ DecoderType(next) /\ Kept(next)
        /\ next.state = "in_frame" /\ next.priv = "finalize" /\ next.frame = k
        /\ next.chan = c + 1 /\ next.wasted = flac.wasted /\ next.cur = flac.cur
        /\ next.order = flac.order
        /\ (c < N => Shifted(next, next.chan))
        /\ (c = N => Shifted(next, N))
        /\ ~(flac.wasted # 0 /\ c \notin Chans)
    BY <1>1, NextChannelShifts
  <1>5. /\ c + 1 < N =>
             flac' = [next EXCEPT !.priv = "subframe_header"] /\ UNCHANGED <<pos, call>>
        /\ ~(c + 1 < N) /\ pos + pad + 16 <= given =>
             /\ pos' = pos + pad + 16
             /\ flac' = IF Frame.intact /\ pos' = FrameStart(k + 1) THEN WholeFrame
                        ELSE HandleErr(next)
             /\ UNCHANGED call
        /\ ~(c + 1 < N) /\ ~(pos + pad + 16 <= given) =>
             /\ pos' = IF pos + pad <= given THEN pos + pad ELSE pos
             /\ flac' = next /\ call' = "return"
    BY <1>4 DEF Finalize, NextChannel, WholeFrame
  <1>6. ValuesAt(flac) = Heard(k - 1)
    BY <1>1 DEF ValuesAt
  <1> HIDE DEF next
  <1>7. FrameOf(next) = Frame
    BY <1>4 DEF FrameOf, Frame
  <1>8. CASE c + 1 < N
    <2> DEFINE d == [next EXCEPT !.priv = "subframe_header"]
    <2>1. c \in 0 .. N - 1 /\ c < N /\ c + 1 \in 0 .. N - 1 /\ ~(c = N)
      <3> HIDE DEF c, N
      <3>1. QED
        BY <1>2, <1>3, <1>8
    <2>2. pos = FrameStart(k) + SubStart(Frame, c + 1) /\ ~Again(flac)
      BY <1>1, <2>1, InFinalize
    <2>3. /\ DecoderType(d) /\ d.state = "in_frame" /\ d.priv = "subframe_header" /\ d.frame = k
          /\ d.chan = c + 1 /\ d.wasted = next.wasted /\ d.cur = next.cur /\ d.order = next.order
          /\ d.shifts = next.shifts
      BY <1>4 DEF DecoderType, DecoderFields
    <2>4. Take(0, 0, d)
      <3>1. flac' = d /\ UNCHANGED <<pos, call>>
        BY <1>5, <1>8
      <3>2. pos + 0 <= given /\ pos' = pos + 0
        BY <1>3, <3>1 DEF Ready, DecoderInv
      <3> HIDE DEF d
      <3>3. QED
        BY <1>1, <3>1, <3>2 DEF Take
    <2> HIDE DEF d
    <2>5. FrameOf(d) = Frame
      BY <2>3 DEF FrameOf, Frame
    <2>6. Shifted(d, c + 1)
      BY <1>4, <1>7, <2>1, <2>3, <2>5 DEF Shifted
    <2>7. pos + 0 = FrameStart(d.frame) + SubStart(FrameOf(d), d.chan)
      BY <1>3, <2>2, <2>3, <2>5
    <2>8. InFrameAt(d, pos + 0)
      BY <1>2, <2>1, <2>3, <2>5, <2>6, <2>7 DEF InFrameAt
    <2>9. Kept(d)
      BY <1>4, <2>3 DEF Kept
    <2>10. At(d, pos + 0) /\ ~Again(d) /\ ValuesAt(d) = ValuesAt(flac)
      BY <1>6, <2>3, <2>8, <2>9 DEF At, Again, ValuesAt
    <2>11. QED
      BY <2>2, <2>4, <2>10, ReadKeeps
  <1>9. ASSUME ~(c + 1 < N)
        PROVE  /\ flac.chan + 1 >= Len(Frame.subs)
               /\ pad \in Nat /\ pos + (pad + 16) = FrameStart(k + 1)
               /\ pos \in {SamplesEnd, SamplesEnd + Pad(SamplesEnd)}
               /\ c + 1 = N \/ c = N
    <2>1. c + 1 >= N
      <3> HIDE DEF c, N
      <3>1. QED
        BY <1>2, <1>3, <1>9
    <2>2. QED
      BY <1>1, <2>1, ChecksumAt
  <1>10. CASE ~(c + 1 < N) /\ pos + pad + 16 <= given
    <2> DEFINE d == IF Frame.intact THEN WholeFrame ELSE HandleErr(NextChannel)
    <2>1. flac.chan + 1 >= Len(Frame.subs) /\ pad \in Nat /\ pos + (pad + 16) = FrameStart(k + 1)
      BY <1>9, <1>10
    <2>2. pos + pad + 16 = pos + (pad + 16)
      <3> HIDE DEF pad
      <3>1. QED
        BY <1>3, <2>1
    <2>3. pos' = pos + (pad + 16) /\ flac' = d /\ UNCHANGED call
      BY <1>5, <1>10, <2>1, <2>2 DEF next
    <2>4. Take(pad + 16, pad + 16, d)
      <3>1. pos + (pad + 16) <= given
        BY <1>10, <2>2
      <3> HIDE DEF d, pad
      <3>2. QED
        BY <1>1, <2>3, <3>1 DEF Take
    <2>5. CrcFits
      BY <1>10 DEF CrcFits
    <2>6. QED
      BY <1>1, <2>1, <2>4, <2>5, FrameEnds
  <1>11. CASE ~(c + 1 < N) /\ ~(pos + pad + 16 <= given)
    <2> DEFINE start == FrameStart(k)
               all == SubStart(Frame, N)
    <2>1. pad \in Nat /\ pos \in {SamplesEnd, SamplesEnd + Pad(SamplesEnd)} /\ (c + 1 = N \/ c = N)
      BY <1>9, <1>11
    <2>2. flac' = next /\ call' = "return" /\ pos' = (IF pos + pad <= given THEN pos + pad ELSE pos)
      BY <1>5, <1>11
    <2>3. given \in Nat /\ given % 8 = 0 /\ given <= 8 * FileBytes /\ pos <= given
          /\ given \div 8 - Taken <= bufSize /\ bufSize \in Nat
          /\ out = First(ValuesAt(flac))
      BY DEF Ready, DecoderInv
    <2>4. pos' \in Nat /\ pos <= pos' /\ pos' <= given
      <3> HIDE DEF pad
      <3>1. QED
        BY <1>3, <2>1, <2>2, <2>3
    <2>5. /\ SamplesEnd \in Nat /\ Pad(SamplesEnd) \in Nat
          /\ Pad(SamplesEnd + Pad(SamplesEnd)) = 0
      BY <1>2, EndOfSamples
    <2>6. pos' \in {SamplesEnd, SamplesEnd + Pad(SamplesEnd)}
      <3>1. CASE pos = SamplesEnd
        BY <2>2, <3>1
      <3>2. CASE pos = SamplesEnd + Pad(SamplesEnd)
        <4>1. pad = 0
          BY <2>5, <3>2
        <4>2. pos' = pos
          <5> HIDE DEF pad
          <5>1. QED
            BY <1>3, <2>2, <4>1
        <4>3. QED
          BY <3>2, <4>2
      <3>3. QED
        BY <2>1, <3>1, <3>2
    <2>7. ~(pos' + Pad(pos') + 16 <= given)
      <3>1. CASE pos' = pos
        BY <1>11, <3>1
      <3>2. CASE pos' # pos
        <4>1. pos' = pos + pad
          BY <2>2, <3>2
        <4>2. (pos + pad) % 8 = 0
          BY <1>3, PadFacts
        <4>3. Pad(pos + pad) = 0
          <5>1. pos + pad \in Nat
            <6> HIDE DEF pad
            <6>1. QED
              BY <1>3, <2>1
          <5>2. QED
            BY <4>2, <5>1, PadFacts
        <4>4. Pad(pos') = 0
          BY <4>1, <4>3
        <4> DEFINE q == Pad(pos')
        <4>5. q = 0
          BY <4>4
        <4> HIDE DEF pad, q
        <4>6. ~(pos' + q + 16 <= given)
          <5>1. ~(pos + pad + 16 <= given)
            BY <1>11
          <5>2. QED
            BY <1>3, <2>1, <2>3, <4>1, <4>5, <5>1
        <4>7. QED
          BY <4>6 DEF q
      <3>3. QED
        BY <3>1, <3>2
    <2>8. c + 1 = N => c < N
      <3> HIDE DEF c, N
      <3>1. QED
        BY <1>2, <1>3
    <2>9. next.wasted = Frame.subs[N].wasted /\ next.chan \in {N, N + 1} /\ Shifted(next, N)
      <3>1. CASE c + 1 = N
        <4>1. c \in 0 .. N - 1 /\ ~(c = N)
          <5> HIDE DEF c, N
          <5>1. QED
            BY <1>2, <1>3, <3>1
        <4>2. flac.wasted = Frame.subs[c + 1].wasted
          BY <1>1, <4>1, InFinalize
        <4>3. QED
          BY <1>4, <2>8, <3>1, <4>2
      <3>2. CASE c = N
        <4>1. ~(c \in 0 .. N - 1)
          <5> HIDE DEF c, N
          <5>1. QED
            BY <1>3, <3>2
        <4>2. flac.wasted = Frame.subs[N].wasted
          BY <1>1, <3>2, <4>1, InFinalize
        <4>3. QED
          BY <1>4, <3>2, <4>2
      <3>3. QED
        BY <2>1, <3>1, <3>2
    <2>10. pos' - start \in {all, all + Pad(all)}
      <3>1. all \in Nat /\ start \in Nat
        <4>1. N \in 0 .. N
          BY <1>3
        <4>2. QED
          BY <1>3, <4>1
      <3>2. start % 8 = 0
        <4>1. k \in 1 .. Len(file.frames) + 1
          BY <1>2, <1>3, StartsAdd
        <4>2. QED
          BY <1>3, <4>1, StartsAdd
      <3>3. Pad(start + all) = Pad(all) /\ SamplesEnd = start + all
        <4>1. Pad(start + all) = Pad(all)
          <5> HIDE DEF start, all
          <5>1. QED
            BY <3>1, <3>2, PadFacts
        <4>2. QED
          BY <4>1 DEF SamplesEnd
      <3> DEFINE p == Pad(all)
      <3>4. p \in Nat /\ pos' \in {start + all, (start + all) + p}
        BY <2>5, <2>6, <3>3
      <3> HIDE DEF start, all, p
      <3>5. pos' - start \in {all, all + p}
        <4>1. CASE pos' = start + all
          BY <3>1, <4>1
        <4>2. CASE pos' = (start + all) + p
          BY <3>1, <3>4, <4>2
        <4>3. QED
          BY <3>4, <4>1, <4>2
      <3>6. QED
        BY <3>5 DEF p
    <2>11. AgainAt(next, pos' - start)
      BY <1>2, <1>4, <1>7, <2>9, <2>10 DEF AgainAt
    <2>12. At(next, pos') /\ ValuesAt(next) = Heard(k - 1)
      <3>1. InFrameAt(next, pos')
        BY <1>4, <2>11 DEF InFrameAt
      <3>2. QED
        BY <1>4, <3>1 DEF At, ValuesAt
    <2>13. At(flac, pos)'
      BY <1>1, <2>2, <2>12, AtKept
    <2>14. out' = First(ValuesAt(flac))'
      <3>1. ValuesAt(flac)' = ValuesAt(flac)
        BY <1>1, <1>6, <2>2, <2>12, AtKept
      <3>2. QED
        BY <1>1, <2>3, <3>1, FirstKept
    <2>15. given' \div 8 - Taken' <= bufSize'
      BY <1>1, <1>3, <2>3, <2>4, TakenGrows
    <2>16. given' \in Nat /\ given' % 8 = 0 /\ given' <= 8 * FileBytes' /\ pos' \in 0 .. given'
      BY <1>1, <2>3, <2>4, FileKept
    <2>17. LET cc == Len(FrameOf(flac).subs)' IN
           \/ flac'.chan = cc /\ call' = "return" /\ ~CrcFits'
           \/ flac'.chan = cc + 1 /\ call' = "return" /\ AllGiven' /\ ~CrcFits'
      <3>1. Len(FrameOf(flac).subs)' = N
        BY <1>1, <1>7, <2>2 DEF FrameOf
      <3>2. ~CrcFits'
        BY <1>1, <2>7 DEF CrcFits
      <3>3. flac'.chan = c + 1
        BY <1>4, <2>2
      <3>4. c = N => AllGiven'
        <4>1. SUFFICES ASSUME c = N PROVE AllGiven'
          OBVIOUS
        <4>2. ~(c \in 0 .. N - 1)
          <5> HIDE DEF c, N
          <5>1. QED
            BY <1>3, <4>1
        <4>3. CrcFits \/ AllGiven
          BY <1>1, <4>2, InFinalize
        <4>4. AllGiven
          BY <1>11, <4>3 DEF CrcFits
        <4>5. QED
          BY <1>1, <4>4, FileKept DEF AllGiven
      <3>5. QED
        BY <2>1, <2>2, <3>1, <3>2, <3>3, <3>4
    <2>18. QED
      BY <2>13, <2>14, <2>15, <2>16, <2>17 DEF DecoderInv
  <1>12. QED
    BY <1>8, <1>10, <1>11

-----------------------------------------------------------------------------
(* Output                                                                  *)

(* The cursor in samples and channels, and the number of values before it. *)
LEMMA CursorBefore ==
  ASSUME NEW s \in Nat \ {0}, NEW c \in Nat \ {0}, NEW i \in 0 .. s - 1, NEW j \in 0 .. c - 1
  PROVE  i * c + j \in Nat /\ i * c + j < s * c /\ s * c \in Nat
  <1> DEFINE m == i * c
             t == s * c
             u == (s - 1) * c
  <1>1. i \in Nat /\ s - 1 \in Nat /\ i <= s - 1 /\ j \in Nat /\ j < c /\ c \in Nat
    OBVIOUS
  <1>2. m \in Nat /\ u \in Nat /\ m <= u /\ ((s - 1) + 1) * c = u + c
    BY <1>1, ProductType, ProductGrows
  <1>3. t = u + c
    <2>1. (s - 1) + 1 = s
      OBVIOUS
    <2>2. QED
      BY <1>2, <2>1
  <1> HIDE DEF m, t, u
  <1>4. m + j \in Nat /\ m + j < t /\ t \in Nat
    BY <1>1, <1>2, <1>3
  <1>5. QED
    BY <1>4 DEF m, t

LEMMA CursorAfter ==
  ASSUME NEW s \in Nat \ {0}, NEW c \in Nat \ {0}, NEW j \in Nat
  PROVE  /\ j \div c \in Nat /\ j % c \in 0 .. c - 1
         /\ (j \div c) * c + (j % c) = j
         /\ j <= s * c => j \div c <= s
         /\ j < s * c => j \div c \in 0 .. s - 1
  <1> DEFINE q == j \div c
             r == j % c
  <1>1. q \in Nat /\ j = c * q + r /\ r \in 0 .. c - 1
    BY Quotient
  <1>2. r \in Nat
    <2> HIDE DEF r
    <2>1. QED
      BY <1>1
  <1> HIDE DEF q, r
  <1> DEFINE m == q * c
             t == s * c
  <1>3. m \in Nat /\ c * q = m /\ t \in Nat
    BY <1>1, ProductType
  <1>4. j = m + r
    BY <1>1, <1>3
  <1>5. ASSUME q >= s + 1 PROVE m >= t + c
    <2>1. (s + 1) * c <= q * c /\ (s + 1) * c = s * c + c
      BY <1>1, <1>5, ProductGrows, ProductType
    <2>2. QED
      BY <2>1
  <1>6. ASSUME q >= s PROVE m >= t
    BY <1>1, <1>6, ProductGrows
  <1> HIDE DEF m, t
  <1>7. j <= t => q <= s
    BY <1>1, <1>2, <1>3, <1>4, <1>5
  <1>8. j < t => q \in 0 .. s - 1
    BY <1>1, <1>2, <1>3, <1>4, <1>6
  <1>9. m + r = j
    BY <1>4
  <1>10. QED
    <2>1. (j \div c) * c + (j % c) = j
      BY <1>9 DEF m, q, r
    <2>2. (j <= s * c => q <= s) /\ (j < s * c => q \in 0 .. s - 1)
      BY <1>7, <1>8 DEF t
    <2>3. QED
      BY <1>1, <2>1, <2>2 DEF q, r

LEMMA InDecoded ==
  ASSUME Ready, flac.state = "decoded_frame"
  PROVE  /\ flac.frame \in DOMAIN file.frames /\ pos = FrameStart(flac.frame + 1)
         /\ Frame.intact
         /\ flac.chan \in 0 .. Len(Frame.subs) - 1 /\ flac.cur \in 0 .. Frame.size - 1
         /\ Shifted(flac, Len(Frame.subs))
         /\ out = First(Heard(flac.frame - 1) + flac.cur * Len(Frame.subs) + flac.chan)
  <1>1. DecodedAt(flac, pos)
    BY ReadyFacts, ByState
  <1>2. flac.frame \in DOMAIN file.frames
    BY <1>1 DEF DecodedAt
  <1>3. FrameOf(flac) = Frame
    BY <1>2, FrameSound
  <1>4. ValuesAt(flac) = Heard(flac.frame - 1) + flac.cur * Len(Frame.subs) + flac.chan
    BY <1>3 DEF ValuesAt
  <1>5. out = First(ValuesAt(flac))
    BY DEF Ready, DecoderInv
  <1>6. QED
    BY <1>1, <1>3, <1>4, <1>5 DEF DecodedAt

LEMMA Places ==
  ASSUME NEW a \in Nat, NEW from \in Nat, NEW n \in Nat, NEW all \in Nat, from + n <= all,
         NEW i \in 1 .. n
  PROVE  from + i - 1 \in 0 .. all - 1 /\ a + ((from + i - 1) + 1) = (a + from) + i
  OBVIOUS

(* The values of a frame that are given to the caller.                     *)
LEMMA ValuesGiven ==
  ASSUME Ready, flac.state = "decoded_frame",
         NEW from \in Nat, from = flac.cur * Len(Frame.subs) + flac.chan,
         NEW n \in Nat, from + n <= Frame.size * Len(Frame.subs)
  PROVE  LET cc == Len(Frame.subs)
             some == [i \in 1 .. n |->
                        LET j == from + i - 1
                        IN Value(flac.frame, j \div cc, j % cc, flac.shifts[j % cc])]
         IN out \o some = First(Heard(flac.frame - 1) + (from + n))
  <1> DEFINE cc == Len(Frame.subs)
             k == flac.frame
             all == Frame.size * cc
             a == Heard(k - 1)
             h == a + from
             V(j) == Value(k, j \div cc, j % cc, flac.shifts[j % cc])
             some == [i \in 1 .. n |-> V(from + i - 1)]
  <1>1. /\ k \in DOMAIN file.frames /\ Frame.intact /\ Shifted(flac, cc)
        /\ out = First(a + flac.cur * cc + flac.chan)
        /\ flac.chan \in 0 .. cc - 1 /\ flac.cur \in 0 .. Frame.size - 1
    BY InDecoded
  <1>2. /\ PlainFile(file) /\ FrameOf(flac) = Frame /\ cc \in Nat \ {0} /\ Frame.size \in Nat \ {0}
    BY <1>1, FrameSound
  <1>3. k \in 1 .. Len(file.frames) /\ Len(file.frames) \in Nat
    BY <1>1, <1>2, StartsAdd
  <1>4. /\ a \in Nat /\ Heard(k) = a + Len(FrameValues(k)) /\ Heard(k) \in Nat
        /\ Heard(k) <= Heard(Len(file.frames)) /\ Heard(Len(file.frames)) \in Nat
        /\ \A i \in 1 .. Len(FrameValues(k)) : Values[a + i] = FrameValues(k)[i]
    <2>1. k - 1 \in 0 .. Len(file.frames) /\ k \in 0 .. Len(file.frames)
          /\ Len(file.frames) \in 0 .. Len(file.frames)
      <3> DEFINE N == Len(file.frames)
      <3>1. k \in 1 .. N /\ N \in Nat
        BY <1>3
      <3> HIDE DEF N
      <3>2. k - 1 \in 0 .. N /\ k \in 0 .. N /\ N \in 0 .. N
        BY <3>1
      <3>3. QED
        BY <3>2 DEF N
    <2>2. QED
      BY <1>2, <1>3, <2>1, ValuesAdd
  <1>5. /\ Len(FrameValues(k)) = all /\ all \in Nat
        /\ \A j \in 0 .. all - 1 :
             FrameValues(k)[j + 1] = Value(k, j \div cc, j % cc, ShiftsOf(Frame.subs[(j % cc) + 1]))
    <2>1. file.frames[k] = Frame
      BY DEF Frame
    <2>2. ASSUME NEW f, f = file.frames[k], f.intact
          PROVE  /\ Len(FrameValues(k)) = f.size * Len(f.subs) /\ f.size * Len(f.subs) \in Nat
                 /\ \A j \in 0 .. f.size * Len(f.subs) - 1 :
                      FrameValues(k)[j + 1] =
                        Value(k, j \div Len(f.subs), j % Len(f.subs),
                              ShiftsOf(f.subs[(j % Len(f.subs)) + 1]))
      BY <1>1, <1>2, <2>2, FrameValuesType
    <2>3. QED
      BY <1>1, <2>1, <2>2
  <1>6. \A c \in 0 .. cc - 1 : flac.shifts[c] = ShiftsOf(Frame.subs[c + 1])
    BY <1>1, <1>2 DEF Shifted
  <1>7. ASSUME NEW j \in 0 .. all - 1 PROVE Values[a + (j + 1)] = V(j)
    <2>1. j \in Nat /\ j + 1 \in 1 .. all
      <3> HIDE DEF all
      <3>1. QED
        BY <1>5
    <2>2. j % cc \in 0 .. cc - 1
      <3> HIDE DEF cc
      <3>1. QED
        BY <1>2, <2>1, Quotient
    <2>3. Values[a + (j + 1)] = FrameValues(k)[j + 1]
      BY <1>4, <1>5, <2>1
    <2> DEFINE r == j % cc
               q == j \div cc
    <2>4. FrameValues(k)[j + 1] = Value(k, q, r, ShiftsOf(Frame.subs[r + 1]))
      BY <1>5
    <2>5. r \in 0 .. cc - 1
      BY <2>2
    <2> HIDE DEF r, q, cc
    <2>6. flac.shifts[r] = ShiftsOf(Frame.subs[r + 1])
      BY <1>6, <2>5
    <2>7. Values[a + (j + 1)] = Value(k, q, r, flac.shifts[r])
      BY <2>3, <2>4, <2>6
    <2>8. QED
      BY <2>7 DEF r, q
  <1>8. out = First(h)
    <2> DEFINE m == flac.cur * cc
    <2>1. m \in Nat /\ flac.chan \in Nat
      <3>1. flac.cur \in Nat /\ flac.chan \in Nat /\ cc \in Nat
        BY <1>2, FrameSound, <1>1 DEF DecoderType
      <3> HIDE DEF cc
      <3>2. QED
        BY <3>1, ProductType
    <2>2. from = m + flac.chan /\ out = First(a + m + flac.chan)
      BY <1>1
    <2> HIDE DEF m, a
    <2>3. a + m + flac.chan = a + from
      BY <1>4, <2>1, <2>2
    <2>4. QED
      BY <2>2, <2>3
  <1>14. from + n <= all /\ all \in Nat
    BY <1>5
  <1> HIDE DEF V, all, a, k, cc
  <1>13. a \in Nat
    BY <1>4
  <1>9. h \in Nat /\ a + (from + n) = h + n
    BY <1>13
  <1>10. \A i \in 1 .. n : Values[h + i] = V(from + i - 1)
    <2> SUFFICES ASSUME NEW i \in 1 .. n PROVE Values[h + i] = V(from + i - 1)
      OBVIOUS
    <2> DEFINE j == from + i - 1
    <2>1. j \in 0 .. all - 1 /\ a + (j + 1) = h + i
      BY <1>13, <1>14, Places
    <2> HIDE DEF j
    <2>2. Values[a + (j + 1)] = V(j)
      BY <1>7, <2>1
    <2>3. QED
      BY <2>1, <2>2 DEF j
  <1> HIDE DEF h
  <1>11. First(h) \o some = First(h + n)
    <2>1. First(h) = [i \in 1 .. h |-> Values[i]] /\ First(h + n) = [i \in 1 .. h + n |-> Values[i]]
      BY DEF First
    <2> DEFINE S == {Values[i] : i \in 1 .. h} \cup {V(from + i - 1) : i \in 1 .. n}
    <2>2. First(h) \in [1 .. h -> S] /\ some \in [1 .. n -> S]
      BY <2>1
    <2> HIDE DEF S, some
    <2>6. /\ First(h) \in Seq(S) /\ some \in Seq(S)
          /\ Len(First(h)) = h /\ Len(some) = n
      BY <1>9, <2>2
    <2>3. /\ First(h) \o some \in Seq(S) /\ Len(First(h) \o some) = h + n
          /\ \A i \in 1 .. h + n :
               (First(h) \o some)[i] = IF i <= h THEN First(h)[i] ELSE some[i - h]
      BY <1>9, <2>6, ConcatProperties
    <2> USE DEF some
    <2>4. \A i \in 1 .. h + n : (IF i <= h THEN First(h)[i] ELSE some[i - h]) = Values[i]
      <3> SUFFICES ASSUME NEW i \in 1 .. h + n
                   PROVE  (IF i <= h THEN First(h)[i] ELSE some[i - h]) = Values[i]
        OBVIOUS
      <3>1. CASE i <= h
        BY <1>9, <2>1, <3>1
      <3>2. CASE ~(i <= h)
        <4>1. PICK e \in 1 .. n : i = h + e /\ i - h = e
          BY <1>9, <3>2
        <4>2. some[e] = V(from + e - 1)
          BY <4>1
        <4>3. QED
          BY <1>10, <3>2, <4>1, <4>2
      <3>3. QED
        BY <3>1, <3>2
    <2>5. QED
      <3> DEFINE w == First(h) \o some
      <3>1. w \in Seq(S) /\ Len(w) = h + n /\ \A i \in 1 .. h + n : w[i] = Values[i]
        BY <2>3, <2>4
      <3> HIDE DEF w
      <3>2. w = [i \in 1 .. h + n |-> Values[i]]
        BY <3>1
      <3>3. QED
        BY <2>1, <3>2 DEF w
  <1>12. QED
    BY <1>8, <1>9, <1>11 DEF V, a, k, cc

(* A step that reads nothing.                                              *)
LEMMA StaysKeeps ==
  ASSUME Ready, bufSize' = bufSize, file' = file, given' = given, pos' = pos,
         NEW d, flac' = d, At(d, pos), ~Again(d), out' = First(ValuesAt(d))
  PROVE  DecoderInv'
  <1>1. At(flac, pos)' /\ ~Again(flac)'
    BY AtKept
  <1>2. out' = First(ValuesAt(flac))'
    <2>1. ValuesAt(flac)' = ValuesAt(d)
      BY AtKept
    <2>2. QED
      BY <2>1, FirstKept
  <1>3. /\ given \in Nat /\ given % 8 = 0 /\ given <= 8 * FileBytes /\ pos \in 0 .. given
        /\ given \div 8 - Taken <= bufSize
    BY DEF Ready, DecoderInv
  <1>4. Taken' = Taken
    BY DEF Taken
  <1>5. QED
    BY <1>1, <1>2, <1>3, <1>4, FileKept DEF DecoderInv

LEMMA DecodedFrameKeeps ==
  ASSUME Ready, bufSize' = bufSize, room \in Nat, DecodedFrame
  PROVE  DecoderInv' /\ room' \in 0 .. room
  <1> DEFINE cc == Len(Frame.subs)
             k == flac.frame
             all == Frame.size * cc
             from == flac.cur * cc + flac.chan
             n == Min({all - from, room})
             at == Cursor(from + n, cc)
             ends == from + n = all
             d == [flac EXCEPT !.cur = at.cur, !.chan = at.chan,
                               !.state = IF ends THEN "end_of_frame" ELSE @]
             some == [i \in 1 .. n |->
                        LET j == from + i - 1
                        IN Value(flac.frame, j \div cc, j % cc, flac.shifts[j % cc])]
  <1>1. /\ flac.state = "decoded_frame" /\ out' = out \o some /\ room' = room - n
        /\ flac' = d /\ file' = file /\ given' = given /\ pos' = pos
    BY DEF DecodedFrame
  <1>2. /\ k \in DOMAIN file.frames /\ pos = FrameStart(k + 1) /\ Frame.intact
        /\ flac.chan \in 0 .. cc - 1 /\ flac.cur \in 0 .. Frame.size - 1
        /\ Shifted(flac, cc)
    BY <1>1, InDecoded
  <1>3. /\ PlainFile(file) /\ FrameOf(flac) = Frame /\ DecoderType(flac) /\ Kept(flac)
        /\ cc \in Nat \ {0} /\ Frame.size \in Nat \ {0} /\ Frame.size <= MaxBlockSize
        /\ MaxBlockSize \in Nat
    BY <1>2, FrameSound
  <1>4. from \in Nat /\ from < all /\ all \in Nat
    <2> DEFINE s == Frame.size
    <2>1. s \in Nat \ {0} /\ cc \in Nat \ {0} /\ flac.cur \in 0 .. s - 1
            /\ flac.chan \in 0 .. cc - 1
      BY <1>2, <1>3
    <2> HIDE DEF s, cc
    <2>2. flac.cur * cc + flac.chan \in Nat /\ flac.cur * cc + flac.chan < s * cc /\ s * cc \in Nat
      BY <2>1, CursorBefore
    <2>3. QED
      BY <2>2 DEF s
  <1> HIDE DEF all, from
  <1>5. n = (IF all - from <= room THEN all - from ELSE room)
    <2>1. all - from \in Int /\ room \in Int
      BY <1>4
    <2>2. QED
      BY <2>1, Lesser
  <1> HIDE DEF n
  <1>6. n \in Nat /\ from + n \in Nat /\ from + n <= all /\ n <= room
    BY <1>4, <1>5
  <1>7. room' \in 0 .. room
    BY <1>1, <1>6
  <1>8. out' = First(Heard(k - 1) + (from + n))
    <2>1. from = flac.cur * Len(Frame.subs) + flac.chan
          /\ from + n <= Frame.size * Len(Frame.subs)
      BY <1>6 DEF from, all
    <2>2. out \o some = First(Heard(k - 1) + (from + n))
      BY <1>1, <1>4, <1>6, <2>1, ValuesGiven
    <2>3. QED
      BY <1>1, <2>2
  <1>9. /\ at.cur \in Nat /\ at.chan \in 0 .. cc - 1 /\ at.cur * cc + at.chan = from + n
        /\ at.cur <= Frame.size /\ (from + n < all => at.cur \in 0 .. Frame.size - 1)
    <2> DEFINE j == from + n
               s == Frame.size
    <2>1. j \in Nat /\ s \in Nat \ {0} /\ cc \in Nat \ {0} /\ j <= s * cc
      BY <1>3, <1>6 DEF all
    <2> HIDE DEF j, s, cc
    <2>2. /\ j \div cc \in Nat /\ j % cc \in 0 .. cc - 1
          /\ (j \div cc) * cc + (j % cc) = j
          /\ j \div cc <= s
          /\ j < s * cc => j \div cc \in 0 .. s - 1
      BY <2>1, CursorAfter
    <2>3. Cursor(j, cc).cur = j \div cc /\ Cursor(j, cc).chan = j % cc
      BY DEF Cursor
    <2> DEFINE b == Cursor(j, cc)
    <2>4. /\ b.cur \in Nat /\ b.chan \in 0 .. cc - 1 /\ b.cur * cc + b.chan = j
          /\ b.cur <= s /\ (j < s * cc => b.cur \in 0 .. s - 1)
      BY <2>2, <2>3
    <2> HIDE DEF b
    <2>5. b = at
      BY DEF b, j
    <2>6. QED
      BY <2>4, <2>5 DEF j, s, all, cc
  <1> HIDE DEF at, ends
  <1>10. at.chan \in Nat
    <2> HIDE DEF cc
    <2>1. QED
      BY <1>3, <1>9
  <1>11. /\ DecoderType(d) /\ d.frame = k /\ d.cur = at.cur /\ d.chan = at.chan
         /\ d.state = (IF ends THEN "end_of_frame" ELSE "decoded_frame")
         /\ d.wasted = flac.wasted /\ d.order = flac.order /\ d.shifts = flac.shifts
    <2>1. DecoderType(flac) /\ at.cur \in Nat /\ at.chan \in Nat /\ flac.state = "decoded_frame"
      BY <1>1, <1>3, <1>9, <1>10
    <2>2. QED
      BY <2>1 DEF DecoderType, DecoderFields
  <1> HIDE DEF d
  <1>12. FrameOf(d) = Frame
    BY <1>11 DEF FrameOf, Frame
  <1>13. Kept(d)
    <2>1. at.cur \in 0 .. MaxBlockSize
      BY <1>3, <1>9
    <2>2. QED
      BY <1>3, <1>11, <2>1 DEF Kept
  <1>14. Shifted(d, cc)
    BY <1>2, <1>3, <1>11, <1>12 DEF Shifted
  <1>15. ~ends => from + n < all
    BY <1>4, <1>6 DEF ends
  <1>16. DecodedAt(d, pos)
    <2>1. CASE ends
      BY <1>2, <1>11, <2>1 DEF DecodedAt
    <2>2. CASE ~ends
      BY <1>2, <1>9, <1>11, <1>12, <1>14, <1>15, <2>2 DEF DecodedAt
    <2>3. QED
      BY <2>1, <2>2
  <1>17. At(d, pos) /\ ~Again(d)
    BY <1>11, <1>13, <1>16 DEF At, Again
  <1>18. ValuesAt(d) = Heard(k - 1) + (from + n)
    <2>1. k \in 1 .. Len(file.frames) /\ Len(file.frames) \in Nat
      BY <1>2, <1>3, StartsAdd
    <2>2. Heard(k - 1) \in Nat
      <3>1. k - 1 \in 0 .. Len(file.frames)
        BY <2>1
      <3>2. QED
        BY <1>3, <3>1, ValuesAdd
    <2>3. CASE ends
      <3>1. ValuesAt(d) = Heard(k)
        BY <1>11, <2>3 DEF ValuesAt
      <3>2. Len(FrameValues(k)) = all
        <4>1. file.frames[k] = Frame
          BY DEF Frame
        <4>2. ASSUME NEW f, f = file.frames[k], f.intact
              PROVE  Len(FrameValues(k)) = f.size * Len(f.subs)
          BY <1>2, <1>3, <4>2, FrameValuesType
        <4>3. QED
          BY <1>2, <4>1, <4>2 DEF all
      <3>3. Heard(k) = Heard(k - 1) + Len(FrameValues(k))
        BY <1>3, <2>1, ValuesAdd
      <3>4. QED
        BY <2>3, <3>1, <3>2, <3>3 DEF ends
    <2>4. CASE ~ends
      <3> DEFINE h == Heard(k - 1)
                 m == at.cur * cc
      <3>1. ValuesAt(d) = h + m + at.chan
        BY <1>11, <1>12, <2>4 DEF ValuesAt
      <3>2. m \in Nat
        <4> HIDE DEF cc
        <4>1. QED
          BY <1>3, <1>9, ProductType
      <3>3. m + at.chan = from + n /\ h \in Nat
        BY <1>9, <2>2
      <3> HIDE DEF h, m
      <3>4. h + m + at.chan = h + (from + n)
        BY <1>6, <1>10, <3>2, <3>3
      <3>5. QED
        BY <3>1, <3>4 DEF h
    <2>5. QED
      BY <2>3, <2>4
  <1>19. QED
    BY <1>1, <1>7, <1>8, <1>17, <1>18, StaysKeeps

LEMMA EndOfMetadataKeeps ==
  ASSUME Ready, bufSize' = bufSize, EndOfMetadata
  PROVE  DecoderInv'
  <1>1. flac.state = "end_of_metadata" /\ UNCHANGED <<file, given, pos, flac, room, out>>
    BY DEF EndOfMetadata
  <1>2. At(flac, pos) /\ ~Again(flac) /\ out' = First(ValuesAt(flac))
    BY <1>1 DEF Ready, DecoderInv, Again
  <1>3. QED
    BY <1>1, <1>2, StaysKeeps

LEMMA InFrameKeeps ==
  ASSUME Ready, bufSize' = bufSize, InFrame
  PROVE  DecoderInv'
  BY SubframeHeaderKeeps, ConstantKeeps, WarmUpKeeps, LpcHeaderKeeps, LpcCoeffsKeeps, ResidualKeeps,
     RiceInitKeeps, RiceUnaryKeeps, RiceKeeps, RiceVerbatimKeeps, RiceFinalizeKeeps, FinalizeKeeps
  DEF InFrame

LEMMA DecodeKeeps ==
  ASSUME Ready, bufSize' = bufSize, room \in Nat, Decode
  PROVE  DecoderInv'
  <1>1. CASE SyncStream
    BY <1>1, SyncStreamKeeps
  <1>2. CASE Metadata
    BY <1>2, MetadataHeaderKeeps, MetadataSInfoKeeps, MetadataSkipKeeps DEF Metadata
  <1>3. CASE SearchFrame
    BY <1>3, FrameSyncKeeps, FrameHeaderKeeps, SyncInfoKeeps, AuxKeeps, HeaderCrcKeeps
    DEF SearchFrame
  <1>4. CASE InFrame
    BY <1>4, InFrameKeeps
  <1>5. CASE DecodedFrame
    BY <1>5, DecodedFrameKeeps
  <1>6. CASE EndOfMetadata
    BY <1>6, EndOfMetadataKeeps
  <1>7. QED
    BY <1>1, <1>2, <1>3, <1>4, <1>5, <1>6 DEF Decode

(* What a turn of the decoder leaves alone.                                *)
LEMMA DecodeLeaves ==
  ASSUME Ready, room \in Nat, bufSize' = bufSize, Decode
  PROVE  file' = file /\ given' = given /\ call' \in {"run", "return"} /\ room' \in 0 .. room
  <1> DEFINE Left == file' = file /\ given' = given /\ call' \in {"run", "return"} /\ room' = room
  <1>1. call \in {"run", "return"}
    BY DEF Ready
  <1>2. \A need, n, d : Take(need, n, d) => Left
    BY <1>1 DEF Take
  <1> HIDE DEF Left
  <1>3. SyncStream => Left
    BY <1>2 DEF SyncStream, Read
  <1>4. Metadata => Left
    BY <1>2 DEF Metadata, MetadataHeader, MetadataSInfo, MetadataSkip, Read, Turn
  <1>5. SearchFrame => Left
    BY <1>2 DEF SearchFrame, FrameSync, FrameHeader, SyncInfo, Aux, HeaderCrc, Read
  <1>6. InFrame => Left
    <2>1. SubframeHeader \/ Constant \/ (\E type \in {"verbatim", "fixed", "lpc"} : WarmUp(type))
            => Left
      BY <1>2 DEF SubframeHeader, Constant, WarmUp, Read, Turn
    <2>2. LpcHeader \/ LpcCoeffs \/ Residual \/ RiceInit => Left
      BY <1>2 DEF LpcHeader, LpcCoeffs, Residual, RiceInit, Read, Turn
    <2>3. RiceUnary \/ Rice \/ RiceVerbatim \/ RiceFinalize => Left
      BY <1>2 DEF RiceUnary, Rice, RiceVerbatim, RiceFinalize, Read, Turn
    <2>4. Finalize => Left
      BY <1>1 DEF Finalize, Left
    <2>5. QED
      BY <2>1, <2>2, <2>3, <2>4 DEF InFrame
  <1>7. EndOfMetadata => Left
    BY DEF EndOfMetadata, Left
  <1>8. Left => file' = file /\ given' = given /\ call' \in {"run", "return"} /\ room' \in 0 .. room
    BY DEF Left
  <1>9. DecodedFrame =>
          file' = file /\ given' = given /\ call' \in {"run", "return"} /\ room' \in 0 .. room
    <2>1. DecodedFrame => file' = file /\ given' = given /\ call' = "return"
      BY DEF DecodedFrame
    <2>2. QED
      BY <2>1, DecodedFrameKeeps
  <1>10. QED
    BY <1>3, <1>4, <1>5, <1>6, <1>7, <1>8, <1>9 DEF Decode

-----------------------------------------------------------------------------
(* Loads                                                                   *)

BufType == [avail : Nat \cup {Unset}, used : Nat \cup {Unset}, written : Nat]

(* A load of a FLAC file.                                                  *)
FlacInv ==
  /\ DecoderInv
  /\ phase \in {"idle", "header", "flac_read", "flac", "done"}
  /\ phase = "header" => given = 0 /\ pos = 0 /\ flac = FlacReset /\ out = <<>>
  /\ phase # "flac" => call = "return"

(* A load of another one: the decoder is at rest.                          *)
OtherInv ==
  /\ given = 0 /\ pos = 0 /\ flac = FlacReset /\ call = "return"
  /\ phase \in {"idle", "header", "fmt", "data", "samples", "ogg", "rfx", "done"}
  /\ phase \in {"fmt", "data", "samples"} => file.kind = "wav"
  /\ phase \in {"ogg", "rfx"} => file.kind = phase
  /\ phase = "samples" => chunk - 1 \in DOMAIN file.chunks

LoadInv ==
  /\ file \in Files /\ bufSize \in BufSizes
  /\ room \in 0 .. OutLen /\ call \in {"run", "return"}
  /\ buf \in BufType /\ chunk \in Nat \ {0}
  /\ file.kind = "flac" => PlainFile(file) /\ FlacInv
  /\ file.kind # "flac" => OtherInv

LEMMA LoadConstants ==
  ASSUME LoadInv
  PROVE  /\ bufSize \in Nat /\ bufSize >= HeaderLen /\ HeaderLen = 20
         /\ OutLen \in Nat \ {0} /\ room \in Nat /\ Unset \notin Nat
         /\ SoundLoad(file)
         /\ file.kind = "flac" => Ready
  <1>1. file \in Files /\ bufSize \in BufSizes /\ OutLen \in Nat \ {0} /\ room \in 0 .. OutLen
        /\ (file.kind = "flac" => PlainFile(file) /\ FlacInv) /\ call \in {"run", "return"}
    BY LoadAssumption DEF LoadInv
  <1>2. bufSize \in Nat /\ bufSize >= HeaderLen /\ HeaderLen = 20 /\ SoundLoad(file)
        /\ Unset \notin Nat
    BY <1>1, LoadAssumption DEF HeaderLen
  <1>3. room \in Nat
    BY <1>1
  <1>4. file.kind = "flac" => Ready
    BY <1>1, <1>2 DEF Ready, FlacInv
  <1>5. QED
    BY <1>1, <1>2, <1>3, <1>4

(* A decoder that was reset.                                               *)
LEMMA ResetSound ==
  ASSUME PlainFile(file)
  PROVE  At(FlacReset, 0) /\ ~Again(FlacReset) /\ First(ValuesAt(FlacReset)) = <<>>
  <1> DEFINE d == FlacReset
  <1>1. DecoderType(d)
    <2>1. [c \in Chans |-> 0] \in [Chans -> Nat]
      OBVIOUS
    <2>2. QED
      BY <2>1 DEF FlacReset, DecoderType, DecoderFields
  <1>2. /\ d.state = "init" /\ d.priv = "sync_init" /\ d.block = 1 /\ d.frame = 0 /\ d.wasted = 0
        /\ d.cur = 0 /\ d.order = 0
    BY DEF FlacReset
  <1> HIDE DEF d
  <1>3. Kept(d)
    <2>1. file.bits \in 1 .. 31 /\ MaxBlockSize \in Nat
      BY DecoderAssumption DEF PlainFile, SoundFile
    <2>2. \A k \in DOMAIN file.frames : 0 <= file.frames[k].size
      <3>1. ASSUME NEW k \in DOMAIN file.frames PROVE 0 <= file.frames[k].size
        <4>1. file.frames[k].size \in 1 .. MaxBlockSize
          BY DEF PlainFile, SoundFile, SoundFrame
        <4>2. QED
          BY <2>1, <4>1
      <3>2. QED
        BY <3>1
    <2>3. QED
      BY <1>2, <2>1, <2>2 DEF Kept
  <1>4. MetaAt(d, 0) /\ ~Again(d)
    BY <1>2 DEF MetaAt, Again
  <1>5. ValuesAt(d) = 0
    <2>1. ValuesAt(d) = Heard(0)
      BY <1>2 DEF ValuesAt
    <2>2. Heard(0) = 0
      BY ValuesAdd
    <2>3. QED
      BY <2>1, <2>2
  <1>6. First(0) = <<>>
    BY DEF First
  <1>7. QED
    BY <1>1, <1>3, <1>4, <1>5, <1>6 DEF At, d

(* The file has the header.                                                *)
LEMMA FileLonger ==
  ASSUME PlainFile(file), SoundLoad(file), file.kind = "flac"
  PROVE  FileBytes \in Nat /\ FileBytes >= HeaderLen
  <1>1. FlacBits \in Nat /\ FlacBits >= 160
    <2> DEFINE n == Len(file.frames)
    <2>1. n \in Nat
      BY StartsAdd
    <2>2. n + 1 \in 1 .. n + 1
      BY <2>1
    <2>3. QED
      BY <2>2, StartsAdd
  <1> DEFINE b == FlacBits \div 8
  <1>2. b \in Nat /\ b >= 20
    <2> DEFINE a == FlacBits
    <2>1. a \in Nat /\ a >= 160
      BY <1>1
    <2> HIDE DEF a
    <2>2. a \div 8 \in Nat /\ a \div 8 >= 20
      BY <2>1
    <2>3. QED
      BY <2>2 DEF a
  <1>3. file.has \in Nat /\ file.has >= 20
    BY DEF PlainFile, SoundFile, SoundLoad, HeaderLen
  <1> HIDE DEF b
  <1>4. FileBytes = IF file.has <= b THEN file.has ELSE b
    <2>1. Min({file.has, b}) = IF file.has <= b THEN file.has ELSE b
      BY <1>2, <1>3, Lesser
    <2>2. QED
      BY <2>1 DEF FileBytes, b
  <1>5. QED
    BY <1>2, <1>3, <1>4 DEF HeaderLen

LEMMA ResetInv ==
  ASSUME PlainFile(file), SoundLoad(file), file.kind = "flac", bufSize \in Nat,
         given = 0, pos = 0, flac = FlacReset, out = <<>>
  PROVE  DecoderInv
  <1>1. At(flac, pos) /\ ~Again(flac) /\ out = First(ValuesAt(flac))
    BY ResetSound
  <1>2. Taken = 0
    BY DEF Taken
  <1>3. given \in Nat /\ given % 8 = 0 /\ pos \in 0 .. given /\ given \div 8 - Taken <= bufSize
    BY <1>2
  <1>4. given <= 8 * FileBytes
    BY FileLonger
  <1>5. QED
    BY <1>1, <1>3, <1>4 DEF DecoderInv

LEMMA ResetKeeps ==
  ASSUME PlainFile(file), SoundLoad(file), file.kind = "flac", bufSize \in Nat,
         file' = file, bufSize' = bufSize,
         given' = 0, pos' = 0, flac' = FlacReset, out' = <<>>
  PROVE  DecoderInv'
  <1>1. At(flac, pos)' /\ ~Again(flac)' /\ ValuesAt(flac)' = ValuesAt(FlacReset)
    BY ResetSound, AtKept
  <1>2. out' = First(ValuesAt(flac))'
    BY <1>1, ResetSound, FirstKept
  <1>3. Taken' = 0
    BY DEF Taken
  <1>4. given' \in Nat /\ given' % 8 = 0 /\ pos' \in 0 .. given'
          /\ given' \div 8 - Taken' <= bufSize'
    BY <1>3
  <1>5. given' <= 8 * FileBytes'
    BY FileLonger, FileKept
  <1>6. QED
    BY <1>1, <1>2, <1>4, <1>5 DEF DecoderInv

LEMMA DecoderSame ==
  ASSUME DecoderInv, UNCHANGED <<file, decoder, bufSize>>
  PROVE  DecoderInv'
  <1>1. file' = file /\ UNCHANGED <<given, pos, flac, call, out, bufSize>>
    BY DEF decoder
  <1>2. At(flac, pos)' /\ (Again(flac)' <=> Again(flac)) /\ ValuesAt(flac)' = ValuesAt(flac)
    BY <1>1, AtKept DEF DecoderInv
  <1>3. out' = First(ValuesAt(flac))'
    BY <1>1, <1>2, FirstKept DEF DecoderInv
  <1>4. Taken' = Taken /\ (CrcFits' <=> CrcFits) /\ (AllGiven' <=> AllGiven)
    BY <1>1, FileKept DEF Taken, CrcFits, AllGiven
  <1>5. FrameOf(flac)' = FrameOf(flac)
    BY <1>1 DEF FrameOf
  <1>6. /\ given' \in Nat /\ given' % 8 = 0 /\ given' <= 8 * FileBytes' /\ pos' \in 0 .. given'
        /\ given' \div 8 - Taken' <= bufSize'
    BY <1>1, <1>4, FileKept DEF DecoderInv
  <1>7. Again(flac)' =>
          LET cc == Len(FrameOf(flac).subs)' IN
          \/ flac'.chan = cc /\ call' = "return" /\ ~CrcFits'
          \/ flac'.chan = cc /\ call' = "run" /\ (CrcFits' \/ AllGiven')
          \/ flac'.chan = cc + 1 /\ call' = "return" /\ AllGiven' /\ ~CrcFits'
    BY <1>1, <1>2, <1>4, <1>5 DEF DecoderInv
  <1>8. QED
    BY <1>2, <1>3, <1>6, <1>7 DEF DecoderInv

(* Where the checksum of a frame is waited for, all that was read of the   *)
(* file has been taken, and a piece of the whole buffer is read next.      *)
LEMMA AgainTaken ==
  ASSUME Ready, Again(flac), ~CrcFits
  PROVE  Taken = given \div 8 /\ given < pos + 24
  <1>1. given \in Nat /\ pos \in Nat
    BY DEF Ready, DecoderInv
  <1>2. flac.state = "in_frame" /\ flac.priv = "finalize"
    BY DEF Again
  <1>3. pos # 0
    <2> DEFINE k == flac.frame
               N == Len(Frame.subs)
               start == FrameStart(k)
               all == SubStart(Frame, N)
    <2>1. InFrameAt(flac, pos)
      BY <1>2, ReadyFacts, ByState
    <2>2. k \in DOMAIN file.frames
      BY <2>1 DEF InFrameAt, SubframeAt, AgainAt, Within
    <2>3. /\ PlainFile(file) /\ FrameOf(flac) = Frame /\ DecoderType(flac) /\ N \in Nat
          /\ \A c \in 0 .. N : SubStart(Frame, c) \in Nat
      BY <2>2, FrameSound
    <2>4. all \in Nat /\ Pad(all) \in Nat
      <3>1. N \in 0 .. N
        <4> HIDE DEF N
        <4>1. QED
          BY <2>3
      <3>2. all \in Nat
        BY <2>3, <3>1
      <3> HIDE DEF all
      <3>3. Pad(all) \in 0 .. 7
        BY <3>2, PadFacts
      <3>4. QED
        BY <3>2, <3>3
    <2>5. flac.chan \in Nat /\ flac.chan >= N
      BY <2>3 DEF Again, DecoderType
    <2>6. ~Within(flac)
      <3>1. ~(flac.chan \in 0 .. N - 1)
        <4> HIDE DEF N
        <4>1. QED
          BY <2>3, <2>5
      <3>2. QED
        BY <2>3, <3>1 DEF Within
    <2>7. AgainAt(flac, pos - start)
      BY <1>2, <2>1, <2>6 DEF InFrameAt, SubframeAt
    <2>8. pos - start \in {all, all + Pad(all)}
      BY <2>3, <2>7 DEF AgainAt
    <2>9. start \in Nat /\ start >= 160
      <3> DEFINE n == Len(file.frames)
      <3>1. n \in Nat /\ k \in 1 .. n
        BY <2>2, <2>3, StartsAdd
      <3>2. k \in 1 .. n + 1
        <4> HIDE DEF k, n
        <4>1. QED
          BY <3>1
      <3>3. QED
        BY <2>3, <3>2, StartsAdd
    <2> HIDE DEF all, start
    <2>10. QED
      BY <1>1, <2>4, <2>8, <2>9
  <1> DEFINE w == Pad(pos)
             g == given \div 8
             b == pos \div 8
  <1>4. w \in 0 .. 7 /\ ~(pos + w + 16 <= given)
    BY <1>1, PadFacts DEF CrcFits
  <1> HIDE DEF w
  <1>5. given < pos + 24
    BY <1>1, <1>4
  <1>6. g \in Nat /\ 8 * g <= given /\ b \in Nat /\ pos < 8 * b + 8
    BY <1>1
  <1> HIDE DEF g, b
  <1>7. g <= b + 8
    BY <1>1, <1>5, <1>6
  <1>8. TakenAt(pos) = g
    BY <1>3, <1>7 DEF TakenAt, g, b
  <1>9. QED
    BY <1>1, <1>5, <1>8, TakenIs DEF g

(* A piece of the file fits in the buffer, and in the file.                *)
LEMMA PieceFits ==
  ASSUME LoadInv, file.kind = "flac"
  PROVE  /\ ToRead \in Nat /\ Got \in Nat /\ Got <= ToRead
         /\ given \div 8 + Got <= FileBytes /\ given = 8 * (given \div 8) /\ given \div 8 \in Nat
         /\ Taken \in Nat /\ ToRead = bufSize - (given \div 8 - Taken)
         /\ FileBytes \in Nat
         /\ Got = ToRead \/ given \div 8 + Got = FileBytes
  <1> DEFINE g == given \div 8
             b == pos \div 8
             F == FileBytes
             t == Taken
             r == ToRead
  <1>1. /\ bufSize \in Nat /\ PlainFile(file) /\ SoundLoad(file)
        /\ given \in Nat /\ given % 8 = 0 /\ given <= 8 * F /\ pos \in 0 .. given
             /\ g - t <= bufSize
    BY LoadConstants DEF Ready, DecoderInv
  <1>2. F \in Nat
    BY <1>1, FileLonger
  <1>3. g \in Nat /\ given = 8 * g /\ b \in Nat /\ pos \in Nat
    BY <1>1
  <1>4. t = TakenAt(pos)
    BY <1>1, <1>3, TakenIs
  <1>5. t = IF pos = 0 THEN 0 ELSE IF g <= b + 8 THEN g ELSE b + 8
    BY <1>4 DEF TakenAt
  <1>6. r = bufSize - (g - t)
    BY DEF ToRead
  <1> HIDE DEF g, b, F, t
  <1>7. g <= F /\ t \in Nat /\ t <= g
    BY <1>1, <1>2, <1>3, <1>5
  <1>8. r \in Nat
    BY <1>1, <1>3, <1>6, <1>7
  <1>9. Got = IF r <= F - g THEN r ELSE F - g
    <2>1. Got = Min({r, F - g})
      BY DEF Got, F, g
    <2> HIDE DEF r
    <2>2. QED
      BY <1>2, <1>3, <1>8, <2>1, Lesser
  <1> HIDE DEF r
  <1>10. Got \in Nat /\ Got <= r /\ g + Got <= F /\ (Got = r \/ g + Got = F)
    BY <1>2, <1>3, <1>7, <1>8, <1>9
  <1>11. QED
    BY <1>2, <1>3, <1>6, <1>7, <1>8, <1>10 DEF g, F, t, r

(* Between two frames the decoder searches the next one when it is called. *)
LEMMA CalledAgain ==
  ASSUME Ready, NEW d,
         d = (IF flac.state \in {"end_of_metadata", "end_of_frame"}
              THEN Go(flac, "search_frame", "frame_sync") ELSE flac)
  PROVE  /\ At(d, pos) /\ ValuesAt(d) = ValuesAt(flac) /\ (Again(d) => d = flac)
  <1>1. PlainFile(file) /\ At(flac, pos) /\ DecoderType(flac) /\ Kept(flac) /\ pos \in Nat
    BY ReadyFacts
  <1>2. CASE flac.state \notin {"end_of_metadata", "end_of_frame"}
    BY <1>1, <1>2
  <1>3. CASE flac.state \in {"end_of_metadata", "end_of_frame"}
    <2> DEFINE k == flac.frame
    <2>1. d = Go(flac, "search_frame", "frame_sync")
      BY <1>3
    <2>2. /\ DecoderType(d) /\ d.state = "search_frame" /\ d.priv = "frame_sync" /\ d.frame = k
          /\ d.wasted = flac.wasted /\ d.order = flac.order /\ d.cur = flac.cur
      BY <1>1, <2>1 DEF DecoderType, DecoderFields, Go
    <2>3. Kept(d)
      BY <1>1, <2>2 DEF Kept
    <2>4. k \in 0 .. Len(file.frames) /\ pos = FrameStart(k + 1)
      <3> DEFINE n == Len(file.frames)
      <3>1. n \in Nat /\ DOMAIN file.frames = 1 .. n /\ FrameStart(1) = MetaBits
        BY <1>1, StartsAdd
      <3>2. CASE flac.state = "end_of_metadata"
        <4>1. MetaAt(flac, pos)
          BY <1>1, <3>2, ByState
        <4>2. k = 0 /\ pos = MetaBits
          BY <3>2, <4>1 DEF MetaAt
        <4>3. 0 \in 0 .. n
          <5> HIDE DEF n
          <5>1. QED
            BY <3>1
        <4>4. QED
          BY <3>1, <4>2, <4>3
      <3>3. CASE flac.state = "end_of_frame"
        <4>1. DecodedAt(flac, pos)
          BY <1>1, <3>3, ByState
        <4>2. k \in 1 .. n /\ pos = FrameStart(k + 1)
          BY <3>1, <4>1 DEF DecodedAt
        <4>3. k \in 0 .. n
          BY <4>2
        <4>4. QED
          BY <4>2, <4>3
      <3>4. QED
        BY <1>3, <3>2, <3>3
    <2>5. SearchAt(d, pos)
      BY <2>2, <2>4 DEF SearchAt
    <2>6. ValuesAt(d) = ValuesAt(flac)
      BY <1>3, <2>2 DEF ValuesAt
    <2>7. QED
      BY <2>2, <2>3, <2>5, <2>6 DEF At, Again
  <1>4. QED
    BY <1>2, <1>3

(* The rest of a checksum is in the next piece, or not in the file.        *)
LEMMA PieceEnough ==
  ASSUME LoadInv, file.kind = "flac", Again(flac), call = "return", ~NoMore,
         NEW more, more = given + 8 * Got
  PROVE  /\ flac.chan = Len(FrameOf(flac).subs)
         /\ pos + Pad(pos) + 16 <= more \/ more = 8 * FileBytes
  <1> DEFINE cc == Len(FrameOf(flac).subs)
             g == given \div 8
             F == FileBytes
  <1>1. Ready /\ bufSize \in Nat /\ bufSize >= 20
    BY LoadConstants
  <1>2. \/ flac.chan = cc /\ ~CrcFits
        \/ flac.chan = cc + 1 /\ AllGiven /\ ~CrcFits
    BY <1>1 DEF Ready, DecoderInv
  <1>3. Taken = g /\ given < pos + 24 /\ given \in Nat /\ pos \in Nat
    BY <1>1, <1>2, AgainTaken DEF Ready, DecoderInv
  <1>4. /\ Got \in Nat /\ given = 8 * g /\ g \in Nat /\ F \in Nat /\ g + Got <= F
        /\ ToRead = bufSize - (g - Taken) /\ (Got = ToRead \/ g + Got = F)
    BY PieceFits
  <1>5. pos <= given
    BY <1>1 DEF Ready, DecoderInv
  <1>6. Pad(pos) \in 0 .. 7
    BY <1>3, PadFacts
  <1> DEFINE w == Pad(pos)
  <1> HIDE DEF g, F, w
  <1>7. ToRead = bufSize
    BY <1>1, <1>3, <1>4
  <1>8. ~AllGiven
    <2>1. ASSUME AllGiven PROVE FALSE
      <3>1. given = 8 * F
        BY <2>1 DEF AllGiven, F
      <3>2. Got = 0
        BY <1>4, <3>1
      <3>3. QED
        BY <1>1, <1>7, <3>2 DEF NoMore
    <2>2. QED
      BY <2>1
  <1>9. pos + w + 16 <= more \/ more = 8 * F
    <2>1. w \in 0 .. 7
      BY <1>6 DEF w
    <2>2. QED
      BY <1>1, <1>3, <1>4, <1>5, <1>7, <2>1
  <1>10. QED
    BY <1>2, <1>8, <1>9 DEF w, F

LEMMA ProcessKeeps ==
  ASSUME LoadInv, file.kind = "flac", call = "return", ~NoMore, Process(Got, OutLen),
         bufSize' = bufSize
  PROVE  DecoderInv'
  <1> DEFINE g == given \div 8
             F == FileBytes
             b == pos \div 8
             t == Taken
             d == IF flac.state \in {"end_of_metadata", "end_of_frame"}
                  THEN Go(flac, "search_frame", "frame_sync") ELSE flac
  <1>1. /\ call' = "run" /\ given' = given + 8 * Got /\ flac' = d
        /\ file' = file /\ pos' = pos /\ out' = out
    BY DEF Process
  <1>2. Ready /\ bufSize \in Nat
    BY LoadConstants
  <1>3. given \in Nat /\ pos \in 0 .. given /\ out = First(ValuesAt(flac))
    BY <1>2 DEF Ready, DecoderInv
  <1>4. /\ Got \in Nat /\ given = 8 * g /\ g \in Nat /\ F \in Nat /\ g + Got <= F
        /\ ToRead = bufSize - (g - t) /\ t \in Nat /\ Got <= ToRead
    BY PieceFits
  <1>5. At(d, pos) /\ ValuesAt(d) = ValuesAt(flac) /\ (Again(d) => d = flac)
    BY <1>2, CalledAgain
  <1> HIDE DEF d
  <1>6. At(flac, pos)' /\ (Again(flac)' <=> Again(d)) /\ ValuesAt(flac)' = ValuesAt(flac)
    BY <1>1, <1>5, AtKept
  <1>7. out' = First(ValuesAt(flac))'
    BY <1>1, <1>3, <1>6, FirstKept
  <1>8. given' = 8 * (g + Got)
    <2> HIDE DEF g
    <2>1. QED
      BY <1>1, <1>4
  <1>9. g + Got \in Nat
    <2> HIDE DEF g
    <2>1. QED
      BY <1>4
  <1>10. given' \in Nat /\ given' % 8 = 0 /\ given' \div 8 = g + Got /\ given <= given'
    <2> DEFINE m == g + Got
    <2>1. m \in Nat /\ given' = 8 * m
      BY <1>8, <1>9
    <2> HIDE DEF m
    <2>2. given' \in Nat /\ given' % 8 = 0 /\ given' \div 8 = m
      BY <2>1
    <2>3. given <= given'
      BY <1>1, <1>3, <1>4
    <2>4. QED
      BY <2>2, <2>3 DEF m
  <1>11. given' <= 8 * FileBytes'
    <2>1. FileBytes' = F
      BY <1>1, FileKept
    <2> HIDE DEF g, F
    <2>2. QED
      BY <1>4, <1>8, <2>1
  <1>12. pos' \in 0 .. given'
    BY <1>1, <1>3, <1>10
  <1>13. given' \div 8 - Taken' <= bufSize'
    <2>1. t = IF pos = 0 THEN 0 ELSE IF g <= b + 8 THEN g ELSE b + 8
      BY <1>3, TakenIs DEF TakenAt
    <2>2. b \in Nat
      BY <1>3, Eighths
    <2>3. Taken' = IF pos = 0 THEN 0 ELSE IF g + Got <= b + 8 THEN g + Got ELSE b + 8
      <3> DEFINE m == g + Got
      <3>1. Taken' = IF pos = 0 THEN 0 ELSE Min({m, b + 8})
        BY <1>1, <1>10 DEF Taken
      <3>2. m \in Int /\ b + 8 \in Int
        BY <1>9, <2>2
      <3> HIDE DEF m, b
      <3>3. Min({m, b + 8}) = IF m <= b + 8 THEN m ELSE b + 8
        BY <3>2, Lesser
      <3>4. QED
        BY <3>1, <3>3 DEF m
    <2> HIDE DEF g, b, t
    <2>4. g + Got - Taken' <= bufSize
      BY <1>2, <1>4, <2>1, <2>2, <2>3
    <2> DEFINE q == given' \div 8
    <2>5. q = g + Got
      BY <1>10
    <2> HIDE DEF q
    <2>6. q - Taken' <= bufSize'
      BY <1>2, <1>4, <2>2, <2>3, <2>4, <2>5
    <2>7. QED
      BY <2>6 DEF q
  <1>14. ASSUME Again(flac)'
         PROVE  /\ flac'.chan = Len(FrameOf(flac).subs)' /\ call' = "run"
                /\ CrcFits' \/ AllGiven'
    <2>1. d = flac /\ Again(flac)
      BY <1>5, <1>6, <1>14
    <2>2. /\ flac.chan = Len(FrameOf(flac).subs)
          /\ pos + Pad(pos) + 16 <= given + 8 * Got \/ given + 8 * Got = 8 * FileBytes
      BY <2>1, PieceEnough
    <2>3. FrameOf(flac)' = FrameOf(flac) /\ flac' = flac
      BY <1>1, <2>1 DEF FrameOf
    <2>4. CrcFits' \/ AllGiven'
      <3>1. FileBytes' = FileBytes /\ Pad(pos)' = Pad(pos)
        BY <1>1, FileKept DEF Pad
      <3>2. QED
        BY <1>1, <2>2, <3>1 DEF CrcFits, AllGiven
    <2>5. QED
      BY <1>1, <2>2, <2>3, <2>4
  <1>15. QED
    BY <1>6, <1>7, <1>10, <1>11, <1>12, <1>13, <1>14 DEF DecoderInv

LEMMA BufTypes ==
  ASSUME LoadInv
  PROVE  /\ EmptyBuf \in BufType
         /\ \A n \in Nat : Alloc(n) \in BufType
         /\ \A n \in Nat : [buf EXCEPT !.used = n] \in BufType
              /\ [buf EXCEPT !.written = n] \in BufType
         /\ \A n, m \in Nat : [Alloc(n) EXCEPT !.used = m, !.written = m] \in BufType
         /\ FlacFrames \in Nat
  <1>1. buf \in BufType
    BY DEF LoadInv
  <1>2. EmptyBuf \in BufType
    BY DEF BufType, EmptyBuf
  <1>3. \A n \in Nat : Alloc(n) \in BufType
    BY DEF BufType, Alloc
  <1>4. ASSUME NEW b \in BufType, NEW n \in Nat
        PROVE  [b EXCEPT !.used = n] \in BufType /\ [b EXCEPT !.written = n] \in BufType
    BY DEF BufType
  <1>5. ASSUME NEW n \in Nat, NEW m \in Nat
        PROVE  [Alloc(n) EXCEPT !.used = m, !.written = m] \in BufType
    BY DEF BufType, Alloc
  <1>6. FlacFrames \in Nat
    BY <1>1 DEF BufType, FlacFrames
  <1>7. \A n \in Nat : [buf EXCEPT !.used = n] \in BufType /\ [buf EXCEPT !.written = n] \in BufType
    BY <1>1, <1>4, Zenon
  <1>8. \A n, m \in Nat : [Alloc(n) EXCEPT !.used = m, !.written = m] \in BufType
    BY <1>5, Zenon
  <1>9. QED
    BY <1>2, <1>3, <1>6, <1>7, <1>8, Zenon

LEMMA LoadTypes ==
  ASSUME PlainFiles, Init
  PROVE  LoadInv
  <1>1. /\ file \in Files /\ bufSize \in BufSizes
        /\ given = 0 /\ pos = 0 /\ flac = FlacReset /\ call = "return" /\ room = 0 /\ out = <<>>
        /\ phase = "idle" /\ chunk = 1 /\ buf = EmptyBuf
    BY DEF Init, DecoderInit
  <1>2. buf \in BufType
    BY <1>1 DEF BufType, EmptyBuf
  <1>3. room \in 0 .. OutLen
    BY <1>1, LoadAssumption
  <1>4. file.kind = "flac" => PlainFile(file) /\ FlacInv
    <2>1. ASSUME file.kind = "flac" PROVE DecoderInv
      <3>1. PlainFile(file) /\ SoundLoad(file) /\ bufSize \in Nat
        BY <1>1, <2>1, LoadAssumption DEF PlainFiles
      <3>2. QED
        BY <1>1, <2>1, <3>1, ResetInv
    <2>2. QED
      BY <1>1, <2>1 DEF FlacInv, PlainFiles
  <1>5. OtherInv
    BY <1>1 DEF OtherInv
  <1>6. QED
    BY <1>1, <1>2, <1>3, <1>4, <1>5 DEF LoadInv

LEMMA LoadKeeps ==
  ASSUME LoadInv, Load, bufSize' = bufSize
  PROVE  LoadInv'
  <1>1. /\ file' = file /\ phase' = "header"
        /\ given' = 0 /\ pos' = 0 /\ flac' = FlacReset /\ call' = "return" /\ room' = 0
        /\ out' = <<>> /\ chunk' = 1 /\ buf' = EmptyBuf
    BY DEF Load
  <1>2. OutLen \in Nat /\ Unset' = Unset /\ BufType' = BufType /\ FlacReset' = FlacReset
    BY LoadAssumption DEF BufType, FlacReset
  <1>3. file.kind = "flac" => DecoderInv'
    BY <1>1, LoadConstants, ResetKeeps DEF Ready
  <1>4. file'.kind = "flac" => PlainFile(file') /\ FlacInv'
    BY <1>1, <1>2, <1>3 DEF FlacInv, LoadInv
  <1>5. OtherInv'
    BY <1>1, <1>2 DEF OtherInv
  <1>6. room' \in 0 .. OutLen
    BY <1>1, <1>2
  <1>9. buf' \in BufType
    BY <1>1, BufTypes, Zenon
  <1>7. file' \in Files /\ bufSize' \in BufSizes /\ chunk' \in Nat \ {0}
        /\ call' \in {"run", "return"}
    BY <1>1 DEF LoadInv
  <1>8. QED
    BY <1>2, <1>4, <1>5, <1>6, <1>7, <1>9 DEF LoadInv

(* What is read of a file that the decoder has no part in.                 *)
LEMMA OtherKeeps ==
  ASSUME LoadInv, bufSize' = bufSize, UNCHANGED <<file, decoder>>, file.kind # "flac",
         buf' \in BufType, chunk' \in Nat \ {0},
         \/ phase' \in {"idle", "done"}
         \/ phase' \in {"fmt", "data"} /\ file.kind = "wav"
         \/ phase' \in {"ogg", "rfx"} /\ file.kind = phase'
         \/ phase' = "samples" /\ file.kind = "wav" /\ chunk' - 1 \in DOMAIN file.chunks
  PROVE  LoadInv'
  <1>1. OtherInv /\ file' = file /\ UNCHANGED <<given, pos, flac, call, room, out>>
    BY DEF LoadInv, decoder
  <1>2. OtherInv'
    BY <1>1 DEF OtherInv, FlacReset
  <1>3. QED
    BY <1>1, <1>2 DEF LoadInv, BufType

LEMMA ReadHeaderKeeps ==
  ASSUME LoadInv, ReadHeader, bufSize' = bufSize
  PROVE  LoadInv'
  <1>1. phase = "header" /\ UNCHANGED <<file, pos, flac, call, room, out, chunk>>
    BY DEF ReadHeader
  <1>2. SoundLoad(file) /\ buf \in BufType /\ chunk \in Nat \ {0}
    BY LoadConstants DEF LoadInv
  <1>3. CASE file.kind # "flac"
    <2>1. /\ given' = given /\ buf' = buf
          /\ \/ phase' = "done"
             \/ phase' = "fmt" /\ file.kind = "wav"
             \/ phase' \in {"ogg", "rfx"} /\ file.kind = phase'
      BY <1>2, <1>3 DEF ReadHeader, Return, SoundLoad
    <2>2. UNCHANGED <<file, decoder>>
      BY <1>1, <2>1 DEF decoder
    <2>3. QED
      BY <1>1, <1>2, <1>3, <2>1, <2>2, OtherKeeps
  <1>4. CASE file.kind = "flac"
    <2>1. phase' = "flac_read" /\ given' = 8 * HeaderLen /\ buf' = buf
      BY <1>4 DEF ReadHeader
    <2>2. FlacInv /\ Ready /\ bufSize \in Nat /\ bufSize >= 20 /\ HeaderLen = 20
      BY <1>4, LoadConstants DEF LoadInv
    <2>3. pos = 0 /\ flac = FlacReset /\ out = <<>> /\ call = "return" /\ given = 0
      BY <1>1, <2>2 DEF FlacInv
    <2>4. At(flac, pos) /\ ~Again(flac) /\ out = First(ValuesAt(flac))
      BY <2>2, <2>3, ResetSound DEF Ready, DecoderInv
    <2>5. At(flac, pos)' /\ ~Again(flac)' /\ ValuesAt(flac)' = ValuesAt(flac)
      BY <1>1, <2>4, AtKept
    <2>6. out' = First(ValuesAt(flac))'
      BY <1>1, <2>4, <2>5, FirstKept
    <2>7. Taken' = 0
      BY <1>1, <2>3 DEF Taken
    <2>8. given' = 160 /\ given' % 8 = 0 /\ given' \div 8 = 20
      BY <2>1, <2>2
    <2>9. given' <= 8 * FileBytes'
      <3>1. FileBytes' = FileBytes /\ FileBytes \in Nat /\ FileBytes >= 20
        BY <1>1, <1>2, <1>4, <2>2, FileKept, FileLonger DEF Ready
      <3>2. QED
        BY <2>8, <3>1
    <2>10. given' \in Nat /\ pos' \in 0 .. given' /\ given' \div 8 - Taken' <= bufSize'
      BY <1>1, <2>2, <2>3, <2>7, <2>8
    <2>11. DecoderInv'
      BY <2>5, <2>6, <2>8, <2>9, <2>10 DEF DecoderInv
    <2>12. FlacInv'
      BY <1>1, <2>1, <2>3, <2>11 DEF FlacInv
    <2>13. QED
      BY <1>1, <1>4, <2>1, <2>12 DEF LoadInv, BufType
  <1>5. QED
    BY <1>3, <1>4

LEMMA FindChunkKeeps ==
  ASSUME LoadInv, FindChunk, bufSize' = bufSize
  PROVE  LoadInv'
  <1>1. /\ phase \in {"fmt", "data"} /\ chunk' = chunk + 1 /\ UNCHANGED <<file, decoder>>
        /\ buf' = buf
        /\ \/ phase' = "done"
           \/ phase' \in {phase, "data", "samples"} /\ ~(chunk > Len(file.chunks))
    BY DEF FindChunk, Return
  <1>2. SoundLoad(file) /\ buf \in BufType /\ chunk \in Nat \ {0}
    BY LoadConstants DEF LoadInv
  <1>3. file.kind # "flac" /\ file.kind = "wav"
    BY <1>1 DEF LoadInv, FlacInv, OtherInv
  <1>4. chunk' \in Nat \ {0} /\ chunk' - 1 = chunk
    BY <1>1, <1>2
  <1>5. phase' = "samples" => chunk' - 1 \in DOMAIN file.chunks
    <2> DEFINE n == Len(file.chunks)
    <2>1. n \in Nat /\ DOMAIN file.chunks = 1 .. n
      BY <1>2, <1>3 DEF SoundLoad, Listed
    <2> HIDE DEF n
    <2>2. ~(chunk > n) => chunk \in 1 .. n
      BY <1>2, <2>1
    <2>3. QED
      BY <1>1, <1>4, <2>1, <2>2 DEF n
  <1>6. QED
    BY <1>1, <1>2, <1>3, <1>4, <1>5, OtherKeeps

LEMMA ReadSamplesKeeps ==
  ASSUME LoadInv, ReadSamples, bufSize' = bufSize
  PROVE  LoadInv'
  <1> DEFINE data == file.chunks[chunk - 1]
             frames == data.len * Half(file)
  <1>1. /\ phase = "samples" /\ UNCHANGED <<file, decoder, chunk>> /\ phase' = "done"
        /\ \/ buf' = buf \/ buf' = Alloc(frames)
           \/ buf' = [Alloc(frames) EXCEPT !.used = frames, !.written = frames]
    BY Zenon DEF ReadSamples, Return
  <1>2. SoundLoad(file) /\ buf \in BufType /\ chunk \in Nat \ {0}
    BY LoadConstants DEF LoadInv
  <1>3. file.kind # "flac" /\ file.kind = "wav" /\ chunk - 1 \in DOMAIN file.chunks
    BY <1>1 DEF LoadInv, FlacInv, OtherInv
  <1>4. data.len \in Nat
    BY <1>2, <1>3 DEF SoundLoad
  <1> HIDE DEF data
  <1>5. frames \in Nat
    BY <1>4 DEF Half
  <1> HIDE DEF frames
  <1>6. buf' \in BufType
    <2>1. /\ Alloc(frames) \in BufType
          /\ [Alloc(frames) EXCEPT !.used = frames, !.written = frames] \in BufType
      BY <1>5, BufTypes, Zenon
    <2>2. QED
      BY <1>1, <1>2, <2>1, Zenon
  <1>7. QED
    BY <1>1, <1>2, <1>3, <1>6, OtherKeeps

LEMMA ReadOggKeeps ==
  ASSUME LoadInv, ReadOgg, bufSize' = bufSize
  PROVE  LoadInv'
  <1> DEFINE n == OggFrames(file.len)
  <1>1. /\ phase = "ogg" /\ UNCHANGED <<file, decoder, chunk>> /\ phase' = "done"
        /\ buf' = buf \/ buf' = [Alloc(file.len) EXCEPT !.used = n, !.written = n]
    BY Zenon DEF ReadOgg, Return
  <1>2. SoundLoad(file) /\ buf \in BufType /\ chunk \in Nat \ {0}
    BY LoadConstants DEF LoadInv
  <1>3. file.kind # "flac" /\ file.kind = "ogg"
    BY <1>1 DEF LoadInv, FlacInv, OtherInv
  <1>4. file.len \in Nat /\ file.readable \in Nat
    BY <1>2, <1>3 DEF SoundLoad
  <1>5. n \in Nat
    <2> DEFINE h == Half(file)
               a == file.len - (file.len % h)
               b == file.readable * h
    <2>1. h \in {1, 2}
      BY DEF Half
    <2> HIDE DEF h
    <2>2. a \in Nat /\ b \in Nat
      BY <1>4, <2>1
    <2>3. n = Min({a, b})
      BY DEF OggFrames, h
    <2> HIDE DEF a, b, n
    <2>4. QED
      BY <2>2, <2>3, Lesser
  <1> HIDE DEF n
  <1>6. buf' \in BufType
    <2>1. [Alloc(file.len) EXCEPT !.used = n, !.written = n] \in BufType
      BY <1>4, <1>5, BufTypes, Zenon
    <2>2. QED
      BY <1>1, <1>2, <2>1, Zenon
  <1>7. QED
    BY <1>1, <1>2, <1>3, <1>6, OtherKeeps

LEMMA ReadSfxKeeps ==
  ASSUME LoadInv, ReadSfx, bufSize' = bufSize
  PROVE  LoadInv'
  <1>1. /\ phase = "rfx" /\ UNCHANGED <<file, decoder, chunk>> /\ phase' = "done"
        /\ \/ buf' = buf
           \/ buf' = [Alloc(file.len) EXCEPT !.used = file.len, !.written = file.len]
    BY Zenon DEF ReadSfx, Return
  <1>2. SoundLoad(file) /\ buf \in BufType /\ chunk \in Nat \ {0}
    BY LoadConstants DEF LoadInv
  <1>3. file.kind # "flac" /\ file.kind = "rfx"
    BY <1>1 DEF LoadInv, FlacInv, OtherInv
  <1>4. file.len \in Nat
    BY <1>2, <1>3 DEF SoundLoad
  <1>5. buf' \in BufType
    <2>1. [Alloc(file.len) EXCEPT !.used = file.len, !.written = file.len] \in BufType
      BY <1>4, BufTypes, Zenon
    <2>2. QED
      BY <1>1, <1>2, <2>1, Zenon
  <1>6. QED
    BY <1>1, <1>2, <1>3, <1>5, OtherKeeps

-----------------------------------------------------------------------------
(* The theorem                                                             *)

(* A step of a load of a FLAC file that leaves the decoder alone.          *)
LEMMA FlacKeeps ==
  ASSUME LoadInv, bufSize' = bufSize, chunk' = chunk, UNCHANGED <<file, decoder>>,
         file.kind = "flac", buf' \in BufType, phase' \in {"idle", "flac_read", "done"},
         call = "return"
  PROVE  LoadInv'
  <1>1. file' = file /\ UNCHANGED <<given, pos, flac, call, room, out>>
    BY DEF decoder
  <1>2. DecoderInv'
    <2>1. DecoderInv
      BY DEF LoadInv, FlacInv
    <2>2. QED
      BY <2>1, DecoderSame
  <1>3. FlacInv'
    BY <1>1, <1>2 DEF FlacInv
  <1>4. QED
    BY <1>1, <1>3 DEF LoadInv, BufType

LEMMA ReadFlacKeeps ==
  ASSUME LoadInv, ReadFlac, bufSize' = bufSize
  PROVE  LoadInv'
  <1>1. phase = "flac_read" /\ chunk' = chunk
    BY DEF ReadFlac
  <1>2. file.kind = "flac" /\ FlacInv /\ call = "return"
    BY <1>1 DEF LoadInv, FlacInv, OtherInv
  <1>3. buf \in BufType
    BY DEF LoadInv
  <1>4. CASE NoMore
    <2>1. phase' = "done" /\ buf' = [buf EXCEPT !.used = FlacFrames] /\ UNCHANGED <<file, decoder>>
      BY <1>1, <1>4, Zenon DEF ReadFlac, Return
    <2>2. buf' \in BufType
      BY <2>1, BufTypes, Zenon
    <2>3. QED
      BY <1>1, <1>2, <2>1, <2>2, FlacKeeps
  <1>5. CASE ~NoMore
    <2>1. Process(Got, OutLen) /\ phase' = "flac" /\ buf' = buf
      BY <1>1, <1>5 DEF ReadFlac
    <2>2. DecoderInv'
      BY <1>2, <1>5, <2>1, ProcessKeeps
    <2>3. file' = file /\ call' = "run" /\ room' = OutLen
      BY <2>1 DEF Process
    <2>4. room' \in 0 .. OutLen
      BY <2>3, LoadAssumption
    <2>5. FlacInv'
      BY <2>1, <2>2 DEF FlacInv
    <2>6. QED
      BY <1>1, <1>2, <1>3, <2>1, <2>3, <2>4, <2>5 DEF LoadInv, BufType
  <1>6. QED
    BY <1>4, <1>5

LEMMA DecodeFlacKeeps ==
  ASSUME LoadInv, DecodeFlac, bufSize' = bufSize
  PROVE  LoadInv'
  <1>1. phase = "flac" /\ Decode /\ UNCHANGED <<phase, chunk, buf>>
    BY DEF DecodeFlac
  <1>2. file.kind = "flac" /\ FlacInv
    BY <1>1 DEF LoadInv, FlacInv, OtherInv
  <1>3. Ready /\ room \in Nat /\ OutLen \in Nat
    BY <1>2, LoadConstants
  <1>4. DecoderInv'
    BY <1>1, <1>3, DecodeKeeps
  <1>5. file' = file /\ call' \in {"run", "return"} /\ room' \in 0 .. room
    BY <1>1, <1>3, DecodeLeaves
  <1>6. room' \in 0 .. OutLen
    <2>1. room \in 0 .. OutLen
      BY DEF LoadInv
    <2>2. QED
      BY <1>3, <1>5, <2>1
  <1>7. FlacInv'
    BY <1>1, <1>4 DEF FlacInv
  <1>8. QED
    BY <1>1, <1>2, <1>5, <1>6, <1>7 DEF LoadInv, BufType

LEMMA FirstLen ==
  ASSUME NEW h \in Nat
  PROVE  Len(First(h)) = h /\ First(h) \in Seq({Values[i] : i \in 1 .. h})
  <1> DEFINE S == {Values[i] : i \in 1 .. h}
             f == First(h)
  <1>1. f \in [1 .. h -> S]
    BY DEF First
  <1> HIDE DEF S, f
  <1>2. Len(f) = h /\ f \in Seq(S)
    BY <1>1
  <1>3. QED
    BY <1>2 DEF S, f

(* The values given so far are some of those of the file.                  *)
LEMMA ValuesBound ==
  ASSUME Ready
  PROVE  ValuesAt(flac) \in Nat /\ ValuesAt(flac) <= Len(Values) /\ Values \in Seq(ValueType)
  <1> DEFINE n == Len(file.frames)
             k == flac.frame
  <1>1. PlainFile(file) /\ At(flac, pos) /\ DecoderType(flac)
    BY ReadyFacts
  <1>2. /\ n \in Nat /\ DOMAIN file.frames = 1 .. n
        /\ \A j \in 0 .. n : Heard(j) \in Nat /\ Heard(j) <= Heard(n)
        /\ Values \in Seq(ValueType) /\ Len(Values) = Heard(n)
    BY <1>1, StartsAdd, ValuesAdd
  <1>3. k \in 0 .. n
    <2>1. MetaAt(flac, pos) => k = 0
      BY DEF MetaAt
    <2>2. SearchAt(flac, pos) => k \in 0 .. n \/ k \in 1 .. n
      BY <1>2 DEF SearchAt
    <2>3. InFrameAt(flac, pos) => k \in 1 .. n
      BY <1>2 DEF InFrameAt, SubframeAt, Within, AgainAt
    <2>4. DecodedAt(flac, pos) => k \in 1 .. n
      BY <1>2 DEF DecodedAt
    <2>5. k = 0 \/ k \in 0 .. n \/ k \in 1 .. n
      BY <1>1, <2>1, <2>2, <2>3, <2>4 DEF At
    <2> HIDE DEF k, n
    <2>6. QED
      BY <1>2, <2>5
  <1>4. CASE flac.state = "in_frame" \/ (flac.state = "search_frame" /\ flac.priv # "frame_sync")
    <2>1. ValuesAt(flac) = Heard(k - 1)
      BY <1>4 DEF ValuesAt
    <2>2. InFrameAt(flac, pos) \/ (SearchAt(flac, pos) /\ flac.priv # "frame_sync")
      BY <1>1, <1>4, ByState
    <2>3. k \in 1 .. n
      BY <1>2, <2>2 DEF InFrameAt, SubframeAt, Within, AgainAt, SearchAt
    <2>4. k - 1 \in 0 .. n
      <3> HIDE DEF k, n
      <3>1. QED
        BY <1>2, <2>3
    <2>5. QED
      BY <1>2, <2>1, <2>4
  <1>5. CASE flac.state = "decoded_frame"
    <2> DEFINE cc == Len(Frame.subs)
               m == flac.cur * cc
               all == Frame.size * cc
               h == Heard(k - 1)
    <2>1. /\ k \in DOMAIN file.frames /\ Frame.intact
          /\ flac.chan \in 0 .. cc - 1 /\ flac.cur \in 0 .. Frame.size - 1
      BY <1>5, InDecoded
    <2>2. FrameOf(flac) = Frame /\ cc \in Nat \ {0} /\ Frame.size \in Nat \ {0}
      BY <2>1, FrameSound
    <2>3. ValuesAt(flac) = h + m + flac.chan
      BY <1>5, <2>2 DEF ValuesAt
    <2>4. m + flac.chan \in Nat /\ m + flac.chan < all /\ all \in Nat /\ m \in Nat
      <3> DEFINE s == Frame.size
      <3>1. s \in Nat \ {0} /\ cc \in Nat \ {0} /\ flac.cur \in 0 .. s - 1
              /\ flac.chan \in 0 .. cc - 1
        BY <2>1, <2>2
      <3> HIDE DEF s, cc
      <3>2. flac.cur * cc + flac.chan \in Nat /\ flac.cur * cc + flac.chan < s * cc
              /\ s * cc \in Nat
        BY <3>1, CursorBefore
      <3>3. flac.cur \in Nat
        BY <1>1 DEF DecoderType
      <3>4. flac.cur * cc \in Nat
        BY <3>1, <3>3, ProductType
      <3>5. QED
        BY <3>2, <3>4 DEF s
    <2>5. Len(FrameValues(k)) = all
      <3>1. file.frames[k] = Frame
        BY DEF Frame
      <3>2. ASSUME NEW f, f = file.frames[k], f.intact
            PROVE  Len(FrameValues(k)) = f.size * Len(f.subs)
        BY <1>1, <2>1, <3>2, FrameValuesType
      <3>3. QED
        BY <2>1, <3>1, <3>2
    <2>6. k \in 1 .. n
      BY <1>2, <2>1
    <2>7. Heard(k) = h + Len(FrameValues(k))
      BY <1>1, <2>6, ValuesAdd
    <2>8. k - 1 \in 0 .. n
      <3> HIDE DEF k, n
      <3>1. QED
        BY <1>2, <2>6
    <2>9. h \in Nat /\ Heard(k) \in Nat /\ Heard(k) <= Heard(n) /\ Heard(n) \in Nat
      <3>1. n \in 0 .. n
        <4> HIDE DEF n
        <4>1. QED
          BY <1>2
      <3>2. QED
        BY <1>2, <1>3, <2>8, <3>1
    <2>10. flac.chan \in Nat
      BY <1>1 DEF DecoderType
    <2> DEFINE last == Heard(k)
               total == Heard(n)
    <2>11. last = h + all /\ last <= total /\ total \in Nat
      BY <2>5, <2>7, <2>9
    <2> HIDE DEF m, all, h, last, total
    <2>12. h + m + flac.chan \in Nat /\ h + m + flac.chan <= total
      <3> DEFINE c == flac.chan
      <3>1. /\ h \in Nat /\ m \in Nat /\ c \in Nat /\ total \in Nat
            /\ m + c < all /\ last = h + all /\ last <= total /\ all \in Nat
        BY <2>4, <2>9, <2>10, <2>11
      <3> HIDE DEF c
      <3>2. h + m + c \in Nat /\ h + m + c <= total
        BY <3>1
      <3>3. QED
        BY <3>2 DEF c
    <2>13. QED
      BY <1>2, <2>3, <2>12 DEF total
  <1>6. CASE /\ flac.state # "decoded_frame" /\ flac.state # "in_frame"
             /\ ~(flac.state = "search_frame" /\ flac.priv # "frame_sync")
    <2>1. ValuesAt(flac) = Heard(k)
      BY <1>6 DEF ValuesAt
    <2>2. QED
      BY <1>2, <1>3, <2>1
  <1>7. QED
    BY <1>4, <1>5, <1>6

LEMMA SaveFlacKeeps ==
  ASSUME LoadInv, SaveFlac, bufSize' = bufSize
  PROVE  LoadInv'
  <1> DEFINE n == Len(out) \div Channels
  <1>1. /\ phase = "flac" /\ call = "return" /\ UNCHANGED <<file, decoder, chunk>>
        /\ phase' \in {"done", "flac_read"}
        /\ \/ buf' = [buf EXCEPT !.used = FlacFrames] \/ buf' = Alloc(file.samples)
           \/ buf' = [buf EXCEPT !.written = n]
    BY Zenon DEF SaveFlac, Return
  <1>2. file.kind = "flac"
    BY <1>1 DEF LoadInv, OtherInv
  <1>3. Ready /\ SoundLoad(file) /\ PlainFile(file)
    BY <1>2, LoadConstants DEF Ready
  <1>4. file.samples \in Nat
    BY <1>2, <1>3 DEF SoundLoad
  <1>5. n \in Nat
    <2>1. Len(out) \in Nat
      <3>1. ValuesAt(flac) \in Nat /\ out = First(ValuesAt(flac))
        BY <1>3, ValuesBound DEF Ready, DecoderInv
      <3>2. QED
        BY <3>1, FirstLen
    <2>2. Channels \in Nat \ {0}
      <3>1. 1 \in DOMAIN file.frames
        <4> DEFINE N == Len(file.frames)
        <4>1. N \in Nat /\ N > 0 /\ DOMAIN file.frames = 1 .. N
          BY <1>3, StartsAdd
        <4> HIDE DEF N
        <4>2. QED
          BY <4>1
      <3>2. Len(file.frames[1].subs) \in 1 .. MaxChannels
        BY <1>3, <3>1 DEF PlainFile, SoundFile, SoundFrame
      <3>3. QED
        BY <3>2, DecoderAssumption DEF Channels
    <2> DEFINE a == Len(out)
               b == Channels
    <2>3. a \in Nat /\ b \in Nat \ {0}
      BY <2>1, <2>2
    <2> HIDE DEF a, b
    <2>4. a \div b \in Nat
      BY <2>3, Quotient
    <2>5. QED
      BY <2>4 DEF a, b
  <1> HIDE DEF n
  <1>6. buf' \in BufType
    <2>1. /\ [buf EXCEPT !.used = FlacFrames] \in BufType /\ Alloc(file.samples) \in BufType
          /\ [buf EXCEPT !.written = n] \in BufType
      BY <1>4, <1>5, BufTypes, Zenon
    <2>2. QED
      BY <1>1, <2>1, Zenon
  <1>7. phase' \in {"idle", "flac_read", "done"} /\ chunk' = chunk /\ UNCHANGED <<file, decoder>>
    BY <1>1
  <1>8. QED
    BY <1>1, <1>2, <1>6, <1>7, FlacKeeps

LEMMA SetBufferKeeps ==
  ASSUME LoadInv, SetBuffer, bufSize' = bufSize
  PROVE  LoadInv'
  <1>1. phase = "done" /\ phase' = "idle" /\ UNCHANGED <<file, decoder, chunk, buf>>
    BY DEF SetBuffer
  <1>2. buf' \in BufType /\ chunk' \in Nat \ {0}
    BY <1>1 DEF LoadInv
  <1>3. CASE file.kind = "flac"
    <2>1. call = "return"
      BY <1>1, <1>3 DEF LoadInv, FlacInv
    <2>2. QED
      BY <1>1, <1>2, <1>3, <2>1, FlacKeeps
  <1>4. CASE file.kind # "flac"
    BY <1>1, <1>2, <1>4, OtherKeeps
  <1>5. QED
    BY <1>3, <1>4

LEMMA StutterKeeps ==
  ASSUME LoadInv, UNCHANGED vars
  PROVE  LoadInv'
  <1>1. /\ file' = file /\ UNCHANGED <<given, pos, flac, call, room, out>>
        /\ UNCHANGED <<file, decoder, bufSize>> /\ UNCHANGED <<bufSize, phase, chunk, buf>>
    BY DEF vars, decoder
  <1>2. file.kind = "flac" => DecoderInv'
    BY <1>1, DecoderSame DEF LoadInv, FlacInv
  <1>3. file'.kind = "flac" => FlacInv'
    BY <1>1, <1>2 DEF LoadInv, FlacInv
  <1>4. file'.kind # "flac" => OtherInv'
    BY <1>1 DEF LoadInv, OtherInv, FlacReset
  <1>5. QED
    BY <1>1, <1>3, <1>4 DEF LoadInv, BufType

LEMMA LoadInvInductive ==
  ASSUME LoadInv, [Next]_vars
  PROVE  LoadInv'
  <1>1. CASE UNCHANGED vars
    BY <1>1, StutterKeeps
  <1>2. CASE Next
    <2>1. bufSize' = bufSize /\ (Load \/ Step)
      BY <1>2 DEF Next
    <2>2. CASE Load
      BY <2>1, <2>2, LoadKeeps
    <2>3. CASE Step
      BY <2>1, <2>3, ReadHeaderKeeps, FindChunkKeeps, ReadSamplesKeeps, ReadOggKeeps, ReadSfxKeeps,
         ReadFlacKeeps, DecodeFlacKeeps, SaveFlacKeeps, SetBufferKeeps DEF Step, Flac
    <2>4. QED
      BY <2>1, <2>2, <2>3
  <1>3. QED
    BY <1>1, <1>2

LEMMA LoadInvHolds ==
  ASSUME LoadInv
  PROVE  LoadOK
  <1>1. ValuesInOrder
    <2> SUFFICES ASSUME file.kind = "flac" PROVE IsPrefix(out, Values)
      BY DEF ValuesInOrder
    <2> DEFINE h == ValuesAt(flac)
               s == First(h)
    <2>1. Ready
      BY LoadConstants
    <2>2. h \in Nat /\ h <= Len(Values) /\ Values \in Seq(ValueType) /\ out = s
      BY <2>1, ValuesBound DEF Ready, DecoderInv
    <2> HIDE DEF h
    <2>3. Len(s) = h /\ s = [i \in 1 .. h |-> Values[i]]
      BY <2>2, FirstLen DEF First
    <2> HIDE DEF s
    <2>4. SubSeq(s, 1, h) = [i \in 1 .. h |-> s[i]]
      BY <2>2, <2>3
    <2>5. SubSeq(Values, 1, h) = [i \in 1 .. h |-> Values[i]]
      BY <2>2
    <2>6. SubSeq(s, 1, h) = SubSeq(Values, 1, h)
      BY <2>2, <2>3, <2>4, <2>5
    <2>7. QED
      BY <2>2, <2>3, <2>6 DEF IsPrefix
  <1>2. TypeOK
    <2>1. /\ file \in Files /\ room \in 0 .. OutLen /\ call \in {"run", "return"} /\ buf \in BufType
      BY DEF LoadInv
    <2>2. {buf.avail, buf.used} \subseteq Nat \cup {Unset} /\ buf.written \in Nat
      BY <2>1 DEF BufType
    <2>3. CASE file.kind = "flac"
      <3>1. Ready /\ FlacInv
        BY <2>3, LoadConstants DEF LoadInv
      <3>2. flac.chan \in Nat /\ flac.cur \in 0 .. MaxBlockSize
        BY <3>1, ReadyFacts DEF DecoderType, Kept
      <3>3. given \in Nat /\ pos \in 0 .. given
        BY <3>1 DEF Ready, DecoderInv
      <3>4. QED
        BY <2>1, <2>2, <3>1, <3>2, <3>3 DEF TypeOK, FlacInv
    <2>4. CASE file.kind # "flac"
      <3>1. OtherInv
        BY <2>4 DEF LoadInv
      <3>2. flac.chan = 0 /\ flac.cur = 0 /\ given = 0 /\ pos = 0
        BY <3>1 DEF OtherInv, FlacReset
      <3>3. flac.chan \in Nat /\ flac.cur \in 0 .. MaxBlockSize /\ given \in Nat
              /\ pos \in 0 .. given
        BY <3>2, DecoderAssumption
      <3>4. phase \in {"idle", "header", "fmt", "data", "samples", "ogg", "rfx",
                       "flac_read", "flac", "done"}
        BY <3>1 DEF OtherInv
      <3>5. QED
        BY <2>1, <2>2, <3>3, <3>4 DEF TypeOK
    <2>5. QED
      BY <2>3, <2>4
  <1>3. QED
    BY <1>1, <1>2 DEF LoadOK

(* However a file is cut into pieces, the values that fx_flac_process has  *)
(* given to faun_readBuffer are those of the intact frames, in order, with *)
(* the wasted bits of each shifted back once: LoadOK, for every file that  *)
(* is not too much for the decoder and every size of the read buffer.      *)
THEOREM LoadsInOrder == ASSUME PlainFiles PROVE Spec => []LoadOK
  <1>1. Init => LoadInv
    BY LoadTypes
  <1>2. LoadInv /\ [Next]_vars => LoadInv'
    BY LoadInvInductive
  <1>3. LoadInv => LoadOK
    BY LoadInvHolds
  <1>4. QED
    BY <1>1, <1>2, <1>3, PTL DEF Spec

=============================================================================
