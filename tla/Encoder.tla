------------------------------- MODULE Encoder -------------------------------
(***************************************************************************)
(* The encoder on the CPU: firmware/encoder.c, which is the contract the   *)
(* fabric is held to, firmware/encoder_fast.c, which has to match it byte  *)
(* for byte, and firmware/m5b.c, which runs the one and then the other, in *)
(* C and in the DSP's instructions, over the same buffers.                 *)
(*                                                                         *)
(* Bytes are numbers.  A float is the fraction <<n, d>> it stands for:     *)
(* float32's own rounding is left out, and both kernels and the head share *)
(* the operators that have it.  A descriptor carries its channels' biases  *)
(* and scales, which the blob keeps at b_off and m_off.  A buffer holds    *)
(* one element to an index; its size in bytes is what the code bills it.   *)
(***************************************************************************)
EXTENDS Integers, SequencesExt

CONSTANTS
  MAX_WCHAN,             \* FGX_MAX_WCHAN: the weights of one output channel
  TILE,                  \* FGX_TILE: columns to an im2col tile
  MBITS, SMAX,           \* FGX_RQ_MBITS, FGX_RQ_SMAX
  SCRATCH_MAX, COL_MAX,  \* m5b.c's two buffers and its columns, in bytes
  EMBED_MAX,             \* its embedding, in floats
  Blobs,                 \* weights.bin, as the linker took it in
  Vectors,               \* testvec.bin's images, a sequence of tensors of codes
  Stale                  \* what nothing has been written to holds

\* No layer that export.py writes is empty, and no tensor has so many elements that
\* its bytes, four to a float, do not fit size_t: sizes are numbers here.
ASSUME EncoderAssumption ==
  /\ {MAX_WCHAN, TILE, MBITS, SMAX, SCRATCH_MAX, COL_MAX, EMBED_MAX} \subseteq Nat \ {0}
  /\ Vectors # <<>>
  /\ \A b \in Blobs :
       /\ b.in_ch \in Nat /\ b.in_size \in Nat /\ Len(b.desc) \in Nat
       /\ b.in_ch * b.in_size * b.in_size < 2 ^ 30
       /\ \A i \in 1 .. Len(b.desc) :
            LET d == b.desc[i]
            IN /\ {d.ksize, d.cin, d.cout, d.oh, d.ow} \subseteq Nat \ {0}
               /\ d.cout * d.oh * d.ow < 2 ^ 30

VARIABLES
  blob,              \* the model m points into
  phase,
  mode, image,       \* run_images(): the kernel, and the vector it is on
  layer, src, dst,   \* fgx_run(), fgx_run_fast(): i and the ping-pong
  mem, col,          \* scratch_a, scratch_b; col_buf
  t0, oc, acc,       \* fgx_conv_fast()
  embed,
  spilt              \* the buffers outside of which a store fell

model == <<blob, mode, image>>
encoderVars == <<model, phase, layer, src, dst, mem, col, t0, oc, acc, embed, spilt>>

Least(x, y) == IF x < y THEN x ELSE y
Up4(x)      == 4 * ((x + 3) \div 4)
NLayers(b)  == Len(b.desc)
Desc(i)     == blob.desc[i + 1]
Taps(d)     == d.cin * d.ksize * d.ksize
Points(d)   == d.oh * d.ow
Stride(d)   == IF d.h = d.oh THEN 1 ELSE 2
EmitsFloat(b, i) == i + 2 >= NLayers(b)

-----------------------------------------------------------------------------
\* What a blob is refused for, and the room it asks for.

\* fgx_open(): magic, version and desc_size say whether the header's are the
\* ones expected, missing is the bytes by which the blob is shorter than its
\* own sections.
Opens(b) ==
  /\ b.magic /\ b.version /\ b.desc_size
  /\ NLayers(b) \in 2 .. 64
  /\ b.missing = 0
  /\ \A d \in ToSet(b.desc) :
       d.wbits \in {4, 8} /\ (d.wbits = 4 => Taps(d) % 2 = 0) /\ Taps(d) <= MAX_WCHAN

\* Mutant: a float is billed one byte.
ScratchBytes_Codes(b) ==
  Up4(Max({b.in_ch * b.in_size * b.in_size}
            \cup {b.desc[i + 1].cout * Points(b.desc[i + 1]) : i \in 0 .. (NLayers(b) - 1)}))

\* fgx_scratch_bytes(), for each of the two buffers.
ScratchBytes(b) ==
  LET Out(i) == b.desc[i + 1].cout * Points(b.desc[i + 1])
                  * (IF EmitsFloat(b, i) THEN 4 ELSE 1)
  IN Up4(Max({b.in_ch * b.in_size * b.in_size} \cup {Out(i) : i \in 0 .. (NLayers(b) - 1)}))

\* fgx_fast_col_bytes(): the head has no columns.
ColBytes(b) == Max({Up4(Taps(b.desc[i])) * TILE : i \in 1 .. (NLayers(b) - 1)})

-----------------------------------------------------------------------------
\* Arithmetic.

S8(x) == IF x < 128 THEN x ELSE x - 256
S4(x) == IF x < 8 THEN x ELSE x - 16
Load(d, x) == IF d.unsigned_in THEN x ELSE S8(x)

\* fgx_rint(), to the even one of two; fgx_sat8().
Rint(num, d) ==
  LET q == num \div d
      r == num % d
  IN IF r < d - r THEN q ELSE IF r > d - r THEN q + 1 ELSE q + (q % 2)
Sat8(x) == IF x < 0 THEN 0 ELSE Least(x, 255)

Requant(a, b, mult, relu) ==
  LET y == (a + b) * mult[1] IN <<IF relu /\ y < 0 THEN 0 ELSE y, mult[2]>>

\* mult * 2^s to the nearest.
Scaled(mult, s) == (2 * mult[1] * 2^s + mult[2]) \div (2 * mult[2])

\* frexpf(): MBITS - e, the shift that brings mult into [2^(MBITS-1), 2^MBITS).
Normal(mult) ==
  CHOOSE s \in 0 .. (2 * SMAX) :
    2^(MBITS - 1) * mult[2] <= mult[1] * 2^s /\ mult[1] * 2^s < 2^MBITS * mult[2]

\* fgx_rq_pick(); a scale of zero is not to shift by -1.
RqPick(mult) ==
  LET s == Least(Normal(mult), SMAX)
  IN IF mult[1] <= 0 THEN [M |-> 0, s |-> 1]
     ELSE IF Scaled(mult, s) >= 2^MBITS /\ s > 0
     THEN [M |-> Scaled(mult, s - 1), s |-> s - 1]
     ELSE [M |-> Scaled(mult, s), s |-> s]

CodeFixed(a, b, rq) == Sat8(((a + b) * rq.M + 2^(rq.s - 1)) \div 2^rq.s)

\* The epilogue both kernels share.
Emit(i, ch, a) ==
  LET d == Desc(i)
      b == d.bias[ch + 1]
      mult == d.mult[ch + 1]
  IN IF EmitsFloat(blob, i) THEN Requant(a, b, mult, d.relu)
     ELSE CodeFixed(a, b, RqPick(mult))

-----------------------------------------------------------------------------
\* The weights of a channel, and the two ways of summing.

\* fgx_wchan(): a pointer into the blob, or a buffer the nibbles are spread into.
WChan(d, ch) ==
  [i \in 0 .. (Taps(d) - 1) |->
     IF d.wbits = 8 THEN S8(blob.wts[d.w_off + ch * Taps(d) + i + 1])
     ELSE LET byte == blob.wts[d.w_off + ((ch * Taps(d)) \div 2) + (i \div 2) + 1]
          IN S4(IF i % 2 = 0 THEN byte % 16 ELSE byte \div 16)]

\* conv_acc_one(): taps outside the image are skipped.
ConvAccOne(d, in, wc, oy, ox) ==
  LET k == d.ksize
      Row(ky) == oy * Stride(d) - 1 + ky
      Cell(kx) == ox * Stride(d) - 1 + kx
      Visited == {t \in (0 .. (d.cin - 1)) \X (0 .. (k - 1)) \X (0 .. (k - 1)) :
                    Row(t[2]) \in 0 .. (d.h - 1) /\ Cell(t[3]) \in 0 .. (d.w - 1)}
      Term(t) == Load(d, in[t[1] * d.h * d.w + Row(t[2]) * d.w + Cell(t[3])])
                   * wc[t[1] * k * k + t[2] * k + t[3]]
  IN MapThenSumSet(Term, Visited)

\* FGX_DEF_DOT2_C.
DotC(d, a, w, K) ==
  MapThenSumSet(LAMBDA j : Load(d, a[j]) * w[j], 0 .. (K - 1))

\* __sxtb16 and __uxtb16 take bytes 0 and 2 of a word, __ror by 8 brings 1 and 3
\* there, __smlad adds the two products.
Word4(a, j) == <<a[j], a[j + 1], a[j + 2], a[j + 3]>>
Ror8(v)     == <<v[2], v[3], v[4], v[1]>>
Sxtb16(v)   == <<S8(v[1]), S8(v[3])>>
Uxtb16(v)   == <<v[1], v[3]>>
Smlad(x, y, s) == s + x[1] * y[1] + x[2] * y[2]

\* Mutant: no epilogue, the tail is a word like the others, read past the row.
DotDsp_Padded(d, a, w, K) ==
  LET Unpack(v) == IF d.unsigned_in THEN Uxtb16(v) ELSE Sxtb16(v)
      Four(s, j) ==
        LET wv == [l \in 1 .. 4 |-> IF j + l - 1 < K THEN w[j + l - 1] % 256 ELSE 1]
            v  == Word4(a, j)
        IN Smlad(Unpack(Ror8(v)), Sxtb16(Ror8(wv)), Smlad(Unpack(v), Sxtb16(wv), s))
  IN FoldLeft(Four, 0, [m \in 1 .. ((K + 3) \div 4) |-> 4 * (m - 1)])

\* FGX_DEF_DOT2_DSP: words of four taps, then what is left one by one.
DotDsp(d, a, w, K) ==
  LET Unpack(v) == IF d.unsigned_in THEN Uxtb16(v) ELSE Sxtb16(v)
      Four(s, j) ==
        LET wv == [l \in 1 .. 4 |-> w[j + l - 1] % 256]
            v  == Word4(a, j)
        IN Smlad(Unpack(Ror8(v)), Sxtb16(Ror8(wv)), Smlad(Unpack(v), Sxtb16(wv), s))
  IN FoldLeft(Four, 0, [m \in 1 .. (K \div 4) |-> 4 * (m - 1)])
       + MapThenSumSet(LAMBDA j : Load(d, a[j]) * w[j], (K - (K % 4)) .. (K - 1))

\* Two columns at a time; an odd one at the end of a tile goes in with itself.
Columns(wide) ==
  {t \in 0 .. (wide - 1) : t - (t % 2) + 1 < wide} \cup {t \in {wide - 1} : wide % 2 = 1}

\* fgx_im2col(): byte j of the column of output p.  A window inside the image is
\* copied by rows, without a test.
Column(d, in, p, j) ==
  LET k  == d.ksize
      iy0 == (p \div d.ow) * Stride(d) - 1
      ix0 == (p % d.ow) * Stride(d) - 1
      iy == iy0 + ((j \div k) % k)
      ix == ix0 + (j % k)
      interior == iy0 >= 0 /\ ix0 >= 0 /\ iy0 + k <= d.h /\ ix0 + k <= d.w
  IN IF interior \/ (iy \in 0 .. (d.h - 1) /\ ix \in 0 .. (d.w - 1))
     THEN in[(j \div (k * k)) * d.h * d.w + iy * d.w + ix]
     ELSE 0

-----------------------------------------------------------------------------
\* fgx_pool_head(): the mean of each channel, quantized; then the head.
PoolCodes(b, in) ==
  LET lc == b.desc[NLayers(b) - 1]
      hw == Points(lc)
      Sum(c) == MapThenSumSet(LAMBDA j : in[c * hw + j][1], 0 .. (hw - 1))
  IN [c \in 0 .. (lc.cout - 1) |->
        Sat8(Rint(Sum(c) * b.inv[1], in[c * hw][2] * hw * b.inv[2]))]

HeadOf(codes) ==
  LET hd == Desc(NLayers(blob) - 1)
      Acc(o) == LET w == WChan(hd, o)
                IN MapThenSumSet(LAMBDA j : codes[j] * w[j], 0 .. (hd.cin - 1))
  IN [o \in 0 .. (hd.cout - 1) |-> Requant(Acc(o), hd.bias[o + 1], hd.mult[o + 1], FALSE)]

-----------------------------------------------------------------------------
\* The buffers.

Tensor == IF src = "in" THEN Vectors[image] ELSE mem[src]

\* A store that is not over buffer's end, or one that is.
Spills(buffer, over) == spilt' = spilt \cup {x \in {buffer} : over}

\* Elements at the places of at go into dst.
Store(at, Value(_), float) ==
  /\ mem' = [mem EXCEPT ![dst] = [x \in DOMAIN @ |-> IF x \in at THEN Value(x) ELSE @[x]]]
  /\ Spills("scratch", (Max(at) + 1) * (IF float THEN 4 ELSE 1) > SCRATCH_MAX)

EncoderInit ==
  /\ blob \in Blobs /\ phase = "boot" /\ mode = 1 /\ image = 1
  /\ layer = 0 /\ src = "in" /\ dst = "a"
  /\ mem = [b \in {"a", "b"} |-> [x \in 0 .. (SCRATCH_MAX - 1) |-> 0]]
  /\ col = [x \in 0 .. (COL_MAX - 1) |-> 0]
  /\ t0 = 0 /\ oc = 0 /\ acc = [t \in 0 .. (TILE - 1) |-> Stale]
  /\ embed = Stale /\ spilt = {}

\* main(), up to the first image.
Open ==
  /\ phase = "boot"
  /\ phase' = IF Opens(blob) /\ ScratchBytes(blob) <= SCRATCH_MAX /\ ColBytes(blob) <= COL_MAX
              THEN "image" ELSE "failed"
  /\ UNCHANGED <<model, layer, src, dst, mem, col, t0, oc, acc, embed, spilt>>

Kernel == IF mode = 1 THEN "channel" ELSE "tile"

\* run_images(): one call of fgx_run() or fgx_run_fast().
StartImage ==
  /\ phase = "image"
  /\ layer' = 0 /\ src' = "in" /\ dst' = "a" /\ t0' = 0 /\ oc' = 0
  /\ phase' = Kernel
  /\ UNCHANGED <<model, mem, col, acc, embed, spilt>>

\* fgx_conv_ref(), one output channel.
RefChannel ==
  LET d  == Desc(layer)
      wc == WChan(d, oc)
      base == oc * Points(d)
      Value(x) == Emit(layer, oc, ConvAccOne(d, Tensor, wc, (x - base) \div d.ow,
                                             (x - base) % d.ow))
  IN /\ phase = "channel"
     /\ Store(base .. (base + Points(d) - 1), Value, EmitsFloat(blob, layer))
     /\ oc' = oc + 1
     /\ phase' = IF oc + 1 < d.cout THEN "channel" ELSE "mark"
     /\ UNCHANGED <<model, layer, src, dst, col, t0, acc, embed>>

\* fgx_conv_fast(), the columns of a tile.
Im2col ==
  LET d == Desc(layer)
      K == Taps(d)
      kpad == Up4(K)
      wide == Least(Points(d) - t0, TILE)
  IN /\ phase = "tile"
     /\ col' = [x \in DOMAIN col |->
                  IF x \div kpad < wide /\ x % kpad < K
                  THEN Column(d, Tensor, t0 + (x \div kpad), x % kpad) ELSE col[x]]
     /\ Spills("col", (wide - 1) * kpad + K > COL_MAX)
     /\ oc' = 0 /\ phase' = "row"
     /\ UNCHANGED <<model, layer, src, dst, mem, t0, acc, embed>>

\* fgx_conv_fast(), an output channel against the columns of the tile.
Row ==
  LET d == Desc(layer)
      K == Taps(d)
      kpad == Up4(K)
      wide == Least(Points(d) - t0, TILE)
      w == WChan(d, oc)
      Line(t) == [j \in 0 .. (kpad - 1) |-> col[t * kpad + j]]
      Dot(t) == IF mode = 3 THEN DotDsp(d, Line(t), w, K) ELSE DotC(d, Line(t), w, K)
      base == oc * Points(d) + t0
      Value(x) == Emit(layer, oc, acc'[x - base])
      tiles == t0 + TILE < Points(d)
  IN /\ phase = "row"
     /\ acc' = [t \in DOMAIN acc |-> IF t \in Columns(wide) THEN Dot(t) ELSE acc[t]]
     /\ Store(base .. (base + wide - 1), Value, EmitsFloat(blob, layer))
     /\ oc' = oc + 1
     /\ t0' = IF oc + 1 = d.cout THEN t0 + TILE ELSE t0
     /\ phase' = IF oc + 1 < d.cout THEN "row" ELSE IF tiles THEN "tile" ELSE "mark"
     /\ UNCHANGED <<model, layer, src, dst, col, embed>>

\* The other of the two.
NextBuffer(buf) == IF buf = "a" THEN "b" ELSE "a"

\* fgx_run(), fgx_run_fast(): the end of a layer.
EndLayer ==
  /\ phase = "mark"
  /\ src' = dst /\ dst' = NextBuffer(dst)
  /\ layer' = layer + 1 /\ t0' = 0 /\ oc' = 0
  /\ phase' = IF layer = NLayers(blob) - 2 THEN "head" ELSE Kernel
  /\ UNCHANGED <<model, mem, col, acc, embed, spilt>>

\* fgx_pool_head(), the means; the codes go into the buffer the last layer left free.
PoolMeans ==
  LET codes == PoolCodes(blob, Tensor)
      Value(x) == codes[x]
  IN /\ phase = "head"
     /\ Store(DOMAIN codes, Value, FALSE)
     /\ phase' = "pooled"
     /\ UNCHANGED <<model, layer, src, dst, col, t0, oc, acc, embed>>

\* fgx_pool_head(), the head: a float to each of its outputs.  Nothing has compared
\* their number with embed's, and what a program does that stores behind it is
\* undefined.
Wide(b) == b.desc[NLayers(b)].cout > EMBED_MAX

RunHead ==
  /\ phase = "pooled"
  /\ Spills("embed", Wide(blob))
  /\ IF Wide(blob) THEN phase' = "undefined" /\ UNCHANGED embed
                   ELSE phase' = "done" /\ embed' = HeadOf(mem[dst])
  /\ UNCHANGED <<model, layer, src, dst, mem, col, t0, oc, acc>>

\* run_images() and main(): the next vector, or the next kernel; the reference
\* runs the first vector alone.
NextImage ==
  LET last == image = (IF mode = 1 THEN 1 ELSE Len(Vectors))
  IN /\ phase = "done"
     /\ image' = IF last THEN 1 ELSE image + 1
     /\ mode' = IF last /\ mode < 3 THEN mode + 1 ELSE mode
     /\ phase' = IF last /\ mode = 3 THEN "over" ELSE "image"
     /\ UNCHANGED <<blob, layer, src, dst, mem, col, t0, oc, acc, embed, spilt>>

EncoderNext ==
  Open \/ StartImage \/ RefChannel \/ Im2col \/ Row \/ EndLayer \/ PoolMeans
  \/ RunHead \/ NextImage
EncoderSpec == EncoderInit /\ [][EncoderNext]_encoderVars

-----------------------------------------------------------------------------
\* The contract, from the tensors alone.

\* Weight f of a tensor of weights, however it is packed.
FlatWeight(d, f) ==
  IF d.wbits = 8 THEN S8(blob.wts[d.w_off + f + 1])
  ELSE S4((blob.wts[d.w_off + (f \div 2) + 1] \div 16^(f % 2)) % 16)

ContractAcc(d, in, ch, p) ==
  LET At(ic, iy, ix) ==
        IF iy \in 0 .. (d.h - 1) /\ ix \in 0 .. (d.w - 1)
        THEN Load(d, in[(ic * d.h + iy) * d.w + ix]) ELSE 0
      Term(f) ==
        LET kx == f % d.ksize
            ky == (f \div d.ksize) % d.ksize
        IN At(f \div (d.ksize * d.ksize), (p \div d.ow) * Stride(d) + ky - 1,
              (p % d.ow) * Stride(d) + kx - 1) * FlatWeight(d, ch * Taps(d) + f)
  IN MapThenSumSet(Term, 0 .. (Taps(d) - 1))

ContractLayer(i, in) ==
  LET d == Desc(i)
  IN [o \in 0 .. (d.cout * Points(d) - 1) |->
        Emit(i, o \div Points(d), ContractAcc(d, in, o \div Points(d), o % Points(d)))]

\* Whatever kernel ran it and however its weights are packed, a layer that has
\* ended has left its tensor as the contract has it: every column of every tile,
\* none of them with a byte of an earlier tile or of the padding of its row.
LayersAreTheContract ==
  phase = "mark" =>
    LET right == ContractLayer(layer, Tensor)
    IN \A o \in DOMAIN right : mem[dst][o] = right[o]

\* The embedding of a run is the model's for this image: each layer has read the
\* one before it, whole, whatever earlier runs left in the two buffers.
EmbeddingIsTheModels ==
  phase = "done" =>
    embed = HeadOf(PoolCodes(blob,
              FoldLeft(LAMBDA in, i : ContractLayer(i - 1, in), Vectors[image],
                       [i \in 1 .. (NLayers(blob) - 1) |-> i])))

\* The fixed-point code is within one of the rounded product it stands for, and
\* its multiplier fits the width of the table the fabric is sent.
CodesAreWithinOne ==
  phase = "mark" /\ ~EmitsFloat(blob, layer) =>
    \A o \in 0 .. (Desc(layer).cout * Points(Desc(layer)) - 1) :
      LET d == Desc(layer)
          ch == o \div Points(d)
          y == Requant(ContractAcc(d, Tensor, ch, o % Points(d)), d.bias[ch + 1],
                       d.mult[ch + 1], FALSE)
      IN /\ mem[dst][o] - Sat8(Rint(y[1], y[2])) \in {-1, 0, 1}
         /\ RqPick(d.mult[ch + 1]).M < 2^MBITS

\* What encoder.h promises of either kernel, at the end of every layer and of every
\* image: the contract's tensors and the model's embedding, to the byte, at the
\* resolution of the fabric's table.
AnswersAreTheModels ==
  LayersAreTheContract /\ EmbeddingIsTheModels /\ CodesAreWithinOne

\* A blob that was not refused is stored in the buffers m5b.c has for it: never
\* outside scratch_a, scratch_b or col_buf, whose sizes main() compares, and outside
\* embed, whose size it does not, only if its head has more outputs than that.
BuffersAreKept == spilt \subseteq {buffer \in {"embed"} : Wide(blob)}

\* m5b.c's main() runs a blob that fits (m5b.c:208), its other errors being refused
\* "because a weights.bin is a file on a filesystem and the export that wrote it is
\* not present" (encoder.c:63): so no head is stored behind embed.
EmbedHolds == "embed" \notin spilt
=============================================================================
