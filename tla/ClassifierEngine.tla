--------------------------- MODULE ClassifierEngine ---------------------------
(***************************************************************************)
(* The accelerator (classifier_top in arty/pl_db/hls/HW/                   *)
(* classifier_engine.cpp): three 3 x 3 convolutions, each fused with a     *)
(* 2 x 2 maximum through a buffer of two rows instead of a whole feature   *)
(* map.  A step is one row of a convolution with, after every second row,  *)
(* the pooling of the pair.  The buffers are static: they still hold the   *)
(* image before.                                                           *)
(*                                                                         *)
(* Feature maps are functions of <<y, x, channel>>.  Sums are formed by    *)
(* trees and lanes of accum_t additions, which wrap and so may be taken in *)
(* any order; what a lane reads, and which half of a packed product it     *)
(* takes, is kept.                                                         *)
(***************************************************************************)
EXTENDS EngineArithmetic, FiniteSets, FiniteSetsExt

CONSTANTS
    Size,               \* C0_OUT_SIZE: 96 in the code
    Channels,           \* of the image and after each layer: <<3, 16, 32, 64>>
    OcPar,              \* C1_OC_PAR = C2_OC_PAR: 16
    IcPar,              \* CS_IC_PAR: 8
    Images,             \* bound: padded images, as functions of <<y, x, c>>
    Models,             \* bound: models, [kernel, bias, rq] of each layer
    MaxRuns             \* bound: images that are classified in a row

Upto(n) == 0 .. n - 1
Pixels(n, c) == Upto(n) \X Upto(n) \X Upto(c)
K == 3

(* The sizes of the loops divide each other.  Images and kernels are in    *)
(* Int8 (act_t, weight_t), and so is an activation.                        *)
ASSUME EngineAssumption ==
    /\ Size \in Nat \ {0} /\ Size % 8 = 0
    /\ OcPar \in Nat \ {0} /\ OcPar % 2 = 0 /\ IcPar \in Nat \ {0} /\ MaxRuns \in Nat
    /\ \A n \in 1 .. 4 : Channels[n] \in Nat
    /\ \A n \in {2, 3} : Channels[n] % IcPar = 0 /\ Channels[n + 1] % OcPar = 0
    /\ ActMax <= 127
    /\ \A im \in Images : im \in [Pixels(Size + 2, Channels[1]) -> Int8]
    /\ \A m \in Models, n \in 1 .. 3 :
        /\ m[n].kernel \in [Upto(Channels[n + 1]) \X Upto(Channels[n]) \X Upto(K) \X Upto(K) -> Int8]
        /\ m[n].bias \in [Upto(Channels[n + 1]) -> Int]
        /\ m[n].rq.multiplier \in Int /\ m[n].rq.shift \in Nat

(* Rows and columns of the output of layer n, before pooling *)
size(n) == Size \div 2 ^ (n - 1)

VARIABLES
    layer,              \* 1 .. 3: layer that runs; 0: waits for AP_START
    oy,                 \* row that is next
    row_buf,            \* of each layer: <<row parity, x, c>>
    fmap,               \* fmap0p, fmap1p and out: pooled map of each layer
    image, model,       \* what the PS put into the buffers before the run
    runs

engineVars == <<layer, oy, row_buf, fmap, image, model, runs>>

(* Static memory; ActMax stands for whatever an earlier image left there. *)
EngineInit(images, models) ==
    /\ layer = 0 /\ oy = 0 /\ runs = 0
    /\ row_buf = [n \in 1 .. 3 |-> [p \in Upto(2) \X Upto(size(n)) \X Upto(Channels[n + 1]) |-> ActMax]]
    /\ fmap = [n \in 1 .. 3 |-> [p \in Pixels(size(n) \div 2, Channels[n + 1]) |-> ActMax]]
    /\ image \in images /\ model \in models

-----------------------------------------------------------------------------
(* The additions of an accum_t, in whatever order *)
total(g) == MapThenSumSet(LAMBDA i : g[i], DOMAIN g)

(* The weights in DDR: layer 1 as OIHW, layers 2 and 3 as WPACK *)
oihw(kernel, oc, ic, ky, kx)  == kernel[<<oc, ic, ky, kx>>]
wpack(kernel, oc, ky, kx, ic) == kernel[<<oc, ic, ky, kx>>]

(* w_local, as the loads at the head of each layer fill it *)
weight(n, oc, ky, kx, ic) ==
    IF n = 1 THEN oihw(model[n].kernel, oc, ic, ky, kx)
             ELSE wpack(model[n].kernel, oc, ky, kx, ic)

(* conv0: the image is padded in DDR; dot27 is a plain product per tap *)
dot27(ox, oc) ==
    total([t \in Upto(K) \X Upto(K) \X Upto(Channels[1]) |->
               image[<<oy + t[1], ox + t[2], t[3]>>] * weight(1, oc, t[1], t[2], t[3])])

(* conv1, conv2: padding by the bounds test *)
in_bounds(n, iy, ix) == iy \in Upto(size(n)) /\ ix \in Upto(size(n))
px(n, iy, ix, ic)    == IF in_bounds(n, iy, ix) THEN fmap[n - 1][<<iy, ix, ic>>] ELSE 0

(* Channel oc is lane oc % OcPar of its block; lanes 2k and 2k + 1 share   *)
(* the multiplication by one activation.                                   *)
product(n, a, oc, ky, kx, ic) ==
    LET o_lo == oc - ((oc % OcPar) % 2)
        pair == mac_pair(a, weight(n, o_lo, ky, kx, ic), weight(n, o_lo + 1, ky, kx, ic))
    IN  IF oc = o_lo THEN pair.lo ELSE pair.hi

(* partial[o][i]: taps and blocks of input channels of one lane *)
partial(n, ox, oc, i) ==
    total([t \in Upto(K) \X Upto(K) \X Upto(Channels[n] \div IcPar) |->
               product(n, px(n, oy - 1 + t[1], ox - 1 + t[2], t[3] * IcPar + i),
                       oc, t[1], t[2], t[3] * IcPar + i)])

reduce8(n, ox, oc) == total([i \in Upto(IcPar) |-> partial(n, ox, oc, i)])

convolve(n, ox, oc) ==
    LET acc == model[n].bias[oc] + (IF n = 1 THEN dot27(ox, oc) ELSE reduce8(n, ox, oc))
    IN  requant_relu(stored(acc, AccRange), model[n].rq)

-----------------------------------------------------------------------------
(* AP_START: the PS has put the next image into the input buffer *)
ApStart(im) ==
    /\ layer = 0 /\ runs < MaxRuns
    /\ image' = im
    /\ layer' = 1 /\ oy' = 0 /\ runs' = runs + 1
    /\ UNCHANGED <<row_buf, fmap, model>>

(* Slip: the pair is pooled when its first row is there. *)
pairComplete_Slip_Early(y) == y % 2 = 0
pairComplete(y) == y % 2 = 1

Max2x2(buf, col, c) == Max({buf[<<r, 2 * col + d, c>>] : r, d \in {0, 1}})

Row(n) ==
    LET buf == [p \in DOMAIN row_buf[n] |->
                  IF p[1] = oy % 2 THEN convolve(n, p[2], p[3]) ELSE row_buf[n][p]]
    IN  /\ layer = n
        /\ row_buf' = [row_buf EXCEPT ![n] = buf]
        /\ fmap' = IF pairComplete(oy)
                   THEN [fmap EXCEPT ![n] =
                          [p \in DOMAIN fmap[n] |->
                             IF p[1] = oy \div 2 THEN Max2x2(buf, p[2], p[3]) ELSE fmap[n][p]]]
                   ELSE fmap
        /\ IF oy + 1 < size(n)
           THEN oy' = oy + 1 /\ layer' = layer
           ELSE oy' = 0 /\ layer' = (n + 1) % 4
        /\ UNCHANGED <<image, model, runs>>

EngineNext == (\E im \in Images : ApStart(im)) \/ (\E n \in 1 .. 3 : Row(n))

EngineSpec == EngineInit(Images, Models) /\ [][EngineNext]_engineVars

-----------------------------------------------------------------------------
(* The layers as they are meant: a whole map is convolved, then pooled.    *)
at(map, p) == IF p \in DOMAIN map THEN map[p] ELSE 0

Conv(m, n, map, pad) ==
    [p \in Pixels(size(n), Channels[n + 1]) |->
        requant_relu(
            stored(m[n].bias[p[3]]
                     + total([t \in Upto(Channels[n]) \X Upto(K) \X Upto(K) |->
                                  m[n].kernel[<<p[3], t[1], t[2], t[3]>>]
                                    * at(map, <<p[1] + t[2] - pad, p[2] + t[3] - pad, t[1]>>)]),
                   AccRange),
            m[n].rq)]

block(map, p) == {map[<<2 * p[1] + r, 2 * p[2] + d, p[3]>>] : r, d \in {0, 1}}

Pool(n, map) == [p \in Pixels(size(n) \div 2, Channels[n + 1]) |-> Max(block(map, p))]

(* After a run the output buffer holds the convolutions and poolings of    *)
(* the image of this run: neither the two-row buffers, the two layouts of  *)
(* the weights, the padding and the paired lanes, nor what the image       *)
(* before left in the static buffers, changes a value.                     *)
OutputIsReference ==
    (layer = 0 /\ runs > 0) =>
        /\ fmap[1] = Pool(1, Conv(model, 1, image, 0))
        /\ \A n \in {2, 3} : fmap[n] = Pool(n, Conv(model, n, fmap[n - 1], 1))
=============================================================================
