------------------------------ MODULE Kernels ------------------------------
(***************************************************************************)
(* The inner loops that code a stretch of the shards                       *)
(* (reedsolomon/galois_amd64.go, galoisAvx512_amd64.go, the generated      *)
(* galois_gen_amd64.go and galois_gen_switch_amd64.go with their generator *)
(* _gen/gen.go, genAvx2Matrix of galois.go), followed through the byte at  *)
(* one position `at' of every shard.                                       *)
(*                                                                         *)
(* Bytes are symbolic.  The byte of a data shard is a set of sources; the  *)
(* byte of an output is a set of terms <<source, cell>>, the source times  *)
(* the matrix entry of that cell; a cell is <<row, column>>.  Writing sets *)
(* the byte, adding is the symmetric difference, so a term added twice is  *)
(* lost.  What the products are is the subject of module Galois.           *)
(***************************************************************************)
EXTENDS Integers, Sequences, FiniteSets, FiniteSetsExt

avx2CodeGenMinSize   == 64
avx2CodeGenMinShards == 3
maxAvx2Inputs        == 10
maxAvx2Outputs       == 10
minAvx2Size          == 64

(* Mutant: the mask that rounds to the step of the 32-byte kernels, not    *)
(* to that of the 64-byte ones.                                            *)
avxMasked32(n) == (n \div 32) * 32

(* n & avxSizeMask                                                         *)
avxMasked(n) == (n \div minAvx2Size) * minAvx2Size

times(byte, cell) == {<<source, cell>> : source \in byte}

(* What a kernel leaves in a byte: it overwrites or adds.                  *)
put(adds, old, terms) == IF adds THEN SymDiff(old, terms) ELSE terms

-----------------------------------------------------------------------------
(* One coefficient over a slice: galMulSlice, galMulSliceXor, sliceXor.    *)

bigSwitchover == 128

roundDown(n, step) == (n \div step) * step

(* The lengths that the two vector loops take off the front of a slice of  *)
(* length n; the second loop wants `least' bytes.  The rest is done byte   *)
(* by byte.                                                                *)
vectorPart(n, wide, narrow, least) ==
  LET big == IF wide > 0 /\ n >= bigSwitchover THEN roundDown(n, wide) ELSE 0
  IN  <<big, IF narrow > 0 /\ n - big >= least
             THEN roundDown(n - big, narrow) ELSE 0>>

(* How many of the three loops reach the byte at offset i of the slice.    *)
passes(i, n, part) ==
  LET reaches(from, upTo) == IF from <= i /\ i < upTo THEN 1 ELSE 0
  IN  reaches(0, part[1]) + reaches(part[1], part[1] + part[2])
      + reaches(part[1] + part[2], n)

(* cpu.ssse3 and the others are the switches of the options; without the   *)
(* assembly (galois_noasm.go) every loop is the last one.                  *)
mulPart(cpu, n, least) ==
  IF cpu.avx2 THEN vectorPart(n, 64, 32, least)
  ELSE IF cpu.ssse3 THEN vectorPart(n, 0, 16, 0)
  ELSE <<0, 0>>

xorPart(cpu, n) ==
  IF cpu.sse2 THEN vectorPart(n, 64, 16, 16) ELSE <<0, 0>>

(* out = c * in; the copy of c = 1 writes the same byte.                   *)
galMulSlice(cpu, at, lo, hi, out, terms) ==
  IF passes(at - lo, hi - lo, mulPart(cpu, hi - lo, 33)) = 1 THEN terms ELSE out

(* out ^= c * in; c = 1 goes through sliceXor.                             *)
galMulSliceXor(cpu, at, lo, hi, out, terms) ==
  IF passes(at - lo, hi - lo, mulPart(cpu, hi - lo, 32)) = 1
  THEN put(TRUE, out, terms) ELSE out

(* out ^= in, the byte of `in' being a set of sources.                     *)
sliceXor(cpu, at, lo, hi, in, out) ==
  IF passes(at - lo, hi - lo, xorPart(cpu, hi - lo)) = 1
  THEN SymDiff(out, in) ELSE out

-----------------------------------------------------------------------------
(* The generated AVX2 kernels.  They read a buffer that holds the tables   *)
(* of one coefficient after the other; here the buffer is a function from  *)
(* the index of a coefficient to its cell.                                 *)

(* The coefficients of `outs' rows from outIdx and `ins' columns from      *)
(* inIdx, in the order in which a kernel of that shape reads them.         *)
genAvx2Matrix(outIdx, inIdx, ins, outs) ==
  [k \in 0..(ins * outs - 1) |-> <<outIdx + (k % outs), inIdx + (k \div outs)>>]

(* _gen/gen.go: how many bytes one turn of the generated loop codes.       *)
perLoop(wide) == IF wide THEN 64 ELSE 32

(* gen.go emits the 64-byte kernels for up to three outputs, and the       *)
(* switch then calls those.                                                *)
sixty64(outs) == outs < 4

(* Whether the tables fit the sixteen YMM registers and the output         *)
(* pointers the general ones; otherwise the kernel addresses the outputs   *)
(* by offset.                                                              *)
estimate(ins, outs, wide) ==
  ins * outs * (IF wide THEN 4 ELSE 2) + outs + (IF wide THEN 7 ELSE 5)
  - (IF outs = 1 THEN 2 ELSE 0)
loadNone(ins, outs, wide) == estimate(ins, outs, wide) > 16
regDst(ins, outs, wide) == loadNone(ins, outs, wide) => ins + outs <= 13

(* The first byte an output's turn number t stores to: the pointer is      *)
(* advanced, or the common offset is.                                      *)
storesAt(ins, outs, wide, start, t) ==
  LET step == perLoop(wide)
      pointer == IF regDst(ins, outs, wide) THEN start + t * step ELSE 0
      offset == IF regDst(ins, outs, wide) THEN 0 ELSE start + t * step
  IN  pointer + offset

(* One kernel mulAvxTwo_<ins>x<outs>: inputs from inIdx and outputs from   *)
(* outIdx, n bytes from start, the coefficients in m.                      *)
mulAvxTwo(xor, at, m, data, out, inIdx, ins, outIdx, outs, start, n) ==
  LET wide == sixty64(outs)
      turns == n \div perLoop(wide)
      touched == \E t \in 0..(turns - 1) :
                    LET first == storesAt(ins, outs, wide, start, t)
                    IN  first <= at /\ at < first + perLoop(wide)
      terms(j) == UNION {times(data[inIdx + i], m[i * outs + j]) :
                           i \in 0..(ins - 1)}
  IN  IF ~touched THEN out
      ELSE [o \in DOMAIN out |->
              IF o \in outIdx..(outIdx + outs - 1)
              THEN put(xor, out[o], terms(o - outIdx)) ELSE out[o]]

(* galMulSlicesAvx2 and galMulSlicesAvx2Xor round the length, pick the     *)
(* kernel by its shape and return the length done.                         *)
galMulSlicesAvx2(at, m, data, out, inIdx, ins, outIdx, outs, start, stop) ==
  mulAvxTwo(FALSE, at, m, data, out, inIdx, ins, outIdx, outs, start,
            avxMasked(stop - start))

galMulSlicesAvx2Xor(at, m, data, out, inIdx, ins, outIdx, outs, start, stop) ==
  mulAvxTwo(TRUE, at, m, data, out, inIdx, ins, outIdx, outs, start,
            avxMasked(stop - start))

-----------------------------------------------------------------------------
(* The AVX512 kernels: eight inputs and one, two or four outputs a time.   *)

dimIn == 8

none == <<>>

(* setupMatrix81, 82 and 84: the coefficients of dimOut rows, each a run   *)
(* of eight; the ones beyond the matrix are nulled.                        *)
setupMatrix(columns, inputOffset, outputOffset, dimOut) ==
  [k \in 0..(dimIn * dimOut - 1) |->
     LET c == inputOffset + (k % dimIn)
     IN  IF c < columns THEN <<outputOffset + (k \div dimIn), c>> ELSE none]

(* The bytes after the last full 64: input by input, the very first one    *)
(* overwriting.                                                            *)
galMulAVX512LastInput(data, out, inputOffset, inputEnd, outputs) ==
  [o \in DOMAIN out |->
     IF o \in outputs
     THEN put(inputOffset # 0, out[o],
              UNION {times(data[c], <<o, c>>) : c \in inputOffset..(inputEnd - 1)})
     ELSE out[o]]

(* galMulAVX512Parallel81, 82 and 84, on the inputs from .. to - 1 and the *)
(* batch <<first, number>> of outputs.                                     *)
galMulAVX512Parallel(at, m, data, out, inputs, batch, start, stop) ==
  LET inputOffset == inputs.from
      inputEnd == inputs.to
      outputs == batch[1]..(batch[1] + batch[2] - 1)
      done == start + roundDown(stop - start, 64)
      terms(r) == UNION {times(data[inputOffset + c], m[r * dimIn + c]) :
                           c \in 0..(inputEnd - inputOffset - 1)}
  IN  IF start <= at /\ at < done
      THEN [o \in DOMAIN out |->
              IF o \in outputs
              THEN put(inputOffset # 0, out[o], terms(o - batch[1]))
              ELSE out[o]]
      ELSE IF done <= at /\ at < stop
      THEN galMulAVX512LastInput(data, out, inputOffset, inputEnd, outputs)
      ELSE out

(* The batches of outputs: as many fours as fit, then a two, then a one.   *)
avx512Batches(outs) ==
  LET fours == outs \div 4
      left == outs % 4
  IN  [b \in 1..fours |-> <<4 * (b - 1), 4>>]
      \o (IF left >= 2 THEN <<<<4 * fours, 2>>>> ELSE <<>>)
      \o (IF left % 2 = 1 THEN <<<<outs - 1, 1>>>> ELSE <<>>)
=============================================================================
