------------------------------ MODULE MCCoder ------------------------------
(* Encoders and calls for the model of the shared encoder.                 *)
EXTENDS Coder, TLC
CONSTANTS c1, c2

(* Caches are scaled down with the shards, so that a shard of a few        *)
(* hundred bytes has several rounds and goroutines.                        *)
machine(simd) ==
  [L1D |-> 640, L2 |-> 192, threadsPerCore |-> 2, physicalCores |-> 2, procs |-> 4,
   avx512 |-> simd = "avx512", avx2 |-> simd \in {"avx512", "avx2"},
   ssse3 |-> simd # "none", sse2 |-> simd # "none"]

setting(d, p, simd, goroutines, expected) ==
  [D |-> d, P |-> p, maxGoroutines |-> goroutines, minSplitSize |-> 100,
   shardSize |-> expected, inversionCache |-> TRUE] @@ machine(simd)

MCSettings ==
  {setting(11, 2, "avx2", 3, 0), setting(4, 2, "avx2", 3, 0),
   setting(9, 7, "avx512", 2, 0),
   setting(4, 2, "ssse3", 0, 0),
   [setting(2, 2, "none", 1, 0) EXCEPT !.inversionCache = FALSE],
   [setting(2, 1, "avx2", 0, 300) EXCEPT !.L2 = 1400]}

request(op, n, lost, dataOnly, changed) ==
  [op |-> op, n |-> n, lost |-> lost, dataOnly |-> dataOnly, changed |-> changed]

(* One caller makes every kind of call, the other rebuilds and encodes.    *)
MCRequests(c, e) ==
  LET encode == {request("encode", n, {}, FALSE, {}) : n \in {60, 100, 300}}
      rebuild == {request("reconstruct", 90, {0}, FALSE, {}),
                  request("reconstruct", 90, {0, 2}, FALSE, {}),
                  request("reconstruct", 300, {1, 4}, TRUE, {})}
      others == {request("update", 130, {}, FALSE, {1}),
                 request("verify", 130, {}, FALSE, {})}
      piecemeal == {request("encodeIdx", 130, {}, FALSE, {})}
  IN  IF c = c1 THEN encode \cup rebuild \cup others \cup (IF e.D > 4 THEN {} ELSE piecemeal)
      ELSE {request("encode", 300, {}, FALSE, {}), request("reconstruct", 90, {0}, TRUE, {})}

(* More parity than one kernel can make, and one caller that reuses its    *)
(* encoder.                                                                *)
WideSettings == {setting(2, 11, "avx2", 3, 0)}

ReuseRequests(c, e) ==
  {request("reconstruct", 90, {0}, FALSE, {}), request("encode", 300, {}, FALSE, {})}
=============================================================================
