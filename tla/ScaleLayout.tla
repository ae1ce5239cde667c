----------------------------- MODULE ScaleLayout -----------------------------
(***************************************************************************)
(* Where the scale of a weight lies and what its byte means.  The merged   *)
(* GEMM and the Triton kernel read the scales of w13 from one storage: the *)
(* host writes it through a permutation of dimensions, Triton computes the *)
(* address by itself.                                                      *)
(***************************************************************************)
EXTENDS Integers

(***************************************************************************)
(* swizzle_scales_u8 views [M, G] as (c, b, a, e, d) of sizes (M/128, 4,   *)
(* 32, rk, 4) with rk = G/4, and stores it in the order (c, e, a, b, d).   *)
(***************************************************************************)
SwizzledAt(row, group, rk) ==
    LET c == row \div 128
        b == (row % 128) \div 32
        a == row % 32
        e == group \div 4
        d == group % 4
    IN (((c * rk + e) * 32 + a) * 4 + b) * 4 + d

\* The byte _grouped_w4a16_kernel loads for a row and a group, with RK13 = K // 64.
TritonAt(row, group, k) ==
    LET rk13 == k \div 64
        c == row \div 128
        b == (row \div 32) % 4
        a == row % 32
        e == group \div 4
        d == group % 4
    IN 512 * rk13 * c + 512 * e + 16 * a + 4 * b + d

(***************************************************************************)
(* E8M0 byte x stands for 2^(x - 127); an E4M3 byte has four bits of       *)
(* exponent with a bias of 7 and three of mantissa.  The table converts    *)
(* through a float, which rounds 2^-10 to zero and overflows above 2^8.    *)
(***************************************************************************)
NaN == 127
Power2[n \in 0 .. 255] == IF n = 0 THEN 1 ELSE 2 * Power2[n - 1]

E8M0ToE4M3(x) ==
    LET p == x - 127
    IN IF p > 8 THEN NaN
       ELSE IF p >= -6 THEN (p + 7) * 8
       ELSE IF p >= -9 THEN Power2[p + 9]
       ELSE 0

\* The value of a positive E4M3 byte, in units of 2^-9.
E4M3Value(byte) ==
    IF byte < 8 THEN byte ELSE (8 + (byte % 8)) * Power2[(byte \div 8) - 1]

\* The value of an E8M0 byte from 118 on, in the same unit.
E8M0Value(x) == Power2[x - 118]
=============================================================================
