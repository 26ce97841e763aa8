------------------------------ MODULE BitWords ------------------------------
(***************************************************************************)
(* XOR and AND of natural numbers, bit by bit, as recursive functions:     *)
(* modules with theorems may reach these definitions, but not the          *)
(* recursive operators of the module Bitwise.                              *)
(***************************************************************************)
EXTENDS Naturals

x ^^ y ==
    LET xor[a \in Nat, b \in Nat] ==
            IF a = 0 THEN b ELSE IF b = 0 THEN a
            ELSE 2 * xor[a \div 2, b \div 2] + ((a + b) % 2)
    IN xor[x, y]

x & y ==
    LET and[a \in Nat, b \in Nat] ==
            IF a = 0 \/ b = 0 THEN 0
            ELSE 2 * and[a \div 2, b \div 2] + (a % 2) * (b % 2)
    IN and[x, y]
=============================================================================
