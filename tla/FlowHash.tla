------------------------------ MODULE FlowHash ------------------------------
(***************************************************************************)
(* The hashes of a flow's key (dgrade/netbeacon_sim.py and                 *)
(* netbeacon_tofino.py): the reflected, table-driven CRC with a drawn      *)
(* polynomial, the salted CRC, the fold of the compiled program, and       *)
(* Rabin's test by which irreducible polynomials are found.  Polynomials   *)
(* over GF(2) are numbers, as in the code, of Width bits instead of 32.    *)
(***************************************************************************)
EXTENDS FlowKeys, BitWords, SequencesExt, FiniteSetsExt

CONSTANTS
    Widths,         \* the widths of the CRC register
    ByteBits        \* the bits that one step of the CRC takes

VARIABLES
    width,          \* width of the CRC register
    r,              \* the last polynomial drawn, reflected
    accepted,       \* it passed Rabin's test: the rejection sampling ends
    msgs            \* the two messages being hashed, of equal length

hashVars == <<width, r, accepted, msgs>>

Bit(n, i) == (n \div 2 ^ i) % 2
Degree(a) == Max({-1} \cup {i \in 0 .. 2 * width : a >= 2 ^ i})

-----------------------------------------------------------------------------
(* is_irreducible.                                                         *)

\* a * x modulo m.
TimesX(a, m, deg) == IF Bit(2 * a, deg) = 1 THEN (2 * a) ^^ m ELSE 2 * a

\* _pmulmod: the shifts of a where b has a bit.
pmulmod(a, b, m, deg) ==
    LET shifted[i \in 0 .. deg] == IF i = 0 THEN a ELSE TimesX(shifted[i - 1], m, deg)
        sum[i \in 0 .. deg] ==
            (IF Bit(b, i) = 1 THEN shifted[i] ELSE 0) ^^ (IF i = 0 THEN 0 ELSE sum[i - 1])
    IN sum[deg]

\* _pgcd: Euclid's algorithm.
pgcd(x, y) ==
    LET Poly == 0 .. 2 ^ (width + 1)
        rest[a \in Poly, b \in Poly] ==
            IF a # 0 /\ Degree(a) >= Degree(b) THEN rest[a ^^ (b * 2 ^ (Degree(a) - Degree(b))), b] ELSE a
        gcd[a \in Poly, b \in Poly] == IF b = 0 THEN a ELSE gcd[b, rest[a, b]]
    IN gcd[x, y]

prime_factors(n) ==
    {p \in 2 .. n : n % p = 0 /\ \A d \in 2 .. p - 1 : p % d # 0}

\* Slip: of the prime factors only the last is tried.
LastFactor(n) == {Max(prime_factors(n))}

FactorsTried(n) == prime_factors(n)

is_irreducible(m, deg) ==
    LET pw[k \in 0 .. deg] == IF k = 0 THEN 2 ELSE pmulmod(pw[k - 1], pw[k - 1], m, deg)
    IN /\ Bit(m, deg) = 1 /\ Bit(m, 0) = 1
       /\ pw[deg] = 2
       /\ \A q \in FactorsTried(deg) : pgcd(m, pw[deg \div q] ^^ 2) = 1

\* The bits of a reflected polynomial, turned round, with the leading term.
Normal(p) == 2 ^ width + SumSet({2 ^ (width - 1 - i) : i \in {j \in 0 .. width - 1 : Bit(p, j) = 1}})

-----------------------------------------------------------------------------
(* crc_poly and the messages.                                              *)

AllOnes == 2 ^ width - 1

\* _crc_table: ByteBits times shift, and subtract if a one fell out.
CrcTable(poly, b) ==
    LET c[i \in 0 .. ByteBits] ==
            IF i = 0 THEN b
            ELSE IF c[i - 1] % 2 = 1 THEN (c[i - 1] \div 2) ^^ poly ELSE c[i - 1] \div 2
    IN c[ByteBits]

CrcStep(poly, c, b) == CrcTable(poly, (c ^^ b) % 2 ^ ByteBits) ^^ (c \div 2 ^ ByteBits)

crc_poly(msg, poly) ==
    FoldLeft(LAMBDA c, b : CrcStep(poly, c, b), AllOnes, msg) ^^ AllOnes

\* xorsalt: the salt before the message.
Salted(salt, msg) == <<salt>> \o msg

\* fold_keys: addresses and ports XORed.
FoldKey(d) == <<d.src ^^ d.dst, d.sp ^^ d.dp, d.proto>>

-----------------------------------------------------------------------------
(* irreducible_reflected_poly, and two messages growing side by side.      *)

HashInit ==
    /\ width \in Widths
    /\ r = 0 /\ accepted = FALSE
    /\ msgs = <<<<>>, <<>>>>

\* rng.integers(0, 2^31) | 0x80000000: the top bit is always set.
draw_poly ==
    /\ ~ accepted /\ msgs = <<<<>>, <<>>>>
    /\ \E low \in 0 .. 2 ^ (width - 1) - 1 : r' = low + 2 ^ (width - 1)
    /\ accepted' = is_irreducible(Normal(r'), width)
    /\ UNCHANGED <<width, msgs>>

HashByte ==
    /\ accepted /\ Len(msgs[1]) < 2
    /\ \E b, c \in 0 .. 2 ^ ByteBits - 1 : msgs' = <<Append(msgs[1], b), Append(msgs[2], c)>>
    /\ UNCHANGED <<width, r, accepted>>

HashNext == draw_poly \/ HashByte

HashSpec == HashInit /\ [][HashNext]_hashVars
-----------------------------------------------------------------------------
(* Properties.                                                             *)

\* The product of two polynomials.
Product(a, b) ==
    LET sum[i \in 0 .. width] == (Bit(b, i) * a * 2 ^ i) ^^ (IF i = 0 THEN 0 ELSE sum[i - 1]) IN sum[width]

\* Rejection sampling returns the irreducible polynomials and no other: the
\* test of Rabin agrees with trial division at every degree.
AcceptedIffIrreducible ==
    r # 0 /\ Len(msgs[1]) = 0 =>
       (accepted <=> \A a \in 2 .. 2 ^ (width \div 2 + 1) - 1, b \in 2 .. 2 ^ width - 1 :
                        Product(a, b) # Normal(r))

\* "CRC is affine over GF(2), so this shifts every hash by one constant and
\* changes no collision": salted and unsalted, the same messages collide, and
\* the hashes of two messages differ by the same amount.
SaltChangesNoCollision ==
    accepted => \A salt \in 0 .. 2 ^ ByteBits - 1 :
        crc_poly(Salted(salt, msgs[1]), r) ^^ crc_poly(Salted(salt, msgs[2]), r)
            = crc_poly(msgs[1], r) ^^ crc_poly(msgs[2], r)

\* The compiled program's key is coarser than the emulator's: flows with one
\* tuple key have one fold, so whatever shared a slot shares it still.
FoldCoarsensTuple ==
    \A d, e \in FiveTuple : TupleKey(d) = TupleKey(e) => FoldKey(d) = FoldKey(e)
=============================================================================
