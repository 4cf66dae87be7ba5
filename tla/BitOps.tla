------------------------------- MODULE BitOps -------------------------------
(***************************************************************************)
(* Keys and separators of the beatree as bit strings.  A key is a number   *)
(* of KeyBits bits, most significant bit first; the code has 256 of them.  *)
(* A separator is stored without its trailing zeros.                       *)
(***************************************************************************)
EXTENDS Integers, Sequences, FiniteSets, FiniteSetsExt

CONSTANT KeyBits

Key == 0..(2^KeyBits - 1)
None == -1        \* Option::<Key>::None

Bit(k, i) == (k \div 2^(KeyBits - i)) % 2      \* i = 1 is the highest bit
Bits(k) == [i \in 1..KeyBits |-> Bit(k, i)]
\* The key whose first bits are b and whose other bits are zero.
FromBits(b) ==
  LET at[i \in 0..Len(b)] == IF i = 0 THEN 0 ELSE at[i - 1] + b[i] * 2^(KeyBits - i)
  IN  at[Len(b)]

prefix_len(a, b) == IF a = b THEN KeyBits ELSE Min({i \in 1..KeyBits : Bit(a, i) # Bit(b, i)}) - 1

\* Fault: the separator does not reach the bit in which the keys differ.
separateShort(a, b) == LET m == 2^(KeyBits - prefix_len(a, b)) IN (b \div m) * m
separate(a, b) == LET m == 2^(KeyBits - prefix_len(a, b) - 1) IN (b \div m) * m

separator_len(k) == IF k = 0 THEN 1 ELSE Max({i \in 1..KeyBits : Bit(k, i) = 1})

\* Prefix and separator back to a key.
reconstruct_key(prefix, sep) == FromBits(prefix \o sep)

CeilDiv(a, b) == (a + b - 1) \div b
Above(k, limit) == limit # None /\ k >= limit          \* not below a cutoff
OrElse(a, b) == IF a # None THEN a ELSE b              \* Option::or
=============================================================================
