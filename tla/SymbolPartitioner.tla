------------------------- MODULE SymbolPartitioner -------------------------
(***************************************************************************)
(* The partition of a symbol, as the API and the Node workers compute it   *)
(* (application/partitioning/symbolPartitioner.js) and as the Go worker    *)
(* does (go-worker/internal/partition/partition.go).  A symbol is the      *)
(* sequence of its UTF-16 code units.                                      *)
(***************************************************************************)
EXTENDS Integers, Sequences

CONSTANTS
  Modulus,  \* the number of integers: 2^32 in JavaScript's and Go's 32 bits
  PartitionCount

ASSUME PartitionerAssumption ==
  /\ Modulus \in Nat \ {0}
  /\ PartitionCount \in Nat \ {0}

Partition == 0..PartitionCount - 1

CodeUnit == 0..65535

\* The signed integer that n is, modulo Modulus.
Wrap(n) == ((n + Modulus \div 2) % Modulus) - Modulus \div 2

\* Exclusive or: of the last bits, and of what is before them.
Xor[m \in Nat] ==
  [n \in Nat |-> IF m = 0 THEN n ELSE 2 * Xor[m \div 2][n \div 2] + ((m + n) % 2)]

BitXor(m, n) == Wrap(Xor[m % Modulus][n % Modulus])

Magnitude(n) == IF n < 0 THEN -n ELSE n

\* djb2: one round per code unit.
Hash(round, symbol) ==
  LET hash[i \in 0..Len(symbol)] ==
        IF i = 0 THEN 5381 ELSE round[hash[i - 1]][symbol[i]]
  IN  hash[Len(symbol)]

\* White space for trim() and for TrimSpace alike; the one also trims the byte order
\* mark, the other the control character "next line".
Space == 32
WhiteSpace == 9..13 \cup {Space, 160, 5760} \cup 8192..8202
                \cup {8232, 8233, 8239, 8287, 12288}
TrimmedByJs == WhiteSpace \cup {65279}
NextLine == 133
TrimmedByGo == WhiteSpace \cup {NextLine}

IsMadeOf(symbol, units) == \A i \in 1..Len(symbol) : symbol[i] \in units

-----------------------------------------------------------------------------
(* symbolPartitioner.js *)

\* The shift and the exclusive or wrap their operands, the sum does not.
HashRound ==
  [hash \in Int |-> [unit \in CodeUnit |-> BitXor(Wrap(hash * 32) + hash, unit)]]

\* JavaScript's % keeps the sign of its first operand.
Remainder(n, d) == IF n < 0 THEN -(-n % d) ELSE n % d

\* symbol.trim() === "", for which hashSymbol throws.
IsBlank(symbol) == IsMadeOf(symbol, TrimmedByJs)

\* Slip: the hash keeps its sign.
SignedHash(symbol) == Hash(HashRound, symbol)

\* Slip: the hash is made positive by an unsigned shift, hash >>> 0.
UnsignedHash(symbol) == Hash(HashRound, symbol) % Modulus

HashSymbol(symbol) == Magnitude(Hash(HashRound, symbol))

GetPartitionId(symbol) == Remainder(HashSymbol(symbol), PartitionCount)

-----------------------------------------------------------------------------
(* partition.go: every operation wraps *)

GoRound ==
  [hash \in Int |-> [unit \in CodeUnit |-> BitXor(Wrap(Wrap(hash * 32) + hash), unit)]]

\* A surrogate that is not half of a pair.
IsLone(symbol, i) ==
  LET high == 55296..56319
      low == 56320..57343
  IN  \/ symbol[i] \in high /\ (i = Len(symbol) \/ symbol[i + 1] \notin low)
      \/ symbol[i] \in low /\ (i = 1 \/ symbol[i - 1] \notin high)

IsWellFormed(symbol) == \A i \in 1..Len(symbol) : ~IsLone(symbol, i)

\* encoding/json puts U+FFFD in the place of a lone surrogate.
Unmarshalled(symbol) ==
  [i \in 1..Len(symbol) |-> IF IsLone(symbol, i) THEN 65533 ELSE symbol[i]]

\* ID returns an error.
NoPartition == -1

GoPartitionId(symbol) ==
  IF IsMadeOf(symbol, TrimmedByGo)
  THEN NoPartition
  ELSE Magnitude(Hash(GoRound, Unmarshalled(symbol))) % PartitionCount

\* The symbols that Go does not take for blank and reads as they were sent.
IsCommon(symbol) == ~IsMadeOf(symbol, TrimmedByGo) /\ IsWellFormed(symbol)
=============================================================================
