----------------------------- MODULE HashTable -----------------------------
(***************************************************************************)
(* Hash tables of functions and constants (src/hash/).  At build time the  *)
(* lines of a data file, each a key with its value, are put into as many   *)
(* buckets as there are lines; what does not find room in its bucket goes  *)
(* to one that stays empty, and the bucket leads there.  At run time a key *)
(* is found by its hash value alone: the low bits choose the bucket, the   *)
(* high ones are compared.                                                 *)
(***************************************************************************)
EXTENDS Integers, Sequences, FiniteSetsExt

CONSTANTS
  LowBits,   (* bits of a hash value that are not compared, and of a link  *)
  HighBits,  (* bits that are compared                                     *)
  NotFound   (* the result of a search in vain                             *)

(* The prover knows nothing of powers. *)
ASSUME HashPowersAssumption ==
  /\ LowBits \in Nat /\ 2^0 = 1
  /\ \A k \in 0..LowBits : 2^(k + 1) = 2 * 2^k

High(hash) == (hash \div 2^LowBits) % 2^HighBits

(* _bits_required: no table has more buckets than links can lead to.       *)
BitsRequired(v) == Min({k \in 0..LowBits : v < 2^k})

(* The bucket of a hash value, if there are n: it may be less than a power *)
(* of two.                                                                 *)
Bucket(hash, n) ==
  LET index == hash % 2^BitsRequired(n - 1)
  IN IF index >= n THEN index - n ELSE index

(* _build_hash_table: the lines of a bucket form a chain, the last one     *)
(* first.                                                                  *)
BucketOf(lines, i) == Bucket(lines[i].hash, Len(lines))
Chain(lines, i)   == {h \in DOMAIN lines : BucketOf(lines, h) = BucketOf(lines, i)}
IsFirst(lines, i) == \A h \in Chain(lines, i) : h <= i
Behind(lines, i)  == {h \in Chain(lines, i) : h < i}

(* _distribute: bucket by bucket, what follows the first line goes to the  *)
(* empty buckets, the lowest first.                                        *)
Position(S, n) == Cardinality({m \in S : m <= n})

Overflows(lines) == {i \in DOMAIN lines : ~IsFirst(lines, i)}
Turn(lines, i)   == BucketOf(lines, i) * Len(lines) + (Len(lines) - i)
Turns(lines)     == {Turn(lines, i) : i \in Overflows(lines)}

EmptyBuckets(lines) ==
  (0..(Len(lines) - 1)) \ {BucketOf(lines, i) : i \in DOMAIN lines}

Place(lines, i) ==
  IF IsFirst(lines, i) THEN BucketOf(lines, i)
  ELSE CHOOSE b \in EmptyBuckets(lines) :
         Position(EmptyBuckets(lines), b) = Position(Turns(lines), Turn(lines, i))

(* _output_buckets: a link is the number of a bucket, plus one.            *)
Entry(lines, i) ==
  [overflow |-> ~IsFirst(lines, i),
   high     |-> High(lines[i].hash),
   next     |-> IF Behind(lines, i) = {} THEN 0
                ELSE (Place(lines, Max(Behind(lines, i))) + 1) % 2^LowBits,
   value    |-> lines[i].value]

Buckets(lines) ==
  [b \in 0..(Len(lines) - 1) |->
     Entry(lines, CHOOSE i \in DOMAIN lines : Place(lines, i) = b)]

(* hash_search_simple *)
Search(buckets, hash) ==
  LET Follow[b \in DOMAIN buckets] ==
        IF buckets[b].high = High(hash) THEN buckets[b].value
        ELSE IF buckets[b].next = 0 THEN NotFound
        ELSE Follow[buckets[b].next - 1]
      first == Bucket(hash, Cardinality(DOMAIN buckets))
  IN IF buckets[first].overflow THEN NotFound ELSE Follow[first]
=============================================================================
