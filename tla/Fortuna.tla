-------------------------------- MODULE Fortuna --------------------------------
(***************************************************************************)
(* libnpmcrypto/prng.c: the random number generator, a generator (AES in   *)
(* counter mode, a new key after every call) that is reseeded from pools   *)
(* of entropy.  All of it is sequential; what is hard is what a long       *)
(* sequence of legal calls leaves in the pools, the counters and the IV.   *)
(*                                                                         *)
(* A pool is the sequence of the events hashed into it, the current key K  *)
(* is the number of keys derived before it since fortuna_start, and a      *)
(* block of the generator is the pair of the key and the counter that      *)
(* were encrypted.  The hashes and AES reject nothing here (HashStream     *)
(* shows it of the hashes; the key always has 32 bytes), so the returns    *)
(* for their errors are not modelled.                                      *)
(***************************************************************************)
EXTENDS CryptoH, Integers, Sequences, Functions

CONSTANTS
  FORTUNA_POOLS,   (* the number of pools, 32 in prng.h                    *)
  FORTUNA_WD,      (* the number of reads before a reseed, 10 in prng.h    *)
  IVs,             (* the number of values of the counter, 256^16          *)
  InLens,          (* values of inlen for fortuna_add_entropy              *)
  OutLens,         (* values of outlen                                     *)
  ExportSizes,     (* sizes of the buffers for export and import           *)
  MaxEvents,       (* bound on the events since fortuna_start              *)
  MaxReseeds,      (* bound on the reseeds since fortuna_start             *)
  MaxKeys          (* bound on the keys derived since fortuna_start        *)

Blocks(n) == (n + 15) \div 16

ASSUME FortunaAssumption ==
  /\ FORTUNA_POOLS \in Nat \ {0}
  /\ FORTUNA_WD \in Nat \ {0}
  /\ InLens \subseteq Nat
  /\ ExportSizes \subseteq Nat
  /\ OutLens \subseteq Nat
  /\ IVs \in Nat \ {0}
  /\ \A n \in OutLens : Blocks(n) + 2 <= IVs

ASSUME FortunaBoundsAssumption ==
  MaxEvents \in Nat /\ MaxReseeds \in Nat /\ MaxKeys \in Nat

VARIABLES
  prng,      (* the prng_state                                             *)
  started,   (* fortuna_start has been called                              *)
  last,      (* the last call, and what it returned                        *)
  events,    (* history: events added since fortuna_start                  *)
  mixed,     (* history: events mixed into the key, with pool and reseed   *)
  output,    (* history: blocks given to the caller since fortuna_start    *)
  keys,      (* history: blocks that became keys                           *)
  reads      (* history: reads since the last reseed, the reseeding one    *)
             (* included                                                   *)

fortunaVars == <<prng, started, last, events, mixed, output, keys, reads>>

Pools == 0 .. FORTUNA_POOLS - 1
FORTUNA_EXPORT_SIZE == 32 * FORTUNA_POOLS
Pool0Limit == 64

(* An event: when it was added, counted in events and in reseeds.          *)
Events == [id : Nat, len : 0 .. 32, at : Nat]

States == [ready : BOOLEAN, pool : [Pools -> Seq(Events)], pool_idx : Pools,
           pool0_len : Nat, wd : Nat, reset_cnt : Nat, K : Nat, IV : 0 .. IVs - 1]

-----------------------------------------------------------------------------
(* What the internal functions do to a prng_state p.                       *)

(* fortuna_start: nothing of the former state is left.                     *)
Fresh == [ready |-> FALSE, pool |-> [x \in Pools |-> <<>>], pool_idx |-> 0,
          pool0_len |-> 0, wd |-> 0, reset_cnt |-> 0, K |-> 0, IV |-> 0]

(* fortuna_add_entropy takes 32 bytes at most.                             *)
Clipped(n) == IF n > 32 THEN 32 ELSE n

Event(p, id, n) == [id |-> id, len |-> Clipped(n), at |-> p.reset_cnt]

(* Mutant: a full round of the pools is not wrapped.                       *)
WithEntropyUnwrapped(p, e) ==
  [p EXCEPT !.pool[p.pool_idx] = Append(@, e),
            !.pool0_len = IF p.pool_idx = 0 THEN @ + e.len ELSE @,
            !.pool_idx = @ + 1]

WithEntropy(p, e) ==
  [p EXCEPT !.pool[p.pool_idx] = Append(@, e),
            !.pool0_len = IF p.pool_idx = 0 THEN @ + e.len ELSE @,
            !.pool_idx = IF @ + 1 = FORTUNA_POOLS THEN 0 ELSE @ + 1]

(* _fortuna_update_iv: a little-endian counter with carry.                 *)
Advanced(iv, n) == (iv + n) % IVs

Power[b \in Nat] == IF b = 0 THEN 1 ELSE 2 * Power[b - 1]

Bit(r, b) == (r \div Power[b]) % 2

(* Mutant: pool x looks at bit x.                                          *)
DrainedLate(r) == {x \in Pools : \A y \in 1 .. x : Bit(r, y) = 0}

(* The pools of reseed number r: the loop breaks at the first one whose    *)
(* bit in r is set.                                                        *)
Drained(r) == {x \in Pools : \A y \in 1 .. x : Bit(r, y - 1) = 0}

(* Mutant: a drained pool is not initialised again.                        *)
ReseededKeepsPools(p) ==
  [p EXCEPT !.reset_cnt = @ + 1, !.K = @ + 1, !.IV = Advanced(@, 1),
            !.pool0_len = 0, !.wd = 0]

(* Mutant: the length of pool 0 is not reset.                              *)
ReseededKeepsLength(p) ==
  LET r == p.reset_cnt + 1
  IN [p EXCEPT !.reset_cnt = r,
               !.pool = [x \in Pools |-> IF x \in Drained(r) THEN <<>> ELSE p.pool[x]],
               !.K = @ + 1,
               !.IV = Advanced(@, 1),
               !.wd = 0]

Reseeded(p) ==
  LET r == p.reset_cnt + 1
  IN [p EXCEPT !.reset_cnt = r,
               !.pool = [x \in Pools |-> IF x \in Drained(r) THEN <<>> ELSE p.pool[x]],
               !.K = @ + 1,
               !.IV = Advanced(@, 1),
               !.pool0_len = 0,
               !.wd = 0]

(* What a reseed of p mixes into its key.                                  *)
Mixture(p) ==
  UNION {{[event |-> e.id, pool |-> x, reseed |-> p.reset_cnt + 1] : e \in Range(p.pool[x])}
           : x \in Drained(p.reset_cnt + 1)}

(* The head of fortuna_read: the read is counted, and it reseeds first     *)
(* when it is the last of its round or pool 0 is long enough.              *)
Counted(p) == [p EXCEPT !.wd = @ + 1]
(* Mutant: the count is compared before this read is counted.              *)
NeedsReseedLate(p) == p.wd = FORTUNA_WD \/ p.pool0_len >= Pool0Limit

NeedsReseed(p) == p.wd + 1 = FORTUNA_WD \/ p.pool0_len >= Pool0Limit
Prepared(p) == IF NeedsReseed(p) THEN Reseeded(Counted(p)) ELSE Counted(p)

(* The rest of it: n bytes, and two more blocks for the next key.          *)
BlocksOf(p, first, n) == [i \in 1 .. n |-> <<p.K, Advanced(p.IV, first + i - 1)>>]
Output(p, n) == BlocksOf(p, 0, Blocks(n))
(* Mutant: the counter does not move after a block that is only partly used. *)
NextKeyReusesBlock(p, n) == BlocksOf(p, n \div 16, 2)

NextKey(p, n) == BlocksOf(p, Blocks(n), 2)
Generated(p, n) == [p EXCEPT !.K = @ + 1, !.IV = Advanced(@, Blocks(n) + 2)]

-----------------------------------------------------------------------------
(* The calls.                                                              *)

Called(c, r) == last' = [call |-> c, ret |-> r]

(* The histories of a PRNG that has just been started.                     *)
Restarts(n, mixture) ==
  /\ started' = TRUE
  /\ events' = n
  /\ mixed' = mixture
  /\ output' = <<>> /\ keys' = <<>>
  /\ reads' = 0

FortunaInit ==
  /\ prng = Fresh
  /\ started = FALSE
  /\ last = [call |-> "none", ret |-> CRYPTO_OK]
  /\ events = 0
  /\ mixed = {}
  /\ output = <<>> /\ keys = <<>>
  /\ reads = 0

FortunaStart ==
  /\ prng' = Fresh
  /\ Restarts(0, {})
  /\ Called("start", CRYPTO_OK)

AddEntropy(n) ==
  /\ started
  /\ events < MaxEvents
  /\ prng' = WithEntropy(prng, Event(prng, events, n))
  /\ events' = events + 1
  /\ Called("add_entropy", CRYPTO_OK)
  /\ UNCHANGED <<started, mixed, output, keys, reads>>

(* A reseed, whether or not there is entropy, and the PRNG is ready.       *)
Ready ==
  /\ started
  /\ prng.reset_cnt < MaxReseeds /\ prng.K < MaxKeys
  /\ prng' = [Reseeded(prng) EXCEPT !.ready = TRUE]
  /\ mixed' = mixed \cup Mixture(prng)
  /\ reads' = 0
  /\ Called("ready", CRYPTO_OK)
  /\ UNCHANGED <<started, events, output, keys>>

(* prng_create: fortuna_start, fortuna_add_entropy and fortuna_ready.      *)
Create(n) ==
  LET seeded == WithEntropy(Fresh, Event(Fresh, 0, n))
  IN /\ 1 <= MaxEvents /\ 1 <= MaxReseeds /\ 1 <= MaxKeys
     /\ prng' = [Reseeded(seeded) EXCEPT !.ready = TRUE]
     /\ Restarts(1, Mixture(seeded))
     /\ Called("create", CRYPTO_OK)

(* What fortuna_read does when it delivers n bytes.                        *)
Deliver(n) ==
  LET p == Prepared(prng)
  IN /\ prng' = Generated(p, n)
     /\ output' = output \o Output(p, n)
     /\ keys' = keys \o NextKey(p, n)
     /\ mixed' = IF NeedsReseed(prng) THEN mixed \cup Mixture(Counted(prng)) ELSE mixed
     /\ reads' = IF NeedsReseed(prng) THEN 1 ELSE reads + 1
     /\ UNCHANGED <<started, events>>

ReadBound == prng.reset_cnt < MaxReseeds /\ prng.K + 1 < MaxKeys

(* fortuna_read returns the number of bytes, 0 when it is not ready.       *)
Read(n) ==
  /\ started
  /\ IF n = 0 \/ ~prng.ready
       THEN Called("read", 0) /\ UNCHANGED <<prng, started, events, mixed, output, keys, reads>>
       ELSE ReadBound /\ Deliver(n) /\ Called("read", n)

(* fortuna_done; it also terminates the pools' hashes, which keeps what    *)
(* they have absorbed.                                                     *)
Closed(p) == [p EXCEPT !.ready = FALSE]

FortunaDone ==
  /\ started
  /\ prng' = Closed(prng)
  /\ Called("close", CRYPTO_OK)
  /\ UNCHANGED <<started, events, mixed, output, keys, reads>>

(* prng_read takes the number of bytes that fortuna_read returns for an    *)
(* error code, and returns it before it looks at keep.                     *)
PrngRead(n, keep) ==
  /\ started
  /\ IF n = 0 \/ ~prng.ready
       THEN /\ prng' = IF keep = 0 THEN Closed(prng) ELSE prng
            /\ Called(IF keep = 0 THEN "last_read" ELSE "prng_read", CRYPTO_OK)
            /\ UNCHANGED <<started, events, mixed, output, keys, reads>>
       ELSE /\ ReadBound
            /\ Deliver(n)
            /\ Called(IF keep = 0 THEN "last_read" ELSE "prng_read", n)

(* fortuna_export works on copies of the pools: the state stays.           *)
Export(size) ==
  /\ started
  /\ \E r \in {CRYPTO_OK, CRYPTO_ERROR, CRYPTO_BUFFER_OVERFLOW, CRYPTO_MEMORY} :
       /\ r = CRYPTO_ERROR <=> ~prng.ready
       /\ r = CRYPTO_BUFFER_OVERFLOW <=> prng.ready /\ size < FORTUNA_EXPORT_SIZE
       /\ Called("export", r)
  /\ UNCHANGED <<prng, started, events, mixed, output, keys, reads>>

(* fortuna_import: fortuna_start, and an event of 32 bytes for every pool. *)
Imported ==
  [Fresh EXCEPT !.pool = [x \in Pools |-> <<Event(Fresh, x, 32)>>],
                !.pool0_len = 32]

Import(size) ==
  IF size < FORTUNA_EXPORT_SIZE
    THEN /\ Called("import", CRYPTO_INVALID_ARG)
         /\ UNCHANGED <<prng, started, events, mixed, output, keys, reads>>
    ELSE /\ FORTUNA_POOLS <= MaxEvents
         /\ prng' = Imported
         /\ Restarts(FORTUNA_POOLS, {})
         /\ Called("import", CRYPTO_OK)

FortunaNext ==
  \/ FortunaStart
  \/ \E n \in InLens : AddEntropy(n) \/ Create(n)
  \/ Ready
  \/ \E n \in OutLens : Read(n) \/ \E keep \in {0, 1} : PrngRead(n, keep)
  \/ FortunaDone
  \/ \E size \in ExportSizes : Export(size) \/ Import(size)

FortunaSpec == FortunaInit /\ [][FortunaNext]_fortunaVars

-----------------------------------------------------------------------------
(* Every variable has its type.                                            *)
FortunaTypeOK ==
  /\ prng \in States
  /\ started \in BOOLEAN
  /\ last \in [call : {"none", "start", "add_entropy", "ready", "create", "read", "close",
                       "last_read", "prng_read", "export", "import"}, ret : Nat]
  /\ events \in Nat
  /\ mixed \subseteq [event : Nat, pool : Pools, reseed : Nat]
  /\ output \in Seq(Nat \X (0 .. IVs - 1))
  /\ keys \in Seq(Nat \X (0 .. IVs - 1))
  /\ reads \in Nat

PoolIds(x) == {e.id : e \in Range(prng.pool[x])}
MixedIds(x) == {m.event : m \in {mm \in mixed : mm.pool = x}}

(* No entropy is lost and none is counted twice, through any sequence of   *)
(* adding, reseeding, reading, closing and importing: the events since     *)
(* fortuna_start are dealt to the pools in turn, and each one is either in *)
(* its pool or was mixed into exactly one key.                             *)
EntropyIsKept ==
  /\ prng.pool_idx = events % FORTUNA_POOLS
  /\ \A x \in Pools :
       /\ PoolIds(x) \cup MixedIds(x) = {id \in 0 .. events - 1 : id % FORTUNA_POOLS = x}
       /\ PoolIds(x) \cap MixedIds(x) = {}
  /\ \A m, n \in mixed : m.event = n.event => m = n

(* The lengths of the first i events of s together.                        *)
Lengths(s) ==
  LET sum[i \in 0 .. Len(s)] == IF i = 0 THEN 0 ELSE sum[i - 1] + s[i].len
  IN  sum

(* pool0_len, by which fortuna_read decides, is the length of what is in   *)
(* pool 0.                                                                 *)
LengthOf(s) == Lengths(s)[Len(s)]
Pool0LenIsExact == prng.pool0_len = LengthOf(prng.pool[0])

(* Pool x takes part in a reseed exactly when 2^x divides its number: what *)
(* was mixed was mixed at such a reseed, and what is still in the pool     *)
(* came after the last one; the counter that makes pool 0 ask for a reseed *)
(* is its length.                                                          *)
PoolsFollowSchedule ==
  /\ Pool0LenIsExact
  /\ \A m \in mixed : m.reseed % Power[m.pool] = 0
  /\ \A x \in Pools : \A e \in Range(prng.pool[x]) :
       \A r \in e.at + 1 .. prng.reset_cnt : r % Power[x] # 0

(* The generator never encrypts the same counter with the same key twice,  *)
(* whether for output or for the next key, so that no key is ever part of  *)
(* the output; and it never uses the zero key of fortuna_start.            *)
BlocksAreFresh ==
  /\ IsInjective(output) /\ IsInjective(keys)
  /\ \A i \in DOMAIN output, j \in DOMAIN keys : output[i] # keys[j]
  /\ \A i \in DOMAIN output : output[i][1] > 0

(* "we reseed automatically when len(pool0) >= 64 or every LTC_FORTUNA_WD  *)
(* calls to the read function" (prng.c:19): no more reads than that happen *)
(* with one reseed, and none leaves pool 0 long enough for another.        *)
ReseedsInTime ==
  /\ reads <= FORTUNA_WD
  /\ last.call \in {"read", "prng_read", "last_read"} /\ last.ret > 0
       => prng.pool0_len < Pool0Limit

(* The count of reads stays below the round, and a reseed begins a new one. *)
RoundIsShort == prng.wd < FORTUNA_WD /\ reads <= prng.wd + 1

(* Every key in the histories was replaced since, and a ready generator    *)
(* has left the zero key.                                                  *)
UsedKeysAreOld ==
  /\ prng.ready => prng.K > 0
  /\ \A i \in DOMAIN output : output[i][1] \in 1 .. prng.K - 1
  /\ \A j \in DOMAIN keys : keys[j][1] \in 1 .. prng.K - 1

(* The inductive invariant.                                                *)
FInv == /\ FortunaTypeOK
        /\ EntropyIsKept
        /\ UsedKeysAreOld /\ BlocksAreFresh
        /\ RoundIsShort /\ ReseedsInTime

(* "If keep == 0, the PRNG will be close and unusable after this call."    *)
(* (prng.h:70-71)                                                          *)
KeepZeroCloses == last.call = "last_read" => ~prng.ready
================================================================================
