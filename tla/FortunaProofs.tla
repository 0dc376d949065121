----------------------------- MODULE FortunaProofs -----------------------------
(***************************************************************************)
(* What Fortuna keeps, for every number of pools, every round, every       *)
(* counter that is wider than one call, and every sequence of calls.  The  *)
(* first part is about the operators on a prng_state, the second about     *)
(* entropy, the third about blocks; the next puts the actions together,    *)
(* and the last is about the schedule of the pools.                        *)
(***************************************************************************)
EXTENDS Fortuna, Arithmetic, TLAPS

LEMMA Parameters ==
  /\ FORTUNA_POOLS \in Nat \ {0} /\ FORTUNA_WD \in Nat \ {0} /\ IVs \in Nat \ {0}
  /\ 0 \in Pools /\ Pools \subseteq Nat
  /\ 0 \in 0 .. IVs - 1
BY FortunaAssumption DEF Pools

-----------------------------------------------------------------------------
(* The operators on a prng_state.                                          *)

LEMMA FreshIsState == Fresh \in States
<1>1. [x \in Pools |-> <<>>] \in [Pools -> Seq(Events)]
  OBVIOUS
<1> QED BY <1>1, Parameters DEF Fresh, States

LEMMA EventIsEvent ==
  ASSUME NEW p \in States, NEW id \in Nat, NEW n \in Nat
  PROVE  Event(p, id, n) \in Events /\ Event(p, id, n).id = id
<1>1. p.reset_cnt \in Nat
  BY DEF States
<1>2. Clipped(n) \in 0 .. 32
  BY DEF Clipped
<1> QED BY <1>1, <1>2 DEF Event, Events

LEMMA WithEntropyEffect ==
  ASSUME NEW p \in States, NEW e \in Events
  PROVE  /\ WithEntropy(p, e) \in States
         /\ WithEntropy(p, e).pool = [p.pool EXCEPT ![p.pool_idx] = Append(@, e)]
         /\ WithEntropy(p, e).pool_idx = IF p.pool_idx + 1 = FORTUNA_POOLS THEN 0
                                         ELSE p.pool_idx + 1
         /\ WithEntropy(p, e).wd = p.wd /\ WithEntropy(p, e).K = p.K
         /\ WithEntropy(p, e).ready = p.ready
<1>1. /\ p.pool \in [Pools -> Seq(Events)] /\ p.pool_idx \in Pools /\ p.pool_idx \in Nat
      /\ p.pool0_len \in Nat /\ e.len \in Nat
  <2>1. p.pool \in [Pools -> Seq(Events)] /\ p.pool_idx \in Pools /\ p.pool0_len \in Nat
    BY DEF States
  <2>2. e.len \in Nat
    BY DEF Events
  <2> QED BY <2>1, <2>2, Parameters
<1>2. PICK len \in Nat :
        len = IF p.pool_idx = 0 THEN p.pool0_len + e.len ELSE p.pool0_len
  <2>1. p.pool0_len + e.len \in Nat
    BY <1>1
  <2>2. CASE p.pool_idx = 0
    BY <2>1, <2>2
  <2>3. CASE p.pool_idx # 0
    BY <1>1, <2>3
  <2> QED BY <2>2, <2>3
<1>3. PICK idx \in Pools : idx = IF p.pool_idx + 1 = FORTUNA_POOLS THEN 0 ELSE p.pool_idx + 1
  BY <1>1, Parameters DEF Pools
<1>4. PICK pool \in [Pools -> Seq(Events)] :
        pool = [p.pool EXCEPT ![p.pool_idx] = Append(@, e)]
  <2>1. Append(p.pool[p.pool_idx], e) \in Seq(Events)
    BY <1>1
  <2>2. [p.pool EXCEPT ![p.pool_idx] = Append(@, e)] \in [Pools -> Seq(Events)]
    BY <1>1, <2>1
  <2> QED BY <2>2
<1>5. WithEntropy(p, e) = [p EXCEPT !.pool = pool, !.pool0_len = len, !.pool_idx = idx]
  BY <1>2, <1>3, <1>4 DEF WithEntropy
<1>6. /\ WithEntropy(p, e) \in States
      /\ WithEntropy(p, e).pool = pool /\ WithEntropy(p, e).pool_idx = idx
      /\ WithEntropy(p, e).wd = p.wd /\ WithEntropy(p, e).K = p.K
      /\ WithEntropy(p, e).ready = p.ready
  BY <1>2, <1>5 DEF States
<1> QED BY <1>3, <1>4, <1>6

LEMMA AdvancedInRange ==
  ASSUME NEW iv \in Nat, NEW n \in Nat
  PROVE  Advanced(iv, n) \in 0 .. IVs - 1
<1>1. iv + n \in Nat
  OBVIOUS
<1> QED BY <1>1, Parameters, Division DEF Advanced

LEMMA DrainedArePools == \A r \in Nat : Drained(r) \subseteq Pools
BY DEF Drained

LEMMA ReseededEffect ==
  ASSUME NEW p \in States
  PROVE  /\ Reseeded(p) \in States
         /\ Reseeded(p).pool = [x \in Pools |-> IF x \in Drained(p.reset_cnt + 1) THEN <<>>
                                                ELSE p.pool[x]]
         /\ Reseeded(p).pool_idx = p.pool_idx
         /\ Reseeded(p).wd = 0 /\ Reseeded(p).K = p.K + 1
         /\ Reseeded(p).ready = p.ready /\ Reseeded(p).pool0_len = 0
<1>1. p.reset_cnt \in Nat /\ p.K \in Nat /\ p.IV \in Nat /\ p.pool \in [Pools -> Seq(Events)]
  BY Parameters DEF States
<1>2. PICK r \in Nat, K \in Nat : r = p.reset_cnt + 1 /\ K = p.K + 1
  BY <1>1
<1>3. PICK pool \in [Pools -> Seq(Events)] :
        pool = [x \in Pools |-> IF x \in Drained(r) THEN <<>> ELSE p.pool[x]]
  <2>1. [x \in Pools |-> IF x \in Drained(r) THEN <<>> ELSE p.pool[x]] \in [Pools -> Seq(Events)]
    BY <1>1
  <2> QED BY <2>1
<1>4. PICK iv \in 0 .. IVs - 1 : iv = Advanced(p.IV, 1)
  BY <1>1, AdvancedInRange
<1>5. Reseeded(p) = [p EXCEPT !.reset_cnt = r, !.pool = pool, !.K = K, !.IV = iv,
                              !.pool0_len = 0, !.wd = 0]
  BY <1>2, <1>3, <1>4 DEF Reseeded
<1>6. /\ Reseeded(p) \in States
      /\ Reseeded(p).pool = pool /\ Reseeded(p).pool_idx = p.pool_idx
      /\ Reseeded(p).wd = 0 /\ Reseeded(p).K = K
      /\ Reseeded(p).ready = p.ready /\ Reseeded(p).pool0_len = 0
  <2>1. [p EXCEPT !.reset_cnt = r, !.pool = pool, !.K = K, !.IV = iv,
                  !.pool0_len = 0, !.wd = 0] \in States
    BY Zenon DEF States
  <2>2. /\ Reseeded(p).pool = pool /\ Reseeded(p).pool_idx = p.pool_idx
        /\ Reseeded(p).wd = 0 /\ Reseeded(p).K = K
    BY <1>5 DEF States
  <2>3. Reseeded(p).ready = p.ready /\ Reseeded(p).pool0_len = 0
    BY <1>5 DEF States
  <2> QED BY <1>5, <2>1, <2>2, <2>3, Zenon
<1> QED BY <1>2, <1>3, <1>6

LEMMA OpenedEffect ==
  ASSUME NEW p \in States
  PROVE  LET q == [p EXCEPT !.ready = TRUE]
         IN q \in States /\ q.ready /\ q.pool = p.pool /\ q.pool_idx = p.pool_idx
            /\ q.wd = p.wd /\ q.K = p.K
BY DEF States

LEMMA ClosedEffect ==
  ASSUME NEW p \in States
  PROVE  /\ Closed(p) \in States /\ ~Closed(p).ready
         /\ Closed(p).pool = p.pool /\ Closed(p).pool_idx = p.pool_idx
         /\ Closed(p).wd = p.wd /\ Closed(p).K = p.K
BY DEF States, Closed

LEMMA CountedEffect ==
  ASSUME NEW p \in States
  PROVE  /\ Counted(p) \in States
         /\ Counted(p).pool = p.pool /\ Counted(p).pool_idx = p.pool_idx
         /\ Counted(p).wd = p.wd + 1 /\ Counted(p).K = p.K /\ Counted(p).ready = p.ready
         /\ Counted(p).pool0_len = p.pool0_len /\ Counted(p).reset_cnt = p.reset_cnt
BY DEF States, Counted

LEMMA BlocksIsNat ==
  ASSUME NEW n \in Nat
  PROVE  Blocks(n) \in Nat
<1>1. n + 15 \in Nat /\ 16 \in Nat \ {0}
  OBVIOUS
<1> QED BY <1>1, Division DEF Blocks

LEMMA GeneratedEffect ==
  ASSUME NEW p \in States, NEW n \in Nat
  PROVE  /\ Generated(p, n) \in States
         /\ Generated(p, n).pool = p.pool /\ Generated(p, n).pool_idx = p.pool_idx
         /\ Generated(p, n).wd = p.wd /\ Generated(p, n).K = p.K + 1
         /\ Generated(p, n).ready = p.ready /\ Generated(p, n).pool0_len = p.pool0_len
<1>1. p.IV \in Nat /\ p.K \in Nat
  BY Parameters DEF States
<1>2. Blocks(n) + 2 \in Nat
  BY BlocksIsNat
<1>3. PICK iv \in 0 .. IVs - 1, K \in Nat : iv = Advanced(p.IV, Blocks(n) + 2) /\ K = p.K + 1
  <2>1. Advanced(p.IV, Blocks(n) + 2) \in 0 .. IVs - 1
    BY <1>1, <1>2, AdvancedInRange
  <2>2. p.K + 1 \in Nat
    BY <1>1
  <2> QED BY <2>1, <2>2
<1>4. Generated(p, n) = [p EXCEPT !.K = K, !.IV = iv]
  BY <1>3 DEF Generated
<1>5. /\ Generated(p, n) \in States
      /\ Generated(p, n).pool = p.pool /\ Generated(p, n).pool_idx = p.pool_idx
      /\ Generated(p, n).wd = p.wd /\ Generated(p, n).K = K
      /\ Generated(p, n).ready = p.ready /\ Generated(p, n).pool0_len = p.pool0_len
  BY <1>4 DEF States
<1> QED BY <1>3, <1>5

-----------------------------------------------------------------------------
(* Entropy: EntropyIsKept as a statement about the pools, the index of the *)
(* next one, the number of events and what was mixed.                      *)

IdsIn(s) == {e.id : e \in Range(s)}
IdsOf(mix, x) == {m.event : m \in {mm \in mix : mm.pool = x}}
Dealt(n, x) == {id \in 0 .. n - 1 : id % FORTUNA_POOLS = x}

Kept(pool, idx, n, mix) ==
  /\ idx = n % FORTUNA_POOLS
  /\ \A x \in Pools : /\ IdsIn(pool[x]) \cup IdsOf(mix, x) = Dealt(n, x)
                      /\ IdsIn(pool[x]) \cap IdsOf(mix, x) = {}
  /\ \A m1, m2 \in mix : m1.event = m2.event => m1 = m2

Mixed == [event : Nat, pool : Pools, reseed : Nat]

(* The entropy of the pools D, for reseed r.                               *)
Moved(pool, D, r) ==
  UNION {{[event |-> e.id, pool |-> x, reseed |-> r] : e \in Range(pool[x])} : x \in D}

LEMMA IdsOfAppend ==
  ASSUME NEW s \in Seq(Events), NEW e \in Events
  PROVE  IdsIn(Append(s, e)) = IdsIn(s) \cup {e.id}
<1>1. Range(Append(s, e)) = Range(s) \cup {e}
  <2>1. /\ DOMAIN s = 1 .. Len(s) /\ Len(s) \in Nat
        /\ DOMAIN Append(s, e) = 1 .. Len(s) + 1
        /\ \A i \in 1 .. Len(s) : Append(s, e)[i] = s[i]
        /\ Append(s, e)[Len(s) + 1] = e
    OBVIOUS
  <2>2. 1 .. Len(s) + 1 = (1 .. Len(s)) \cup {Len(s) + 1}
    BY <2>1
  <2> QED BY <2>1, <2>2 DEF Range
<1> QED BY <1>1 DEF IdsIn

LEMMA IdsOfNone == IdsIn(<<>>) = {} /\ \A x : IdsOf({}, x) = {}
<1>1. DOMAIN << >> = {}
  OBVIOUS
<1>2. Range(<< >>) = {}
  BY <1>1 DEF Range
<1> QED BY <1>2 DEF IdsIn, IdsOf

LEMMA NextPool ==
  ASSUME NEW n \in Nat
  PROVE  /\ n % FORTUNA_POOLS \in Pools
         /\ (n + 1) % FORTUNA_POOLS = IF (n % FORTUNA_POOLS) + 1 = FORTUNA_POOLS THEN 0
                                      ELSE (n % FORTUNA_POOLS) + 1
<1> DEFINE m == FORTUNA_POOLS
           q == n \div m
           r == n % m
<1>1. m \in Nat \ {0}
  BY Parameters
<1>2. n = m * q + r /\ r \in 0 .. m - 1 /\ q \in Nat
  BY <1>1, Division
<1>3. r \in Pools
  BY <1>2 DEF Pools
<1>4. (n + 1) % m = IF r + 1 = m THEN 0 ELSE r + 1
  <2> HIDE DEF q, r
  <2>1. CASE r + 1 = m
    <3>1. m * (q + 1) = m * q + m
      BY <1>1, <1>2
    <3>2. n + 1 = m * (q + 1) + 0 /\ q + 1 \in Nat /\ 0 \in 0 .. m - 1 /\ n + 1 \in Nat
      BY <1>1, <1>2, <2>1, <3>1
    <3> QED BY <1>1, <2>1, <3>2, RemainderIsUnique
  <2>2. CASE r + 1 # m
    <3>1. r + 1 \in 0 .. m - 1 /\ n + 1 \in Nat /\ m * q \in Nat
      BY <1>1, <1>2, <2>2
    <3>2. n + 1 = m * q + (r + 1)
      BY <1>2, <3>1
    <3>3. (n + 1) % m = r + 1
      BY <1>1, <1>2, <3>1, <3>2, RemainderIsUnique
    <3> QED BY <2>2, <3>3
  <2> QED BY <2>1, <2>2
<1> QED BY <1>3, <1>4 DEF r, m

(* A PRNG that has just been started has lost nothing.                     *)
LEMMA NothingYet == Kept([x \in Pools |-> <<>>], 0, 0, {})
<1>1. 0 % FORTUNA_POOLS = 0
  <2>1. 0 = FORTUNA_POOLS * 0 + 0 /\ 0 \in 0 .. FORTUNA_POOLS - 1
    BY Parameters
  <2> QED BY <2>1, Parameters, RemainderIsUnique
<1>2. \A x \in Pools : Dealt(0, x) = {}
  BY DEF Dealt
<1> QED BY <1>1, <1>2, IdsOfNone DEF Kept

(* An event goes to the pool whose turn it is.                             *)
LEMMA AddingKeeps ==
  ASSUME NEW pool \in [Pools -> Seq(Events)], NEW idx, NEW n \in Nat,
         NEW mix \in SUBSET Mixed, NEW e \in Events, e.id = n,
         Kept(pool, idx, n, mix)
  PROVE  Kept([pool EXCEPT ![idx] = Append(@, e)],
              IF idx + 1 = FORTUNA_POOLS THEN 0 ELSE idx + 1, n + 1, mix)
<1> DEFINE new == [pool EXCEPT ![idx] = Append(@, e)]
<1>1. idx = n % FORTUNA_POOLS /\ idx \in Pools
  BY NextPool DEF Kept
<1>2. (n + 1) % FORTUNA_POOLS = IF idx + 1 = FORTUNA_POOLS THEN 0 ELSE idx + 1
  BY <1>1, NextPool
<1>3. ASSUME NEW x \in Pools
      PROVE  /\ IdsIn(new[x]) \cup IdsOf(mix, x) = Dealt(n + 1, x)
             /\ IdsIn(new[x]) \cap IdsOf(mix, x) = {}
  <2>1. /\ IdsIn(pool[x]) \cup IdsOf(mix, x) = Dealt(n, x)
        /\ IdsIn(pool[x]) \cap IdsOf(mix, x) = {}
    BY DEF Kept
  <2>2. CASE x = idx
    <3>1. IdsIn(new[x]) = IdsIn(pool[x]) \cup {n}
      BY <2>2, IdsOfAppend
    <3>2. Dealt(n + 1, x) = Dealt(n, x) \cup {n} /\ n \notin Dealt(n, x)
      BY <1>1, <2>2 DEF Dealt
    <3> QED BY <2>1, <3>1, <3>2
  <2>3. CASE x # idx
    <3>1. new[x] = pool[x]
      BY <2>3
    <3>2. Dealt(n + 1, x) = Dealt(n, x)
      BY <1>1, <2>3 DEF Dealt
    <3> QED BY <2>1, <3>1, <3>2
  <2> QED BY <2>2, <2>3
<1>4. \A m1, m2 \in mix : m1.event = m2.event => m1 = m2
  BY DEF Kept
<1> QED BY <1>2, <1>3, <1>4 DEF Kept

(* A reseed moves the events of its pools into the key.                    *)
LEMMA DrainingKeeps ==
  ASSUME NEW pool \in [Pools -> Seq(Events)], NEW idx, NEW n \in Nat,
         NEW mix \in SUBSET Mixed, NEW D \in SUBSET Pools, NEW r \in Nat,
         Kept(pool, idx, n, mix)
  PROVE  /\ Kept([x \in Pools |-> IF x \in D THEN <<>> ELSE pool[x]], idx, n,
                 mix \cup Moved(pool, D, r))
         /\ mix \cup Moved(pool, D, r) \in SUBSET Mixed
<1> DEFINE rest  == [x \in Pools |-> IF x \in D THEN <<>> ELSE pool[x]]
           moved == Moved(pool, D, r)
<1>1. \A m \in moved : /\ m.pool \in D /\ m.event \in IdsIn(pool[m.pool])
                       /\ m = [event |-> m.event, pool |-> m.pool, reseed |-> r]
  BY DEF Moved, IdsIn
<1>2. \A x \in D : \A id \in IdsIn(pool[x]) :
         [event |-> id, pool |-> x, reseed |-> r] \in moved
  BY DEF Moved, IdsIn
<1>3. \A x \in Pools : IdsIn(pool[x]) \subseteq Dealt(n, x) /\ IdsOf(mix, x) \subseteq Dealt(n, x)
  BY DEF Kept
<1>4. \A x \in Pools : IdsIn(pool[x]) \cap IdsOf(mix, x) = {}
  BY DEF Kept
<1> HIDE DEF moved
<1>5. moved \in SUBSET Mixed
  <2>1. \A x \in Pools : IdsIn(pool[x]) \subseteq Nat
    BY <1>3 DEF Dealt
  <2>2. ASSUME NEW m \in moved
        PROVE  m \in Mixed
    <3>1. m.pool \in Pools /\ m.event \in Nat
      BY <1>1, <2>1
    <3> QED BY <1>1, <3>1 DEF Mixed
  <2> QED BY <2>2
<1>6. ASSUME NEW x \in Pools
      PROVE  /\ IdsIn(rest[x]) \cup IdsOf(mix \cup moved, x) = Dealt(n, x)
             /\ IdsIn(rest[x]) \cap IdsOf(mix \cup moved, x) = {}
  <2>1. IdsIn(pool[x]) \cup IdsOf(mix, x) = Dealt(n, x)
    BY DEF Kept
  <2>2. CASE x \in D
    <3>1. IdsOf(mix \cup moved, x) = IdsOf(mix, x) \cup IdsIn(pool[x])
      <4>1. ASSUME NEW id \in IdsIn(pool[x])
            PROVE  id \in IdsOf(moved, x)
        <5> DEFINE m == [event |-> id, pool |-> x, reseed |-> r]
        <5>1. m \in moved /\ m.pool = x /\ m.event = id
          BY <1>2, <2>2
        <5> QED BY <5>1, Zenon DEF IdsOf
      <4>2. IdsOf(moved, x) \subseteq IdsIn(pool[x])
        BY <1>1 DEF IdsOf
      <4>3. IdsOf(mix \cup moved, x) = IdsOf(mix, x) \cup IdsOf(moved, x)
        BY DEF IdsOf
      <4> QED BY <4>1, <4>2, <4>3
    <3>2. IdsIn(rest[x]) = {}
      BY <2>2, IdsOfNone
    <3> QED BY <2>1, <3>1, <3>2
  <2>3. CASE x \notin D
    <3>1. IdsOf(mix \cup moved, x) = IdsOf(mix, x)
      BY <1>1, <2>3 DEF IdsOf
    <3>2. rest[x] = pool[x]
      BY <2>3
    <3> QED BY <1>4, <2>1, <3>1, <3>2
  <2> QED BY <2>2, <2>3
<1>7. ASSUME NEW m1 \in mix \cup moved, NEW m2 \in mix \cup moved, m1.event = m2.event
      PROVE  m1 = m2
  <2>1. \A m \in mix : m.pool \in Pools /\ m.event \in IdsOf(mix, m.pool)
    BY DEF Mixed, IdsOf
  <2>2. \A m \in mix \cup moved : m.event % FORTUNA_POOLS = m.pool
    BY <1>1, <1>3, <2>1 DEF Dealt
  <2>3. m1.pool = m2.pool
    BY <1>7, <2>2
  <2>4. CASE m1 \in mix /\ m2 \in mix
    BY <1>7, <2>4 DEF Kept
  <2>5. CASE m1 \in moved /\ m2 \in moved
    BY <1>1, <1>7, <2>3, <2>5
  <2>6. CASE m1 \in mix /\ m2 \in moved
    BY <1>1, <1>4, <1>7, <2>1, <2>3, <2>6
  <2>7. CASE m1 \in moved /\ m2 \in mix
    BY <1>1, <1>4, <1>7, <2>1, <2>3, <2>7
  <2> QED BY <2>4, <2>5, <2>6, <2>7
<1>8. idx = n % FORTUNA_POOLS
  BY DEF Kept
<1>9. Kept(rest, idx, n, mix \cup moved)
  <2> HIDE DEF rest
  <2> QED BY <1>6, <1>7, <1>8 DEF Kept
<1> QED BY <1>5, <1>9 DEF moved

(* An import gives one event to every pool.                                *)
LEMMA ImportKeeps ==
  ASSUME NEW pool \in [Pools -> Seq(Events)],
         \A x \in Pools : IdsIn(pool[x]) = {x}
  PROVE  Kept(pool, 0, FORTUNA_POOLS, {})
<1>1. FORTUNA_POOLS % FORTUNA_POOLS = 0
  <2>1. /\ FORTUNA_POOLS = FORTUNA_POOLS * 1 + 0 /\ 0 \in 0 .. FORTUNA_POOLS - 1
        /\ FORTUNA_POOLS \in Nat
    BY Parameters
  <2> QED BY <2>1, Parameters, RemainderIsUnique
<1>2. \A x \in Pools : x % FORTUNA_POOLS = x
  <2>1. ASSUME NEW x \in Pools
        PROVE  x % FORTUNA_POOLS = x
    <3>1. x \in Nat /\ x \in 0 .. FORTUNA_POOLS - 1 /\ x = FORTUNA_POOLS * 0 + x
      BY Parameters DEF Pools
    <3> QED BY <3>1, Parameters, RemainderIsUnique
  <2> QED BY <2>1
<1>3. \A x \in Pools : Dealt(FORTUNA_POOLS, x) = {x}
  BY <1>2 DEF Dealt, Pools
<1> QED BY <1>1, <1>3, IdsOfNone DEF Kept

-----------------------------------------------------------------------------
(* Blocks.                                                                 *)

OutputBlock == Nat \X (0 .. IVs - 1)

(* The counter does not come back within one call.                         *)
LEMMA CountersDiffer ==
  ASSUME NEW iv \in Nat, NEW a \in Nat, NEW b \in Nat, a < b, b < IVs
  PROVE  Advanced(iv, a) # Advanced(iv, b)
<1>1. PICK d \in 1 .. IVs - 1 : b = a + d
  <2>1. b - a \in 1 .. IVs - 1 /\ b = a + (b - a)
    BY Parameters
  <2> QED BY <2>1
<1>2. iv + a \in Nat /\ iv + b = (iv + a) + d
  BY <1>1
<1> QED BY <1>2, Parameters, RemaindersDiffer DEF Advanced

LEMMA BlocksOfEffect ==
  ASSUME NEW p \in States, NEW first \in Nat, NEW n \in Nat
  PROVE  /\ BlocksOf(p, first, n) \in Seq(OutputBlock)
         /\ DOMAIN BlocksOf(p, first, n) = 1 .. n
         /\ \A i \in 1 .. n : /\ BlocksOf(p, first, n)[i][1] = p.K
                              /\ BlocksOf(p, first, n)[i][2] = Advanced(p.IV, first + i - 1)
<1>1. p.K \in Nat /\ p.IV \in Nat
  BY Parameters DEF States
<1>2. ASSUME NEW i \in 1 .. n
      PROVE  <<p.K, Advanced(p.IV, first + i - 1)>> \in OutputBlock
  <2>1. first + i - 1 \in Nat
    OBVIOUS
  <2>2. Advanced(p.IV, first + i - 1) \in 0 .. IVs - 1
    BY <1>1, <2>1, AdvancedInRange
  <2> QED BY <1>1, <2>2 DEF OutputBlock
<1>3. BlocksOf(p, first, n) \in [1 .. n -> OutputBlock]
  BY <1>2 DEF BlocksOf
<1>4. BlocksOf(p, first, n) \in Seq(OutputBlock)
  BY <1>3
<1>5. \A i \in 1 .. n : BlocksOf(p, first, n)[i] = <<p.K, Advanced(p.IV, first + i - 1)>>
  BY DEF BlocksOf
<1> QED BY <1>3, <1>4, <1>5

(* The blocks of one call are all different.                               *)
LEMMA OneCallIsFresh ==
  ASSUME NEW p \in States, NEW n \in OutLens
  PROVE  /\ Output(p, n) \in Seq(OutputBlock) /\ NextKey(p, n) \in Seq(OutputBlock)
         /\ \A i \in DOMAIN Output(p, n) : Output(p, n)[i][1] = p.K
         /\ \A j \in DOMAIN NextKey(p, n) : NextKey(p, n)[j][1] = p.K
         /\ IsInjective(Output(p, n)) /\ IsInjective(NextKey(p, n))
         /\ \A i \in DOMAIN Output(p, n), j \in DOMAIN NextKey(p, n) :
               Output(p, n)[i] # NextKey(p, n)[j]
<1> DEFINE o == Output(p, n)
           k == NextKey(p, n)
<1>1. PICK b \in Nat : b = Blocks(n) /\ b + 2 <= IVs
  BY BlocksIsNat, FortunaAssumption
<1>2. /\ o \in Seq(OutputBlock) /\ DOMAIN o = 1 .. b
      /\ \A i \in 1 .. b : o[i][1] = p.K /\ o[i][2] = Advanced(p.IV, 0 + i - 1)
  BY <1>1, BlocksOfEffect DEF Output
<1>3. /\ k \in Seq(OutputBlock) /\ DOMAIN k = 1 .. 2
      /\ \A j \in 1 .. 2 : k[j][1] = p.K /\ k[j][2] = Advanced(p.IV, b + j - 1)
  <2>1. k = BlocksOf(p, b, 2) /\ 2 \in Nat
    BY <1>1 DEF NextKey
  <2>2. /\ BlocksOf(p, b, 2) \in Seq(OutputBlock) /\ DOMAIN BlocksOf(p, b, 2) = 1 .. 2
        /\ \A j \in 1 .. 2 : /\ BlocksOf(p, b, 2)[j][1] = p.K
                              /\ BlocksOf(p, b, 2)[j][2] = Advanced(p.IV, b + j - 1)
    BY <2>1, BlocksOfEffect, Zenon
  <2> HIDE DEF k
  <2> QED BY <2>1, <2>2, Zenon
<1>4. p.IV \in Nat /\ IVs \in Nat
  BY Parameters DEF States
<1>5. \A a, c \in 0 .. b + 1 : a < c => Advanced(p.IV, a) # Advanced(p.IV, c)
  BY <1>1, <1>4, CountersDiffer
<1> HIDE DEF o, k
<1>6. ASSUME NEW i \in DOMAIN o, NEW j \in DOMAIN o, o[i] = o[j]
      PROVE  i = j
  <2>1. i - 1 \in 0 .. b + 1 /\ j - 1 \in 0 .. b + 1 /\ 0 + i - 1 = i - 1 /\ 0 + j - 1 = j - 1
    BY <1>1, <1>2
  <2>2. Advanced(p.IV, i - 1) = Advanced(p.IV, j - 1)
    BY <1>2, <1>6, <2>1
  <2> QED BY <1>2, <1>5, <2>1, <2>2
<1>7. ASSUME NEW i \in DOMAIN k, NEW j \in DOMAIN k, k[i] = k[j]
      PROVE  i = j
  <2>1. b + i - 1 \in 0 .. b + 1 /\ b + j - 1 \in 0 .. b + 1
    BY <1>1, <1>3
  <2>2. Advanced(p.IV, b + i - 1) = Advanced(p.IV, b + j - 1)
    BY <1>3, <1>7
  <2> QED BY <1>1, <1>3, <1>5, <2>1, <2>2
<1>8. ASSUME NEW i \in DOMAIN o, NEW j \in DOMAIN k, o[i] = k[j]
      PROVE  FALSE
  <2>1. /\ 0 + i - 1 \in 0 .. b + 1 /\ b + j - 1 \in 0 .. b + 1
        /\ 0 + i - 1 < b + j - 1
    BY <1>1, <1>2, <1>3
  <2>2. Advanced(p.IV, 0 + i - 1) = Advanced(p.IV, b + j - 1)
    BY <1>2, <1>3, <1>8
  <2> QED BY <1>5, <2>1, <2>2
<1>9. IsInjective(o) /\ IsInjective(k)
  BY <1>6, <1>7 DEF IsInjective
<1> QED BY <1>2, <1>3, <1>8, <1>9 DEF o, k

(* Where the elements of a concatenation come from.                        *)
LEMMA Joined ==
  ASSUME NEW S, NEW s \in Seq(S), NEW t \in Seq(S)
  PROVE  /\ s \o t \in Seq(S)
         /\ \A i \in DOMAIN (s \o t) :
               \/ i \in DOMAIN s /\ (s \o t)[i] = s[i]
               \/ i - Len(s) \in DOMAIN t /\ (s \o t)[i] = t[i - Len(s)]
<1>1. /\ Len(s) \in Nat /\ Len(t) \in Nat
      /\ DOMAIN s = 1 .. Len(s) /\ DOMAIN t = 1 .. Len(t)
      /\ s \o t \in Seq(S) /\ DOMAIN (s \o t) = 1 .. Len(s) + Len(t)
  OBVIOUS
<1>2. ASSUME NEW i \in DOMAIN (s \o t)
      PROVE  \/ i \in DOMAIN s /\ (s \o t)[i] = s[i]
             \/ i - Len(s) \in DOMAIN t /\ (s \o t)[i] = t[i - Len(s)]
  <2>1. CASE i <= Len(s)
    <3>1. i \in DOMAIN s
      BY <1>1, <2>1
    <3>2. (s \o t)[i] = s[i]
      BY <1>1, <2>1
    <3> QED BY <3>1, <3>2
  <2>2. CASE i > Len(s)
    <3>1. i - Len(s) \in DOMAIN t
      BY <1>1, <2>2
    <3>2. (s \o t)[i] = t[i - Len(s)]
      BY <1>1, <2>2
    <3> QED BY <3>1, <3>2
  <2> QED BY <1>1, <2>1, <2>2
<1> QED BY <1>1, <1>2

(* Sequences of blocks stay different when the keys of the new ones are    *)
(* newer.                                                                  *)
LEMMA JoinedIsInjective ==
  ASSUME NEW s \in Seq(OutputBlock), NEW t \in Seq(OutputBlock), IsInjective(s), IsInjective(t),
         \A i \in DOMAIN s, j \in DOMAIN t : s[i] # t[j]
  PROVE  IsInjective(s \o t)
<1>1. ASSUME NEW i \in DOMAIN (s \o t), NEW j \in DOMAIN (s \o t), (s \o t)[i] = (s \o t)[j]
      PROVE  i = j
  <2>1. /\ Len(s) \in Nat /\ i \in Int /\ j \in Int
    OBVIOUS
  <2>2. /\ \/ i \in DOMAIN s /\ (s \o t)[i] = s[i]
           \/ i - Len(s) \in DOMAIN t /\ (s \o t)[i] = t[i - Len(s)]
        /\ \/ j \in DOMAIN s /\ (s \o t)[j] = s[j]
           \/ j - Len(s) \in DOMAIN t /\ (s \o t)[j] = t[j - Len(s)]
    BY Joined
  <2>3. \/ i \in DOMAIN s /\ j \in DOMAIN s /\ s[i] = s[j]
        \/ /\ i - Len(s) \in DOMAIN t /\ j - Len(s) \in DOMAIN t
           /\ t[i - Len(s)] = t[j - Len(s)]
    BY <1>1, <2>2
  <2>4. CASE i \in DOMAIN s /\ j \in DOMAIN s /\ s[i] = s[j]
    BY <2>4 DEF IsInjective
  <2>5. CASE /\ i - Len(s) \in DOMAIN t /\ j - Len(s) \in DOMAIN t
             /\ t[i - Len(s)] = t[j - Len(s)]
    <3>1. i - Len(s) = j - Len(s)
      BY <2>5, Zenon DEF IsInjective
    <3> QED BY <2>1, <3>1
  <2> QED BY <2>3, <2>4, <2>5
<1> QED BY <1>1 DEF IsInjective

-----------------------------------------------------------------------------
(* The actions.                                                            *)

LEMMA PreparedEffect ==
  ASSUME NEW p \in States
  PROVE  /\ Prepared(p) \in States
         /\ Prepared(p).ready = p.ready /\ Prepared(p).pool_idx = p.pool_idx
         /\ NeedsReseed(p) =>
              /\ Prepared(p).K = p.K + 1 /\ Prepared(p).wd = 0 /\ Prepared(p).pool0_len = 0
              /\ Prepared(p).pool = [x \in Pools |->
                                       IF x \in Drained(p.reset_cnt + 1) THEN <<>> ELSE p.pool[x]]
         /\ ~NeedsReseed(p) =>
              /\ Prepared(p).K = p.K /\ Prepared(p).wd = p.wd + 1
              /\ p.wd + 1 # FORTUNA_WD /\ Prepared(p).pool0_len < Pool0Limit
              /\ Prepared(p).pool = p.pool
<1>1. p.pool0_len \in Nat /\ Pool0Limit = 64
  BY DEF States, Pool0Limit
<1>2. CASE NeedsReseed(p)
  <2>1. Prepared(p) = Reseeded(Counted(p))
    BY <1>2 DEF Prepared
  <2> QED BY <1>2, <2>1, CountedEffect, ReseededEffect
<1>3. CASE ~NeedsReseed(p)
  <2>1. Prepared(p) = Counted(p)
    BY <1>3 DEF Prepared
  <2>2. p.wd + 1 # FORTUNA_WD /\ p.pool0_len < Pool0Limit
    BY <1>1, <1>3 DEF NeedsReseed
  <2> QED BY <1>3, <2>1, <2>2, CountedEffect
<1> QED BY <1>2, <1>3

LEMMA KeptIsInvariant ==
  /\ EntropyIsKept <=> Kept(prng.pool, prng.pool_idx, events, mixed)
  /\ EntropyIsKept' <=> Kept(prng.pool, prng.pool_idx, events, mixed)'
<1>1. EntropyIsKept <=> Kept(prng.pool, prng.pool_idx, events, mixed)
  BY DEF EntropyIsKept, Kept, PoolIds, MixedIds, IdsIn, IdsOf, Dealt
<1>2. EntropyIsKept' <=> Kept(prng.pool, prng.pool_idx, events, mixed)'
  BY DEF EntropyIsKept, Kept, PoolIds, MixedIds, IdsIn, IdsOf, Dealt
<1> QED BY <1>1, <1>2

LEMMA MixtureIsMoved ==
  ASSUME NEW p \in States
  PROVE  Mixture(p) = Moved(p.pool, Drained(p.reset_cnt + 1), p.reset_cnt + 1)
BY DEF Mixture, Moved

(* The blocks when no block is made.                                       *)
LEMMA QuietBlocks ==
  ASSUME FInv, UNCHANGED <<output, keys>>, prng' \in States,
         prng'.K >= prng.K, prng'.ready => prng'.K > 0
  PROVE  UsedKeysAreOld' /\ BlocksAreFresh'
<1>1. prng.K \in Nat /\ prng'.K \in Nat
  BY DEF FInv, FortunaTypeOK, States
<1>2. 1 .. prng.K - 1 \subseteq 1 .. prng'.K - 1
  BY <1>1
<1>3. UsedKeysAreOld'
  BY <1>2 DEF FInv, UsedKeysAreOld
<1>4. BlocksAreFresh'
  BY DEF FInv, BlocksAreFresh
<1> QED BY <1>3, <1>4

(* The blocks when the PRNG starts again.                                  *)
LEMMA NoBlocks ==
  ASSUME output' = <<>>, keys' = <<>>, prng'.ready => prng'.K > 0
  PROVE  UsedKeysAreOld' /\ BlocksAreFresh'
BY DEF UsedKeysAreOld, BlocksAreFresh, IsInjective

(* The calls that are not reads.                                           *)
LEMMA NotARead ==
  ASSUME NEW c, NEW r, Called(c, r), c \notin {"read", "prng_read", "last_read"},
         RoundIsShort', prng' \in States, reads' \in Nat
  PROVE  ReseedsInTime'
<1>1. prng'.wd \in Nat
  BY DEF States
<1>2. reads' <= FORTUNA_WD
  BY <1>1, Parameters DEF RoundIsShort
<1> QED BY <1>2 DEF ReseedsInTime, Called

LEMMA StartStep ==
  ASSUME FInv, FortunaStart
  PROVE  FInv'
<1>1. /\ prng' = Fresh /\ prng' \in States /\ started' = TRUE /\ events' = 0 /\ mixed' = {}
      /\ output' = <<>> /\ keys' = <<>> /\ reads' = 0
      /\ last' = [call |-> "start", ret |-> CRYPTO_OK]
  BY FreshIsState DEF FortunaStart, Restarts, Called
<1>2. /\ prng'.pool = [x \in Pools |-> <<>>] /\ prng'.pool_idx = 0
      /\ prng'.wd = 0 /\ ~prng'.ready
  BY <1>1 DEF Fresh
<1>3. FortunaTypeOK'
  BY <1>1 DEF FortunaTypeOK, CRYPTO_OK
<1>4. EntropyIsKept'
  BY <1>1, <1>2, NothingYet, KeptIsInvariant
<1>5. UsedKeysAreOld' /\ BlocksAreFresh'
  BY <1>1, <1>2, NoBlocks
<1>6. RoundIsShort'
  BY <1>1, <1>2, Parameters DEF RoundIsShort
<1>7. ReseedsInTime'
  <2>1. Called("start", CRYPTO_OK)
    BY DEF FortunaStart
  <2> QED BY <1>1, <1>6, <2>1, NotARead
<1> QED BY <1>3, <1>4, <1>5, <1>6, <1>7 DEF FInv

LEMMA AddEntropyStep ==
  ASSUME FInv, NEW n \in InLens, AddEntropy(n)
  PROVE  FInv'
<1> DEFINE e == Event(prng, events, n)
<1>1. prng \in States /\ events \in Nat /\ mixed \in SUBSET Mixed /\ n \in Nat
  BY FortunaAssumption DEF FInv, FortunaTypeOK, Mixed
<1>2. e \in Events /\ e.id = events
  BY <1>1, EventIsEvent
<1>3. prng' = WithEntropy(prng, e)
  BY DEF AddEntropy
<1> HIDE DEF e
<1>4. /\ prng' \in States
      /\ prng'.pool = [prng.pool EXCEPT ![prng.pool_idx] = Append(@, e)]
      /\ prng'.pool_idx = IF prng.pool_idx + 1 = FORTUNA_POOLS THEN 0 ELSE prng.pool_idx + 1
      /\ prng'.wd = prng.wd /\ prng'.K = prng.K /\ prng'.ready = prng.ready
  BY <1>1, <1>2, <1>3, WithEntropyEffect
<1>5. /\ events' = events + 1 /\ Called("add_entropy", CRYPTO_OK)
      /\ UNCHANGED <<started, mixed, output, keys, reads>>
  BY DEF AddEntropy
<1>6. FortunaTypeOK'
  BY <1>1, <1>4, <1>5 DEF FInv, FortunaTypeOK, Called, CRYPTO_OK
<1>7. EntropyIsKept'
  <2>1. Kept(prng.pool, prng.pool_idx, events, mixed)
    BY KeptIsInvariant DEF FInv
  <2>2. prng.pool \in [Pools -> Seq(Events)]
    BY <1>1 DEF States
  <2>3. Kept([prng.pool EXCEPT ![prng.pool_idx] = Append(@, e)],
             IF prng.pool_idx + 1 = FORTUNA_POOLS THEN 0 ELSE prng.pool_idx + 1,
             events + 1, mixed)
    BY <1>1, <1>2, <2>1, <2>2, AddingKeeps, Zenon
  <2>4. Kept(prng'.pool, prng'.pool_idx, events + 1, mixed)
    BY <1>4, <2>3, Zenon
  <2> QED BY <1>5, <2>4, KeptIsInvariant
<1>8. UsedKeysAreOld' /\ BlocksAreFresh'
  <2>1. prng'.K >= prng.K /\ (prng'.ready => prng'.K > 0)
    BY <1>1, <1>4 DEF FInv, UsedKeysAreOld, States
  <2> QED BY <1>4, <1>5, <2>1, QuietBlocks
<1>9. RoundIsShort'
  BY <1>4, <1>5 DEF FInv, RoundIsShort
<1>10. ReseedsInTime'
  BY <1>4, <1>5, <1>6, <1>9, NotARead DEF FortunaTypeOK
<1> QED BY <1>6, <1>7, <1>8, <1>9, <1>10 DEF FInv

(* Ready and the reseed of a read move the same events.                    *)
LEMMA ReseedKeepsEntropy ==
  ASSUME FInv, events' = events, mixed' = mixed \cup Mixture(prng),
         prng'.pool_idx = prng.pool_idx,
         prng'.pool = [x \in Pools |-> IF x \in Drained(prng.reset_cnt + 1) THEN <<>>
                                       ELSE prng.pool[x]]
  PROVE  EntropyIsKept' /\ mixed' \in SUBSET Mixed
<1>1. /\ prng \in States /\ prng.pool \in [Pools -> Seq(Events)]
      /\ prng.reset_cnt + 1 \in Nat /\ events \in Nat /\ mixed \in SUBSET Mixed
  BY DEF FInv, FortunaTypeOK, States, Mixed
<1>2. Kept(prng.pool, prng.pool_idx, events, mixed)
  BY KeptIsInvariant DEF FInv
<1>3. PICK r \in Nat : r = prng.reset_cnt + 1
  BY <1>1
<1>4. PICK D \in SUBSET Pools : D = Drained(r)
  BY DrainedArePools
<1>5. /\ Kept([x \in Pools |-> IF x \in D THEN <<>> ELSE prng.pool[x]], prng.pool_idx, events,
              mixed \cup Moved(prng.pool, D, r))
      /\ mixed \cup Moved(prng.pool, D, r) \in SUBSET Mixed
  BY <1>1, <1>2, DrainingKeeps
<1>6. /\ mixed' = mixed \cup Moved(prng.pool, D, r)
      /\ prng'.pool = [x \in Pools |-> IF x \in D THEN <<>> ELSE prng.pool[x]]
  BY <1>1, <1>3, <1>4, MixtureIsMoved
<1>7. Kept(prng'.pool, prng'.pool_idx, events', mixed')
  BY <1>5, <1>6, Zenon
<1> QED BY <1>5, <1>6, <1>7, KeptIsInvariant

LEMMA ReadyStep ==
  ASSUME FInv, Ready
  PROVE  FInv'
<1>1. prng \in States /\ prng.K \in Nat /\ prng.reset_cnt \in Nat
  BY DEF FInv, FortunaTypeOK, States
<1>2. /\ prng' \in States /\ prng'.ready
      /\ prng'.pool = [x \in Pools |-> IF x \in Drained(prng.reset_cnt + 1) THEN <<>>
                                       ELSE prng.pool[x]]
      /\ prng'.pool_idx = prng.pool_idx /\ prng'.wd = 0 /\ prng'.K = prng.K + 1
  BY <1>1, ReseededEffect, OpenedEffect DEF Ready
<1>3. /\ mixed' = mixed \cup Mixture(prng) /\ reads' = 0 /\ Called("ready", CRYPTO_OK)
      /\ UNCHANGED <<started, events, output, keys>>
  BY DEF Ready
<1>4. EntropyIsKept' /\ mixed' \in SUBSET Mixed
  BY <1>2, <1>3, ReseedKeepsEntropy
<1>5. FortunaTypeOK'
  BY <1>2, <1>3, <1>4 DEF FInv, FortunaTypeOK, Called, CRYPTO_OK, Mixed
<1>6. UsedKeysAreOld' /\ BlocksAreFresh'
  <2>1. prng'.K >= prng.K /\ prng'.K > 0
    BY <1>1, <1>2
  <2> QED BY <1>2, <1>3, <2>1, QuietBlocks
<1>7. RoundIsShort'
  BY <1>2, <1>3, Parameters DEF RoundIsShort
<1>8. ReseedsInTime'
  BY <1>2, <1>3, <1>5, <1>7, NotARead DEF FortunaTypeOK
<1> QED BY <1>4, <1>5, <1>6, <1>7, <1>8 DEF FInv

LEMMA CreateStep ==
  ASSUME FInv, NEW n \in InLens, Create(n)
  PROVE  FInv'
<1> DEFINE none == [x \in Pools |-> <<>>]
           e    == Event(Fresh, 0, n)
           s    == WithEntropy(Fresh, e)
<1>1. /\ Fresh \in States /\ Fresh.pool = none /\ Fresh.pool_idx = 0 /\ Fresh.K = 0
      /\ none \in [Pools -> Seq(Events)]
  <2>1. Fresh.pool = none /\ Fresh.pool_idx = 0 /\ Fresh.K = 0
    BY DEF Fresh
  <2>2. none \in [Pools -> Seq(Events)]
    OBVIOUS
  <2> QED BY <2>1, <2>2, FreshIsState
<1>2. e \in Events /\ e.id = 0
  BY <1>1, EventIsEvent, FortunaAssumption
<1>3. /\ prng' = [Reseeded(s) EXCEPT !.ready = TRUE]
      /\ started' = TRUE /\ events' = 1 /\ mixed' = Mixture(s)
      /\ output' = <<>> /\ keys' = <<>> /\ reads' = 0
      /\ Called("create", CRYPTO_OK)
  BY DEF Create, Restarts
<1> HIDE DEF none, e, s
<1>4. /\ s \in States /\ s.pool = [none EXCEPT ![0] = Append(@, e)]
      /\ s.pool_idx = IF 0 + 1 = FORTUNA_POOLS THEN 0 ELSE 0 + 1
      /\ s.K = 0
  <2>1. /\ s \in States /\ s.pool = [Fresh.pool EXCEPT ![Fresh.pool_idx] = Append(@, e)]
        /\ s.pool_idx = IF Fresh.pool_idx + 1 = FORTUNA_POOLS THEN 0 ELSE Fresh.pool_idx + 1
        /\ s.K = Fresh.K
    BY <1>1, <1>2, WithEntropyEffect, Zenon DEF s
  <2> QED BY <1>1, <2>1
<1>5. Kept(s.pool, s.pool_idx, 1, {})
  <2>1. Kept([none EXCEPT ![0] = Append(@, e)],
             IF 0 + 1 = FORTUNA_POOLS THEN 0 ELSE 0 + 1, 0 + 1, {})
    <3>1. Kept(none, 0, 0, {}) /\ 0 \in Nat /\ {} \in SUBSET Mixed
      BY NothingYet DEF none
    <3> QED BY <1>1, <1>2, <3>1, AddingKeeps
  <2> QED BY <1>4, <2>1
<1>6. PICK r \in Nat : r = s.reset_cnt + 1
  BY <1>4 DEF States
<1>7. PICK D \in SUBSET Pools : D = Drained(r)
  BY DrainedArePools
<1>8. /\ prng' \in States /\ prng'.ready /\ prng'.K = 1 /\ prng'.wd = 0
      /\ prng'.pool_idx = s.pool_idx
      /\ prng'.pool = [x \in Pools |-> IF x \in D THEN <<>> ELSE s.pool[x]]
  <2>1. /\ Reseeded(s) \in States
        /\ Reseeded(s).pool = [x \in Pools |-> IF x \in Drained(s.reset_cnt + 1) THEN <<>>
                                               ELSE s.pool[x]]
        /\ Reseeded(s).pool_idx = s.pool_idx
        /\ Reseeded(s).wd = 0 /\ Reseeded(s).K = s.K + 1
    BY <1>4, ReseededEffect, Zenon
  <2>2. PICK q \in States : q = Reseeded(s)
    BY <2>1
  <2>3. /\ prng' \in States /\ prng'.ready /\ prng'.pool = q.pool
        /\ prng'.pool_idx = q.pool_idx /\ prng'.wd = q.wd /\ prng'.K = q.K
    BY <1>3, <2>2, OpenedEffect
  <2>4. /\ prng' \in States /\ prng'.ready /\ prng'.wd = 0 /\ prng'.pool_idx = s.pool_idx
        /\ prng'.K = s.K + 1
    BY <2>1, <2>2, <2>3
  <2>5. prng'.pool = [x \in Pools |-> IF x \in D THEN <<>> ELSE s.pool[x]]
    BY <1>6, <1>7, <2>1, <2>2, <2>3, Zenon
  <2> QED BY <1>4, <2>4, <2>5
<1>9. /\ Kept([x \in Pools |-> IF x \in D THEN <<>> ELSE s.pool[x]], s.pool_idx, 1,
              {} \cup Moved(s.pool, D, r))
      /\ {} \cup Moved(s.pool, D, r) \in SUBSET Mixed
  <2>1. s.pool \in [Pools -> Seq(Events)] /\ 1 \in Nat /\ {} \in SUBSET Mixed
    BY <1>4 DEF States
  <2> QED BY <1>5, <2>1, DrainingKeeps
<1>10. mixed' = {} \cup Moved(s.pool, D, r)
  BY <1>3, <1>4, <1>6, <1>7, MixtureIsMoved
<1>11. EntropyIsKept'
  BY <1>3, <1>8, <1>9, <1>10, KeptIsInvariant
<1>12. FortunaTypeOK'
  <2>1. mixed' \in SUBSET Mixed
    BY <1>9, <1>10
  <2> QED BY <1>3, <1>8, <2>1 DEF FortunaTypeOK, Called, CRYPTO_OK, Mixed
<1>13. UsedKeysAreOld' /\ BlocksAreFresh'
  <2>1. prng'.K > 0
    BY <1>8
  <2> QED BY <1>3, <2>1, NoBlocks
<1>14. RoundIsShort'
  BY <1>3, <1>8, Parameters DEF RoundIsShort
<1>15. ReseedsInTime'
  BY <1>3, <1>8, <1>12, <1>14, NotARead DEF FortunaTypeOK
<1> QED BY <1>11, <1>12, <1>13, <1>14, <1>15 DEF FInv

(* What a read that delivers does.                                         *)
LEMMA DeliverStep ==
  ASSUME FInv, NEW n \in OutLens, prng.ready, Deliver(n),
         NEW c \in {"read", "prng_read", "last_read"}, NEW r \in Nat, Called(c, r)
  PROVE  FInv'
<1>1. /\ prng \in States /\ prng.K \in Nat /\ prng.wd \in Nat /\ prng.reset_cnt \in Nat
      /\ n \in Nat /\ mixed \in SUBSET Mixed /\ reads \in Nat
      /\ output \in Seq(OutputBlock) /\ keys \in Seq(OutputBlock)
  BY FortunaAssumption DEF FInv, FortunaTypeOK, States, Mixed, OutputBlock
<1>2. PICK p \in States : p = Prepared(prng)
  BY <1>1, PreparedEffect
<1>3. /\ p.ready /\ p.pool_idx = prng.pool_idx
      /\ NeedsReseed(prng) =>
           /\ p.K = prng.K + 1 /\ p.wd = 0 /\ p.pool0_len = 0
           /\ p.pool = [x \in Pools |-> IF x \in Drained(prng.reset_cnt + 1) THEN <<>>
                                        ELSE prng.pool[x]]
      /\ ~NeedsReseed(prng) =>
           /\ p.K = prng.K /\ p.wd = prng.wd + 1
           /\ prng.wd + 1 # FORTUNA_WD /\ p.pool0_len < Pool0Limit
           /\ p.pool = prng.pool
  BY <1>1, <1>2, PreparedEffect, Zenon
<1>4. /\ prng' = Generated(p, n)
      /\ output' = output \o Output(p, n) /\ keys' = keys \o NextKey(p, n)
      /\ mixed' = IF NeedsReseed(prng) THEN mixed \cup Mixture(Counted(prng)) ELSE mixed
      /\ reads' = IF NeedsReseed(prng) THEN 1 ELSE reads + 1
      /\ UNCHANGED <<started, events>>
  BY <1>2 DEF Deliver
<1>5. /\ prng' \in States /\ prng'.pool = p.pool /\ prng'.pool_idx = p.pool_idx
      /\ prng'.wd = p.wd /\ prng'.K = p.K + 1 /\ prng'.ready = p.ready
      /\ prng'.pool0_len = p.pool0_len
  BY <1>1, <1>2, <1>4, GeneratedEffect, Zenon
<1>6. p.K \in Nat /\ p.K >= prng.K /\ p.K > 0 /\ prng.K > 0
  <2>1. prng.K > 0
    BY DEF FInv, UsedKeysAreOld
  <2> QED BY <1>1, <1>3, <2>1
<1>7. Mixture(Counted(prng)) = Mixture(prng)
  <2>1. /\ Counted(prng) \in States
        /\ Counted(prng).pool = prng.pool /\ Counted(prng).reset_cnt = prng.reset_cnt
    BY <1>1, CountedEffect
  <2>2. Mixture(Counted(prng)) = Moved(Counted(prng).pool, Drained(Counted(prng).reset_cnt + 1),
                                       Counted(prng).reset_cnt + 1)
    BY <2>1, MixtureIsMoved, Zenon
  <2>3. Mixture(prng) = Moved(prng.pool, Drained(prng.reset_cnt + 1), prng.reset_cnt + 1)
    BY <1>1, MixtureIsMoved, Zenon
  <2> QED BY <2>1, <2>2, <2>3, Zenon
<1>8. EntropyIsKept' /\ mixed' \in SUBSET Mixed
  <2>1. CASE NeedsReseed(prng)
    <3>1. /\ prng'.pool_idx = prng.pool_idx
          /\ prng'.pool = [x \in Pools |-> IF x \in Drained(prng.reset_cnt + 1) THEN <<>>
                                           ELSE prng.pool[x]]
      BY <1>3, <1>5, <2>1, Zenon
    <3>2. events' = events /\ mixed' = mixed \cup Mixture(prng)
      BY <1>4, <1>7, <2>1
    <3> QED BY <3>1, <3>2, ReseedKeepsEntropy
  <2>2. CASE ~NeedsReseed(prng)
    <3>1. /\ prng'.pool_idx = prng.pool_idx /\ prng'.pool = prng.pool
          /\ events' = events /\ mixed' = mixed
      BY <1>3, <1>4, <1>5, <2>2, Zenon
    <3>2. Kept(prng.pool, prng.pool_idx, events, mixed)
      BY KeptIsInvariant DEF FInv
    <3> QED BY <1>1, <3>1, <3>2, KeptIsInvariant
  <2> QED BY <2>1, <2>2
<1>9. /\ Output(p, n) \in Seq(OutputBlock) /\ NextKey(p, n) \in Seq(OutputBlock)
      /\ \A i \in DOMAIN Output(p, n) : Output(p, n)[i][1] = p.K
      /\ \A j \in DOMAIN NextKey(p, n) : NextKey(p, n)[j][1] = p.K
      /\ IsInjective(Output(p, n)) /\ IsInjective(NextKey(p, n))
      /\ \A i \in DOMAIN Output(p, n), j \in DOMAIN NextKey(p, n) :
            Output(p, n)[i] # NextKey(p, n)[j]
  BY OneCallIsFresh
<1>10. PICK o \in Seq(OutputBlock), k \in Seq(OutputBlock) : o = Output(p, n) /\ k = NextKey(p, n)
  BY <1>9
<1>11. /\ \A i \in DOMAIN o : o[i][1] = p.K
       /\ \A j \in DOMAIN k : k[j][1] = p.K
       /\ IsInjective(o) /\ IsInjective(k)
       /\ \A i \in DOMAIN o, j \in DOMAIN k : o[i] # k[j]
       /\ output' = output \o o /\ keys' = keys \o k
  BY <1>4, <1>9, <1>10, Zenon
<1>12. /\ \A i \in DOMAIN output : output[i][1] \in 1 .. prng.K - 1
       /\ \A j \in DOMAIN keys : keys[j][1] \in 1 .. prng.K - 1
       /\ IsInjective(output) /\ IsInjective(keys)
       /\ \A i \in DOMAIN output, j \in DOMAIN keys : output[i] # keys[j]
  BY DEF FInv, UsedKeysAreOld, BlocksAreFresh
<1>13. /\ \A i \in DOMAIN output : output[i][1] # p.K
       /\ \A j \in DOMAIN keys : keys[j][1] # p.K
  BY <1>1, <1>6, <1>12
<1>14. output' \in Seq(OutputBlock) /\ keys' \in Seq(OutputBlock)
  BY <1>1, <1>10, <1>11, Joined
<1>15. IsInjective(output') /\ IsInjective(keys')
  <2>1. \A i \in DOMAIN output, j \in DOMAIN o : output[i] # o[j]
    BY <1>11, <1>13
  <2>2. \A i \in DOMAIN keys, j \in DOMAIN k : keys[i] # k[j]
    BY <1>11, <1>13
  <2> QED BY <1>1, <1>10, <1>11, <1>12, <2>1, <2>2, JoinedIsInjective
<1>16. \A i \in DOMAIN output' : \/ i \in DOMAIN output /\ output'[i] = output[i]
                                 \/ i - Len(output) \in DOMAIN o
                                    /\ output'[i] = o[i - Len(output)]
  BY <1>1, <1>10, <1>11, Joined
<1>17. \A j \in DOMAIN keys' : \/ j \in DOMAIN keys /\ keys'[j] = keys[j]
                               \/ j - Len(keys) \in DOMAIN k /\ keys'[j] = k[j - Len(keys)]
  BY <1>1, <1>10, <1>11, Joined
<1>18. \A i \in DOMAIN output', j \in DOMAIN keys' : output'[i] # keys'[j]
  <2>1. ASSUME NEW i \in DOMAIN output', NEW j \in DOMAIN keys', output'[i] = keys'[j]
        PROVE  FALSE
    <3>1. CASE i \in DOMAIN output /\ output'[i] = output[i]
      <4>1. CASE j \in DOMAIN keys /\ keys'[j] = keys[j]
        BY <1>12, <2>1, <3>1, <4>1, Zenon
      <4>2. CASE j - Len(keys) \in DOMAIN k /\ keys'[j] = k[j - Len(keys)]
        BY <1>11, <1>13, <2>1, <3>1, <4>2, Zenon
      <4> QED BY <1>17, <4>1, <4>2, Zenon
    <3>2. CASE i - Len(output) \in DOMAIN o /\ output'[i] = o[i - Len(output)]
      <4>1. CASE j \in DOMAIN keys /\ keys'[j] = keys[j]
        BY <1>11, <1>13, <2>1, <3>2, <4>1, Zenon
      <4>2. CASE j - Len(keys) \in DOMAIN k /\ keys'[j] = k[j - Len(keys)]
        BY <1>11, <2>1, <3>2, <4>2, Zenon
      <4> QED BY <1>17, <4>1, <4>2, Zenon
    <3> QED BY <1>16, <3>1, <3>2, Zenon
  <2> QED BY <2>1, Zenon
<1>19. UsedKeysAreOld'
  <2>1. p.K \in 1 .. prng'.K - 1 /\ 1 .. prng.K - 1 \subseteq 1 .. prng'.K - 1 /\ prng'.K > 0
    BY <1>1, <1>5, <1>6
  <2>2. \A i \in DOMAIN output' : output'[i][1] \in 1 .. prng'.K - 1
    <3>1. ASSUME NEW i \in DOMAIN output'
          PROVE  output'[i][1] \in 1 .. prng.K - 1 \/ output'[i][1] = p.K
      BY <1>11, <1>12, <1>16, Zenon
    <3> QED BY <2>1, <3>1
  <2>3. \A j \in DOMAIN keys' : keys'[j][1] \in 1 .. prng'.K - 1
    <3>1. ASSUME NEW j \in DOMAIN keys'
          PROVE  keys'[j][1] \in 1 .. prng.K - 1 \/ keys'[j][1] = p.K
      BY <1>11, <1>12, <1>17, Zenon
    <3> QED BY <2>1, <3>1
  <2> QED BY <2>1, <2>2, <2>3 DEF UsedKeysAreOld
<1>20. BlocksAreFresh'
  <2>1. prng'.K \in Nat
    BY <1>5, <1>6
  <2>2. \A i \in DOMAIN output' : output'[i][1] > 0
    BY <1>19, <2>1 DEF UsedKeysAreOld
  <2> QED BY <1>15, <1>18, <2>2 DEF BlocksAreFresh
<1>21. RoundIsShort' /\ reads' \in Nat
  <2>1. prng.wd < FORTUNA_WD /\ reads <= prng.wd + 1
    BY DEF FInv, RoundIsShort
  <2>2. CASE NeedsReseed(prng)
    <3>1. prng'.wd = 0 /\ reads' = 1
      BY <1>3, <1>4, <1>5, <2>2
    <3> QED BY <3>1, Parameters DEF RoundIsShort
  <2>3. CASE ~NeedsReseed(prng)
    <3>1. prng'.wd = prng.wd + 1 /\ prng.wd + 1 # FORTUNA_WD /\ reads' = reads + 1
      BY <1>3, <1>4, <1>5, <2>3
    <3>2. prng.wd + 1 < FORTUNA_WD /\ reads + 1 <= (prng.wd + 1) + 1
      <4>1. FORTUNA_WD \in Nat /\ prng.wd \in Nat /\ reads \in Nat
        BY <1>1, Parameters
      <4> QED BY <2>1, <3>1, <4>1
    <3> QED BY <1>1, <3>1, <3>2 DEF RoundIsShort
  <2> QED BY <2>2, <2>3
<1>22. ReseedsInTime'
  <2>1. prng'.pool0_len < Pool0Limit
    BY <1>3, <1>5 DEF Pool0Limit
  <2>2. prng'.wd \in Nat
    BY <1>5 DEF States
  <2>3. reads' <= FORTUNA_WD
    BY <1>21, <2>2, Parameters DEF RoundIsShort
  <2> QED BY <2>1, <2>3 DEF ReseedsInTime
<1>23. FortunaTypeOK'
  <2>1. last' \in [call : {"none", "start", "add_entropy", "ready", "create", "read", "close",
                           "last_read", "prng_read", "export", "import"}, ret : Nat]
    BY DEF Called
  <2>2. started' \in BOOLEAN /\ events' \in Nat
    BY <1>4 DEF FInv, FortunaTypeOK
  <2> QED BY <1>5, <1>8, <1>14, <1>21, <2>1, <2>2 DEF FortunaTypeOK, Mixed, OutputBlock
<1> QED BY <1>8, <1>19, <1>20, <1>21, <1>22, <1>23 DEF FInv

(* What a call does that changes nothing, or only closes.                  *)
LEMMA QuietStep ==
  ASSUME FInv, UNCHANGED <<started, events, mixed, output, keys, reads>>,
         prng' = prng \/ prng' = Closed(prng),
         NEW c \in {"read", "close", "last_read", "prng_read", "export", "import"},
         NEW r \in Nat, Called(c, r),
         c \in {"read", "prng_read", "last_read"} => r = 0
  PROVE  FInv'
<1>1. prng \in States /\ prng.K \in Nat
  BY DEF FInv, FortunaTypeOK, States
<1>2. /\ prng' \in States /\ prng'.pool = prng.pool /\ prng'.pool_idx = prng.pool_idx
      /\ prng'.wd = prng.wd /\ prng'.K = prng.K /\ (prng'.ready => prng.ready)
  BY <1>1, ClosedEffect
<1>3. FortunaTypeOK'
  BY <1>2 DEF FInv, FortunaTypeOK, Called
<1>4. EntropyIsKept'
  <2>1. Kept(prng.pool, prng.pool_idx, events, mixed)
    BY KeptIsInvariant DEF FInv
  <2>2. Kept(prng'.pool, prng'.pool_idx, events', mixed')
    BY <1>2, <2>1, Zenon
  <2> QED BY <2>2, KeptIsInvariant
<1>5. UsedKeysAreOld' /\ BlocksAreFresh'
  <2>1. prng'.K >= prng.K /\ (prng'.ready => prng'.K > 0)
    BY <1>1, <1>2 DEF FInv, UsedKeysAreOld
  <2> QED BY <1>2, <2>1, QuietBlocks
<1>6. RoundIsShort'
  BY <1>2 DEF FInv, RoundIsShort
<1>7. ReseedsInTime'
  <2>1. reads' <= FORTUNA_WD
    BY DEF FInv, ReseedsInTime
  <2>2. last' = [call |-> c, ret |-> r]
    BY DEF Called
  <2> QED BY <2>1, <2>2 DEF ReseedsInTime
<1> QED BY <1>3, <1>4, <1>5, <1>6, <1>7 DEF FInv

LEMMA ReadStep ==
  ASSUME FInv, NEW n \in OutLens, Read(n)
  PROVE  FInv'
<1>1. n \in Nat
  BY FortunaAssumption
<1>2. CASE n = 0 \/ ~prng.ready
  <2>1. /\ Called("read", 0) /\ prng' = prng
        /\ UNCHANGED <<started, events, mixed, output, keys, reads>>
    BY <1>2 DEF Read
  <2> QED BY <2>1, QuietStep
<1>3. CASE ~(n = 0 \/ ~prng.ready)
  <2>1. Deliver(n) /\ Called("read", n) /\ prng.ready
    BY <1>3 DEF Read
  <2> QED BY <1>1, <2>1, DeliverStep
<1> QED BY <1>2, <1>3

LEMMA PrngReadStep ==
  ASSUME FInv, NEW n \in OutLens, NEW keep \in {0, 1}, PrngRead(n, keep)
  PROVE  FInv'
<1>1. n \in Nat
  BY FortunaAssumption
<1>2. PICK c \in {"prng_read", "last_read"} : c = IF keep = 0 THEN "last_read" ELSE "prng_read"
  OBVIOUS
<1>3. CASE n = 0 \/ ~prng.ready
  <2>1. /\ Called(c, 0) /\ (prng' = prng \/ prng' = Closed(prng))
        /\ UNCHANGED <<started, events, mixed, output, keys, reads>>
    BY <1>2, <1>3 DEF PrngRead, CRYPTO_OK
  <2> QED BY <2>1, QuietStep
<1>4. CASE ~(n = 0 \/ ~prng.ready)
  <2>1. Deliver(n) /\ Called(c, n) /\ prng.ready
    BY <1>2, <1>4 DEF PrngRead
  <2> QED BY <1>1, <2>1, DeliverStep
<1> QED BY <1>3, <1>4

LEMMA ImportStep ==
  ASSUME FInv, NEW size \in ExportSizes, Import(size)
  PROVE  FInv'
<1>1. CASE size < FORTUNA_EXPORT_SIZE
  <2>1. /\ Called("import", CRYPTO_INVALID_ARG) /\ prng' = prng
        /\ UNCHANGED <<started, events, mixed, output, keys, reads>>
    BY <1>1 DEF Import
  <2> QED BY <2>1, QuietStep DEF CRYPTO_INVALID_ARG
<1>2. CASE ~(size < FORTUNA_EXPORT_SIZE)
  <2>1. /\ prng' = Imported /\ started' = TRUE /\ events' = FORTUNA_POOLS /\ mixed' = {}
        /\ output' = <<>> /\ keys' = <<>> /\ reads' = 0
        /\ Called("import", CRYPTO_OK)
    BY <1>2 DEF Import, Restarts
  <2>2. PICK pool \in [Pools -> Seq(Events)] :
          pool = [x \in Pools |-> <<Event(Fresh, x, 32)>>]
    <3>1. \A x \in Pools : Event(Fresh, x, 32) \in Events
      BY FreshIsState, EventIsEvent, Parameters
    <3>2. [x \in Pools |-> <<Event(Fresh, x, 32)>>] \in [Pools -> Seq(Events)]
      BY <3>1
    <3> QED BY <3>2
  <2>3. /\ prng' \in States /\ prng'.pool = pool /\ prng'.pool_idx = 0
        /\ prng'.wd = 0 /\ ~prng'.ready
    <3>1. prng' = [Fresh EXCEPT !.pool = pool, !.pool0_len = 32]
      BY <2>1, <2>2 DEF Imported
    <3>2. PICK f \in States : /\ f = Fresh /\ f.pool_idx = 0 /\ f.wd = 0 /\ ~f.ready
      <4>1. Fresh.pool_idx = 0 /\ Fresh.wd = 0 /\ ~Fresh.ready
        BY DEF Fresh
      <4> QED BY <4>1, FreshIsState
    <3> QED BY <3>1, <3>2 DEF States
  <2>4. EntropyIsKept'
    <3>1. ASSUME NEW x \in Pools
          PROVE  IdsIn(pool[x]) = {x}
      <4>1. pool[x] = <<Event(Fresh, x, 32)>> /\ Event(Fresh, x, 32).id = x
        BY <2>2, FreshIsState, EventIsEvent, Parameters
      <4>2. Range(pool[x]) = {Event(Fresh, x, 32)}
        BY <4>1 DEF Range
      <4> QED BY <4>1, <4>2 DEF IdsIn
    <3>2. Kept(pool, 0, FORTUNA_POOLS, {})
      BY <3>1, ImportKeeps
    <3>3. Kept(prng'.pool, prng'.pool_idx, events', mixed')
      BY <2>1, <2>3, <3>2, Zenon
    <3> QED BY <3>3, KeptIsInvariant
  <2>5. FortunaTypeOK'
    BY <2>1, <2>3, Parameters DEF FortunaTypeOK, Called, CRYPTO_OK
  <2>6. UsedKeysAreOld' /\ BlocksAreFresh'
    BY <2>1, <2>3, NoBlocks
  <2>7. RoundIsShort'
    BY <2>1, <2>3, Parameters DEF RoundIsShort
  <2>8. ReseedsInTime'
    BY <2>1, <2>3, <2>5, <2>7, NotARead DEF FortunaTypeOK
  <2> QED BY <2>4, <2>5, <2>6, <2>7, <2>8 DEF FInv
<1> QED BY <1>1, <1>2

-----------------------------------------------------------------------------
(* The theorems.                                                           *)

LEMMA InitHolds ==
  ASSUME FortunaInit
  PROVE  FInv
<1>1. prng \in States
  BY FreshIsState DEF FortunaInit
<1>2. /\ prng.pool = [x \in Pools |-> <<>>] /\ prng.pool_idx = 0 /\ prng.wd = 0 /\ ~prng.ready
  BY DEF FortunaInit, Fresh
<1>3. FortunaTypeOK
  <2>1. last \in [call : {"none", "start", "add_entropy", "ready", "create", "read", "close",
                          "last_read", "prng_read", "export", "import"}, ret : Nat]
    BY DEF FortunaInit, CRYPTO_OK
  <2>2. /\ started \in BOOLEAN /\ events \in Nat /\ mixed = {} /\ output = <<>> /\ keys = <<>>
        /\ reads \in Nat
    BY DEF FortunaInit
  <2> QED BY <1>1, <2>1, <2>2 DEF FortunaTypeOK
<1>4. EntropyIsKept
  BY <1>2, NothingYet, KeptIsInvariant DEF FortunaInit
<1>5. UsedKeysAreOld /\ BlocksAreFresh
  BY <1>2 DEF FortunaInit, UsedKeysAreOld, BlocksAreFresh, IsInjective
<1>6. RoundIsShort /\ ReseedsInTime
  BY <1>2, Parameters DEF FortunaInit, RoundIsShort, ReseedsInTime
<1> QED BY <1>3, <1>4, <1>5, <1>6 DEF FInv

LEMMA NextKeeps ==
  ASSUME FInv, [FortunaNext]_fortunaVars
  PROVE  FInv'
<1>1. CASE FortunaStart
  BY <1>1, StartStep
<1>2. ASSUME NEW n \in InLens, AddEntropy(n)
      PROVE  FInv'
  BY <1>2, AddEntropyStep
<1>3. ASSUME NEW n \in InLens, Create(n)
      PROVE  FInv'
  BY <1>3, CreateStep
<1>4. CASE Ready
  BY <1>4, ReadyStep
<1>5. ASSUME NEW n \in OutLens, Read(n)
      PROVE  FInv'
  BY <1>5, ReadStep
<1>6. ASSUME NEW n \in OutLens, NEW keep \in {0, 1}, PrngRead(n, keep)
      PROVE  FInv'
  BY <1>6, PrngReadStep
<1>7. CASE FortunaDone
  <2>1. /\ prng' = Closed(prng) /\ Called("close", CRYPTO_OK)
        /\ UNCHANGED <<started, events, mixed, output, keys, reads>>
    BY <1>7 DEF FortunaDone
  <2> QED BY <2>1, QuietStep DEF CRYPTO_OK
<1>8. ASSUME NEW size \in ExportSizes, Export(size)
      PROVE  FInv'
  <2>1. PICK r \in {CRYPTO_OK, CRYPTO_ERROR, CRYPTO_BUFFER_OVERFLOW, CRYPTO_MEMORY} :
          Called("export", r)
    BY <1>8 DEF Export
  <2>2. prng' = prng /\ UNCHANGED <<started, events, mixed, output, keys, reads>>
    BY <1>8 DEF Export
  <2>3. r \in Nat
    BY DEF CRYPTO_OK, CRYPTO_ERROR, CRYPTO_BUFFER_OVERFLOW, CRYPTO_MEMORY
  <2> QED BY <2>1, <2>2, <2>3, QuietStep
<1>9. ASSUME NEW size \in ExportSizes, Import(size)
      PROVE  FInv'
  BY <1>9, ImportStep
<1>10. CASE UNCHANGED fortunaVars
  BY <1>10 DEF fortunaVars, FInv, FortunaTypeOK, EntropyIsKept, PoolIds, MixedIds, UsedKeysAreOld,
               BlocksAreFresh, RoundIsShort, ReseedsInTime
<1> QED BY <1>1, <1>2, <1>3, <1>4, <1>5, <1>6, <1>7, <1>8, <1>9, <1>10 DEF FortunaNext

(* The invariant is inductive, for every number of pools, every round and  *)
(* every sequence of calls of prng.c.                                      *)
THEOREM FortunaInvariance == FortunaSpec => []FInv
<1>1. FortunaInit => FInv
  BY InitHolds
<1>2. FInv /\ [FortunaNext]_fortunaVars => FInv'
  BY NextKeeps
<1> QED BY <1>1, <1>2, PTL DEF FortunaSpec

(* Every variable of the PRNG keeps its type; pool_idx stays in range.     *)
THEOREM FortunaTypeCorrect == FortunaSpec => []FortunaTypeOK
<1>1. FInv => FortunaTypeOK
  BY DEF FInv
<1> QED BY <1>1, FortunaInvariance, PTL

(* No event is lost by fortuna_add_entropy, a reseed or an import, and     *)
(* none is mixed into two keys.                                            *)
THEOREM NoEntropyIsLost == FortunaSpec => []EntropyIsKept
<1>1. FInv => EntropyIsKept
  BY DEF FInv
<1> QED BY <1>1, FortunaInvariance, PTL

(* fortuna_read never encrypts a counter twice with one key, and never     *)
(* makes a key of what it has given to the caller.                         *)
THEOREM OutputNeverRepeats == FortunaSpec => []BlocksAreFresh
<1>1. FInv => BlocksAreFresh
  BY DEF FInv
<1> QED BY <1>1, FortunaInvariance, PTL

(* fortuna_read reseeds after FORTUNA_WD reads, and whenever pool 0 is     *)
(* long enough.                                                            *)
THEOREM ReadsReseed == FortunaSpec => []ReseedsInTime
<1>1. FInv => ReseedsInTime
  BY DEF FInv
<1> QED BY <1>1, FortunaInvariance, PTL

-----------------------------------------------------------------------------
(* The schedule of the pools.                                              *)

LEMMA Powers ==
  /\ Power \in [Nat -> Nat \ {0}]
  /\ Power[0] = 1
  /\ \A b \in Nat : Power[b + 1] = 2 * Power[b]
<1> DEFINE V == Nat \ {0}
           step == [n \in Nat |-> [w \in V |-> 2 * w]]
           Is(f) == f = [b \in Nat |-> IF b = 0 THEN 1 ELSE 2 * f[b - 1]]
<1>1. step \in [Nat -> [V -> V]] /\ 1 \in V
  OBVIOUS
<1>2. \A n \in Nat, w \in V : step[n][w] = 2 * w
  OBVIOUS
<1>3. PICK f \in [Nat -> V] : f[0] = 1 /\ \A n \in Nat : f[n + 1] = step[n][f[n]]
  <2> DEFINE one == 1
  <2>1. one \in V
    OBVIOUS
  <2> HIDE DEF V, step, one
  <2>2. PICK f : IsRecursive(f, V, one, step)
    BY <1>1, <2>1, Recursion
  <2> QED BY <2>2 DEF one, IsRecursive
<1> HIDE DEF step
<1>4. \A n \in Nat : f[n + 1] = 2 * f[n]
  BY <1>2, <1>3
<1>5. \A b \in Nat : f[b] = IF b = 0 THEN 1 ELSE 2 * f[b - 1]
  <2> SUFFICES ASSUME NEW b \in Nat, b # 0 PROVE f[b] = 2 * f[b - 1]
    BY <1>3
  <2>1. b - 1 \in Nat /\ (b - 1) + 1 = b
    OBVIOUS
  <2> QED BY <1>4, <2>1
<1>6. Is(f)
  BY <1>3, <1>5
<1>7. Is(Power)
  <2>1. Power = CHOOSE g : Is(g)
    BY DEF Power
  <2> HIDE DEF Is
  <2> QED BY <1>6, <2>1
<1>8. Power[0] = 1 /\ \A b \in Nat : Power[b + 1] = 2 * Power[b]
  BY <1>7
<1>9. Power \in [Nat -> V]
  <2> DEFINE S == {b \in Nat : Power[b] \in V}
  <2>1. 0 \in S /\ \A b \in S : b + 1 \in S
    BY <1>8
  <2>2. S \in SUBSET Nat
    OBVIOUS
  <2> HIDE DEF S
  <2>3. S = Nat
    BY <2>1, <2>2, Induction
  <2>4. \A b \in Nat : Power[b] \in V
    BY <2>3 DEF S
  <2>5. Power = [b \in Nat |-> IF b = 0 THEN 1 ELSE 2 * Power[b - 1]]
    BY <1>7
  <2> HIDE DEF V
  <2>6. DOMAIN Power = Nat /\ Power = [b \in Nat |-> Power[b]]
    BY <2>5
  <2> QED BY <2>4, <2>6
<1> QED BY <1>8, <1>9

LEMMA EventLength == \A e \in Events : e.len \in Nat
<1> SUFFICES ASSUME NEW e \in Events PROVE e.len \in Nat
  OBVIOUS
<1> QED BY DEF Events

(* What the recursive sum of the lengths is.                               *)
LEMMA LengthsAre ==
  ASSUME NEW s \in Seq(Events)
  PROVE  /\ \A i \in 0 .. Len(s) : Lengths(s)[i] \in Nat
         /\ Lengths(s)[0] = 0
         /\ \A i \in 1 .. Len(s) : Lengths(s)[i] = Lengths(s)[i - 1] + s[i].len
<1> DEFINE l == Len(s)
           len(k) == IF k \in 1 .. l THEN s[k].len ELSE 0
           step == [n \in Nat |-> [w \in Nat |-> w + len(n + 1)]]
           Is(f) == f = [k \in 0 .. l |->
                           IF k = 0 THEN 0 ELSE f[k - 1] + s[k].len]
<1>1. l \in Nat /\ \A k \in Nat : len(k) \in Nat
  <2>1. l \in Nat /\ \A k \in 1 .. l : s[k] \in Events
    OBVIOUS
  <2>2. \A k \in 1 .. l : s[k].len \in Nat
    <3> HIDE DEF l
    <3> QED BY <2>1, EventLength
  <2> HIDE DEF l
  <2> QED BY <2>1, <2>2
<1> HIDE DEF l
<1>0. l \in Nat
  BY <1>1
<1>2. /\ step \in [Nat -> [Nat -> Nat]]
      /\ \A n \in Nat, w \in Nat : step[n][w] = w + len(n + 1)
  <2>1. \A n \in Nat : len(n + 1) \in Nat
    BY <1>1
  <2> HIDE DEF len
  <2> QED BY <2>1
<1>3. PICK f \in [Nat -> Nat] : f[0] = 0 /\ \A n \in Nat : f[n + 1] = step[n][f[n]]
  <2> DEFINE zero == 0
             V == Nat
  <2>1. zero \in V /\ step \in [Nat -> [V -> V]]
    BY <1>2
  <2> HIDE DEF V, step, zero
  <2>2. PICK f : IsRecursive(f, V, zero, step)
    BY <2>1, Recursion
  <2> QED BY <2>2 DEF zero, V, IsRecursive
<1>4. \A n \in Nat : f[n + 1] = f[n] + len(n + 1)
  <2> HIDE DEF len, step
  <2> QED BY <1>2, <1>3
<1> DEFINE g == [k \in 0 .. l |-> f[k]]
<1>5. Is(g)
  <2>1. ASSUME NEW k \in 0 .. l, k # 0 PROVE f[k] = f[k - 1] + s[k].len
    <3>1. k - 1 \in Nat /\ (k - 1) + 1 = k /\ k \in 1 .. l
      BY <1>0, <2>1
    <3>2. f[k] = f[k - 1] + len(k)
      <4> HIDE DEF len
      <4> QED BY <1>4, <3>1
    <3>3. len(k) = s[k].len
      BY <3>1
    <3> HIDE DEF len
    <3> QED BY <3>2, <3>3
  <2>2. \A k \in 0 .. l : k # 0 => k - 1 \in 0 .. l
    BY <1>1
  <2> QED BY <1>3, <2>1, <2>2
<1>6. Is(Lengths(s))
  <2>1. Lengths(s) = CHOOSE h : Is(h)
    BY DEF Lengths, l
  <2> HIDE DEF Is, g
  <2> QED BY <1>5, <2>1
<1> DEFINE L == Lengths(s)
<1>7. /\ L[0] = 0
      /\ \A k \in 1 .. l : L[k] = L[k - 1] + s[k].len
  <2>1. 0 \in 0 .. l /\ \A k \in 1 .. l : k \in 0 .. l /\ k # 0
    BY <1>1
  <2> QED BY <1>6, <2>1
<1>8. \A k \in 0 .. l : L[k] \in Nat
  <2> HIDE DEF L
  <2> DEFINE S == {k \in Nat : k <= l => L[k] \in Nat}
  <2>1. 0 \in S
    BY <1>7
  <2>2. ASSUME NEW k \in S PROVE k + 1 \in S
    <3> SUFFICES ASSUME k + 1 <= l PROVE L[k + 1] \in Nat
      OBVIOUS
    <3>1. /\ k + 1 \in 1 .. l /\ (k + 1) - 1 = k /\ k \in Nat
          /\ L[k] \in Nat
      BY <1>0
    <3>2. L[k + 1] = L[k] + s[k + 1].len /\ s[k + 1].len = len(k + 1)
      BY <1>7, <3>1
    <3>3. len(k + 1) \in Nat
      <4>1. k + 1 \in Nat
        OBVIOUS
      <4> HIDE DEF len
      <4> QED BY <1>1, <4>1
    <3> DEFINE new == s[k + 1].len
               old == L[k]
    <3>4. new \in Nat /\ L[k + 1] = old + new
      <4> HIDE DEF len
      <4> QED BY <3>2, <3>3
    <3>5. old + new \in Nat
      <4> HIDE DEF new, old
      <4>1. old \in Nat
        BY <3>1 DEF old
      <4> QED BY <3>4, <4>1
    <3> HIDE DEF new, old, S
    <3> QED BY <3>4, <3>5
  <2>3. S \in SUBSET Nat
    OBVIOUS
  <2> HIDE DEF S
  <2>4. S = Nat
    BY <2>1, <2>2, <2>3, Induction
  <2>5. \A k \in 0 .. l : k \in S /\ k <= l
    BY <1>1, <2>4
  <2> QED BY <2>5 DEF S
<1> QED BY <1>7, <1>8 DEF l

LEMMA LengthOfNone == LengthOf(<<>>) = 0
<1>1. <<>> \in Seq(Events) /\ Len(<<>>) = 0
  OBVIOUS
<1> QED BY <1>1, LengthsAre DEF LengthOf

LEMMA LengthOfAppend ==
  ASSUME NEW s \in Seq(Events), NEW e \in Events
  PROVE  /\ LengthOf(s) \in Nat
         /\ LengthOf(Append(s, e)) = LengthOf(s) + e.len
<1> DEFINE u == Append(s, e)
           l == Len(s)
           A == Lengths(s)
           B == Lengths(u)
<1>1. /\ u \in Seq(Events) /\ l \in Nat /\ Len(u) = l + 1
      /\ \A k \in 1 .. l : u[k] = s[k]
      /\ u[l + 1] = e
  OBVIOUS
<1>2. A[0] = 0 /\ \A k \in 1 .. l : A[k] = A[k - 1] + s[k].len
  BY LengthsAre
<1>3. B[0] = 0 /\ \A k \in 1 .. l + 1 : B[k] = B[k - 1] + u[k].len
  <2> HIDE DEF u, l
  <2>1. B[0] = 0 /\ \A k \in 1 .. Len(u) : B[k] = B[k - 1] + u[k].len
    BY <1>1, LengthsAre
  <2> QED BY <1>1, <2>1
<1>4. A[l] \in Nat
  <2>1. l \in 0 .. l
    BY <1>1
  <2> QED BY <2>1, LengthsAre
<1> HIDE DEF u, A, B, l
<1> DEFINE S == {k \in Nat : k <= l => B[k] = A[k]}
<1>5. 0 \in S
  BY <1>2, <1>3
<1>6. ASSUME NEW k \in S PROVE k + 1 \in S
  <2> SUFFICES ASSUME k + 1 <= l PROVE B[k + 1] = A[k + 1]
    OBVIOUS
  <2>1. /\ k + 1 \in 1 .. l /\ k + 1 \in 1 .. l + 1 /\ (k + 1) - 1 = k
        /\ B[k] = A[k]
    BY <1>1
  <2> HIDE DEF S
  <2> QED BY <1>1, <1>2, <1>3, <2>1
<1>7. S \in SUBSET Nat
  OBVIOUS
<1>8. B[l] = A[l]
  <2> HIDE DEF S
  <2>1. S = Nat
    BY <1>5, <1>6, <1>7, Induction
  <2>2. l \in S /\ l <= l
    BY <1>1, <2>1
  <2> QED BY <2>2 DEF S
<1>9. B[l + 1] = B[l] + e.len
  <2>1. l + 1 \in 1 .. l + 1 /\ (l + 1) - 1 = l
    BY <1>1
  <2> QED BY <1>1, <1>3, <2>1
<1> QED BY <1>1, <1>4, <1>8, <1>9 DEF LengthOf, A, B, u, l

(* The bits of r below x are 0 exactly when 2^x divides r.                 *)
LEMMA NextBit ==
  ASSUME NEW r \in Nat, NEW x \in Nat
  PROVE  r % Power[x + 1] = 0 <=> r % Power[x] = 0 /\ Bit(r, x) = 0
<1> DEFINE p == Power[x]
           q == r \div p
           m == r % p
           h == q \div 2
           b == q % 2
<1>1. p \in Nat \ {0} /\ Power[x + 1] = 2 * p /\ 2 * p \in Nat \ {0}
  BY Powers
<1>2. Bit(r, x) = b
  BY DEF Bit
<1> HIDE DEF p
<1>3. r = p * q + m /\ q \in Nat /\ m \in 0 .. p - 1
  BY <1>1, Division
<1> HIDE DEF q, m
<1>4. q = 2 * h + b /\ h \in Nat /\ b \in 0 .. 2 - 1
  <2>1. 2 \in Nat \ {0}
    OBVIOUS
  <2> QED BY <1>3, <2>1, Division
<1> HIDE DEF h, b
<1>5. r = (2 * p) * h + (p * b + m) /\ p * b + m \in 0 .. 2 * p - 1
  <2>1. b = 0 \/ b = 1
    BY <1>4
  <2>2. CASE b = 0
    <3>1. p * q = (2 * p) * h /\ p * b = 0
      <4>1. q = 2 * h
        BY <1>4, <2>2
      <4>2. p * (2 * h) = (2 * p) * h
        BY <1>1, <1>4
      <4> QED BY <1>1, <2>2, <4>1, <4>2
    <3> QED BY <1>1, <1>3, <1>4, <3>1
  <2>3. CASE b = 1
    <3>1. p * q = (2 * p) * h + p /\ p * b = p
      <4>1. q = 2 * h + 1
        BY <1>4, <2>3
      <4>2. p * (2 * h + 1) = (2 * p) * h + p
        BY <1>1, <1>4
      <4> QED BY <1>1, <2>3, <4>1, <4>2
    <3> QED BY <1>1, <1>3, <1>4, <3>1
  <2> QED BY <2>1, <2>2, <2>3
<1>6. r % Power[x + 1] = p * b + m
  <2> DEFINE d == 2 * p
             e == p * b + m
  <2>1. d \in Nat \ {0} /\ e \in 0 .. d - 1 /\ r = d * h + e /\ Power[x + 1] = d
    BY <1>1, <1>5
  <2> HIDE DEF d, e
  <2>2. r % d = e
    BY <1>4, <2>1, RemainderIsUnique
  <2> QED BY <2>1, <2>2 DEF e
<1>7. p * b + m = 0 <=> m = 0 /\ b = 0
  <2>1. b = 0 \/ b = 1
    BY <1>4
  <2>2. CASE b = 0
    BY <1>1, <1>3, <2>2
  <2>3. CASE b = 1
    BY <1>1, <1>3, <2>3
  <2> QED BY <2>1, <2>2, <2>3
<1> QED BY <1>2, <1>6, <1>7 DEF p, m

LEMMA DrainedIs ==
  ASSUME NEW r \in Nat
  PROVE  Drained(r) = {x \in Pools : r % Power[x] = 0}
<1> DEFINE Low(x) == \A y \in 1 .. x : Bit(r, y - 1) = 0
           T == {x \in Nat : Low(x) <=> r % Power[x] = 0}
<1>1. 0 \in T
  <2>1. r % 1 = 0
    <3>1. r = 1 * r + 0
      OBVIOUS
    <3> QED BY <3>1, RemainderIsUnique
  <2>2. 1 .. 0 = {}
    OBVIOUS
  <2> QED BY <2>1, <2>2, Powers
<1>2. ASSUME NEW x \in T PROVE x + 1 \in T
  <2>1. x \in Nat /\ x + 1 \in Nat /\ (x + 1) - 1 = x
    OBVIOUS
  <2>2. 1 .. x + 1 = (1 .. x) \cup {x + 1}
    BY <2>1
  <2>3. Low(x + 1) <=> Low(x) /\ Bit(r, x) = 0
    <3>1. Low(x + 1) <=> Low(x) /\ Bit(r, (x + 1) - 1) = 0
      BY <2>2, Zenon
    <3> QED BY <2>1, <3>1
  <2>4. r % Power[x + 1] = 0 <=> r % Power[x] = 0 /\ Bit(r, x) = 0
    BY <2>1, NextBit
  <2>5. Low(x) <=> r % Power[x] = 0
    OBVIOUS
  <2> HIDE DEF Low
  <2> QED BY <2>1, <2>3, <2>4, <2>5
<1>3. T = Nat
  <2>1. T \in SUBSET Nat
    OBVIOUS
  <2> HIDE DEF T
  <2> QED BY <1>1, <1>2, <2>1, Induction
<1>4. \A x \in Pools : Low(x) <=> r % Power[x] = 0
  <2> HIDE DEF Low
  <2> QED BY <1>3, Parameters
<1> QED BY <1>4 DEF Drained

(* PoolsFollowSchedule as a statement about a prng_state and what was      *)
(* mixed.                                                                  *)
Waits(s, x, cnt) == \A e \in Range(s) : \A r \in e.at + 1 .. cnt : r % Power[x] # 0
Scheduled(p, mix) ==
  /\ p.pool0_len = LengthOf(p.pool[0])
  /\ \A m \in mix : m.reseed % Power[m.pool] = 0
  /\ \A x \in Pools : Waits(p.pool[x], x, p.reset_cnt)

LEMMA ScheduledIsInvariant ==
  /\ PoolsFollowSchedule <=> Scheduled(prng, mixed)
  /\ PoolsFollowSchedule' <=> Scheduled(prng, mixed)'
<1>1. PoolsFollowSchedule <=> Scheduled(prng, mixed)
  BY DEF PoolsFollowSchedule, Pool0LenIsExact, Scheduled, Waits
<1>2. PoolsFollowSchedule' <=> Scheduled(prng, mixed)'
  BY DEF PoolsFollowSchedule, Pool0LenIsExact, Scheduled, Waits
<1> QED BY <1>1, <1>2

(* What neither adds nor drains leaves the schedule as it is.              *)
SameEntropy(p, q) ==
  q.pool = p.pool /\ q.reset_cnt = p.reset_cnt /\ q.pool0_len = p.pool0_len

LEMMA SameSchedule ==
  ASSUME NEW p, NEW q, NEW mix, SameEntropy(p, q), Scheduled(p, mix)
  PROVE  Scheduled(q, mix)
BY DEF SameEntropy, Scheduled

LEMMA QuietSchedules ==
  ASSUME NEW p \in States, NEW n \in Nat
  PROVE  /\ SameEntropy(p, Closed(p)) /\ SameEntropy(p, Counted(p))
         /\ SameEntropy(p, Generated(p, n))
         /\ SameEntropy(p, [p EXCEPT !.ready = TRUE])
<1>1. SameEntropy(p, Closed(p)) /\ SameEntropy(p, [p EXCEPT !.ready = TRUE])
  BY DEF SameEntropy, States, Closed
<1>2. SameEntropy(p, Counted(p))
  BY DEF SameEntropy, States, Counted
<1>3. SameEntropy(p, Generated(p, n))
  BY DEF SameEntropy, States, Generated
<1> QED BY <1>1, <1>2, <1>3

LEMMA RangeOfNone == Range(<<>>) = {}
<1>1. DOMAIN << >> = {}
  OBVIOUS
<1> QED BY <1>1 DEF Range

LEMMA FreshSchedules == Scheduled(Fresh, {})
<1>1. /\ Fresh.pool0_len = 0 /\ Fresh.reset_cnt = 0
      /\ \A x \in Pools : Fresh.pool[x] = <<>>
  BY DEF Fresh
<1> QED BY <1>1, LengthOfNone, RangeOfNone, Parameters DEF Scheduled, Waits

LEMMA RangeOfAppend ==
  ASSUME NEW s \in Seq(Events), NEW e \in Events
  PROVE  Range(Append(s, e)) = Range(s) \cup {e}
<1>1. /\ DOMAIN s = 1 .. Len(s) /\ Len(s) \in Nat
      /\ DOMAIN Append(s, e) = 1 .. Len(s) + 1
      /\ \A i \in 1 .. Len(s) : Append(s, e)[i] = s[i]
      /\ Append(s, e)[Len(s) + 1] = e
  OBVIOUS
<1>2. 1 .. Len(s) + 1 = (1 .. Len(s)) \cup {Len(s) + 1}
  BY <1>1
<1> QED BY <1>1, <1>2 DEF Range

(* An event that comes now waits for every reseed that is still to come.   *)
LEMMA AddingSchedules ==
  ASSUME NEW p \in States, NEW mix, NEW e \in Events, e.at = p.reset_cnt,
         Scheduled(p, mix)
  PROVE  Scheduled(WithEntropy(p, e), mix)
<1> DEFINE q == WithEntropy(p, e)
           x0 == p.pool_idx
<1>1. /\ p.pool \in [Pools -> Seq(Events)] /\ x0 \in Pools
      /\ p.reset_cnt \in Nat /\ e.len \in Nat
  BY EventLength DEF States
<1>2. q.pool = [p.pool EXCEPT ![x0] = Append(@, e)]
  BY WithEntropyEffect
<1>3. /\ q.reset_cnt = p.reset_cnt
      /\ q.pool0_len = IF x0 = 0 THEN p.pool0_len + e.len ELSE p.pool0_len
  BY DEF WithEntropy, States
<1> HIDE DEF q, x0
<1>4. q.pool0_len = LengthOf(q.pool[0])
  <2>1. 0 \in Pools /\ p.pool[0] \in Seq(Events)
        /\ p.pool0_len = LengthOf(p.pool[0])
    BY <1>1, Parameters DEF Scheduled
  <2>2. CASE x0 = 0
    <3>1. q.pool[0] = Append(p.pool[0], e)
      BY <1>1, <1>2, <2>1, <2>2
    <3>2. LengthOf(Append(p.pool[0], e)) = LengthOf(p.pool[0]) + e.len
      BY <2>1, LengthOfAppend
    <3> QED BY <1>3, <2>1, <2>2, <3>1, <3>2
  <2>3. CASE x0 # 0
    <3>1. q.pool[0] = p.pool[0]
      BY <1>1, <1>2, <2>1, <2>3
    <3> QED BY <1>3, <2>1, <2>3, <3>1
  <2> QED BY <2>2, <2>3
<1>5. ASSUME NEW x \in Pools
      PROVE  Waits(q.pool[x], x, q.reset_cnt)
  <2>1. Waits(p.pool[x], x, p.reset_cnt)
    BY DEF Scheduled
  <2>2. CASE x = x0
    <3>1. Range(q.pool[x]) = Range(p.pool[x]) \cup {e}
      <4>1. q.pool[x] = Append(p.pool[x], e) /\ p.pool[x] \in Seq(Events)
        BY <1>1, <1>2, <2>2
      <4> QED BY <4>1, RangeOfAppend
    <3>2. e.at + 1 .. q.reset_cnt = {}
      BY <1>1, <1>3
    <3> QED BY <1>3, <2>1, <3>1, <3>2 DEF Waits
  <2>3. CASE x # x0
    <3>1. q.pool[x] = p.pool[x]
      BY <1>1, <1>2, <2>3
    <3> QED BY <1>3, <2>1, <3>1
  <2> QED BY <2>2, <2>3
<1> QED BY <1>4, <1>5 DEF Scheduled, q

(* A reseed drains the pools whose turn it is; the others wait on.         *)
LEMMA DrainingSchedules ==
  ASSUME NEW p \in States, NEW mix, Scheduled(p, mix)
  PROVE  Scheduled(Reseeded(p), mix \cup Mixture(p))
<1> DEFINE q == Reseeded(p)
           n == p.reset_cnt + 1
<1>1. /\ p.pool \in [Pools -> Seq(Events)] /\ p.reset_cnt \in Nat /\ n \in Nat
  BY DEF States
<1>2. /\ q.pool = [x \in Pools |-> IF x \in Drained(n) THEN <<>> ELSE p.pool[x]]
      /\ q.pool0_len = 0
  BY ReseededEffect
<1>3. q.reset_cnt = n
  BY DEF Reseeded, States
<1>4. \A x \in Pools : x \in Drained(n) <=> n % Power[x] = 0
  <2> HIDE DEF n
  <2> QED BY <1>1, DrainedIs
<1>5. Mixture(p) = Moved(p.pool, Drained(n), n)
  BY MixtureIsMoved
<1> HIDE DEF q, n
<1>6. q.pool0_len = LengthOf(q.pool[0])
  <2>1. n % Power[0] = 0
    <3>1. n = 1 * n + 0 /\ 0 \in 0 .. 1 - 1 /\ Power[0] = 1
      BY <1>1, Powers
    <3> QED BY <1>1, <3>1, RemainderIsUnique
  <2>2. 0 \in Pools /\ 0 \in Drained(n)
    BY <1>4, <2>1, Parameters
  <2>3. q.pool[0] = <<>>
    BY <1>2, <2>2
  <2> QED BY <1>2, <2>3, LengthOfNone
<1>7. ASSUME NEW m \in mix \cup Mixture(p)
      PROVE  m.reseed % Power[m.pool] = 0
  <2>1. CASE m \in mix
    BY <2>1 DEF Scheduled
  <2>2. CASE m \in Mixture(p)
    <3>1. m.reseed = n /\ m.pool \in Drained(n)
      BY <1>5, <2>2 DEF Moved
    <3>2. m.pool \in Pools
      BY <1>1, <3>1, DrainedArePools
    <3> QED BY <1>4, <3>1, <3>2
  <2> QED BY <1>7, <2>1, <2>2
<1>8. ASSUME NEW x \in Pools
      PROVE  Waits(q.pool[x], x, q.reset_cnt)
  <2>1. CASE x \in Drained(n)
    <3>1. q.pool[x] = <<>>
      BY <1>2, <2>1
    <3> QED BY <3>1, RangeOfNone DEF Waits
  <2>2. CASE x \notin Drained(n)
    <3>1. q.pool[x] = p.pool[x] /\ n % Power[x] # 0
      BY <1>2, <1>4, <2>2
    <3>2. Waits(p.pool[x], x, p.reset_cnt)
      BY DEF Scheduled
    <3>3. ASSUME NEW e \in Range(p.pool[x]), NEW r \in e.at + 1 .. n
          PROVE  r % Power[x] # 0
      <4>1. e.at \in Nat
        <5>1. e \in Events
          BY <1>1 DEF Range
        <5> QED BY <5>1 DEF Events
      <4>2. r = n \/ r \in e.at + 1 .. p.reset_cnt
        BY <1>1, <4>1 DEF n
      <4> QED BY <3>1, <3>2, <4>2 DEF Waits
    <3> QED BY <1>3, <3>1, <3>3 DEF Waits
  <2> QED BY <2>1, <2>2
<1> QED BY <1>6, <1>7, <1>8 DEF Scheduled, q

(* An import puts an event of 32 bytes into every pool.                    *)
LEMMA ImportedSchedules == Scheduled(Imported, {})
<1> DEFINE ev(x) == Event(Fresh, x, 32)
<1>1. /\ Imported.pool = [x \in Pools |-> <<ev(x)>>]
      /\ Imported.pool0_len = 32 /\ Imported.reset_cnt = 0
  <2>1. [x \in Pools |-> <<ev(x)>>] = [x \in Pools |-> <<Event(Fresh, x, 32)>>]
    OBVIOUS
  <2> HIDE DEF ev
  <2> QED BY <2>1 DEF Imported, Fresh
<1>2. ASSUME NEW x \in Pools
      PROVE  ev(x) \in Events /\ ev(x).len = 32 /\ ev(x).at = 0
  <2>1. ev(x) \in Events
    BY FreshIsState, EventIsEvent, Parameters
  <2>2. Clipped(32) = 32 /\ Fresh.reset_cnt = 0
    BY DEF Clipped, Fresh
  <2> QED BY <2>1, <2>2 DEF Event
<1> HIDE DEF ev
<1>3. Imported.pool0_len = LengthOf(Imported.pool[0])
  <2> DEFINE e == ev(0)
  <2>1. e \in Events /\ e.len = 32 /\ Imported.pool[0] = <<e>>
    BY <1>1, <1>2, Parameters
  <2> HIDE DEF e
  <2>2. <<>> \in Seq(Events) /\ <<e>> = Append(<<>>, e)
    BY <2>1
  <2>3. LengthOf(Append(<<>>, e)) = 0 + 32
    BY <2>1, <2>2, LengthOfAppend, LengthOfNone
  <2> QED BY <1>1, <2>1, <2>2, <2>3
<1>4. ASSUME NEW x \in Pools
      PROVE  Waits(Imported.pool[x], x, 0)
  <2>1. Imported.pool[x] = <<ev(x)>> /\ ev(x).at = 0
    BY <1>1, <1>2
  <2>2. Range(<<ev(x)>>) = {ev(x)}
    BY DEF Range
  <2>3. 0 + 1 .. 0 = {}
    OBVIOUS
  <2> QED BY <2>1, <2>2, <2>3 DEF Waits
<1> QED BY <1>1, <1>3, <1>4 DEF Scheduled

(* What fortuna_read does to the schedule.                                 *)
LEMMA DeliverSchedules ==
  ASSUME FInv, Scheduled(prng, mixed), NEW n \in OutLens, Deliver(n)
  PROVE  Scheduled(prng, mixed)'
<1>1. prng \in States /\ n \in Nat
  BY FortunaAssumption DEF FInv, FortunaTypeOK
<1>2. /\ prng' = Generated(Prepared(prng), n)
      /\ mixed' = IF NeedsReseed(prng) THEN mixed \cup Mixture(Counted(prng))
                  ELSE mixed
  BY DEF Deliver
<1> DEFINE c == Counted(prng)
<1>3. c \in States /\ Scheduled(c, mixed)
  BY <1>1, CountedEffect, QuietSchedules, SameSchedule
<1>4. ASSUME NEW p \in States, Scheduled(p, mixed'), prng' = Generated(p, n)
      PROVE  Scheduled(prng, mixed)'
  <2>1. SameEntropy(p, Generated(p, n))
    BY <1>1, QuietSchedules
  <2>2. Scheduled(Generated(p, n), mixed')
    BY <1>4, <2>1, SameSchedule
  <2> QED BY <1>4, <2>2
<1>5. CASE NeedsReseed(prng)
  <2>1. /\ Prepared(prng) = Reseeded(c) /\ mixed' = mixed \cup Mixture(c)
        /\ prng' = Generated(Reseeded(c), n)
    BY <1>2, <1>5 DEF Prepared
  <2> HIDE DEF c
  <2>2. Reseeded(c) \in States /\ Scheduled(Reseeded(c), mixed \cup Mixture(c))
    BY <1>3, ReseededEffect, DrainingSchedules
  <2> QED BY <1>4, <2>1, <2>2
<1>6. CASE ~NeedsReseed(prng)
  <2>1. prng' = Generated(c, n) /\ mixed' = mixed
    BY <1>2, <1>6 DEF Prepared
  <2> HIDE DEF c
  <2> QED BY <1>3, <1>4, <2>1
<1> QED BY <1>5, <1>6

LEMMA ScheduleStep ==
  ASSUME FInv, Scheduled(prng, mixed), [FortunaNext]_fortunaVars
  PROVE  Scheduled(prng, mixed)'
<1>1. prng \in States /\ events \in Nat
  BY DEF FInv, FortunaTypeOK
<1>2. CASE FortunaStart
  BY <1>2, FreshSchedules DEF FortunaStart, Restarts
<1>3. ASSUME NEW n \in InLens, AddEntropy(n)
      PROVE  Scheduled(prng, mixed)'
  <2> DEFINE e == Event(prng, events, n)
  <2>1. e \in Events
    BY <1>1, EventIsEvent, FortunaAssumption
  <2>2. e.at = prng.reset_cnt
    BY DEF Event
  <2>3. prng' = WithEntropy(prng, e) /\ mixed' = mixed
    BY <1>3 DEF AddEntropy
  <2> HIDE DEF e
  <2>4. Scheduled(WithEntropy(prng, e), mixed)
    BY <1>1, <2>1, <2>2, AddingSchedules
  <2> QED BY <2>3, <2>4
<1>4. ASSUME NEW n \in InLens, Create(n)
      PROVE  Scheduled(prng, mixed)'
  <2> DEFINE e == Event(Fresh, 0, n)
             s == WithEntropy(Fresh, e)
             q == Reseeded(s)
  <2>1. e \in Events
    BY FreshIsState, EventIsEvent, FortunaAssumption
  <2>2. e.at = Fresh.reset_cnt
    BY DEF Event
  <2>3. prng' = [q EXCEPT !.ready = TRUE] /\ mixed' = Mixture(s)
    BY <1>4 DEF Create, Restarts
  <2> HIDE DEF e
  <2>4. s \in States /\ Scheduled(s, {})
    BY <2>1, <2>2, FreshIsState, FreshSchedules, AddingSchedules,
       WithEntropyEffect
  <2> HIDE DEF s
  <2>5. q \in States /\ Scheduled(q, {} \cup Mixture(s))
    BY <2>4, ReseededEffect, DrainingSchedules
  <2> HIDE DEF q
  <2>6. Scheduled([q EXCEPT !.ready = TRUE], {} \cup Mixture(s))
    BY <2>5, QuietSchedules, SameSchedule
  <2>7. {} \cup Mixture(s) = Mixture(s)
    OBVIOUS
  <2> QED BY <2>3, <2>6, <2>7
<1>5. CASE Ready
  <2> DEFINE q == Reseeded(prng)
  <2>1. prng' = [q EXCEPT !.ready = TRUE] /\ mixed' = mixed \cup Mixture(prng)
    BY <1>5 DEF Ready
  <2>2. q \in States /\ Scheduled(q, mixed \cup Mixture(prng))
    BY <1>1, ReseededEffect, DrainingSchedules
  <2> HIDE DEF q
  <2>3. Scheduled([q EXCEPT !.ready = TRUE], mixed \cup Mixture(prng))
    BY <2>2, QuietSchedules, SameSchedule
  <2> QED BY <2>1, <2>3
<1>6. ASSUME prng' = prng \/ prng' = Closed(prng), mixed' = mixed
      PROVE  Scheduled(prng, mixed)'
  <2>1. Scheduled(Closed(prng), mixed)
    BY <1>1, QuietSchedules, SameSchedule
  <2> QED BY <1>6, <2>1
<1>7. ASSUME NEW n \in OutLens, Read(n)
      PROVE  Scheduled(prng, mixed)'
  <2>1. (prng' = prng /\ mixed' = mixed) \/ Deliver(n)
    BY <1>7 DEF Read
  <2> QED BY <1>6, <2>1, DeliverSchedules
<1>8. ASSUME NEW n \in OutLens, NEW keep \in {0, 1}, PrngRead(n, keep)
      PROVE  Scheduled(prng, mixed)'
  <2>1. \/ (prng' = prng \/ prng' = Closed(prng)) /\ mixed' = mixed
        \/ Deliver(n)
    BY <1>8 DEF PrngRead
  <2> QED BY <1>6, <2>1, DeliverSchedules
<1>9. CASE FortunaDone
  BY <1>6, <1>9 DEF FortunaDone
<1>10. ASSUME NEW size \in ExportSizes, Export(size)
       PROVE  Scheduled(prng, mixed)'
  BY <1>6, <1>10 DEF Export
<1>11. ASSUME NEW size \in ExportSizes, Import(size)
       PROVE  Scheduled(prng, mixed)'
  <2>1. \/ prng' = prng /\ mixed' = mixed
        \/ prng' = Imported /\ mixed' = {}
    BY <1>11 DEF Import, Restarts
  <2> QED BY <1>6, <2>1, ImportedSchedules
<1>12. CASE UNCHANGED fortunaVars
  BY <1>6, <1>12 DEF fortunaVars
<1> QED
  BY <1>2, <1>3, <1>4, <1>5, <1>7, <1>8, <1>9, <1>10, <1>11, <1>12
  DEF FortunaNext

(* PoolsFollowSchedule: whatever calls are made, pool x is mixed into the  *)
(* key by exactly those reseeds whose number 2^x divides, and the counter  *)
(* that makes fortuna_read reseed is the length of pool 0.                 *)
THEOREM PoolsAreScheduled == FortunaSpec => []PoolsFollowSchedule
<1>1. FortunaInit => PoolsFollowSchedule
  BY FreshSchedules, ScheduledIsInvariant DEF FortunaInit
<1>2. FInv /\ PoolsFollowSchedule /\ [FortunaNext]_fortunaVars
        => PoolsFollowSchedule'
  BY ScheduleStep, ScheduledIsInvariant
<1> QED BY <1>1, <1>2, FortunaInvariance, PTL DEF FortunaSpec
================================================================================
