-------------------------- MODULE TokenCodecProofs --------------------------
(***************************************************************************)
(* Proofs about TokenCodec, for lists of any length, any set of keys and   *)
(* integers of any width.                                                  *)
(*                                                                         *)
(* What an encoder lists is said once for each shape of a list: fixed      *)
(* accounts, fixed accounts and an owner with signers, fixed accounts and  *)
(* a list.  The cases, one for each kind of instruction, are then the      *)
(* definitions of the encoder and the decoder of that kind.                *)
(***************************************************************************)
EXTENDS TokenCodec, SequenceTheorems, TLAPS

----------------------------------------------------------------------------
(* Lists of accounts.                                                      *)

AnyKey == Pubkeys \cup {RENT}
Metas  == [pubkey : AnyKey, is_signer : BOOLEAN, is_writable : BOOLEAN]
Plain  == [pubkey : AnyKey, is_signer : {FALSE}, is_writable : BOOLEAN]

LEMMA ListsAreSequences == \A l \in Lists : l \in Seq(Pubkeys) /\ Len(l) \in 0..MaxList
BY ModelAssumption DEF Lists

LEMMA MetasAre ==
    \A key \in AnyKey :
        /\ Writable(key) \in Plain /\ Writable(key).pubkey = key
        /\ Readonly(key) \in Plain /\ Readonly(key).pubkey = key
        /\ Signer(key) \in Metas /\ Signer(key).pubkey = key /\ Signer(key).is_signer = TRUE
BY DEF Writable, Readonly, Signer, Meta, Metas, Plain

LEMMA AllAre ==
    ASSUME NEW keys \in Seq(Pubkeys)
    PROVE  /\ SignerAll(keys) \in Seq(Metas) /\ Len(SignerAll(keys)) = Len(keys)
           /\ \A k \in 1..Len(keys) : SignerAll(keys)[k] = Signer(keys[k])
           /\ ReadonlyAll(keys) \in Seq(Plain) /\ Len(ReadonlyAll(keys)) = Len(keys)
           /\ \A k \in 1..Len(keys) : ReadonlyAll(keys)[k] = Readonly(keys[k])
           /\ WritableAll(keys) \in Seq(Plain) /\ Len(WritableAll(keys)) = Len(keys)
           /\ \A k \in 1..Len(keys) : WritableAll(keys)[k] = Writable(keys[k])
BY DEF SignerAll, Signer, ReadonlyAll, WritableAll, Writable, Readonly, Meta, Metas,
       Plain, AnyKey

LEMMA Joined ==
    ASSUME NEW S, NEW s \in Seq(S), NEW t \in Seq(S)
    PROVE  /\ s \o t \in Seq(S)
           /\ Len(s \o t) = Len(s) + Len(t)
           /\ \A k \in 1..Len(s) : (s \o t)[k] = s[k]
           /\ \A k \in 1..Len(t) : (s \o t)[Len(s) + k] = t[k]
<1>1. Len(s) \in Nat /\ Len(t) \in Nat
  BY LenProperties
<1>2. \A k \in 1..Len(t) : Len(s) + k \in 1..(Len(s) + Len(t)) /\ ~(Len(s) + k <= Len(s))
                             /\ (Len(s) + k) - Len(s) = k
  BY <1>1
<1>3. \A k \in 1..Len(s) : k \in 1..(Len(s) + Len(t)) /\ k <= Len(s)
  BY <1>1
<1>4. QED BY <1>1, <1>2, <1>3, ConcatProperties

(* An owner and the signers in its place.                                  *)
LEMMA OwnerAndSigners ==
    ASSUME NEW fixed \in Seq(Metas), NEW owner \in Pubkeys, NEW signers \in Seq(Pubkeys)
    PROVE  LET a == add_signers(fixed, owner, signers)
               c == Len(fixed)
           IN  /\ a \in Seq(Metas)
               /\ Len(a) = c + 1 + Len(signers)
               /\ \A k \in 1..c : a[k] = fixed[k]
               /\ a[c + 1].pubkey = owner /\ a[c + 1].is_signer = (signers = <<>>)
               /\ \A k \in 1..Len(signers) : a[c + 1 + k] = Signer(signers[k])
<1> DEFINE o == IF signers = <<>> THEN Signer(owner) ELSE Readonly(owner)
           l == SignerAll(signers)
           s == fixed \o <<o>>
<1>1. o \in Metas /\ o.pubkey = owner /\ o.is_signer = (signers = <<>>)
  BY DEF Signer, Readonly, Meta, Metas, AnyKey
<1>2. /\ l \in Seq(Metas) /\ Len(l) = Len(signers)
      /\ \A k \in 1..Len(signers) : l[k] = Signer(signers[k])
  BY AllAre DEF l
<1>3. signers = <<>> => l = <<>>
  BY <1>2
<1> HIDE DEF o, l
<1>4. /\ s \in Seq(Metas) /\ Len(s) = Len(fixed) + 1
      /\ \A k \in 1..Len(fixed) : s[k] = fixed[k]
      /\ s[Len(fixed) + 1] = o
  BY <1>1
<1>5. add_signers(fixed, owner, signers) = s \o l
  <2>1. CASE signers = <<>>
    BY <2>1, <1>3, <1>4, ConcatEmptySeq DEF add_signers, o
  <2>2. CASE signers # <<>>
    BY <2>2 DEF add_signers, o, l
  <2>3. QED BY <2>1, <2>2
<1>6. /\ s \o l \in Seq(Metas) /\ Len(s \o l) = Len(s) + Len(l)
      /\ \A k \in 1..Len(s) : (s \o l)[k] = s[k]
      /\ \A k \in 1..Len(l) : (s \o l)[Len(s) + k] = l[k]
  <2>1. l \in Seq(Metas) /\ s \in Seq(Metas)
    BY <1>2, <1>4
  <2> HIDE DEF s
  <2>2. QED BY <2>1, Joined
<1>7. Len(fixed) \in Nat
  BY LenProperties
<1>8. QED BY <1>1, <1>2, <1>4, <1>5, <1>6, <1>7

----------------------------------------------------------------------------
(* Instructions with such a list.                                          *)

SignerKeys(i) ==
    {i.accounts[k].pubkey : k \in {j \in 1..Len(i.accounts) : i.accounts[j].is_signer}}

Signing(owner, signers) ==
    IF signers = <<>> THEN {owner} ELSE {signers[k] : k \in 1..Len(signers)}

(* An owner after c fixed accounts, then the signers in its place.         *)
Owned(i, c, owner, signers) ==
    /\ i.accounts \in Seq(Metas)
    /\ Len(i.accounts) = c + 1 + Len(signers)
    /\ Key(i, c + 1) = owner
    /\ KeysFrom(i, c + 2) = signers
    /\ SignerKeys(i) = Signing(owner, signers)

LEMMA KeysFromTail ==
    ASSUME NEW i, NEW c \in Nat, NEW tail \in Seq(Pubkeys),
           Len(i.accounts) = c + Len(tail),
           \A k \in 1..Len(tail) : i.accounts[c + k].pubkey = tail[k]
    PROVE  KeysFrom(i, c + 1) = tail
<1> DEFINE keys == KeysFrom(i, c + 1)
<1>1. Len(tail) \in Nat /\ tail = [k \in 1..Len(tail) |-> tail[k]]
  BY LenProperties
<1>2. keys = [k \in 1..Len(tail) |-> i.accounts[(c + 1) + k - 1].pubkey]
  <2>1. (IF c + Len(tail) >= c + 1 THEN (c + Len(tail)) - (c + 1) + 1 ELSE 0) = Len(tail)
    BY <1>1
  <2>2. QED BY <2>1 DEF KeysFrom, Keys
<1>3. \A k \in 1..Len(tail) : (c + 1) + k - 1 = c + k
  BY <1>1
<1>4. QED BY <1>1, <1>2, <1>3

LEMMA AnOwned ==
    ASSUME NEW i, NEW fixed \in Seq(Plain), NEW owner \in Pubkeys, NEW signers \in Seq(Pubkeys),
           i.accounts = add_signers(fixed, owner, signers)
    PROVE  /\ Owned(i, Len(fixed), owner, signers)
           /\ \A k \in 1..Len(fixed) : Key(i, k) = fixed[k].pubkey
<1> DEFINE a == i.accounts
           c == Len(fixed)
           n == Len(signers)
<1>1. /\ fixed \in Seq(Metas) /\ c \in Nat /\ n \in Nat
      /\ \A k \in 1..c : fixed[k] \in Plain
  BY LenProperties, ElementOfSeq, SeqMonotonic DEF Plain, Metas
<1>2. /\ a \in Seq(Metas)
      /\ Len(a) = c + 1 + n
      /\ \A k \in 1..c : a[k] = fixed[k]
      /\ a[c + 1].pubkey = owner /\ a[c + 1].is_signer = (signers = <<>>)
      /\ \A k \in 1..n : a[c + 1 + k] = Signer(signers[k])
  BY <1>1, OwnerAndSigners
<1>3. \A k \in 1..n : signers[k] \in Pubkeys
  BY ElementOfSeq
<1>4. signers = <<>> <=> n = 0
  BY EmptySeq
<1>5. KeysFrom(i, c + 2) = signers
  <2> DEFINE d == c + 1
  <2>1. d \in Nat /\ Len(i.accounts) = d + Len(signers) /\ d + 1 = c + 2
    BY <1>1, <1>2
  <2>2. \A k \in 1..Len(signers) : i.accounts[d + k].pubkey = signers[k]
    BY <1>2, <1>3, MetasAre DEF AnyKey
  <2> HIDE DEF d
  <2>3. KeysFrom(i, d + 1) = signers
    BY <2>1, <2>2, KeysFromTail
  <2>4. QED BY <2>1, <2>3
<1>6. SignerKeys(i) = Signing(owner, signers)
  <2>1. SignerKeys(i) = {a[k].pubkey : k \in {j \in 1..Len(a) : a[j].is_signer}}
    BY DEF SignerKeys
  <2> HIDE DEF a, c, n
  <2>2. \A k \in 1..c : a[k].is_signer = FALSE
    BY <1>1, <1>2 DEF Plain
  <2>3. \A k \in 1..n : /\ c + 1 + k \in 1..Len(a)
                        /\ a[c + 1 + k].is_signer = TRUE /\ a[c + 1 + k].pubkey = signers[k]
    <3>1. TAKE k \in 1..n
    <3>2. c + 1 + k \in 1..Len(a) /\ a[c + 1 + k] = Signer(signers[k])
      BY <1>1, <1>2
    <3>3. QED BY <1>3, <3>2, MetasAre DEF AnyKey
  <2>4. c + 1 \in 1..Len(a)
    BY <1>1, <1>2
  <2>5. CASE n = 0
    <3>1. \A k \in 1..Len(a) : k \in 1..c \/ k = c + 1
      BY <1>1, <1>2, <2>5
    <3>2. a[c + 1].is_signer = TRUE
      BY <1>2, <1>4, <2>5
    <3>3. {k \in 1..Len(a) : a[k].is_signer} = {c + 1}
      BY <2>2, <2>4, <3>1, <3>2
    <3>4. QED BY <1>2, <1>4, <2>1, <2>5, <3>3 DEF Signing
  <2>6. CASE n # 0
    <3>1. a[c + 1].is_signer = FALSE
      BY <1>2, <1>4, <2>6
    <3>2. \A k \in 1..Len(a) : k \in 1..c \/ k = c + 1 \/ \E j \in 1..n : k = c + 1 + j
      <4>1. ASSUME NEW k \in 1..Len(a), k \notin 1..c, k # c + 1
            PROVE  k - (c + 1) \in 1..n /\ k = c + 1 + (k - (c + 1))
        BY <1>1, <1>2, <4>1
      <4>2. QED BY <4>1
    <3>3. ASSUME NEW key \in SignerKeys(i) PROVE \E j \in 1..n : key = signers[j]
      <4>1. PICK k \in 1..Len(a) : a[k].is_signer /\ key = a[k].pubkey
        BY <2>1
      <4>2. PICK j \in 1..n : k = c + 1 + j
        BY <2>2, <3>1, <3>2, <4>1
      <4>3. QED BY <2>3, <4>1, <4>2
    <3>4. ASSUME NEW j \in 1..n PROVE signers[j] \in SignerKeys(i)
      BY <2>1, <2>3
    <3>5. SignerKeys(i) = {signers[k] : k \in 1..n}
      BY <3>3, <3>4
    <3>6. QED BY <1>4, <2>6, <3>5 DEF Signing, n
  <2>7. QED BY <2>5, <2>6, <1>1
<1>7. Key(i, c + 1) = owner /\ \A k \in 1..c : Key(i, k) = fixed[k].pubkey
  BY <1>1, <1>2 DEF Key
<1>8. QED BY <1>2, <1>5, <1>6, <1>7 DEF Owned

(* The three lengths that occur.                                           *)
LEMMA Owned1 ==
    ASSUME NEW i, NEW m1 \in Plain,
           NEW owner \in Pubkeys, NEW signers \in Lists,
           i.accounts = add_signers(<<m1>>, owner, signers)
    PROVE  /\ Owned(i, 1, owner, signers)
           /\ Key(i, 1) = m1.pubkey
<1> DEFINE f == <<m1>>
<1>1. f \in Seq(Plain) /\ Len(f) = 1 /\ f[1] = m1
  OBVIOUS
<1>2. i.accounts = add_signers(f, owner, signers) /\ signers \in Seq(Pubkeys)
  BY ListsAreSequences
<1> HIDE DEF f
<1>3. /\ Owned(i, Len(f), owner, signers)
      /\ \A k \in 1..Len(f) : Key(i, k) = f[k].pubkey
  BY <1>1, <1>2, AnOwned
<1>4. QED BY <1>1, <1>3

LEMMA Owned2 ==
    ASSUME NEW i, NEW m1 \in Plain, NEW m2 \in Plain,
           NEW owner \in Pubkeys, NEW signers \in Lists,
           i.accounts = add_signers(<<m1, m2>>, owner, signers)
    PROVE  /\ Owned(i, 2, owner, signers)
           /\ Key(i, 1) = m1.pubkey /\ Key(i, 2) = m2.pubkey
<1> DEFINE f == <<m1, m2>>
<1>1. f \in Seq(Plain) /\ Len(f) = 2 /\ f[1] = m1 /\ f[2] = m2
  OBVIOUS
<1>2. i.accounts = add_signers(f, owner, signers) /\ signers \in Seq(Pubkeys)
  BY ListsAreSequences
<1> HIDE DEF f
<1>3. /\ Owned(i, Len(f), owner, signers)
      /\ \A k \in 1..Len(f) : Key(i, k) = f[k].pubkey
  BY <1>1, <1>2, AnOwned
<1>4. QED BY <1>1, <1>3

LEMMA Owned3 ==
    ASSUME NEW i, NEW m1 \in Plain, NEW m2 \in Plain, NEW m3 \in Plain,
           NEW owner \in Pubkeys, NEW signers \in Lists,
           i.accounts = add_signers(<<m1, m2, m3>>, owner, signers)
    PROVE  /\ Owned(i, 3, owner, signers)
           /\ Key(i, 1) = m1.pubkey /\ Key(i, 2) = m2.pubkey /\ Key(i, 3) = m3.pubkey
<1> DEFINE f == <<m1, m2, m3>>
<1>1. f \in Seq(Plain) /\ Len(f) = 3 /\ f[1] = m1 /\ f[2] = m2 /\ f[3] = m3
  OBVIOUS
<1>2. i.accounts = add_signers(f, owner, signers) /\ signers \in Seq(Pubkeys)
  BY ListsAreSequences
<1> HIDE DEF f
<1>3. /\ Owned(i, Len(f), owner, signers)
      /\ \A k \in 1..Len(f) : Key(i, k) = f[k].pubkey
  BY <1>1, <1>2, AnOwned
<1>4. QED BY <1>1, <1>3

(* A list after fixed accounts, without an owner.                          *)
Listing(i, c, keys) ==
    /\ i.accounts \in Seq(Plain)
    /\ Len(i.accounts) = c + Len(keys)
    /\ KeysFrom(i, c + 1) = keys

LEMMA AListing ==
    ASSUME NEW i, NEW fixed \in Seq(Plain), NEW keys \in Seq(Pubkeys), NEW tail,
           tail = ReadonlyAll(keys) \/ tail = WritableAll(keys),
           i.accounts = fixed \o tail
    PROVE  /\ Listing(i, Len(fixed), keys)
           /\ \A k \in 1..Len(fixed) : Key(i, k) = fixed[k].pubkey
<1>1. Len(fixed) \in Nat /\ Len(keys) \in Nat
  BY LenProperties
<1>2. /\ tail \in Seq(Plain) /\ Len(tail) = Len(keys)
      /\ \A k \in 1..Len(keys) : tail[k].pubkey = keys[k]
  <2>1. \A k \in 1..Len(keys) : keys[k] \in AnyKey
    BY ElementOfSeq DEF AnyKey
  <2>2. CASE tail = ReadonlyAll(keys)
    BY <2>1, <2>2, AllAre, MetasAre
  <2>3. CASE tail = WritableAll(keys)
    BY <2>1, <2>3, AllAre, MetasAre
  <2>4. QED BY <2>2, <2>3
<1>3. /\ fixed \o tail \in Seq(Plain)
      /\ Len(fixed \o tail) = Len(fixed) + Len(tail)
      /\ \A k \in 1..Len(fixed) : (fixed \o tail)[k] = fixed[k]
      /\ \A k \in 1..Len(tail) : (fixed \o tail)[Len(fixed) + k] = tail[k]
  <2>1. tail \in Seq(Plain)
    BY <1>2
  <2>2. QED BY <2>1, Joined
<1>4. KeysFrom(i, Len(fixed) + 1) = keys
  <2> DEFINE c == Len(fixed)
  <2>1. /\ c \in Nat /\ Len(i.accounts) = c + Len(keys)
        /\ \A k \in 1..Len(keys) : i.accounts[c + k].pubkey = keys[k]
    BY <1>1, <1>2, <1>3
  <2> HIDE DEF c
  <2>2. KeysFrom(i, c + 1) = keys
    BY <2>1, KeysFromTail
  <2>3. QED BY <2>2 DEF c
<1>5. \A k \in 1..Len(fixed) : Key(i, k) = fixed[k].pubkey
  BY <1>1, <1>2, <1>3 DEF Key
<1>6. QED BY <1>2, <1>3, <1>4, <1>5 DEF Listing

LEMMA PlainSignsNothing ==
    ASSUME NEW i, i.accounts \in Seq(Plain)
    PROVE  i.accounts \in Seq(Metas) /\ SignerKeys(i) = {}
<1>1. \A k \in 1..Len(i.accounts) : i.accounts[k] \in Plain
  BY ElementOfSeq
<1>2. SignerKeys(i) = {}
  BY <1>1 DEF SignerKeys, Plain
<1>3. QED BY <1>2, SeqMonotonic DEF Plain, Metas

LEMMA Listing1 ==
    ASSUME NEW i, NEW m1 \in Plain, NEW keys \in Lists, NEW tail,
           tail = ReadonlyAll(keys) \/ tail = WritableAll(keys),
           i.accounts = <<m1>> \o tail
    PROVE  Listing(i, 1, keys) /\ Key(i, 1) = m1.pubkey
<1> DEFINE f == <<m1>>
<1>1. f \in Seq(Plain) /\ Len(f) = 1 /\ f[1] = m1
  OBVIOUS
<1>2. i.accounts = f \o tail /\ keys \in Seq(Pubkeys)
  BY ListsAreSequences
<1> HIDE DEF f
<1>3. Listing(i, Len(f), keys) /\ \A k \in 1..Len(f) : Key(i, k) = f[k].pubkey
  BY <1>1, <1>2, AListing
<1>4. QED BY <1>1, <1>3

LEMMA Listing2 ==
    ASSUME NEW i, NEW m1 \in Plain, NEW m2 \in Plain, NEW keys \in Lists, NEW tail,
           tail = ReadonlyAll(keys) \/ tail = WritableAll(keys),
           i.accounts = <<m1, m2>> \o tail
    PROVE  Listing(i, 2, keys) /\ Key(i, 1) = m1.pubkey /\ Key(i, 2) = m2.pubkey
<1> DEFINE f == <<m1, m2>>
<1>1. f \in Seq(Plain) /\ Len(f) = 2 /\ f[1] = m1 /\ f[2] = m2
  OBVIOUS
<1>2. i.accounts = f \o tail /\ keys \in Seq(Pubkeys)
  BY ListsAreSequences
<1> HIDE DEF f
<1>3. Listing(i, Len(f), keys) /\ \A k \in 1..Len(f) : Key(i, k) = f[k].pubkey
  BY <1>1, <1>2, AListing
<1>4. QED BY <1>1, <1>3

(* More accounts behind those of j, none of which signs.                   *)
LEMMA Extended ==
    ASSUME NEW i, NEW j, NEW w \in Seq(Plain), j.accounts \in Seq(Metas),
           i.accounts = j.accounts \o w
    PROVE  /\ i.accounts \in Seq(Metas)
           /\ Len(i.accounts) = Len(j.accounts) + Len(w)
           /\ \A k \in 1..Len(j.accounts) : Key(i, k) = Key(j, k)
           /\ \A k \in 1..Len(w) : i.accounts[Len(j.accounts) + k] = w[k]
           /\ \A m \in 1..Len(j.accounts) : Keys(i, m, Len(j.accounts)) = KeysFrom(j, m)
           /\ SignerKeys(i) = SignerKeys(j)
<1> DEFINE a == i.accounts
           b == j.accounts
           n == Len(b)
<1>1. n \in Nat /\ Len(w) \in Nat /\ \A k \in 1..Len(w) : w[k].is_signer = FALSE
  <2>1. \A k \in 1..Len(w) : w[k] \in Plain
    BY ElementOfSeq
  <2>2. n \in Nat /\ Len(w) \in Nat
    BY LenProperties
  <2>3. QED BY <2>1, <2>2 DEF Plain
<1>2. w \in Seq(Metas)
  BY SeqMonotonic DEF Plain, Metas
<1>3. /\ a \in Seq(Metas)
      /\ Len(a) = n + Len(w)
      /\ \A k \in 1..n : a[k] = b[k]
      /\ \A k \in 1..Len(w) : a[n + k] = w[k]
  <2> HIDE DEF b
  <2>1. /\ b \o w \in Seq(Metas)
        /\ Len(b \o w) = Len(b) + Len(w)
        /\ \A k \in 1..Len(b) : (b \o w)[k] = b[k]
        /\ \A k \in 1..Len(w) : (b \o w)[Len(b) + k] = w[k]
    BY <1>2, Joined DEF b
  <2>2. QED BY <2>1 DEF b
<1>4. /\ \A k \in 1..n : Key(i, k) = Key(j, k)
      /\ \A m \in 1..n : Keys(i, m, n) = KeysFrom(j, m)
  <2>1. \A k \in 1..n : Key(i, k) = Key(j, k)
    BY <1>1, <1>3 DEF Key
  <2>2. ASSUME NEW m \in 1..n
        PROVE  Keys(i, m, n) = KeysFrom(j, m)
    <3>1. \A k \in 1..(n - m + 1) : m + k - 1 \in 1..n
      BY <1>1
    <3>2. \A k \in 1..(n - m + 1) : a[m + k - 1].pubkey = b[m + k - 1].pubkey
      BY <1>3, <3>1
    <3>3. n >= m
      BY <1>1
    <3> HIDE DEF n
    <3>4. QED BY <3>2, <3>3 DEF Keys, KeysFrom, n
  <2>3. QED BY <2>1, <2>2
<1>5. SignerKeys(i) = SignerKeys(j)
  <2>1. /\ SignerKeys(i) = {a[k].pubkey : k \in {l \in 1..Len(a) : a[l].is_signer}}
        /\ SignerKeys(j) = {b[k].pubkey : k \in {l \in 1..n : b[l].is_signer}}
    BY DEF SignerKeys
  <2> HIDE DEF a, b, n
  <2>2. ASSUME NEW k \in 1..Len(a), k \notin 1..n
        PROVE  a[k].is_signer = FALSE
    <3>1. k - n \in 1..Len(w) /\ n + (k - n) = k
      BY <1>1, <1>3, <2>2
    <3>2. QED BY <1>1, <1>3, <3>1
  <2>3. {l \in 1..Len(a) : a[l].is_signer} = {l \in 1..n : b[l].is_signer}
    <3>1. 1..n \subseteq 1..Len(a)
      BY <1>1, <1>3
    <3>2. QED BY <1>3, <2>2, <3>1
  <2>4. \A k \in {l \in 1..n : b[l].is_signer} : a[k].pubkey = b[k].pubkey
    BY <1>3
  <2>5. QED BY <2>1, <2>3, <2>4
<1>6. QED BY <1>3, <1>4, <1>5

(* The withheld fees: an owner with signers, and the sources behind them.  *)
Sourced(i, c, owner, signers, sources) ==
    /\ i.accounts \in Seq(Metas)
    /\ Len(i.accounts) = c + 1 + Len(signers) + Len(sources)
    /\ Key(i, c + 1) = owner
    /\ Keys(i, c + 2, Len(i.accounts) - Len(sources)) = signers
    /\ KeysFrom(i, Len(i.accounts) - Len(sources) + 1) = sources
    /\ SignerKeys(i) = Signing(owner, signers)

LEMMA Sourced2 ==
    ASSUME NEW i, NEW m1 \in Plain, NEW m2 \in Plain,
           NEW owner \in Pubkeys, NEW signers \in Lists, NEW sources \in Lists,
           i.accounts = add_signers(<<m1, m2>>, owner, signers) \o WritableAll(sources)
    PROVE  /\ Sourced(i, 2, owner, signers, sources)
           /\ Key(i, 1) = m1.pubkey /\ Key(i, 2) = m2.pubkey
<1> DEFINE a == add_signers(<<m1, m2>>, owner, signers)
           j == [accounts |-> a]
           w == WritableAll(sources)
           c == Len(a)
<1>1. /\ Len(signers) \in Nat /\ Len(sources) \in Nat /\ sources \in Seq(Pubkeys)
      /\ signers \in Seq(Pubkeys)
  BY ListsAreSequences
<1>2. Owned(j, 2, owner, signers) /\ Key(j, 1) = m1.pubkey /\ Key(j, 2) = m2.pubkey
  BY Owned2
<1>3. /\ w \in Seq(Plain) /\ Len(w) = Len(sources)
      /\ \A k \in 1..Len(sources) : w[k].pubkey = sources[k]
  <2>1. \A k \in 1..Len(sources) : sources[k] \in AnyKey
    BY <1>1, ElementOfSeq DEF AnyKey
  <2>2. /\ w \in Seq(Plain) /\ Len(w) = Len(sources)
        /\ \A k \in 1..Len(sources) : w[k] = Writable(sources[k])
    BY <1>1, AllAre
  <2>3. QED BY <2>1, <2>2, MetasAre
<1> HIDE DEF w
<1>4. i.accounts = j.accounts \o w /\ j.accounts = a /\ c = Len(j.accounts)
  BY DEF w
<1> HIDE DEF a, j, c
<1>5. /\ j.accounts \in Seq(Metas) /\ c = 3 + Len(signers)
      /\ Key(j, 3) = owner /\ KeysFrom(j, 4) = signers
      /\ SignerKeys(j) = Signing(owner, signers)
  BY <1>1, <1>2, <1>4 DEF Owned, c
<1>6. /\ i.accounts \in Seq(Metas)
      /\ Len(i.accounts) = c + Len(w)
      /\ \A k \in 1..c : Key(i, k) = Key(j, k)
      /\ \A k \in 1..Len(w) : i.accounts[c + k] = w[k]
      /\ \A m \in 1..c : Keys(i, m, c) = KeysFrom(j, m)
      /\ SignerKeys(i) = SignerKeys(j)
  <2>1. w \in Seq(Plain) /\ j.accounts \in Seq(Metas) /\ i.accounts = j.accounts \o w
    BY <1>3, <1>4, <1>5
  <2>2. /\ i.accounts \in Seq(Metas)
        /\ Len(i.accounts) = Len(j.accounts) + Len(w)
        /\ \A k \in 1..Len(j.accounts) : Key(i, k) = Key(j, k)
        /\ \A k \in 1..Len(w) : i.accounts[Len(j.accounts) + k] = w[k]
        /\ \A m \in 1..Len(j.accounts) : Keys(i, m, Len(j.accounts)) = KeysFrom(j, m)
        /\ SignerKeys(i) = SignerKeys(j)
    BY <2>1, Extended, Zenon
  <2>3. QED BY <1>4, <2>2
<1>7. c \in Nat /\ 1 \in 1..c /\ 2 \in 1..c /\ 3 \in 1..c /\ (c >= 4 => 4 \in 1..c)
  BY <1>1, <1>5
<1>8. Len(i.accounts) - Len(sources) = c
  BY <1>1, <1>3, <1>6, <1>7
<1>9. Keys(i, 4, c) = signers
  <2>1. CASE c >= 4
    BY <1>5, <1>6, <1>7, <2>1
  <2>2. CASE ~(c >= 4)
    <3>1. signers = <<>> /\ c < 4
      BY <1>1, <1>5, <1>7, <2>2, EmptySeq
    <3>2. QED BY <1>7, <3>1 DEF Keys
  <2>3. QED BY <2>1, <2>2
<1>10. KeysFrom(i, c + 1) = sources
  <2>1. \A k \in 1..Len(sources) : i.accounts[c + k].pubkey = sources[k]
    BY <1>3, <1>6
  <2>2. c \in Nat /\ Len(i.accounts) = c + Len(sources) /\ sources \in Seq(Pubkeys)
    BY <1>1, <1>3, <1>6, <1>7
  <2>3. QED BY <2>1, <2>2, KeysFromTail
<1>11. QED BY <1>1, <1>2, <1>3, <1>5, <1>6, <1>7, <1>8, <1>9, <1>10 DEF Sourced

----------------------------------------------------------------------------
(* What each encoder writes: its parameters, of which the integers fit,    *)
(* and where a decoder finds them.                                         *)

Carries(i, p, type, args) == i = Instruction(p.program_id, type, args, i.accounts)

Fixed(i, n) == i.accounts \in Seq(Plain) /\ Len(i.accounts) = n

AuthorityArgs(p) == <<p.authority>> \o Option(p.new_authority)

MintArgs(p) == <<p.decimals, p.mint_authority>> \o Option(p.freeze_authority)

FeeConfigArgs(p) ==
    <<"INITIALIZE_TRANSFER_FEE_CONFIG">> \o Option(p.transfer_fee_config_authority)
        \o Option(p.withdraw_withheld_authority)
        \o <<p.transfer_fee_basis_points, p.maximum_fee>>

InitializeMintForm(p, i) ==
    /\ p \in InitializeMintParams /\ p.decimals \in Int8ul
    /\ Carries(i, p, "INITIALIZE_MINT", MintArgs(p))
    /\ Fixed(i, 2) /\ Key(i, 1) = p.mint

InitializeMint2Form(p, i) ==
    /\ p \in InitializeMint2Params /\ p.decimals \in Int8ul
    /\ Carries(i, p, "INITIALIZE_MINT2", MintArgs(p))
    /\ Fixed(i, 1) /\ Key(i, 1) = p.mint

InitializeAccountForm(p, i) ==
    /\ p \in InitializeAccountParams
    /\ Carries(i, p, "INITIALIZE_ACCOUNT", <<>>)
    /\ Fixed(i, 4) /\ Key(i, 1) = p.account /\ Key(i, 2) = p.mint /\ Key(i, 3) = p.owner

InitializeAccount2Form(p, i) ==
    /\ p \in InitializeAccount2Params
    /\ Carries(i, p, "INITIALIZE_ACCOUNT2", <<p.owner>>)
    /\ Fixed(i, 3) /\ Key(i, 1) = p.account /\ Key(i, 2) = p.mint

InitializeAccount3Form(p, i) ==
    /\ p \in InitializeAccount3Params
    /\ Carries(i, p, "INITIALIZE_ACCOUNT3", <<p.owner>>)
    /\ Fixed(i, 2) /\ Key(i, 1) = p.account /\ Key(i, 2) = p.mint

InitializeMultisigForm(p, i) ==
    /\ p \in InitializeMultisigParams /\ p.m \in Int8ul
    /\ Carries(i, p, "INITIALIZE_MULTISIG", <<p.m>>)
    /\ Listing(i, 2, p.signers) /\ Key(i, 1) = p.multisig

InitializeMultisig2Form(p, i) ==
    /\ p \in InitializeMultisig2Params /\ p.m \in Int8ul
    /\ Carries(i, p, "INITIALIZE_MULTISIG2", <<p.m>>)
    /\ Listing(i, 1, p.signers) /\ Key(i, 1) = p.multisig

TransferForm(p, i) ==
    /\ p \in TransferParams /\ p.amount \in Int64ul
    /\ Carries(i, p, "TRANSFER", <<p.amount>>)
    /\ Owned(i, 2, p.owner, p.signers) /\ Key(i, 1) = p.source /\ Key(i, 2) = p.dest

ApproveForm(p, i) ==
    /\ p \in ApproveParams /\ p.amount \in Int64ul
    /\ Carries(i, p, "APPROVE", <<p.amount>>)
    /\ Owned(i, 2, p.owner, p.signers) /\ Key(i, 1) = p.source /\ Key(i, 2) = p.delegate

RevokeForm(p, i) ==
    /\ p \in RevokeParams
    /\ Carries(i, p, "REVOKE", <<>>)
    /\ Owned(i, 1, p.owner, p.signers) /\ Key(i, 1) = p.account

SetAuthorityForm(p, i) ==
    /\ p \in SetAuthorityParams
    /\ Carries(i, p, "SET_AUTHORITY", AuthorityArgs(p))
    /\ Owned(i, 1, p.current_authority, p.signers) /\ Key(i, 1) = p.account

MintToForm(p, i) ==
    /\ p \in MintToParams /\ p.amount \in Int64ul
    /\ Carries(i, p, "MINT_TO", <<p.amount>>)
    /\ Owned(i, 2, p.mint_authority, p.signers) /\ Key(i, 1) = p.mint /\ Key(i, 2) = p.dest

BurnForm(p, i) ==
    /\ p \in BurnParams /\ p.amount \in Int64ul
    /\ Carries(i, p, "BURN", <<p.amount>>)
    /\ Owned(i, 2, p.owner, p.signers) /\ Key(i, 1) = p.account /\ Key(i, 2) = p.mint

CloseAccountForm(p, i) ==
    /\ p \in CloseAccountParams
    /\ Carries(i, p, "CLOSE_ACCOUNT", <<>>)
    /\ Owned(i, 2, p.owner, p.signers) /\ Key(i, 1) = p.account /\ Key(i, 2) = p.dest

FreezeAccountForm(p, i) ==
    /\ p \in FreezeAccountParams
    /\ Carries(i, p, "FREEZE_ACCOUNT", <<>>)
    /\ Owned(i, 2, p.authority, p.multi_signers) /\ Key(i, 1) = p.account /\ Key(i, 2) = p.mint

ThawAccountForm(p, i) ==
    /\ p \in ThawAccountParams
    /\ Carries(i, p, "THAW_ACCOUNT", <<>>)
    /\ Owned(i, 2, p.authority, p.multi_signers) /\ Key(i, 1) = p.account /\ Key(i, 2) = p.mint

TransferCheckedForm(p, i) ==
    /\ p \in TransferCheckedParams /\ p.amount \in Int64ul /\ p.decimals \in Int8ul
    /\ Carries(i, p, "TRANSFER2", <<p.amount, p.decimals>>)
    /\ Owned(i, 3, p.owner, p.signers) /\ Key(i, 1) = p.source /\ Key(i, 2) = p.mint
    /\ Key(i, 3) = p.dest

ApproveCheckedForm(p, i) ==
    /\ p \in ApproveCheckedParams /\ p.amount \in Int64ul /\ p.decimals \in Int8ul
    /\ Carries(i, p, "APPROVE2", <<p.amount, p.decimals>>)
    /\ Owned(i, 3, p.owner, p.signers) /\ Key(i, 1) = p.source /\ Key(i, 2) = p.mint
    /\ Key(i, 3) = p.delegate

MintToCheckedForm(p, i) ==
    /\ p \in MintToCheckedParams /\ p.amount \in Int64ul /\ p.decimals \in Int8ul
    /\ Carries(i, p, "MINT_TO2", <<p.amount, p.decimals>>)
    /\ Owned(i, 2, p.mint_authority, p.signers) /\ Key(i, 1) = p.mint /\ Key(i, 2) = p.dest

BurnCheckedForm(p, i) ==
    /\ p \in BurnCheckedParams /\ p.amount \in Int64ul /\ p.decimals \in Int8ul
    /\ Carries(i, p, "BURN2", <<p.amount, p.decimals>>)
    /\ Owned(i, 2, p.owner, p.signers) /\ Key(i, 1) = p.account /\ Key(i, 2) = p.mint

SyncNativeForm(p, i) ==
    /\ p \in SyncNativeParams
    /\ Carries(i, p, "SYNC_NATIVE", <<>>)
    /\ Fixed(i, 1) /\ Key(i, 1) = p.account

GetAccountDataSizeForm(p, i) ==
    /\ p \in GetAccountDataSizeParams
    /\ Carries(i, p, "GET_ACCOUNT_DATA_SIZE", <<>>)
    /\ Fixed(i, 1) /\ Key(i, 1) = p.mint

InitializeImmutableOwnerForm(p, i) ==
    /\ p \in InitializeImmutableOwnerParams
    /\ Carries(i, p, "INITIALIZE_IMMUTABLE_OWNER", <<>>)
    /\ Fixed(i, 1) /\ Key(i, 1) = p.account

InitializeTransferFeeConfigForm(p, i) ==
    /\ p \in InitializeTransferFeeConfigParams
    /\ p.transfer_fee_basis_points \in Int16ul /\ p.maximum_fee \in Int64ul
    /\ Carries(i, p, Fee, FeeConfigArgs(p))
    /\ Fixed(i, 1) /\ Key(i, 1) = p.mint

WithdrawWithheldTokensFromAccountsForm(p, i) ==
    /\ p \in WithdrawWithheldTokensFromAccountsParams /\ Len(p.sources) \in Int8ul
    /\ Carries(i, p, Fee, <<"WITHDRAW_WITHHELD_TOKENS_FROM_ACCOUNTS", Len(p.sources)>>)
    /\ Sourced(i, 2, p.authority, p.signers, p.sources) /\ Key(i, 1) = p.mint
    /\ Key(i, 2) = p.dest

WithdrawWithheldTokensFromMintForm(p, i) ==
    /\ p \in WithdrawWithheldTokensFromMintParams
    /\ Carries(i, p, Fee, <<"WITHDRAW_WITHHELD_TOKENS_FROM_MINT">>)
    /\ Owned(i, 2, p.authority, p.signers) /\ Key(i, 1) = p.mint /\ Key(i, 2) = p.dest

HarvestWithheldTokensToMintForm(p, i) ==
    /\ p \in HarvestWithheldTokensToMintParams
    /\ Carries(i, p, Fee, <<"HARVEST_WITHHELD_TOKENS_TO_MINT">>)
    /\ Listing(i, 1, p.sources) /\ Key(i, 1) = p.mint

AmountToUiAmountForm(p, i) ==
    /\ p \in AmountToUiAmountParams /\ p.amount \in Int64ul
    /\ Carries(i, p, "AMOUNT_TO_UI_AMOUNT", <<p.amount>>)
    /\ Fixed(i, 1) /\ Key(i, 1) = p.mint

UiAmountToAmountForm(p, i) ==
    /\ p \in UiAmountToAmountParams
    /\ Carries(i, p, "UI_AMOUNT_TO_AMOUNT", <<p.ui_amount>>)
    /\ Fixed(i, 1) /\ Key(i, 1) = p.mint

CreateAssociatedTokenAccountForm(p, i) ==
    /\ p \in AssociatedParams /\ p.token_program_id \in TokenPrograms
    /\ i = Instruction(ASSOCIATED_TOKEN_PROGRAM_ID, "empty", <<>>, i.accounts)
    /\ i.accounts = AssociatedAccounts(p) \o <<Readonly(RENT)>>

CreateIdempotentAssociatedTokenAccountForm(p, i) ==
    /\ p \in AssociatedParams /\ p.token_program_id \in TokenPrograms
    /\ i = Instruction(ASSOCIATED_TOKEN_PROGRAM_ID, "INITIALIZE_ACCOUNT", <<>>, i.accounts)
    /\ i.accounts = AssociatedAccounts(p)

CreateMemoForm(p, i) ==
    /\ p \in MemoParams
    /\ Carries(i, p, "MEMO", <<p.message>>)
    /\ i.accounts = <<Meta(p.signer, TRUE, TRUE)>>

WithdrawFromVoteAccountForm(p, i) ==
    /\ p \in WithdrawFromVoteAccountParams /\ p.lamports \in Int64ul
    /\ i = Instruction(VOTE_PROGRAM_ID, "WITHDRAW_FROM_VOTE_ACCOUNT", <<p.lamports>>, i.accounts)
    /\ i.accounts = <<Writable(p.vote_account_from_pubkey), Writable(p.to_pubkey),
                       Meta(p.withdrawer, TRUE, TRUE)>>

Formed(k, p, i) ==
    \/ k = "initialize_mint" /\ InitializeMintForm(p, i)
    \/ k = "initialize_mint2" /\ InitializeMint2Form(p, i)
    \/ k = "initialize_account" /\ InitializeAccountForm(p, i)
    \/ k = "initialize_account2" /\ InitializeAccount2Form(p, i)
    \/ k = "initialize_account3" /\ InitializeAccount3Form(p, i)
    \/ k = "initialize_multisig" /\ InitializeMultisigForm(p, i)
    \/ k = "initialize_multisig2" /\ InitializeMultisig2Form(p, i)
    \/ k = "transfer" /\ TransferForm(p, i)
    \/ k = "approve" /\ ApproveForm(p, i)
    \/ k = "revoke" /\ RevokeForm(p, i)
    \/ k = "set_authority" /\ SetAuthorityForm(p, i)
    \/ k = "mint_to" /\ MintToForm(p, i)
    \/ k = "burn" /\ BurnForm(p, i)
    \/ k = "close_account" /\ CloseAccountForm(p, i)
    \/ k = "freeze_account" /\ FreezeAccountForm(p, i)
    \/ k = "thaw_account" /\ ThawAccountForm(p, i)
    \/ k = "transfer_checked" /\ TransferCheckedForm(p, i)
    \/ k = "approve_checked" /\ ApproveCheckedForm(p, i)
    \/ k = "mint_to_checked" /\ MintToCheckedForm(p, i)
    \/ k = "burn_checked" /\ BurnCheckedForm(p, i)
    \/ k = "sync_native" /\ SyncNativeForm(p, i)
    \/ k = "get_account_data_size" /\ GetAccountDataSizeForm(p, i)
    \/ k = "initialize_immutable_owner" /\ InitializeImmutableOwnerForm(p, i)
    \/ k = "initialize_transfer_fee_config" /\ InitializeTransferFeeConfigForm(p, i)
    \/ /\ k = "withdraw_withheld_tokens_from_accounts"
       /\ WithdrawWithheldTokensFromAccountsForm(p, i)
    \/ k = "withdraw_withheld_tokens_from_mint" /\ WithdrawWithheldTokensFromMintForm(p, i)
    \/ k = "harvest_withheld_tokens_to_mint" /\ HarvestWithheldTokensToMintForm(p, i)
    \/ k = "amount_to_ui_amount" /\ AmountToUiAmountForm(p, i)
    \/ k = "ui_amount_to_amount" /\ UiAmountToAmountForm(p, i)
    \/ k = "create_associated_token_account" /\ CreateAssociatedTokenAccountForm(p, i)
    \/ /\ k = "create_idempotent_associated_token_account"
       /\ CreateIdempotentAssociatedTokenAccountForm(p, i)
    \/ k = "create_memo" /\ CreateMemoForm(p, i)
    \/ k = "withdraw_from_vote_account" /\ WithdrawFromVoteAccountForm(p, i)

Decoded(k, i, r) ==
    \/ k = "initialize_mint" /\ r = decode_initialize_mint(i)
    \/ k = "initialize_mint2" /\ r = decode_initialize_mint2(i)
    \/ k = "initialize_account" /\ r = decode_initialize_account(i)
    \/ k = "initialize_account2" /\ r = decode_initialize_account2(i)
    \/ k = "initialize_account3" /\ r = decode_initialize_account3(i)
    \/ k = "initialize_multisig" /\ r = decode_initialize_multisig(i)
    \/ k = "initialize_multisig2" /\ r = decode_initialize_multisig2(i)
    \/ k = "transfer" /\ r = decode_transfer(i)
    \/ k = "approve" /\ r = decode_approve(i)
    \/ k = "revoke" /\ r = decode_revoke(i)
    \/ k = "set_authority" /\ r = decode_set_authority(i)
    \/ k = "mint_to" /\ r = decode_mint_to(i)
    \/ k = "burn" /\ r = decode_burn(i)
    \/ k = "close_account" /\ r = decode_close_account(i)
    \/ k = "freeze_account" /\ r = decode_freeze_account(i)
    \/ k = "thaw_account" /\ r = decode_thaw_account(i)
    \/ k = "transfer_checked" /\ r = decode_transfer_checked(i)
    \/ k = "approve_checked" /\ r = decode_approve_checked(i)
    \/ k = "mint_to_checked" /\ r = decode_mint_to_checked(i)
    \/ k = "burn_checked" /\ r = decode_burn_checked(i)
    \/ k = "sync_native" /\ r = decode_sync_native(i)
    \/ k = "get_account_data_size" /\ r = decode_get_account_data_size(i)
    \/ k = "initialize_immutable_owner" /\ r = decode_initialize_immutable_owner(i)
    \/ k = "initialize_transfer_fee_config" /\ r = decode_initialize_transfer_fee_config(i)
    \/ k = "withdraw_withheld_tokens_from_accounts"
       /\ r = decode_withdraw_withheld_tokens_from_accounts(i)
    \/ /\ k = "withdraw_withheld_tokens_from_mint"
       /\ r = decode_withdraw_withheld_tokens_from_mint(i)
    \/ k = "harvest_withheld_tokens_to_mint" /\ r = decode_harvest_withheld_tokens_to_mint(i)
    \/ k = "amount_to_ui_amount" /\ r = decode_amount_to_ui_amount(i)
    \/ k = "ui_amount_to_amount" /\ r = decode_ui_amount_to_amount(i)
    \/ k = "create_memo" /\ r = decode_create_memo(i)
(* The encoders of fixed accounts.                                         *)
LEMMA FixedForms ==
    ASSUME NEW p, NEW i, i # BuildError
    PROVE  /\ p \in InitializeMintParams /\ i = initialize_mint(p) => InitializeMintForm(p, i)
           /\ p \in InitializeMint2Params /\ i = initialize_mint2(p)
                => InitializeMint2Form(p, i)
           /\ p \in InitializeAccountParams /\ i = initialize_account(p)
                => InitializeAccountForm(p, i)
           /\ p \in InitializeAccount2Params /\ i = initialize_account2(p)
                => InitializeAccount2Form(p, i)
           /\ p \in InitializeAccount3Params /\ i = initialize_account3(p)
                => InitializeAccount3Form(p, i)
           /\ p \in SyncNativeParams /\ i = sync_native(p) => SyncNativeForm(p, i)
           /\ p \in GetAccountDataSizeParams /\ i = get_account_data_size(p)
                => GetAccountDataSizeForm(p, i)
           /\ p \in InitializeImmutableOwnerParams /\ i = initialize_immutable_owner(p)
                => InitializeImmutableOwnerForm(p, i)
           /\ p \in InitializeTransferFeeConfigParams /\ i = initialize_transfer_fee_config(p)
              => InitializeTransferFeeConfigForm(p, i)
           /\ p \in AmountToUiAmountParams /\ i = amount_to_ui_amount(p)
                => AmountToUiAmountForm(p, i)
           /\ p \in UiAmountToAmountParams /\ i = ui_amount_to_amount(p)
                => UiAmountToAmountForm(p, i)
<1> USE DEF Build, BuildError, Instruction
<1>1. ASSUME p \in InitializeMintParams, i = initialize_mint(p) PROVE InitializeMintForm(p, i)
  <2>1. /\ Carries(i, p, "INITIALIZE_MINT", MintArgs(p)) /\ p.decimals \in Int8ul
        /\ i.accounts = <<Writable(p.mint), Readonly(RENT)>>
    BY <1>1 DEF initialize_mint, MintArgs, Carries
  <2>2. p.mint \in AnyKey /\ RENT \in AnyKey
    BY <1>1 DEF InitializeMintParams, AnyKey
  <2>3. Fixed(i, 2) /\ Key(i, 1) = p.mint
    BY <2>1, <2>2, MetasAre DEF Fixed, Key
  <2>4. QED BY <1>1, <2>1, <2>3 DEF InitializeMintForm
<1>2. ASSUME p \in InitializeMint2Params, i = initialize_mint2(p)
      PROVE  InitializeMint2Form(p, i)
  <2>1. /\ Carries(i, p, "INITIALIZE_MINT2", MintArgs(p)) /\ p.decimals \in Int8ul
        /\ i.accounts = <<Writable(p.mint)>>
    BY <1>2 DEF initialize_mint2, MintArgs, Carries
  <2>2. p.mint \in AnyKey /\ RENT \in AnyKey
    BY <1>2 DEF InitializeMint2Params, AnyKey, InitializeMintParams
  <2>3. Fixed(i, 1) /\ Key(i, 1) = p.mint
    BY <2>1, <2>2, MetasAre DEF Fixed, Key
  <2>4. QED BY <1>2, <2>1, <2>3 DEF InitializeMint2Form
<1>3. ASSUME p \in InitializeAccountParams, i = initialize_account(p)
      PROVE  InitializeAccountForm(p, i)
  <2>1. /\ Carries(i, p, "INITIALIZE_ACCOUNT", <<>>)
        /\ i.accounts = <<Writable(p.account), Readonly(p.mint), Readonly(p.owner), Readonly(RENT)>>
    BY <1>3 DEF initialize_account, Carries
  <2>2. p.account \in AnyKey /\ p.mint \in AnyKey /\ p.owner \in AnyKey /\ RENT \in AnyKey
    BY <1>3 DEF InitializeAccountParams, AnyKey
  <2>3. Fixed(i, 4) /\ Key(i, 1) = p.account /\ Key(i, 2) = p.mint /\ Key(i, 3) = p.owner
    BY <2>1, <2>2, MetasAre DEF Fixed, Key
  <2>4. QED BY <1>3, <2>1, <2>3 DEF InitializeAccountForm
<1>4. ASSUME p \in InitializeAccount2Params, i = initialize_account2(p)
      PROVE  InitializeAccount2Form(p, i)
  <2>1. /\ Carries(i, p, "INITIALIZE_ACCOUNT2", <<p.owner>>)
        /\ i.accounts = <<Writable(p.account), Readonly(p.mint), Readonly(RENT)>>
    BY <1>4 DEF initialize_account2, Carries
  <2>2. p.account \in AnyKey /\ p.mint \in AnyKey /\ RENT \in AnyKey
    BY <1>4 DEF InitializeAccount2Params, AnyKey, InitializeAccountParams
  <2>3. Fixed(i, 3) /\ Key(i, 1) = p.account /\ Key(i, 2) = p.mint
    BY <2>1, <2>2, MetasAre DEF Fixed, Key
  <2>4. QED BY <1>4, <2>1, <2>3 DEF InitializeAccount2Form
<1>5. ASSUME p \in InitializeAccount3Params, i = initialize_account3(p)
      PROVE  InitializeAccount3Form(p, i)
  <2>1. /\ Carries(i, p, "INITIALIZE_ACCOUNT3", <<p.owner>>)
        /\ i.accounts = <<Writable(p.account), Readonly(p.mint)>>
    BY <1>5 DEF initialize_account3, Carries
  <2>2. p.account \in AnyKey /\ p.mint \in AnyKey /\ RENT \in AnyKey
    BY <1>5 DEF InitializeAccount3Params, AnyKey, InitializeAccountParams
  <2>3. Fixed(i, 2) /\ Key(i, 1) = p.account /\ Key(i, 2) = p.mint
    BY <2>1, <2>2, MetasAre DEF Fixed, Key
  <2>4. QED BY <1>5, <2>1, <2>3 DEF InitializeAccount3Form
<1>6. ASSUME p \in SyncNativeParams, i = sync_native(p) PROVE SyncNativeForm(p, i)
  <2>1. /\ Carries(i, p, "SYNC_NATIVE", <<>>)
        /\ i.accounts = <<Writable(p.account)>>
    BY <1>6 DEF sync_native, Carries
  <2>2. p.account \in AnyKey /\ RENT \in AnyKey
    BY <1>6 DEF SyncNativeParams, AnyKey
  <2>3. Fixed(i, 1) /\ Key(i, 1) = p.account
    BY <2>1, <2>2, MetasAre DEF Fixed, Key
  <2>4. QED BY <1>6, <2>1, <2>3 DEF SyncNativeForm
<1>7. ASSUME p \in GetAccountDataSizeParams, i = get_account_data_size(p)
      PROVE  GetAccountDataSizeForm(p, i)
  <2>1. /\ Carries(i, p, "GET_ACCOUNT_DATA_SIZE", <<>>)
        /\ i.accounts = <<Readonly(p.mint)>>
    BY <1>7 DEF get_account_data_size, Carries
  <2>2. p.mint \in AnyKey /\ RENT \in AnyKey
    BY <1>7 DEF GetAccountDataSizeParams, AnyKey
  <2>3. Fixed(i, 1) /\ Key(i, 1) = p.mint
    BY <2>1, <2>2, MetasAre DEF Fixed, Key
  <2>4. QED BY <1>7, <2>1, <2>3 DEF GetAccountDataSizeForm
<1>8. ASSUME p \in InitializeImmutableOwnerParams, i = initialize_immutable_owner(p)
      PROVE  InitializeImmutableOwnerForm(p, i)
  <2>1. /\ Carries(i, p, "INITIALIZE_IMMUTABLE_OWNER", <<>>)
        /\ i.accounts = <<Writable(p.account)>>
    BY <1>8 DEF initialize_immutable_owner, Carries
  <2>2. p.account \in AnyKey /\ RENT \in AnyKey
    BY <1>8 DEF InitializeImmutableOwnerParams, AnyKey
  <2>3. Fixed(i, 1) /\ Key(i, 1) = p.account
    BY <2>1, <2>2, MetasAre DEF Fixed, Key
  <2>4. QED BY <1>8, <2>1, <2>3 DEF InitializeImmutableOwnerForm
<1>9. ASSUME p \in InitializeTransferFeeConfigParams, i = initialize_transfer_fee_config(p)
      PROVE  InitializeTransferFeeConfigForm(p, i)
  <2>1. /\ Carries(i, p, Fee, FeeConfigArgs(p)) /\ p.transfer_fee_basis_points \in Int16ul
        /\ p.maximum_fee \in Int64ul
        /\ i.accounts = <<Writable(p.mint)>>
    BY <1>9 DEF initialize_transfer_fee_config, FeeConfigArgs, Carries
  <2>2. p.mint \in AnyKey /\ RENT \in AnyKey
    BY <1>9 DEF InitializeTransferFeeConfigParams, AnyKey
  <2>3. Fixed(i, 1) /\ Key(i, 1) = p.mint
    BY <2>1, <2>2, MetasAre DEF Fixed, Key
  <2>4. QED BY <1>9, <2>1, <2>3 DEF InitializeTransferFeeConfigForm
<1>10. ASSUME p \in AmountToUiAmountParams, i = amount_to_ui_amount(p)
       PROVE  AmountToUiAmountForm(p, i)
  <2>1. /\ Carries(i, p, "AMOUNT_TO_UI_AMOUNT", <<p.amount>>) /\ p.amount \in Int64ul
        /\ i.accounts = <<Readonly(p.mint)>>
    BY <1>10 DEF amount_to_ui_amount, Carries
  <2>2. p.mint \in AnyKey /\ RENT \in AnyKey
    BY <1>10 DEF AmountToUiAmountParams, AnyKey
  <2>3. Fixed(i, 1) /\ Key(i, 1) = p.mint
    BY <2>1, <2>2, MetasAre DEF Fixed, Key
  <2>4. QED BY <1>10, <2>1, <2>3 DEF AmountToUiAmountForm
<1>11. ASSUME p \in UiAmountToAmountParams, i = ui_amount_to_amount(p)
       PROVE  UiAmountToAmountForm(p, i)
  <2>1. /\ Carries(i, p, "UI_AMOUNT_TO_AMOUNT", <<p.ui_amount>>)
        /\ i.accounts = <<Readonly(p.mint)>>
    BY <1>11 DEF ui_amount_to_amount, Carries
  <2>2. p.mint \in AnyKey /\ RENT \in AnyKey
    BY <1>11 DEF UiAmountToAmountParams, AnyKey
  <2>3. Fixed(i, 1) /\ Key(i, 1) = p.mint
    BY <2>1, <2>2, MetasAre DEF Fixed, Key
  <2>4. QED BY <1>11, <2>1, <2>3 DEF UiAmountToAmountForm
<1>12. QED BY <1>1, <1>2, <1>3, <1>4, <1>5, <1>6, <1>7, <1>8, <1>9, <1>10, <1>11

(* The encoders of lists without an owner, and of withheld fees.           *)
LEMMA ListForms ==
    ASSUME NEW p, NEW i, i # BuildError
    PROVE  /\ p \in InitializeMultisigParams /\ i = initialize_multisig(p)
                => InitializeMultisigForm(p, i)
           /\ p \in InitializeMultisig2Params /\ i = initialize_multisig2(p)
                => InitializeMultisig2Form(p, i)
           /\ p \in WithdrawWithheldTokensFromAccountsParams /\ i = withdraw_withheld_tokens_from_accounts(p)
              => WithdrawWithheldTokensFromAccountsForm(p, i)
           /\ p \in HarvestWithheldTokensToMintParams /\ i = harvest_withheld_tokens_to_mint(p)
              => HarvestWithheldTokensToMintForm(p, i)
<1> USE DEF Build, BuildError, Instruction
<1>1. ASSUME p \in InitializeMultisigParams, i = initialize_multisig(p)
      PROVE  InitializeMultisigForm(p, i)
  <2>1. /\ Carries(i, p, "INITIALIZE_MULTISIG", <<p.m>>) /\ p.m \in Int8ul
        /\ i.accounts = <<Writable(p.multisig), Readonly(RENT)>> \o ReadonlyAll(p.signers)
    BY <1>1 DEF initialize_multisig, Carries
  <2>2. /\ Writable(p.multisig) \in Plain /\ Readonly(RENT) \in Plain
        /\ Writable(p.multisig).pubkey = p.multisig
        /\ p.signers \in Lists
    BY <1>1, MetasAre DEF InitializeMultisigParams, AnyKey
  <2>3. Listing(i, 2, p.signers) /\ Key(i, 1) = p.multisig
    BY <2>1, <2>2, Listing2
  <2>4. QED BY <1>1, <2>1, <2>3 DEF InitializeMultisigForm
<1>2. ASSUME p \in InitializeMultisig2Params, i = initialize_multisig2(p)
      PROVE  InitializeMultisig2Form(p, i)
  <2>1. /\ Carries(i, p, "INITIALIZE_MULTISIG2", <<p.m>>) /\ p.m \in Int8ul
        /\ i.accounts = <<Writable(p.multisig)>> \o ReadonlyAll(p.signers)
    BY <1>2 DEF initialize_multisig2, Carries
  <2>2. /\ Writable(p.multisig) \in Plain
        /\ Writable(p.multisig).pubkey = p.multisig
        /\ p.signers \in Lists
    BY <1>2, MetasAre DEF InitializeMultisig2Params, InitializeMultisigParams, AnyKey
  <2>3. Listing(i, 1, p.signers) /\ Key(i, 1) = p.multisig
    BY <2>1, <2>2, Listing1
  <2>4. QED BY <1>2, <2>1, <2>3 DEF InitializeMultisig2Form
<1>3. ASSUME p \in WithdrawWithheldTokensFromAccountsParams,
             i = withdraw_withheld_tokens_from_accounts(p)
      PROVE  WithdrawWithheldTokensFromAccountsForm(p, i)
  <2>1. /\ Carries(i, p, Fee, <<"WITHDRAW_WITHHELD_TOKENS_FROM_ACCOUNTS", Len(p.sources)>>)
        /\ Len(p.sources) \in Int8ul
        /\ i.accounts =
             add_signers(<<Readonly(p.mint), Writable(p.dest)>>, p.authority, p.signers)
                 \o WritableAll(p.sources)
    BY <1>3 DEF withdraw_withheld_tokens_from_accounts, Carries
  <2>2. /\ Readonly(p.mint) \in Plain /\ Writable(p.dest) \in Plain
        /\ Readonly(p.mint).pubkey = p.mint /\ Writable(p.dest).pubkey = p.dest
        /\ p.authority \in Pubkeys /\ p.signers \in Lists /\ p.sources \in Lists
    BY <1>3, MetasAre DEF WithdrawWithheldTokensFromAccountsParams, AnyKey
  <2>3. /\ Sourced(i, 2, p.authority, p.signers, p.sources) /\ Key(i, 1) = p.mint
        /\ Key(i, 2) = p.dest
    <3> DEFINE m1 == Readonly(p.mint)
               m2 == Writable(p.dest)
               o == p.authority
               l == p.signers
               w == p.sources
    <3>1. /\ m1 \in Plain /\ m2 \in Plain /\ m1.pubkey = p.mint /\ m2.pubkey = p.dest
          /\ o \in Pubkeys /\ l \in Lists /\ w \in Lists
          /\ i.accounts = add_signers(<<m1, m2>>, o, l) \o WritableAll(w)
      BY <2>1, <2>2
    <3> HIDE DEF m1, m2, o, l, w
    <3>2. Sourced(i, 2, o, l, w) /\ Key(i, 1) = m1.pubkey /\ Key(i, 2) = m2.pubkey
      BY <3>1, Sourced2, ZenonT(40)
    <3>3. QED BY <3>1, <3>2 DEF o, l, w
  <2>4. QED BY <1>3, <2>1, <2>3 DEF WithdrawWithheldTokensFromAccountsForm
<1>4. ASSUME p \in HarvestWithheldTokensToMintParams, i = harvest_withheld_tokens_to_mint(p)
      PROVE  HarvestWithheldTokensToMintForm(p, i)
  <2>1. /\ Carries(i, p, Fee, <<"HARVEST_WITHHELD_TOKENS_TO_MINT">>)
        /\ i.accounts = <<Writable(p.mint)>> \o WritableAll(p.sources)
    BY <1>4 DEF harvest_withheld_tokens_to_mint, Carries
  <2>2. /\ Writable(p.mint) \in Plain
        /\ Writable(p.mint).pubkey = p.mint
        /\ p.sources \in Lists
    BY <1>4, MetasAre DEF HarvestWithheldTokensToMintParams, AnyKey
  <2>3. Listing(i, 1, p.sources) /\ Key(i, 1) = p.mint
    BY <2>1, <2>2, Listing1
  <2>4. QED BY <1>4, <2>1, <2>3 DEF HarvestWithheldTokensToMintForm
<1>5. QED BY <1>1, <1>2, <1>3, <1>4

(* The encoders of an owner with signers.                                  *)
LEMMA OwnedForms ==
    ASSUME NEW p, NEW i, i # BuildError
    PROVE  /\ p \in TransferParams /\ i = transfer(p) => TransferForm(p, i)
           /\ p \in ApproveParams /\ i = approve(p) => ApproveForm(p, i)
           /\ p \in RevokeParams /\ i = revoke(p) => RevokeForm(p, i)
           /\ p \in SetAuthorityParams /\ i = set_authority(p) => SetAuthorityForm(p, i)
           /\ p \in MintToParams /\ i = mint_to(p) => MintToForm(p, i)
           /\ p \in BurnParams /\ i = burn(p) => BurnForm(p, i)
           /\ p \in CloseAccountParams /\ i = close_account(p) => CloseAccountForm(p, i)
           /\ p \in FreezeAccountParams /\ i = freeze_account(p) => FreezeAccountForm(p, i)
           /\ p \in ThawAccountParams /\ i = thaw_account(p) => ThawAccountForm(p, i)
           /\ p \in TransferCheckedParams /\ i = transfer_checked(p)
                => TransferCheckedForm(p, i)
           /\ p \in ApproveCheckedParams /\ i = approve_checked(p) => ApproveCheckedForm(p, i)
           /\ p \in MintToCheckedParams /\ i = mint_to_checked(p) => MintToCheckedForm(p, i)
           /\ p \in BurnCheckedParams /\ i = burn_checked(p) => BurnCheckedForm(p, i)
           /\ p \in WithdrawWithheldTokensFromMintParams /\ i = withdraw_withheld_tokens_from_mint(p)
              => WithdrawWithheldTokensFromMintForm(p, i)
<1> USE DEF Build, BuildError, Instruction
<1>1. ASSUME p \in TransferParams, i = transfer(p) PROVE TransferForm(p, i)
  <2>1. /\ Carries(i, p, "TRANSFER", <<p.amount>>) /\ p.amount \in Int64ul
        /\ i.accounts =
             add_signers(<<Writable(p.source), Writable(p.dest)>>, p.owner, p.signers)
    BY <1>1 DEF transfer, Carries
  <2>2. /\ Writable(p.source) \in Plain /\ Writable(p.dest) \in Plain
        /\ Writable(p.source).pubkey = p.source /\ Writable(p.dest).pubkey = p.dest
        /\ p.owner \in Pubkeys /\ p.signers \in Lists
    BY <1>1, MetasAre DEF TransferParams, AnyKey
  <2>3. Owned(i, 2, p.owner, p.signers) /\ Key(i, 1) = p.source /\ Key(i, 2) = p.dest
    BY <2>1, <2>2, Owned2
  <2>4. QED BY <1>1, <2>1, <2>3 DEF TransferForm
<1>2. ASSUME p \in ApproveParams, i = approve(p) PROVE ApproveForm(p, i)
  <2>1. /\ Carries(i, p, "APPROVE", <<p.amount>>) /\ p.amount \in Int64ul
        /\ i.accounts =
             add_signers(<<Writable(p.source), Readonly(p.delegate)>>, p.owner, p.signers)
    BY <1>2 DEF approve, Carries
  <2>2. /\ Writable(p.source) \in Plain /\ Readonly(p.delegate) \in Plain
        /\ Writable(p.source).pubkey = p.source /\ Readonly(p.delegate).pubkey = p.delegate
        /\ p.owner \in Pubkeys /\ p.signers \in Lists
    BY <1>2, MetasAre DEF ApproveParams, AnyKey
  <2>3. Owned(i, 2, p.owner, p.signers) /\ Key(i, 1) = p.source /\ Key(i, 2) = p.delegate
    BY <2>1, <2>2, Owned2
  <2>4. QED BY <1>2, <2>1, <2>3 DEF ApproveForm
<1>3. ASSUME p \in RevokeParams, i = revoke(p) PROVE RevokeForm(p, i)
  <2>1. /\ Carries(i, p, "REVOKE", <<>>)
        /\ i.accounts = add_signers(<<Writable(p.account)>>, p.owner, p.signers)
    BY <1>3 DEF revoke, Carries
  <2>2. /\ Writable(p.account) \in Plain
        /\ Writable(p.account).pubkey = p.account
        /\ p.owner \in Pubkeys /\ p.signers \in Lists
    BY <1>3, MetasAre DEF RevokeParams, AnyKey
  <2>3. Owned(i, 1, p.owner, p.signers) /\ Key(i, 1) = p.account
    BY <2>1, <2>2, Owned1
  <2>4. QED BY <1>3, <2>1, <2>3 DEF RevokeForm
<1>4. ASSUME p \in SetAuthorityParams, i = set_authority(p) PROVE SetAuthorityForm(p, i)
  <2>1. /\ Carries(i, p, "SET_AUTHORITY", AuthorityArgs(p))
        /\ i.accounts = add_signers(<<Writable(p.account)>>, p.current_authority, p.signers)
    BY <1>4 DEF set_authority, AuthorityArgs, Carries
  <2>2. /\ Writable(p.account) \in Plain
        /\ Writable(p.account).pubkey = p.account
        /\ p.current_authority \in Pubkeys /\ p.signers \in Lists
    BY <1>4, MetasAre DEF SetAuthorityParams, AnyKey
  <2>3. Owned(i, 1, p.current_authority, p.signers) /\ Key(i, 1) = p.account
    BY <2>1, <2>2, Owned1
  <2>4. QED BY <1>4, <2>1, <2>3 DEF SetAuthorityForm
<1>5. ASSUME p \in MintToParams, i = mint_to(p) PROVE MintToForm(p, i)
  <2>1. /\ Carries(i, p, "MINT_TO", <<p.amount>>) /\ p.amount \in Int64ul
        /\ i.accounts =
             add_signers(<<Writable(p.mint), Writable(p.dest)>>, p.mint_authority, p.signers)
    BY <1>5 DEF mint_to, mint_to_instruction, Carries
  <2>2. /\ Writable(p.mint) \in Plain /\ Writable(p.dest) \in Plain
        /\ Writable(p.mint).pubkey = p.mint /\ Writable(p.dest).pubkey = p.dest
        /\ p.mint_authority \in Pubkeys /\ p.signers \in Lists
    BY <1>5, MetasAre DEF MintToParams, AnyKey
  <2>3. Owned(i, 2, p.mint_authority, p.signers) /\ Key(i, 1) = p.mint /\ Key(i, 2) = p.dest
    BY <2>1, <2>2, Owned2
  <2>4. QED BY <1>5, <2>1, <2>3 DEF MintToForm
<1>6. ASSUME p \in BurnParams, i = burn(p) PROVE BurnForm(p, i)
  <2>1. /\ Carries(i, p, "BURN", <<p.amount>>) /\ p.amount \in Int64ul
        /\ i.accounts =
             add_signers(<<Writable(p.account), Writable(p.mint)>>, p.owner, p.signers)
    BY <1>6 DEF burn, burn_instruction, Carries
  <2>2. /\ Writable(p.account) \in Plain /\ Writable(p.mint) \in Plain
        /\ Writable(p.account).pubkey = p.account /\ Writable(p.mint).pubkey = p.mint
        /\ p.owner \in Pubkeys /\ p.signers \in Lists
    BY <1>6, MetasAre DEF BurnParams, AnyKey
  <2>3. Owned(i, 2, p.owner, p.signers) /\ Key(i, 1) = p.account /\ Key(i, 2) = p.mint
    BY <2>1, <2>2, Owned2
  <2>4. QED BY <1>6, <2>1, <2>3 DEF BurnForm
<1>7. ASSUME p \in CloseAccountParams, i = close_account(p) PROVE CloseAccountForm(p, i)
  <2>1. /\ Carries(i, p, "CLOSE_ACCOUNT", <<>>)
        /\ i.accounts =
             add_signers(<<Writable(p.account), Writable(p.dest)>>, p.owner, p.signers)
    BY <1>7 DEF close_account, Carries
  <2>2. /\ Writable(p.account) \in Plain /\ Writable(p.dest) \in Plain
        /\ Writable(p.account).pubkey = p.account /\ Writable(p.dest).pubkey = p.dest
        /\ p.owner \in Pubkeys /\ p.signers \in Lists
    BY <1>7, MetasAre DEF CloseAccountParams, AnyKey
  <2>3. Owned(i, 2, p.owner, p.signers) /\ Key(i, 1) = p.account /\ Key(i, 2) = p.dest
    BY <2>1, <2>2, Owned2
  <2>4. QED BY <1>7, <2>1, <2>3 DEF CloseAccountForm
<1>8. ASSUME p \in FreezeAccountParams, i = freeze_account(p) PROVE FreezeAccountForm(p, i)
  <2>1. /\ Carries(i, p, "FREEZE_ACCOUNT", <<>>)
        /\ i.accounts =
             add_signers(<<Writable(p.account), Readonly(p.mint)>>, p.authority, p.multi_signers)
    BY <1>8 DEF freeze_account, freeze_or_thaw_instruction, Carries
  <2>2. /\ Writable(p.account) \in Plain /\ Readonly(p.mint) \in Plain
        /\ Writable(p.account).pubkey = p.account /\ Readonly(p.mint).pubkey = p.mint
        /\ p.authority \in Pubkeys /\ p.multi_signers \in Lists
    BY <1>8, MetasAre DEF FreezeAccountParams, AnyKey
  <2>3. Owned(i, 2, p.authority, p.multi_signers) /\ Key(i, 1) = p.account /\ Key(i, 2) = p.mint
    BY <2>1, <2>2, Owned2
  <2>4. QED BY <1>8, <2>1, <2>3 DEF FreezeAccountForm
<1>9. ASSUME p \in ThawAccountParams, i = thaw_account(p) PROVE ThawAccountForm(p, i)
  <2>1. /\ Carries(i, p, "THAW_ACCOUNT", <<>>)
        /\ i.accounts =
             add_signers(<<Writable(p.account), Readonly(p.mint)>>, p.authority, p.multi_signers)
    BY <1>9 DEF thaw_account, freeze_or_thaw_instruction, Carries
  <2>2. /\ Writable(p.account) \in Plain /\ Readonly(p.mint) \in Plain
        /\ Writable(p.account).pubkey = p.account /\ Readonly(p.mint).pubkey = p.mint
        /\ p.authority \in Pubkeys /\ p.multi_signers \in Lists
    BY <1>9, MetasAre DEF ThawAccountParams, FreezeAccountParams, AnyKey
  <2>3. Owned(i, 2, p.authority, p.multi_signers) /\ Key(i, 1) = p.account /\ Key(i, 2) = p.mint
    BY <2>1, <2>2, Owned2
  <2>4. QED BY <1>9, <2>1, <2>3 DEF ThawAccountForm
<1>10. ASSUME p \in TransferCheckedParams, i = transfer_checked(p)
       PROVE  TransferCheckedForm(p, i)
  <2>1. /\ Carries(i, p, "TRANSFER2", <<p.amount, p.decimals>>) /\ p.amount \in Int64ul
        /\ p.decimals \in Int8ul
        /\ i.accounts =
             add_signers(<<Writable(p.source), Readonly(p.mint), Writable(p.dest)>>, p.owner, p.signers)
    BY <1>10 DEF transfer_checked, CheckedFits, Carries
  <2>2. /\ Writable(p.source) \in Plain /\ Readonly(p.mint) \in Plain
        /\ Writable(p.dest) \in Plain
        /\ Writable(p.source).pubkey = p.source /\ Readonly(p.mint).pubkey = p.mint
        /\ Writable(p.dest).pubkey = p.dest
        /\ p.owner \in Pubkeys /\ p.signers \in Lists
    BY <1>10, MetasAre DEF TransferCheckedParams, AnyKey
  <2>3. /\ Owned(i, 3, p.owner, p.signers) /\ Key(i, 1) = p.source /\ Key(i, 2) = p.mint
        /\ Key(i, 3) = p.dest
    BY <2>1, <2>2, Owned3
  <2>4. QED BY <1>10, <2>1, <2>3 DEF TransferCheckedForm
<1>11. ASSUME p \in ApproveCheckedParams, i = approve_checked(p) PROVE ApproveCheckedForm(p, i)
  <2>1. /\ Carries(i, p, "APPROVE2", <<p.amount, p.decimals>>) /\ p.amount \in Int64ul
        /\ p.decimals \in Int8ul
        /\ i.accounts =
             add_signers(<<Writable(p.source), Readonly(p.mint), Readonly(p.delegate)>>, p.owner, p.signers)
    BY <1>11 DEF approve_checked, CheckedFits, Carries
  <2>2. /\ Writable(p.source) \in Plain /\ Readonly(p.mint) \in Plain
        /\ Readonly(p.delegate) \in Plain
        /\ Writable(p.source).pubkey = p.source /\ Readonly(p.mint).pubkey = p.mint
        /\ Readonly(p.delegate).pubkey = p.delegate
        /\ p.owner \in Pubkeys /\ p.signers \in Lists
    BY <1>11, MetasAre DEF ApproveCheckedParams, AnyKey
  <2>3. /\ Owned(i, 3, p.owner, p.signers) /\ Key(i, 1) = p.source /\ Key(i, 2) = p.mint
        /\ Key(i, 3) = p.delegate
    BY <2>1, <2>2, Owned3
  <2>4. QED BY <1>11, <2>1, <2>3 DEF ApproveCheckedForm
<1>12. ASSUME p \in MintToCheckedParams, i = mint_to_checked(p) PROVE MintToCheckedForm(p, i)
  <2>1. /\ Carries(i, p, "MINT_TO2", <<p.amount, p.decimals>>) /\ p.amount \in Int64ul
        /\ p.decimals \in Int8ul
        /\ i.accounts =
             add_signers(<<Writable(p.mint), Writable(p.dest)>>, p.mint_authority, p.signers)
    BY <1>12 DEF mint_to_checked, mint_to_instruction, CheckedFits, Carries
  <2>2. /\ Writable(p.mint) \in Plain /\ Writable(p.dest) \in Plain
        /\ Writable(p.mint).pubkey = p.mint /\ Writable(p.dest).pubkey = p.dest
        /\ p.mint_authority \in Pubkeys /\ p.signers \in Lists
    BY <1>12, MetasAre DEF MintToCheckedParams, AnyKey
  <2>3. Owned(i, 2, p.mint_authority, p.signers) /\ Key(i, 1) = p.mint /\ Key(i, 2) = p.dest
    BY <2>1, <2>2, Owned2
  <2>4. QED BY <1>12, <2>1, <2>3 DEF MintToCheckedForm
<1>13. ASSUME p \in BurnCheckedParams, i = burn_checked(p) PROVE BurnCheckedForm(p, i)
  <2>1. /\ Carries(i, p, "BURN2", <<p.amount, p.decimals>>) /\ p.amount \in Int64ul
        /\ p.decimals \in Int8ul
        /\ i.accounts =
             add_signers(<<Writable(p.account), Writable(p.mint)>>, p.owner, p.signers)
    BY <1>13 DEF burn_checked, burn_instruction, CheckedFits, Carries
  <2>2. /\ Writable(p.account) \in Plain /\ Writable(p.mint) \in Plain
        /\ Writable(p.account).pubkey = p.account /\ Writable(p.mint).pubkey = p.mint
        /\ p.owner \in Pubkeys /\ p.signers \in Lists
    BY <1>13, MetasAre DEF BurnCheckedParams, AnyKey
  <2>3. Owned(i, 2, p.owner, p.signers) /\ Key(i, 1) = p.account /\ Key(i, 2) = p.mint
    BY <2>1, <2>2, Owned2
  <2>4. QED BY <1>13, <2>1, <2>3 DEF BurnCheckedForm
<1>14. ASSUME p \in WithdrawWithheldTokensFromMintParams,
              i = withdraw_withheld_tokens_from_mint(p)
       PROVE  WithdrawWithheldTokensFromMintForm(p, i)
  <2>1. /\ Carries(i, p, Fee, <<"WITHDRAW_WITHHELD_TOKENS_FROM_MINT">>)
        /\ i.accounts =
             add_signers(<<Writable(p.mint), Writable(p.dest)>>, p.authority, p.signers)
    BY <1>14 DEF withdraw_withheld_tokens_from_mint, Carries
  <2>2. /\ Writable(p.mint) \in Plain /\ Writable(p.dest) \in Plain
        /\ Writable(p.mint).pubkey = p.mint /\ Writable(p.dest).pubkey = p.dest
        /\ p.authority \in Pubkeys /\ p.signers \in Lists
    BY <1>14, MetasAre DEF WithdrawWithheldTokensFromMintParams, AnyKey
  <2>3. Owned(i, 2, p.authority, p.signers) /\ Key(i, 1) = p.mint /\ Key(i, 2) = p.dest
    BY <2>1, <2>2, Owned2
  <2>4. QED BY <1>14, <2>1, <2>3 DEF WithdrawWithheldTokensFromMintForm
<1>15. QED BY <1>1, <1>2, <1>3, <1>4, <1>5, <1>6, <1>7, <1>8, <1>9, <1>10, <1>11, <1>12, <1>13,
              <1>14

(* The encoders of the other programs.                                      *)
LEMMA OtherForms ==
    ASSUME NEW p, NEW i, i # BuildError
    PROVE  /\ p \in AssociatedParams /\ i = create_associated_token_account(p)
              => CreateAssociatedTokenAccountForm(p, i)
           /\ p \in AssociatedParams /\ i = create_idempotent_associated_token_account(p)
              => CreateIdempotentAssociatedTokenAccountForm(p, i)
           /\ p \in MemoParams /\ i = create_memo(p) => CreateMemoForm(p, i)
           /\ p \in WithdrawFromVoteAccountParams /\ i = withdraw_from_vote_account(p)
                => WithdrawFromVoteAccountForm(p, i)
<1> USE DEF Build, BuildError, Instruction
<1>1. ASSUME p \in AssociatedParams, i = create_associated_token_account(p)
      PROVE  CreateAssociatedTokenAccountForm(p, i)
  BY <1>1 DEF CreateAssociatedTokenAccountForm, create_associated_token_account
<1>2. ASSUME p \in AssociatedParams, i = create_idempotent_associated_token_account(p)
      PROVE  CreateIdempotentAssociatedTokenAccountForm(p, i)
  BY <1>2 DEF CreateIdempotentAssociatedTokenAccountForm,
     create_idempotent_associated_token_account
<1>3. ASSUME p \in MemoParams, i = create_memo(p) PROVE CreateMemoForm(p, i)
  BY <1>3 DEF CreateMemoForm, create_memo, Carries
<1>4. ASSUME p \in WithdrawFromVoteAccountParams, i = withdraw_from_vote_account(p)
      PROVE  WithdrawFromVoteAccountForm(p, i)
  BY <1>4 DEF WithdrawFromVoteAccountForm, withdraw_from_vote_account
<1>5. QED BY <1>1, <1>2, <1>3, <1>4
(* Every instruction that was encoded has the form of its kind.            *)
LEMMA Forming ==
    ASSUME EncodeStep
    PROVE  /\ pc = "start" /\ pc' = IF instr' = BuildError THEN "raised" ELSE "encoded"
           /\ instr' # BuildError => Formed(kind', params', instr')
           /\ UNCHANGED <<received, decoder, result>>
<1> DEFINE Done == /\ pc' = IF instr' = BuildError THEN "raised" ELSE "encoded"
                   /\ instr' # BuildError => Formed(kind', params', instr')
                   /\ UNCHANGED <<received, decoder, result>>
<1>1. ASSUME NEW p \in InitializeMintParams, Encode("initialize_mint", p, initialize_mint(p))
      PROVE  Done
  BY <1>1, FixedForms DEF Encode, Formed
<1>2. ASSUME NEW p \in InitializeMint2Params, Encode("initialize_mint2", p, initialize_mint2(p))
      PROVE  Done
  BY <1>2, FixedForms DEF Encode, Formed
<1>3. ASSUME NEW p \in InitializeAccountParams, Encode("initialize_account", p,
             initialize_account(p))
      PROVE  Done
  BY <1>3, FixedForms DEF Encode, Formed
<1>4. ASSUME NEW p \in InitializeAccount2Params, Encode("initialize_account2", p,
             initialize_account2(p))
      PROVE  Done
  BY <1>4, FixedForms DEF Encode, Formed
<1>5. ASSUME NEW p \in InitializeAccount3Params, Encode("initialize_account3", p,
             initialize_account3(p))
      PROVE  Done
  BY <1>5, FixedForms DEF Encode, Formed
<1>6. ASSUME NEW p \in InitializeMultisigParams, Encode("initialize_multisig", p,
             initialize_multisig(p))
      PROVE  Done
  BY <1>6, ListForms DEF Encode, Formed
<1>7. ASSUME NEW p \in InitializeMultisig2Params, Encode("initialize_multisig2", p,
             initialize_multisig2(p))
      PROVE  Done
  BY <1>7, ListForms DEF Encode, Formed
<1>8. ASSUME NEW p \in TransferParams, Encode("transfer", p, transfer(p))
      PROVE  Done
  BY <1>8, OwnedForms DEF Encode, Formed
<1>9. ASSUME NEW p \in ApproveParams, Encode("approve", p, approve(p))
      PROVE  Done
  BY <1>9, OwnedForms DEF Encode, Formed
<1>10. ASSUME NEW p \in RevokeParams, Encode("revoke", p, revoke(p))
      PROVE  Done
  BY <1>10, OwnedForms DEF Encode, Formed
<1>11. ASSUME NEW p \in SetAuthorityParams, Encode("set_authority", p, set_authority(p))
      PROVE  Done
  BY <1>11, OwnedForms DEF Encode, Formed
<1>12. ASSUME NEW p \in MintToParams, Encode("mint_to", p, mint_to(p))
      PROVE  Done
  BY <1>12, OwnedForms DEF Encode, Formed
<1>13. ASSUME NEW p \in BurnParams, Encode("burn", p, burn(p))
      PROVE  Done
  BY <1>13, OwnedForms DEF Encode, Formed
<1>14. ASSUME NEW p \in CloseAccountParams, Encode("close_account", p, close_account(p))
      PROVE  Done
  BY <1>14, OwnedForms DEF Encode, Formed
<1>15. ASSUME NEW p \in FreezeAccountParams, Encode("freeze_account", p, freeze_account(p))
      PROVE  Done
  BY <1>15, OwnedForms DEF Encode, Formed
<1>16. ASSUME NEW p \in ThawAccountParams, Encode("thaw_account", p, thaw_account(p))
      PROVE  Done
  BY <1>16, OwnedForms DEF Encode, Formed
<1>17. ASSUME NEW p \in TransferCheckedParams, Encode("transfer_checked", p,
              transfer_checked(p))
      PROVE  Done
  BY <1>17, OwnedForms DEF Encode, Formed
<1>18. ASSUME NEW p \in ApproveCheckedParams, Encode("approve_checked", p, approve_checked(p))
      PROVE  Done
  BY <1>18, OwnedForms DEF Encode, Formed
<1>19. ASSUME NEW p \in MintToCheckedParams, Encode("mint_to_checked", p, mint_to_checked(p))
      PROVE  Done
  BY <1>19, OwnedForms DEF Encode, Formed
<1>20. ASSUME NEW p \in BurnCheckedParams, Encode("burn_checked", p, burn_checked(p))
      PROVE  Done
  BY <1>20, OwnedForms DEF Encode, Formed
<1>21. ASSUME NEW p \in SyncNativeParams, Encode("sync_native", p, sync_native(p))
      PROVE  Done
  BY <1>21, FixedForms DEF Encode, Formed
<1>22. ASSUME NEW p \in GetAccountDataSizeParams, Encode("get_account_data_size", p,
              get_account_data_size(p))
      PROVE  Done
  BY <1>22, FixedForms DEF Encode, Formed
<1>23. ASSUME NEW p \in InitializeImmutableOwnerParams, Encode("initialize_immutable_owner", p,
              initialize_immutable_owner(p))
      PROVE  Done
  BY <1>23, FixedForms DEF Encode, Formed
<1>24. ASSUME NEW p \in InitializeTransferFeeConfigParams,
              Encode("initialize_transfer_fee_config", p, initialize_transfer_fee_config(p))
      PROVE  Done
  BY <1>24, FixedForms DEF Encode, Formed
<1>25. ASSUME NEW p \in WithdrawWithheldTokensFromAccountsParams,
              Encode("withdraw_withheld_tokens_from_accounts", p,
              withdraw_withheld_tokens_from_accounts(p))
      PROVE  Done
  BY <1>25, ListForms DEF Encode, Formed
<1>26. ASSUME NEW p \in WithdrawWithheldTokensFromMintParams,
              Encode("withdraw_withheld_tokens_from_mint", p,
              withdraw_withheld_tokens_from_mint(p))
      PROVE  Done
  BY <1>26, OwnedForms DEF Encode, Formed
<1>27. ASSUME NEW p \in HarvestWithheldTokensToMintParams,
              Encode("harvest_withheld_tokens_to_mint", p, harvest_withheld_tokens_to_mint(p))
      PROVE  Done
  BY <1>27, ListForms DEF Encode, Formed
<1>28. ASSUME NEW p \in AmountToUiAmountParams, Encode("amount_to_ui_amount", p,
              amount_to_ui_amount(p))
      PROVE  Done
  BY <1>28, FixedForms DEF Encode, Formed
<1>29. ASSUME NEW p \in UiAmountToAmountParams, Encode("ui_amount_to_amount", p,
              ui_amount_to_amount(p))
      PROVE  Done
  BY <1>29, FixedForms DEF Encode, Formed
<1>30. ASSUME NEW p \in AssociatedParams, Encode("create_associated_token_account", p,
              create_associated_token_account(p))
      PROVE  Done
  BY <1>30, OtherForms DEF Encode, Formed
<1>31. ASSUME NEW p \in AssociatedParams, Encode("create_idempotent_associated_token_account",
              p, create_idempotent_associated_token_account(p))
      PROVE  Done
  BY <1>31, OtherForms DEF Encode, Formed
<1>32. ASSUME NEW p \in MemoParams, Encode("create_memo", p, create_memo(p))
      PROVE  Done
  BY <1>32, OtherForms DEF Encode, Formed
<1>33. ASSUME NEW p \in WithdrawFromVoteAccountParams, Encode("withdraw_from_vote_account", p,
              withdraw_from_vote_account(p))
      PROVE  Done
  BY <1>33, OtherForms DEF Encode, Formed
<1> HIDE DEF Done
<1>34. Done
  BY <1>1, <1>2, <1>3, <1>4, <1>5, <1>6, <1>7, <1>8, <1>9, <1>10, <1>11, <1>12, <1>13, <1>14,
     <1>15, <1>16, <1>17, <1>18, <1>19, <1>20, <1>21, <1>22, <1>23, <1>24, <1>25, <1>26, <1>27,
     <1>28, <1>29, <1>30, <1>31, <1>32, <1>33 DEF EncodeStep
<1>35. QED BY <1>34 DEF EncodeStep, Done
----------------------------------------------------------------------------
(* The invariant: what has been encoded has its form, what came back has   *)
(* its data, and what was decoded is what a decoder said of that.          *)

Came(i, r) ==
    /\ r.program_id = i.program_id /\ r.type = i.type /\ r.args = i.args
    /\ Len(r.accounts) \in 0..(Len(i.accounts) + 1)
    /\ i.accounts \in Seq(Metas) => r.accounts \in Seq(Metas)

Phases ==
    /\ pc \in {"start", "encoded", "raised", "received", "decoded"}
    /\ pc # "decoded" => result = Rejected

IInv ==
    /\ Phases
    /\ pc \in {"encoded", "received", "decoded"} => Formed(kind, params, instr)
    /\ pc \in {"received", "decoded"} => Came(instr, received)
    /\ pc = "decoded" =>
        /\ Decoded(decoder, received, result)
        /\ decoder = kind \/ (received = instr /\ kind # "create_memo")
        /\ decoder = "create_memo" => kind = "create_memo"

(* A list of accounts that is cut, or that has one account more.           *)
LEMMA Cut ==
    ASSUME NEW S, NEW a \in Seq(S), NEW m \in S, NEW n \in 0..(Len(a) + 1)
    PROVE  /\ SubSeq(a \o <<m>>, 1, n) \in Seq(S)
           /\ Len(SubSeq(a \o <<m>>, 1, n)) = n
<1> DEFINE b == a \o <<m>>
<1>1. b \in Seq(S) /\ Len(b) = Len(a) + 1 /\ Len(a) \in Nat
  OBVIOUS
<1> HIDE DEF b
<1>2. SubSeq(b, 1, n) \in Seq(S) /\ Len(SubSeq(b, 1, n)) = n
  BY <1>1
<1>3. QED BY <1>2 DEF b

(* An instruction of the associated token program lists keys of its own.   *)
OtherMetas(p) ==
    [pubkey : {get_associated_token_address(p.owner, p.mint, p.token_program_id),
               SYS_PROGRAM_ID, p.token_program_id} \cup AnyKey,
     is_signer : BOOLEAN, is_writable : BOOLEAN]

LEMMA AssociatedAreMetas ==
    ASSUME NEW p \in AssociatedParams
    PROVE  /\ AssociatedAccounts(p) \in Seq(OtherMetas(p))
           /\ Readonly(RENT) \in OtherMetas(p)
           /\ Len(AssociatedAccounts(p)) = 6
BY DEF AssociatedAccounts, AssociatedParams, OtherMetas, AnyKey, Meta, Writable, Readonly

(* Every instruction is a program, a type, values and a list of accounts,  *)
(* which but for the associated token program are keys of the parameters.  *)
LEMMA FormedIs ==
    ASSUME NEW k, NEW p, NEW i, Formed(k, p, i)
    PROVE  /\ i = Instruction(i.program_id, i.type, i.args, i.accounts)
           /\ \E S : i.accounts \in Seq(S) /\ Readonly(RENT) \in S
           /\ k \notin {"create_associated_token_account", "create_idempotent_associated_token_account"}
              => i.accounts \in Seq(Metas)
<1>1. Plain \subseteq Metas /\ Readonly(RENT) \in Metas
  BY DEF Plain, Metas, Readonly, Meta, AnyKey
<1>2. i.accounts \in Seq(Plain) => i.accounts \in Seq(Metas)
  BY <1>1, SeqMonotonic
<1>3. CASE k = "initialize_mint" /\ InitializeMintForm(p, i)
  BY <1>1, <1>2, <1>3 DEF InitializeMintForm, Carries, Instruction, Fixed
<1>4. CASE k = "initialize_mint2" /\ InitializeMint2Form(p, i)
  BY <1>1, <1>2, <1>4 DEF InitializeMint2Form, Carries, Instruction, Fixed
<1>5. CASE k = "initialize_account" /\ InitializeAccountForm(p, i)
  BY <1>1, <1>2, <1>5 DEF InitializeAccountForm, Carries, Instruction, Fixed
<1>6. CASE k = "initialize_account2" /\ InitializeAccount2Form(p, i)
  BY <1>1, <1>2, <1>6 DEF InitializeAccount2Form, Carries, Instruction, Fixed
<1>7. CASE k = "initialize_account3" /\ InitializeAccount3Form(p, i)
  BY <1>1, <1>2, <1>7 DEF InitializeAccount3Form, Carries, Instruction, Fixed
<1>8. CASE k = "initialize_multisig" /\ InitializeMultisigForm(p, i)
  BY <1>1, <1>2, <1>8 DEF InitializeMultisigForm, Carries, Instruction, Listing
<1>9. CASE k = "initialize_multisig2" /\ InitializeMultisig2Form(p, i)
  BY <1>1, <1>2, <1>9 DEF InitializeMultisig2Form, Carries, Instruction, Listing
<1>10. CASE k = "transfer" /\ TransferForm(p, i)
  BY <1>1, <1>2, <1>10 DEF TransferForm, Carries, Instruction, Owned
<1>11. CASE k = "approve" /\ ApproveForm(p, i)
  BY <1>1, <1>2, <1>11 DEF ApproveForm, Carries, Instruction, Owned
<1>12. CASE k = "revoke" /\ RevokeForm(p, i)
  BY <1>1, <1>2, <1>12 DEF RevokeForm, Carries, Instruction, Owned
<1>13. CASE k = "set_authority" /\ SetAuthorityForm(p, i)
  BY <1>1, <1>2, <1>13 DEF SetAuthorityForm, Carries, Instruction, Owned
<1>14. CASE k = "mint_to" /\ MintToForm(p, i)
  BY <1>1, <1>2, <1>14 DEF MintToForm, Carries, Instruction, Owned
<1>15. CASE k = "burn" /\ BurnForm(p, i)
  BY <1>1, <1>2, <1>15 DEF BurnForm, Carries, Instruction, Owned
<1>16. CASE k = "close_account" /\ CloseAccountForm(p, i)
  BY <1>1, <1>2, <1>16 DEF CloseAccountForm, Carries, Instruction, Owned
<1>17. CASE k = "freeze_account" /\ FreezeAccountForm(p, i)
  BY <1>1, <1>2, <1>17 DEF FreezeAccountForm, Carries, Instruction, Owned
<1>18. CASE k = "thaw_account" /\ ThawAccountForm(p, i)
  BY <1>1, <1>2, <1>18 DEF ThawAccountForm, Carries, Instruction, Owned
<1>19. CASE k = "transfer_checked" /\ TransferCheckedForm(p, i)
  BY <1>1, <1>2, <1>19 DEF TransferCheckedForm, Carries, Instruction, Owned
<1>20. CASE k = "approve_checked" /\ ApproveCheckedForm(p, i)
  BY <1>1, <1>2, <1>20 DEF ApproveCheckedForm, Carries, Instruction, Owned
<1>21. CASE k = "mint_to_checked" /\ MintToCheckedForm(p, i)
  BY <1>1, <1>2, <1>21 DEF MintToCheckedForm, Carries, Instruction, Owned
<1>22. CASE k = "burn_checked" /\ BurnCheckedForm(p, i)
  BY <1>1, <1>2, <1>22 DEF BurnCheckedForm, Carries, Instruction, Owned
<1>23. CASE k = "sync_native" /\ SyncNativeForm(p, i)
  BY <1>1, <1>2, <1>23 DEF SyncNativeForm, Carries, Instruction, Fixed
<1>24. CASE k = "get_account_data_size" /\ GetAccountDataSizeForm(p, i)
  BY <1>1, <1>2, <1>24 DEF GetAccountDataSizeForm, Carries, Instruction, Fixed
<1>25. CASE k = "initialize_immutable_owner" /\ InitializeImmutableOwnerForm(p, i)
  BY <1>1, <1>2, <1>25 DEF InitializeImmutableOwnerForm, Carries, Instruction, Fixed
<1>26. CASE k = "initialize_transfer_fee_config" /\ InitializeTransferFeeConfigForm(p, i)
  BY <1>1, <1>2, <1>26 DEF InitializeTransferFeeConfigForm, Carries, Instruction, Fixed
<1>27. CASE /\ k = "withdraw_withheld_tokens_from_accounts"
            /\ WithdrawWithheldTokensFromAccountsForm(p, i)
  BY <1>1, <1>2, <1>27 DEF WithdrawWithheldTokensFromAccountsForm, Carries, Instruction, Sourced
<1>28. CASE k = "withdraw_withheld_tokens_from_mint" /\ WithdrawWithheldTokensFromMintForm(p, i)
  BY <1>1, <1>2, <1>28 DEF WithdrawWithheldTokensFromMintForm, Carries, Instruction, Owned
<1>29. CASE k = "harvest_withheld_tokens_to_mint" /\ HarvestWithheldTokensToMintForm(p, i)
  BY <1>1, <1>2, <1>29 DEF HarvestWithheldTokensToMintForm, Carries, Instruction, Listing
<1>30. CASE k = "amount_to_ui_amount" /\ AmountToUiAmountForm(p, i)
  BY <1>1, <1>2, <1>30 DEF AmountToUiAmountForm, Carries, Instruction, Fixed
<1>31. CASE k = "ui_amount_to_amount" /\ UiAmountToAmountForm(p, i)
  BY <1>1, <1>2, <1>31 DEF UiAmountToAmountForm, Carries, Instruction, Fixed
<1>32. CASE k = "create_associated_token_account" /\ CreateAssociatedTokenAccountForm(p, i)
  <2>1. i = Instruction(i.program_id, i.type, i.args, i.accounts)
    BY <1>32 DEF CreateAssociatedTokenAccountForm, Instruction
  <2>2. i.accounts \in Seq(OtherMetas(p)) /\ Readonly(RENT) \in OtherMetas(p)
    BY <1>32, AssociatedAreMetas DEF CreateAssociatedTokenAccountForm
  <2>3. QED BY <1>32, <2>1, <2>2
<1>33. CASE /\ k = "create_idempotent_associated_token_account"
            /\ CreateIdempotentAssociatedTokenAccountForm(p, i)
  <2>1. i = Instruction(i.program_id, i.type, i.args, i.accounts)
    BY <1>33 DEF CreateIdempotentAssociatedTokenAccountForm, Instruction
  <2>2. i.accounts \in Seq(OtherMetas(p)) /\ Readonly(RENT) \in OtherMetas(p)
    BY <1>33, AssociatedAreMetas DEF CreateIdempotentAssociatedTokenAccountForm
  <2>3. QED BY <1>33, <2>1, <2>2
<1>34. CASE k = "create_memo" /\ CreateMemoForm(p, i)
  <2>1. /\ i = Instruction(i.program_id, i.type, i.args, i.accounts)
        /\ i.accounts = <<Meta(p.signer, TRUE, TRUE)>>
    BY <1>34 DEF CreateMemoForm, Carries, Instruction
  <2> DEFINE m1 == Meta(p.signer, TRUE, TRUE)
  <2>2. m1 \in Metas
    BY <1>34 DEF CreateMemoForm, MemoParams, Metas, AnyKey, Meta, Writable
  <2>3. i.accounts \in Seq(Metas)
    <3>1. i.accounts = <<m1>>
      BY <2>1
    <3> HIDE DEF m1
    <3>2. QED BY <2>2, <3>1
  <2>4. QED BY <1>1, <2>1, <2>3
<1>35. CASE k = "withdraw_from_vote_account" /\ WithdrawFromVoteAccountForm(p, i)
  <2>1. /\ i = Instruction(i.program_id, i.type, i.args, i.accounts)
        /\ i.accounts = <<Writable(p.vote_account_from_pubkey), Writable(p.to_pubkey),
                         Meta(p.withdrawer, TRUE, TRUE)>>
    BY <1>35 DEF WithdrawFromVoteAccountForm, Carries, Instruction
  <2> DEFINE m1 == Writable(p.vote_account_from_pubkey)
             m2 == Writable(p.to_pubkey)
             m3 == Meta(p.withdrawer, TRUE, TRUE)
  <2>2. m1 \in Metas /\ m2 \in Metas /\ m3 \in Metas
    BY <1>35 DEF WithdrawFromVoteAccountForm, WithdrawFromVoteAccountParams, Metas, AnyKey,
       Meta, Writable
  <2>3. i.accounts \in Seq(Metas)
    <3>1. i.accounts = <<m1, m2, m3>>
      BY <2>1
    <3> HIDE DEF m1, m2, m3
    <3>2. QED BY <2>2, <3>1
  <2>4. QED BY <1>1, <2>1, <2>3
<1>36. QED BY <1>3, <1>4, <1>5, <1>6, <1>7, <1>8, <1>9, <1>10, <1>11, <1>12, <1>13, <1>14,
              <1>15, <1>16, <1>17, <1>18, <1>19, <1>20, <1>21, <1>22, <1>23, <1>24, <1>25,
              <1>26, <1>27, <1>28, <1>29, <1>30, <1>31, <1>32, <1>33, <1>34, <1>35 DEF Formed

LEMMA Coming ==
    ASSUME NEW k, NEW p, NEW i, NEW r, Formed(k, p, i), NEW n \in 0..(Len(i.accounts) + 1),
           r = [i EXCEPT !.accounts = SubSeq(Padded(@), 1, n)]
    PROVE  Came(i, r)
<1>1. PICK S : i.accounts \in Seq(S) /\ Readonly(RENT) \in S
  BY FormedIs
<1> DEFINE a == SubSeq(Padded(i.accounts), 1, n)
<1>2. Len(a) = n /\ a \in Seq(S)
  BY <1>1, Cut DEF Padded
<1>3. i.accounts \in Seq(Metas) => a \in Seq(Metas)
  <2>1. Readonly(RENT) \in Metas
    BY DEF Metas, AnyKey, Readonly, Meta
  <2>2. QED BY <2>1, Cut DEF Padded
<1>4. r.program_id = i.program_id /\ r.type = i.type /\ r.args = i.args /\ r.accounts = a
  <2> HIDE DEF a
  <2>1. r = [i EXCEPT !.accounts = a]
    BY DEF a
  <2>2. i = Instruction(i.program_id, i.type, i.args, i.accounts)
    BY FormedIs
  <2>3. QED BY <2>1, <2>2 DEF Instruction
<1>5. QED BY <1>2, <1>3, <1>4 DEF Came
----------------------------------------------------------------------------
(* The values of an instruction, where some are optional.                  *)

Join(a, S, s, t) ==
    /\ a \in Seq(S) /\ Len(a) = Len(s) + Len(t)
    /\ \A k \in 1..Len(s) : a[k] = s[k]
    /\ \A k \in 1..Len(t) : a[Len(s) + k] = t[k]

LEMMA JoinIs ==
    ASSUME NEW S, NEW s \in Seq(S), NEW t \in Seq(S)
    PROVE  Join(s \o t, S, s, t)
BY Joined DEF Join

(* An option in the values of an instruction is read where it is written,  *)
(* and moves what follows by its length.                                   *)
LEMMA OptionIs ==
    ASSUME NEW S, NEW key \in S, 0 \in S, 1 \in S
    PROVE  Option(key) \in Seq(S) /\ Len(Option(key)) \in 1..2
BY DEF Option

LEMMA OptionIsRead ==
    ASSUME NEW i, NEW n \in Nat, NEW key,
           \A j \in 1..Len(Option(key)) : i.args[n - 1 + j] = Option(key)[j]
    PROVE  ReadOption(i, n) = key /\ AfterOption(i, n) = n + Len(Option(key))
<1>1. n - 1 + 1 = n /\ n - 1 + 2 = n + 1
  OBVIOUS
<1>2. CASE key = None
  <2>1. Option(key) = <<0>>
    BY <1>2 DEF Option
  <2>2. i.args[n] = 0
    BY <1>1, <2>1
  <2>3. QED BY <1>2, <2>1, <2>2 DEF ReadOption, AfterOption
<1>3. CASE key # None
  <2>1. Option(key) = <<1, key>>
    BY <1>3 DEF Option
  <2>2. i.args[n] = 1 /\ i.args[n + 1] = key
    BY <1>1, <2>1
  <2>3. QED BY <2>1, <2>2 DEF ReadOption, AfterOption
<1>4. QED BY <1>2, <1>3

LEMMA MintArgsAre ==
    ASSUME NEW p, NEW i, i.args = MintArgs(p)
    PROVE  /\ i.args[1] = p.decimals /\ i.args[2] = p.mint_authority
           /\ ReadOption(i, 3) = p.freeze_authority
<1> DEFINE key == p.freeze_authority
           s == <<p.decimals, p.mint_authority>>
           t == Option(key)
           S == {p.decimals, p.mint_authority, key, 0, 1}
<1>1. s \in Seq(S) /\ Len(s) = 2 /\ s[1] = p.decimals /\ s[2] = p.mint_authority
  OBVIOUS
<1>2. t \in Seq(S)
  BY OptionIs
<1>3. i.args = s \o t
  BY DEF MintArgs
<1> HIDE DEF s, t, S
<1>4. i.args[1] = s[1] /\ i.args[2] = s[2] /\ \A j \in 1..Len(t) : i.args[2 + j] = t[j]
  <2>1. Join(s \o t, S, s, t)
    BY <1>1, <1>2, JoinIs
  <2>2. 1 \in 1..Len(s) /\ 2 \in 1..Len(s)
    BY <1>1
  <2>3. QED BY <1>1, <1>3, <2>1, <2>2 DEF Join
<1>5. \A j \in 1..Len(t) : i.args[3 - 1 + j] = t[j]
  BY <1>4
<1>6. ReadOption(i, 3) = key
  BY <1>5, OptionIsRead DEF t
<1>7. QED BY <1>1, <1>4, <1>6

LEMMA AuthorityArgsAre ==
    ASSUME NEW p, NEW i, i.args = AuthorityArgs(p)
    PROVE  i.args[1] = p.authority /\ ReadOption(i, 2) = p.new_authority
<1> DEFINE key == p.new_authority
           s == <<p.authority>>
           t == Option(key)
           S == {p.authority, key, 0, 1}
<1>1. s \in Seq(S) /\ Len(s) = 1 /\ s[1] = p.authority
  OBVIOUS
<1>2. t \in Seq(S)
  BY OptionIs
<1>3. i.args = s \o t
  BY DEF AuthorityArgs
<1> HIDE DEF s, t, S
<1>4. i.args[1] = s[1] /\ \A j \in 1..Len(t) : i.args[1 + j] = t[j]
  <2>1. Join(s \o t, S, s, t)
    BY <1>1, <1>2, JoinIs
  <2>2. 1 \in 1..Len(s)
    BY <1>1
  <2>3. QED BY <1>1, <1>3, <2>1, <2>2 DEF Join
<1>5. \A j \in 1..Len(t) : i.args[2 - 1 + j] = t[j]
  BY <1>4
<1>6. ReadOption(i, 2) = key
  BY <1>5, OptionIsRead DEF t
<1>7. QED BY <1>1, <1>4, <1>6

LEMMA FeeConfigArgsAre ==
    ASSUME NEW p, NEW i, i.args = FeeConfigArgs(p)
    PROVE  LET second == AfterOption(i, 2)
               rest   == AfterOption(i, second)
           IN  /\ i.args[1] = "INITIALIZE_TRANSFER_FEE_CONFIG"
               /\ ReadOption(i, 2) = p.transfer_fee_config_authority
               /\ ReadOption(i, second) = p.withdraw_withheld_authority
               /\ i.args[rest] = p.transfer_fee_basis_points
               /\ i.args[rest + 1] = p.maximum_fee
<1> DEFINE x == "INITIALIZE_TRANSFER_FEE_CONFIG"
           a == p.transfer_fee_config_authority
           b == p.withdraw_withheld_authority
           S == {x, a, b, p.transfer_fee_basis_points, p.maximum_fee, 0, 1}
           s == <<x>>
           oa == Option(a)
           ob == Option(b)
           t == <<p.transfer_fee_basis_points, p.maximum_fee>>
           s2 == s \o oa
           s3 == s2 \o ob
<1>1. /\ s \in Seq(S) /\ Len(s) = 1 /\ s[1] = x
      /\ t \in Seq(S) /\ Len(t) = 2 /\ t[1] = p.transfer_fee_basis_points
      /\ t[2] = p.maximum_fee
  OBVIOUS
<1>2. /\ oa \in Seq(S) /\ Len(oa) \in Nat
      /\ ob \in Seq(S) /\ Len(ob) \in Nat
  BY OptionIs
<1>3. i.args = s3 \o t
  BY DEF FeeConfigArgs
<1> HIDE DEF S, s, t, oa, ob
<1>4. /\ s2 \in Seq(S) /\ Len(s2) = 1 + Len(oa) /\ s2[1] = x
      /\ \A j \in 1..Len(oa) : s2[1 + j] = oa[j]
  <2>1. Join(s \o oa, S, s, oa)
    BY <1>1, <1>2, JoinIs
  <2>2. 1 \in 1..Len(s)
    BY <1>1
  <2>3. QED BY <1>1, <2>1, <2>2 DEF Join
<1> HIDE DEF s2
<1>5. /\ s3 \in Seq(S) /\ Len(s3) = Len(s2) + Len(ob)
      /\ \A j \in 1..Len(s2) : s3[j] = s2[j]
      /\ \A j \in 1..Len(ob) : s3[Len(s2) + j] = ob[j]
  <2>1. Join(s2 \o ob, S, s2, ob)
    BY <1>2, <1>4, JoinIs
  <2>2. QED BY <2>1 DEF s3, Join
<1> HIDE DEF s3
<1>6. /\ \A j \in 1..Len(s3) : i.args[j] = s3[j]
      /\ i.args[Len(s3) + 1] = t[1] /\ i.args[Len(s3) + 2] = t[2]
  <2>1. Join(s3 \o t, S, s3, t)
    BY <1>1, <1>5, JoinIs
  <2>2. 1 \in 1..Len(t) /\ 2 \in 1..Len(t)
    BY <1>1
  <2>3. QED BY <1>3, <2>1, <2>2 DEF Join
<1>7. i.args[1] = x /\ \A j \in 1..Len(oa) : i.args[2 - 1 + j] = oa[j]
  <2>1. 1 \in 1..Len(s2) /\ 1 \in 1..Len(s3)
    BY <1>2, <1>4, <1>5
  <2>2. \A j \in 1..Len(oa) : /\ 1 + j \in 1..Len(s2) /\ 1 + j \in 1..Len(s3)
                             /\ 2 - 1 + j = 1 + j
    BY <1>2, <1>4, <1>5
  <2>3. i.args[1] = s3[1] /\ s3[1] = s2[1]
    BY <1>5, <1>6, <2>1
  <2>4. \A j \in 1..Len(oa) : i.args[1 + j] = s3[1 + j] /\ s3[1 + j] = s2[1 + j]
    BY <1>5, <1>6, <2>2
  <2>5. QED BY <1>4, <2>2, <2>3, <2>4
<1>8. ReadOption(i, 2) = a /\ AfterOption(i, 2) = 2 + Len(oa)
  BY <1>7, OptionIsRead DEF oa
<1> DEFINE n == 2 + Len(oa)
<1>9. n \in Nat /\ n - 1 = Len(s2)
  BY <1>2, <1>4
<1>10. \A j \in 1..Len(ob) : i.args[n - 1 + j] = ob[j]
  <2>1. \A j \in 1..Len(ob) : Len(s2) + j \in 1..Len(s3)
    BY <1>2, <1>4, <1>5
  <2>2. \A j \in 1..Len(ob) : i.args[Len(s2) + j] = ob[j]
    BY <1>5, <1>6, <2>1
  <2>3. QED BY <1>9, <2>2
<1> HIDE DEF n
<1>11. ReadOption(i, n) = b /\ AfterOption(i, n) = n + Len(ob)
  BY <1>9, <1>10, OptionIsRead DEF ob
<1>12. n + Len(ob) = Len(s3) + 1 /\ n + Len(ob) + 1 = Len(s3) + 2
  BY <1>2, <1>4, <1>5 DEF n
<1>13. QED BY <1>1, <1>6, <1>7, <1>8, <1>11, <1>12 DEF n

LEMMA Decoding ==
    ASSUME DecodeStep
    PROVE  /\ pc = "received" /\ pc' = "decoded"
           /\ Decoded(decoder', received, result')
           /\ decoder' = kind \/ (received = instr /\ kind # "create_memo")
           /\ decoder' = "create_memo" => kind = "create_memo"
           /\ UNCHANGED <<kind, params, instr, received>>
<1> DEFINE Done == /\ pc' = "decoded"
                   /\ Decoded(decoder', received, result')
                   /\ decoder' = kind \/ (received = instr /\ kind # "create_memo")
                   /\ decoder' = "create_memo" => kind = "create_memo"
                   /\ UNCHANGED <<kind, params, instr, received>>
<1>1. ASSUME Decode("initialize_mint", decode_initialize_mint(received))
      PROVE  Done
  BY <1>1 DEF Decode, Decoded
<1>2. ASSUME Decode("initialize_mint2", decode_initialize_mint2(received))
      PROVE  Done
  BY <1>2 DEF Decode, Decoded
<1>3. ASSUME Decode("initialize_account", decode_initialize_account(received))
      PROVE  Done
  BY <1>3 DEF Decode, Decoded
<1>4. ASSUME Decode("initialize_account2", decode_initialize_account2(received))
      PROVE  Done
  BY <1>4 DEF Decode, Decoded
<1>5. ASSUME Decode("initialize_account3", decode_initialize_account3(received))
      PROVE  Done
  BY <1>5 DEF Decode, Decoded
<1>6. ASSUME Decode("initialize_multisig", decode_initialize_multisig(received))
      PROVE  Done
  BY <1>6 DEF Decode, Decoded
<1>7. ASSUME Decode("initialize_multisig2", decode_initialize_multisig2(received))
      PROVE  Done
  BY <1>7 DEF Decode, Decoded
<1>8. ASSUME Decode("transfer", decode_transfer(received))
      PROVE  Done
  BY <1>8 DEF Decode, Decoded
<1>9. ASSUME Decode("approve", decode_approve(received))
      PROVE  Done
  BY <1>9 DEF Decode, Decoded
<1>10. ASSUME Decode("revoke", decode_revoke(received))
      PROVE  Done
  BY <1>10 DEF Decode, Decoded
<1>11. ASSUME Decode("set_authority", decode_set_authority(received))
      PROVE  Done
  BY <1>11 DEF Decode, Decoded
<1>12. ASSUME Decode("mint_to", decode_mint_to(received))
      PROVE  Done
  BY <1>12 DEF Decode, Decoded
<1>13. ASSUME Decode("burn", decode_burn(received))
      PROVE  Done
  BY <1>13 DEF Decode, Decoded
<1>14. ASSUME Decode("close_account", decode_close_account(received))
      PROVE  Done
  BY <1>14 DEF Decode, Decoded
<1>15. ASSUME Decode("freeze_account", decode_freeze_account(received))
      PROVE  Done
  BY <1>15 DEF Decode, Decoded
<1>16. ASSUME Decode("thaw_account", decode_thaw_account(received))
      PROVE  Done
  BY <1>16 DEF Decode, Decoded
<1>17. ASSUME Decode("transfer_checked", decode_transfer_checked(received))
      PROVE  Done
  BY <1>17 DEF Decode, Decoded
<1>18. ASSUME Decode("approve_checked", decode_approve_checked(received))
      PROVE  Done
  BY <1>18 DEF Decode, Decoded
<1>19. ASSUME Decode("mint_to_checked", decode_mint_to_checked(received))
      PROVE  Done
  BY <1>19 DEF Decode, Decoded
<1>20. ASSUME Decode("burn_checked", decode_burn_checked(received))
      PROVE  Done
  BY <1>20 DEF Decode, Decoded
<1>21. ASSUME Decode("sync_native", decode_sync_native(received))
      PROVE  Done
  BY <1>21 DEF Decode, Decoded
<1>22. ASSUME Decode("get_account_data_size", decode_get_account_data_size(received))
      PROVE  Done
  BY <1>22 DEF Decode, Decoded
<1>23. ASSUME Decode("initialize_immutable_owner", decode_initialize_immutable_owner(received))
      PROVE  Done
  BY <1>23 DEF Decode, Decoded
<1>24. ASSUME Decode("initialize_transfer_fee_config",
              decode_initialize_transfer_fee_config(received))
      PROVE  Done
  BY <1>24 DEF Decode, Decoded
<1>25. ASSUME Decode("withdraw_withheld_tokens_from_accounts",
              decode_withdraw_withheld_tokens_from_accounts(received))
      PROVE  Done
  BY <1>25 DEF Decode, Decoded
<1>26. ASSUME Decode("withdraw_withheld_tokens_from_mint",
              decode_withdraw_withheld_tokens_from_mint(received))
      PROVE  Done
  BY <1>26 DEF Decode, Decoded
<1>27. ASSUME Decode("harvest_withheld_tokens_to_mint",
              decode_harvest_withheld_tokens_to_mint(received))
      PROVE  Done
  BY <1>27 DEF Decode, Decoded
<1>28. ASSUME Decode("amount_to_ui_amount", decode_amount_to_ui_amount(received))
      PROVE  Done
  BY <1>28 DEF Decode, Decoded
<1>29. ASSUME Decode("ui_amount_to_amount", decode_ui_amount_to_amount(received))
      PROVE  Done
  BY <1>29 DEF Decode, Decoded
<1>30. ASSUME kind = "create_memo", Decode("create_memo", decode_create_memo(received))
      PROVE  Done
  BY <1>30 DEF Decode, Decoded
<1> HIDE DEF Done
<1>31. Done
  BY <1>1, <1>2, <1>3, <1>4, <1>5, <1>6, <1>7, <1>8, <1>9, <1>10, <1>11, <1>12, <1>13, <1>14,
     <1>15, <1>16, <1>17, <1>18, <1>19, <1>20, <1>21, <1>22, <1>23, <1>24, <1>25, <1>26, <1>27,
     <1>28, <1>29, <1>30 DEF DecodeStep
<1>32. QED BY <1>31 DEF DecodeStep, Done

LEMMA Invariance == Spec => []IInv
<1>1. Init => IInv
  BY DEF Init, IInv, Phases
<1>2. ASSUME IInv, [Next]_vars
      PROVE  IInv'
  <2>1. CASE EncodeStep
    BY <1>2, <2>1, Forming DEF IInv, Phases
  <2>2. CASE Receive
    <3>1. PICK n \in 0..(Len(instr.accounts) + 1) :
            received' = [instr EXCEPT !.accounts = SubSeq(Padded(@), 1, n)]
      BY <2>2 DEF Receive
    <3>2. Came(instr, received')
      BY <1>2, <2>2, <3>1, Coming DEF Receive, IInv
    <3>3. QED BY <1>2, <2>2, <3>2 DEF Receive, IInv, Phases
  <2>3. CASE DecodeStep
    BY <1>2, <2>3, Decoding DEF IInv, Phases
  <2>4. CASE UNCHANGED vars
    BY <1>2, <2>4 DEF vars, IInv, Phases
  <2>5. QED BY <1>2, <2>1, <2>2, <2>3, <2>4 DEF Next
<1>3. QED BY <1>1, <1>2, PTL DEF Spec
----------------------------------------------------------------------------
(* Confusion: the type, or the second one of the transfer fee extension,   *)
(* is that of one kind.                                                    *)

Tag(i) == IF i.type = Fee THEN i.args[1] ELSE i.type

Tagged(i, k) ==
    \/ k = "initialize_mint" /\ Tag(i) = "INITIALIZE_MINT"
    \/ k = "initialize_mint2" /\ Tag(i) = "INITIALIZE_MINT2"
    \/ k = "initialize_account" /\ Tag(i) = "INITIALIZE_ACCOUNT"
    \/ k = "initialize_account2" /\ Tag(i) = "INITIALIZE_ACCOUNT2"
    \/ k = "initialize_account3" /\ Tag(i) = "INITIALIZE_ACCOUNT3"
    \/ k = "initialize_multisig" /\ Tag(i) = "INITIALIZE_MULTISIG"
    \/ k = "initialize_multisig2" /\ Tag(i) = "INITIALIZE_MULTISIG2"
    \/ k = "transfer" /\ Tag(i) = "TRANSFER"
    \/ k = "approve" /\ Tag(i) = "APPROVE"
    \/ k = "revoke" /\ Tag(i) = "REVOKE"
    \/ k = "set_authority" /\ Tag(i) = "SET_AUTHORITY"
    \/ k = "mint_to" /\ Tag(i) = "MINT_TO"
    \/ k = "burn" /\ Tag(i) = "BURN"
    \/ k = "close_account" /\ Tag(i) = "CLOSE_ACCOUNT"
    \/ k = "freeze_account" /\ Tag(i) = "FREEZE_ACCOUNT"
    \/ k = "thaw_account" /\ Tag(i) = "THAW_ACCOUNT"
    \/ k = "transfer_checked" /\ Tag(i) = "TRANSFER2"
    \/ k = "approve_checked" /\ Tag(i) = "APPROVE2"
    \/ k = "mint_to_checked" /\ Tag(i) = "MINT_TO2"
    \/ k = "burn_checked" /\ Tag(i) = "BURN2"
    \/ k = "sync_native" /\ Tag(i) = "SYNC_NATIVE"
    \/ k = "get_account_data_size" /\ Tag(i) = "GET_ACCOUNT_DATA_SIZE"
    \/ k = "initialize_immutable_owner" /\ Tag(i) = "INITIALIZE_IMMUTABLE_OWNER"
    \/ k = "initialize_transfer_fee_config"
       /\ Tag(i) = "INITIALIZE_TRANSFER_FEE_CONFIG"
    \/ k = "withdraw_withheld_tokens_from_accounts"
       /\ Tag(i) = "WITHDRAW_WITHHELD_TOKENS_FROM_ACCOUNTS"
    \/ k = "withdraw_withheld_tokens_from_mint"
       /\ Tag(i) = "WITHDRAW_WITHHELD_TOKENS_FROM_MINT"
    \/ k = "harvest_withheld_tokens_to_mint"
       /\ Tag(i) = "HARVEST_WITHHELD_TOKENS_TO_MINT"
    \/ k = "amount_to_ui_amount" /\ Tag(i) = "AMOUNT_TO_UI_AMOUNT"
    \/ k = "ui_amount_to_amount" /\ Tag(i) = "UI_AMOUNT_TO_AMOUNT"

LEMMA OneKind ==
    ASSUME NEW i, NEW j, NEW k, NEW l, Tag(i) = Tag(j), Tagged(i, k), Tagged(j, l)
    PROVE  k = l
BY DEF Tagged

(* Those of other programs than the token programs.                        *)
Foreign ==
    {"create_associated_token_account", "create_idempotent_associated_token_account",
     "create_memo", "withdraw_from_vote_account"}

LEMMA FormIsTagged ==
    ASSUME NEW k, NEW p, NEW i, Formed(k, p, i)
    PROVE  IF k \in Foreign THEN i.program_id \notin TokenPrograms ELSE Tagged(i, k)
<1> USE DEF Foreign
<1>1. CASE k = "initialize_mint" /\ InitializeMintForm(p, i)
  BY <1>1 DEF InitializeMintForm, Carries, Instruction, Tagged, Tag, Fee
<1>2. CASE k = "initialize_mint2" /\ InitializeMint2Form(p, i)
  BY <1>2 DEF InitializeMint2Form, Carries, Instruction, Tagged, Tag, Fee
<1>3. CASE k = "initialize_account" /\ InitializeAccountForm(p, i)
  BY <1>3 DEF InitializeAccountForm, Carries, Instruction, Tagged, Tag, Fee
<1>4. CASE k = "initialize_account2" /\ InitializeAccount2Form(p, i)
  BY <1>4 DEF InitializeAccount2Form, Carries, Instruction, Tagged, Tag, Fee
<1>5. CASE k = "initialize_account3" /\ InitializeAccount3Form(p, i)
  BY <1>5 DEF InitializeAccount3Form, Carries, Instruction, Tagged, Tag, Fee
<1>6. CASE k = "initialize_multisig" /\ InitializeMultisigForm(p, i)
  BY <1>6 DEF InitializeMultisigForm, Carries, Instruction, Tagged, Tag, Fee
<1>7. CASE k = "initialize_multisig2" /\ InitializeMultisig2Form(p, i)
  BY <1>7 DEF InitializeMultisig2Form, Carries, Instruction, Tagged, Tag, Fee
<1>8. CASE k = "transfer" /\ TransferForm(p, i)
  BY <1>8 DEF TransferForm, Carries, Instruction, Tagged, Tag, Fee
<1>9. CASE k = "approve" /\ ApproveForm(p, i)
  BY <1>9 DEF ApproveForm, Carries, Instruction, Tagged, Tag, Fee
<1>10. CASE k = "revoke" /\ RevokeForm(p, i)
  BY <1>10 DEF RevokeForm, Carries, Instruction, Tagged, Tag, Fee
<1>11. CASE k = "set_authority" /\ SetAuthorityForm(p, i)
  BY <1>11 DEF SetAuthorityForm, Carries, Instruction, Tagged, Tag, Fee
<1>12. CASE k = "mint_to" /\ MintToForm(p, i)
  BY <1>12 DEF MintToForm, Carries, Instruction, Tagged, Tag, Fee
<1>13. CASE k = "burn" /\ BurnForm(p, i)
  BY <1>13 DEF BurnForm, Carries, Instruction, Tagged, Tag, Fee
<1>14. CASE k = "close_account" /\ CloseAccountForm(p, i)
  BY <1>14 DEF CloseAccountForm, Carries, Instruction, Tagged, Tag, Fee
<1>15. CASE k = "freeze_account" /\ FreezeAccountForm(p, i)
  BY <1>15 DEF FreezeAccountForm, Carries, Instruction, Tagged, Tag, Fee
<1>16. CASE k = "thaw_account" /\ ThawAccountForm(p, i)
  BY <1>16 DEF ThawAccountForm, Carries, Instruction, Tagged, Tag, Fee
<1>17. CASE k = "transfer_checked" /\ TransferCheckedForm(p, i)
  BY <1>17 DEF TransferCheckedForm, Carries, Instruction, Tagged, Tag, Fee
<1>18. CASE k = "approve_checked" /\ ApproveCheckedForm(p, i)
  BY <1>18 DEF ApproveCheckedForm, Carries, Instruction, Tagged, Tag, Fee
<1>19. CASE k = "mint_to_checked" /\ MintToCheckedForm(p, i)
  BY <1>19 DEF MintToCheckedForm, Carries, Instruction, Tagged, Tag, Fee
<1>20. CASE k = "burn_checked" /\ BurnCheckedForm(p, i)
  BY <1>20 DEF BurnCheckedForm, Carries, Instruction, Tagged, Tag, Fee
<1>21. CASE k = "sync_native" /\ SyncNativeForm(p, i)
  BY <1>21 DEF SyncNativeForm, Carries, Instruction, Tagged, Tag, Fee
<1>22. CASE k = "get_account_data_size" /\ GetAccountDataSizeForm(p, i)
  BY <1>22 DEF GetAccountDataSizeForm, Carries, Instruction, Tagged, Tag, Fee
<1>23. CASE k = "initialize_immutable_owner" /\ InitializeImmutableOwnerForm(p, i)
  BY <1>23 DEF InitializeImmutableOwnerForm, Carries, Instruction, Tagged, Tag, Fee
<1>24. CASE k = "initialize_transfer_fee_config" /\ InitializeTransferFeeConfigForm(p, i)
  BY <1>24, FeeConfigArgsAre DEF InitializeTransferFeeConfigForm, Carries, Instruction, Tagged,
     Tag, Fee
<1>25. CASE /\ k = "withdraw_withheld_tokens_from_accounts"
            /\ WithdrawWithheldTokensFromAccountsForm(p, i)
  BY <1>25 DEF WithdrawWithheldTokensFromAccountsForm, Carries, Instruction, Tagged, Tag, Fee
<1>26. CASE k = "withdraw_withheld_tokens_from_mint" /\ WithdrawWithheldTokensFromMintForm(p, i)
  BY <1>26 DEF WithdrawWithheldTokensFromMintForm, Carries, Instruction, Tagged, Tag, Fee
<1>27. CASE k = "harvest_withheld_tokens_to_mint" /\ HarvestWithheldTokensToMintForm(p, i)
  BY <1>27 DEF HarvestWithheldTokensToMintForm, Carries, Instruction, Tagged, Tag, Fee
<1>28. CASE k = "amount_to_ui_amount" /\ AmountToUiAmountForm(p, i)
  BY <1>28 DEF AmountToUiAmountForm, Carries, Instruction, Tagged, Tag, Fee
<1>29. CASE k = "ui_amount_to_amount" /\ UiAmountToAmountForm(p, i)
  BY <1>29 DEF UiAmountToAmountForm, Carries, Instruction, Tagged, Tag, Fee
<1>30. CASE k = "create_associated_token_account" /\ CreateAssociatedTokenAccountForm(p, i)
  BY <1>30, InstructionAssumption, MemoVoteAssumption DEF CreateAssociatedTokenAccountForm,
     Instruction
<1>31. CASE /\ k = "create_idempotent_associated_token_account"
            /\ CreateIdempotentAssociatedTokenAccountForm(p, i)
  BY <1>31, InstructionAssumption, MemoVoteAssumption
     DEF CreateIdempotentAssociatedTokenAccountForm, Instruction
<1>32. CASE k = "create_memo" /\ CreateMemoForm(p, i)
  BY <1>32, MemoVoteAssumption DEF CreateMemoForm, MemoParams, Carries, Instruction
<1>33. CASE k = "withdraw_from_vote_account" /\ WithdrawFromVoteAccountForm(p, i)
  BY <1>33, InstructionAssumption, MemoVoteAssumption DEF WithdrawFromVoteAccountForm,
     Instruction
<1>34. QED BY <1>1, <1>2, <1>3, <1>4, <1>5, <1>6, <1>7, <1>8, <1>9, <1>10, <1>11, <1>12, <1>13,
              <1>14, <1>15, <1>16, <1>17, <1>18, <1>19, <1>20, <1>21, <1>22, <1>23, <1>24,
              <1>25, <1>26, <1>27, <1>28, <1>29, <1>30, <1>31, <1>32, <1>33 DEF Formed

LEMMA DecodedIsTagged ==
    ASSUME NEW k, NEW i, NEW r, Decoded(k, i, r), r.ok, k # "create_memo"
    PROVE  Tagged(i, k)
<1> USE DEF parse_and_validate_instruction, Rejected, Tagged, Tag, Fee
<1>1. CASE k = "initialize_mint" /\ r = decode_initialize_mint(i)
  BY <1>1 DEF decode_initialize_mint
<1>2. CASE k = "initialize_mint2" /\ r = decode_initialize_mint2(i)
  BY <1>2 DEF decode_initialize_mint2
<1>3. CASE k = "initialize_account" /\ r = decode_initialize_account(i)
  BY <1>3 DEF decode_initialize_account
<1>4. CASE k = "initialize_account2" /\ r = decode_initialize_account2(i)
  BY <1>4 DEF decode_initialize_account2
<1>5. CASE k = "initialize_account3" /\ r = decode_initialize_account3(i)
  BY <1>5 DEF decode_initialize_account3
<1>6. CASE k = "initialize_multisig" /\ r = decode_initialize_multisig(i)
  BY <1>6 DEF decode_initialize_multisig
<1>7. CASE k = "initialize_multisig2" /\ r = decode_initialize_multisig2(i)
  BY <1>7 DEF decode_initialize_multisig2
<1>8. CASE k = "transfer" /\ r = decode_transfer(i)
  BY <1>8 DEF decode_transfer
<1>9. CASE k = "approve" /\ r = decode_approve(i)
  BY <1>9 DEF decode_approve
<1>10. CASE k = "revoke" /\ r = decode_revoke(i)
  BY <1>10 DEF decode_revoke
<1>11. CASE k = "set_authority" /\ r = decode_set_authority(i)
  BY <1>11 DEF decode_set_authority
<1>12. CASE k = "mint_to" /\ r = decode_mint_to(i)
  BY <1>12 DEF decode_mint_to
<1>13. CASE k = "burn" /\ r = decode_burn(i)
  BY <1>13 DEF decode_burn
<1>14. CASE k = "close_account" /\ r = decode_close_account(i)
  BY <1>14 DEF decode_close_account
<1>15. CASE k = "freeze_account" /\ r = decode_freeze_account(i)
  BY <1>15 DEF decode_freeze_account
<1>16. CASE k = "thaw_account" /\ r = decode_thaw_account(i)
  BY <1>16 DEF decode_thaw_account
<1>17. CASE k = "transfer_checked" /\ r = decode_transfer_checked(i)
  BY <1>17 DEF decode_transfer_checked
<1>18. CASE k = "approve_checked" /\ r = decode_approve_checked(i)
  BY <1>18 DEF decode_approve_checked
<1>19. CASE k = "mint_to_checked" /\ r = decode_mint_to_checked(i)
  BY <1>19 DEF decode_mint_to_checked
<1>20. CASE k = "burn_checked" /\ r = decode_burn_checked(i)
  BY <1>20 DEF decode_burn_checked
<1>21. CASE k = "sync_native" /\ r = decode_sync_native(i)
  BY <1>21 DEF decode_sync_native
<1>22. CASE k = "get_account_data_size" /\ r = decode_get_account_data_size(i)
  BY <1>22 DEF decode_get_account_data_size
<1>23. CASE k = "initialize_immutable_owner" /\ r = decode_initialize_immutable_owner(i)
  BY <1>23 DEF decode_initialize_immutable_owner
<1>24. CASE k = "initialize_transfer_fee_config" /\ r = decode_initialize_transfer_fee_config(i)
  BY <1>24 DEF decode_initialize_transfer_fee_config
<1>25. CASE /\ k = "withdraw_withheld_tokens_from_accounts"
            /\ r = decode_withdraw_withheld_tokens_from_accounts(i)
  BY <1>25 DEF decode_withdraw_withheld_tokens_from_accounts
<1>26. CASE /\ k = "withdraw_withheld_tokens_from_mint"
            /\ r = decode_withdraw_withheld_tokens_from_mint(i)
  BY <1>26 DEF decode_withdraw_withheld_tokens_from_mint
<1>27. CASE /\ k = "harvest_withheld_tokens_to_mint"
            /\ r = decode_harvest_withheld_tokens_to_mint(i)
  BY <1>27 DEF decode_harvest_withheld_tokens_to_mint
<1>28. CASE k = "amount_to_ui_amount" /\ r = decode_amount_to_ui_amount(i)
  BY <1>28 DEF decode_amount_to_ui_amount
<1>29. CASE k = "ui_amount_to_amount" /\ r = decode_ui_amount_to_amount(i)
  BY <1>29 DEF decode_ui_amount_to_amount
<1> HIDE DEF parse_and_validate_instruction, Rejected, Tagged, Tag, Fee
<1>30. QED BY <1>1, <1>2, <1>3, <1>4, <1>5, <1>6, <1>7, <1>8, <1>9, <1>10, <1>11, <1>12, <1>13,
              <1>14, <1>15, <1>16, <1>17, <1>18, <1>19, <1>20, <1>21, <1>22, <1>23, <1>24,
              <1>25, <1>26, <1>27, <1>28, <1>29 DEF Decoded

(* No instruction of a token program is read as another: what a decoder    *)
(* accepts, its own encoder has written.                                   *)
THEOREM NoInstructionIsConfused == Spec => []NoConfusion
<1>1. IInv => NoConfusion
  <2>1. SUFFICES ASSUME IInv, pc = "decoded", result.ok, instr.program_id \in TokenPrograms
                 PROVE  decoder = kind
    BY DEF NoConfusion
  <2>2. /\ Formed(kind, params, instr) /\ Decoded(decoder, received, result)
        /\ received.type = instr.type /\ received.args = instr.args
    BY <2>1 DEF IInv, Came
  <2>3. CASE decoder = "create_memo"
    BY <2>1, <2>3 DEF IInv
  <2>4. CASE decoder # "create_memo"
    <3>1. Tagged(instr, kind) /\ Tagged(received, decoder)
      BY <2>1, <2>2, <2>4, FormIsTagged, DecodedIsTagged
    <3>2. Tag(instr) = Tag(received)
      BY <2>2 DEF Tag
    <3>3. QED BY <3>1, <3>2, OneKind
  <2>5. QED BY <2>3, <2>4
<1>2. QED BY <1>1, Invariance, PTL
----------------------------------------------------------------------------
(* The round trip.                                                         *)

(* Read by its own decoder, an instruction gives its parameters.           *)
LEMMA ReadBack ==
    ASSUME NEW k, NEW p, NEW i, NEW r, Formed(k, p, i), Decoded(k, i, r)
    PROVE  r = IF k \in Multisigs /\ Len(p.signers) < p.m THEN Rejected ELSE ParamsOf(p)
<1> USE DEF Carries, Instruction, parse_and_validate_instruction, HasKeys, Multisigs, Fee
<1>1. CASE k = "initialize_mint" /\ InitializeMintForm(p, i)
  <2>1. r = decode_initialize_mint(i)
    BY <1>1 DEF Decoded
  <2>2. QED BY <1>1, <2>1, MintArgsAre DEF InitializeMintForm, decode_initialize_mint,
               InitializeMintParams, Fixed
<1>2. CASE k = "initialize_mint2" /\ InitializeMint2Form(p, i)
  <2>1. r = decode_initialize_mint2(i)
    BY <1>2 DEF Decoded
  <2>2. QED BY <1>2, <2>1, MintArgsAre DEF InitializeMint2Form, decode_initialize_mint2,
               InitializeMint2Params, InitializeMintParams, Fixed
<1>3. CASE k = "initialize_account" /\ InitializeAccountForm(p, i)
  <2>1. r = decode_initialize_account(i)
    BY <1>3 DEF Decoded
  <2>2. QED BY <1>3, <2>1 DEF InitializeAccountForm, decode_initialize_account,
               InitializeAccountParams, Fixed
<1>4. CASE k = "initialize_account2" /\ InitializeAccount2Form(p, i)
  <2>1. r = decode_initialize_account2(i)
    BY <1>4 DEF Decoded
  <2>2. QED BY <1>4, <2>1 DEF InitializeAccount2Form, decode_initialize_account2,
               InitializeAccount2Params, InitializeAccountParams, Fixed
<1>5. CASE k = "initialize_account3" /\ InitializeAccount3Form(p, i)
  <2>1. r = decode_initialize_account3(i)
    BY <1>5 DEF Decoded
  <2>2. QED BY <1>5, <2>1 DEF InitializeAccount3Form, decode_initialize_account3,
               InitializeAccount3Params, InitializeAccountParams, Fixed
<1>6. CASE k = "initialize_multisig" /\ InitializeMultisigForm(p, i)
  <2>1. r = decode_initialize_multisig(i)
    BY <1>6 DEF Decoded
  <2>2. Len(p.signers) \in Nat
    BY <1>6, ListsAreSequences DEF InitializeMultisigForm, InitializeMultisigParams
  <2>3. /\ i.type = "INITIALIZE_MULTISIG" /\ i.args[1] = p.m /\ p.m \in Nat
        /\ Len(i.accounts) = 2 + Len(p.signers) /\ i.program_id = p.program_id
    BY <1>6, <2>2, ModelAssumption DEF InitializeMultisigForm, Listing, Int8ul
  <2>4. CASE Len(p.signers) < p.m
    BY <1>6, <2>1, <2>2, <2>3, <2>4 DEF decode_initialize_multisig
  <2>5. CASE Len(p.signers) >= p.m
    BY <1>6, <2>1, <2>2, <2>3, <2>5 DEF InitializeMultisigForm, decode_initialize_multisig,
       InitializeMultisigParams, Listing
  <2>6. QED BY <2>2, <2>3, <2>4, <2>5
<1>7. CASE k = "initialize_multisig2" /\ InitializeMultisig2Form(p, i)
  <2>1. r = decode_initialize_multisig2(i)
    BY <1>7 DEF Decoded
  <2>2. Len(p.signers) \in Nat
    BY <1>7, ListsAreSequences DEF InitializeMultisig2Form, InitializeMultisig2Params,
       InitializeMultisigParams
  <2>3. /\ i.type = "INITIALIZE_MULTISIG2" /\ i.args[1] = p.m /\ p.m \in Nat
        /\ Len(i.accounts) = 1 + Len(p.signers) /\ i.program_id = p.program_id
    BY <1>7, <2>2, ModelAssumption DEF InitializeMultisig2Form, Listing, Int8ul
  <2>4. CASE Len(p.signers) < p.m
    BY <1>7, <2>1, <2>2, <2>3, <2>4 DEF decode_initialize_multisig2
  <2>5. CASE Len(p.signers) >= p.m
    BY <1>7, <2>1, <2>2, <2>3, <2>5 DEF InitializeMultisig2Form, decode_initialize_multisig2,
       InitializeMultisig2Params, InitializeMultisigParams, Listing
  <2>6. QED BY <2>2, <2>3, <2>4, <2>5
<1>8. CASE k = "transfer" /\ TransferForm(p, i)
  <2>1. r = decode_transfer(i)
    BY <1>8 DEF Decoded
  <2>2. Len(p.signers) \in Nat
    BY <1>8, ListsAreSequences DEF TransferForm, TransferParams
  <2>3. QED BY <1>8, <2>1, <2>2 DEF TransferForm, decode_transfer, TransferParams, Owned
<1>9. CASE k = "approve" /\ ApproveForm(p, i)
  <2>1. r = decode_approve(i)
    BY <1>9 DEF Decoded
  <2>2. Len(p.signers) \in Nat
    BY <1>9, ListsAreSequences DEF ApproveForm, ApproveParams
  <2>3. QED BY <1>9, <2>1, <2>2 DEF ApproveForm, decode_approve, ApproveParams, Owned
<1>10. CASE k = "revoke" /\ RevokeForm(p, i)
  <2>1. r = decode_revoke(i)
    BY <1>10 DEF Decoded
  <2>2. Len(p.signers) \in Nat
    BY <1>10, ListsAreSequences DEF RevokeForm, RevokeParams
  <2>3. QED BY <1>10, <2>1, <2>2 DEF RevokeForm, decode_revoke, RevokeParams, Owned
<1>11. CASE k = "set_authority" /\ SetAuthorityForm(p, i)
  <2>1. r = decode_set_authority(i)
    BY <1>11 DEF Decoded
  <2>2. Len(p.signers) \in Nat
    BY <1>11, ListsAreSequences DEF SetAuthorityForm, SetAuthorityParams
  <2>3. QED BY <1>11, <2>1, <2>2, AuthorityArgsAre DEF SetAuthorityForm, decode_set_authority,
               SetAuthorityParams, Owned
<1>12. CASE k = "mint_to" /\ MintToForm(p, i)
  <2>1. r = decode_mint_to(i)
    BY <1>12 DEF Decoded
  <2>2. Len(p.signers) \in Nat
    BY <1>12, ListsAreSequences DEF MintToForm, MintToParams
  <2>3. QED BY <1>12, <2>1, <2>2 DEF MintToForm, decode_mint_to, MintToParams, Owned
<1>13. CASE k = "burn" /\ BurnForm(p, i)
  <2>1. r = decode_burn(i)
    BY <1>13 DEF Decoded
  <2>2. Len(p.signers) \in Nat
    BY <1>13, ListsAreSequences DEF BurnForm, BurnParams
  <2>3. QED BY <1>13, <2>1, <2>2 DEF BurnForm, decode_burn, BurnParams, Owned
<1>14. CASE k = "close_account" /\ CloseAccountForm(p, i)
  <2>1. r = decode_close_account(i)
    BY <1>14 DEF Decoded
  <2>2. Len(p.signers) \in Nat
    BY <1>14, ListsAreSequences DEF CloseAccountForm, CloseAccountParams
  <2>3. QED BY <1>14, <2>1, <2>2 DEF CloseAccountForm, decode_close_account, CloseAccountParams,
               Owned
<1>15. CASE k = "freeze_account" /\ FreezeAccountForm(p, i)
  <2>1. r = decode_freeze_account(i)
    BY <1>15 DEF Decoded
  <2>2. Len(p.multi_signers) \in Nat
    BY <1>15, ListsAreSequences DEF FreezeAccountForm, FreezeAccountParams
  <2>3. QED BY <1>15, <2>1, <2>2 DEF FreezeAccountForm, decode_freeze_account,
               FreezeAccountParams, Owned
<1>16. CASE k = "thaw_account" /\ ThawAccountForm(p, i)
  <2>1. r = decode_thaw_account(i)
    BY <1>16 DEF Decoded
  <2>2. Len(p.multi_signers) \in Nat
    BY <1>16, ListsAreSequences DEF ThawAccountForm, ThawAccountParams, FreezeAccountParams
  <2>3. QED BY <1>16, <2>1, <2>2 DEF ThawAccountForm, decode_thaw_account, ThawAccountParams,
               FreezeAccountParams, Owned
<1>17. CASE k = "transfer_checked" /\ TransferCheckedForm(p, i)
  <2>1. r = decode_transfer_checked(i)
    BY <1>17 DEF Decoded
  <2>2. Len(p.signers) \in Nat
    BY <1>17, ListsAreSequences DEF TransferCheckedForm, TransferCheckedParams
  <2>3. QED BY <1>17, <2>1, <2>2 DEF TransferCheckedForm, decode_transfer_checked,
               TransferCheckedParams, Owned
<1>18. CASE k = "approve_checked" /\ ApproveCheckedForm(p, i)
  <2>1. r = decode_approve_checked(i)
    BY <1>18 DEF Decoded
  <2>2. Len(p.signers) \in Nat
    BY <1>18, ListsAreSequences DEF ApproveCheckedForm, ApproveCheckedParams
  <2>3. QED BY <1>18, <2>1, <2>2 DEF ApproveCheckedForm, decode_approve_checked,
               ApproveCheckedParams, Owned
<1>19. CASE k = "mint_to_checked" /\ MintToCheckedForm(p, i)
  <2>1. r = decode_mint_to_checked(i)
    BY <1>19 DEF Decoded
  <2>2. Len(p.signers) \in Nat
    BY <1>19, ListsAreSequences DEF MintToCheckedForm, MintToCheckedParams
  <2>3. QED BY <1>19, <2>1, <2>2 DEF MintToCheckedForm, decode_mint_to_checked,
               MintToCheckedParams, Owned
<1>20. CASE k = "burn_checked" /\ BurnCheckedForm(p, i)
  <2>1. r = decode_burn_checked(i)
    BY <1>20 DEF Decoded
  <2>2. Len(p.signers) \in Nat
    BY <1>20, ListsAreSequences DEF BurnCheckedForm, BurnCheckedParams
  <2>3. QED BY <1>20, <2>1, <2>2 DEF BurnCheckedForm, decode_burn_checked, BurnCheckedParams,
               Owned
<1>21. CASE k = "sync_native" /\ SyncNativeForm(p, i)
  <2>1. r = decode_sync_native(i)
    BY <1>21 DEF Decoded
  <2>2. QED BY <1>21, <2>1 DEF SyncNativeForm, decode_sync_native, SyncNativeParams, Fixed
<1>22. CASE k = "get_account_data_size" /\ GetAccountDataSizeForm(p, i)
  <2>1. r = decode_get_account_data_size(i)
    BY <1>22 DEF Decoded
  <2>2. QED BY <1>22, <2>1 DEF GetAccountDataSizeForm, decode_get_account_data_size,
               GetAccountDataSizeParams, Fixed
<1>23. CASE k = "initialize_immutable_owner" /\ InitializeImmutableOwnerForm(p, i)
  <2>1. r = decode_initialize_immutable_owner(i)
    BY <1>23 DEF Decoded
  <2>2. QED BY <1>23, <2>1 DEF InitializeImmutableOwnerForm, decode_initialize_immutable_owner,
               InitializeImmutableOwnerParams, Fixed
<1>24. CASE k = "initialize_transfer_fee_config" /\ InitializeTransferFeeConfigForm(p, i)
  <2>1. r = decode_initialize_transfer_fee_config(i)
    BY <1>24 DEF Decoded
  <2>2. QED BY <1>24, <2>1, FeeConfigArgsAre DEF InitializeTransferFeeConfigForm,
               decode_initialize_transfer_fee_config, InitializeTransferFeeConfigParams, Fixed
<1>25. CASE /\ k = "withdraw_withheld_tokens_from_accounts"
            /\ WithdrawWithheldTokensFromAccountsForm(p, i)
  <2>1. r = decode_withdraw_withheld_tokens_from_accounts(i)
    BY <1>25 DEF Decoded
  <2>2. Len(p.signers) \in Nat /\ Len(p.sources) \in Nat
    BY <1>25, ListsAreSequences DEF WithdrawWithheldTokensFromAccountsForm,
       WithdrawWithheldTokensFromAccountsParams
  <2>3. QED BY <1>25, <2>1, <2>2 DEF WithdrawWithheldTokensFromAccountsForm,
               decode_withdraw_withheld_tokens_from_accounts,
               WithdrawWithheldTokensFromAccountsParams, SignersBefore, Sourced
<1>26. CASE k = "withdraw_withheld_tokens_from_mint" /\ WithdrawWithheldTokensFromMintForm(p, i)
  <2>1. r = decode_withdraw_withheld_tokens_from_mint(i)
    BY <1>26 DEF Decoded
  <2>2. Len(p.signers) \in Nat
    BY <1>26, ListsAreSequences DEF WithdrawWithheldTokensFromMintForm,
       WithdrawWithheldTokensFromMintParams
  <2>3. QED BY <1>26, <2>1, <2>2 DEF WithdrawWithheldTokensFromMintForm,
               decode_withdraw_withheld_tokens_from_mint, WithdrawWithheldTokensFromMintParams,
               Owned
<1>27. CASE k = "harvest_withheld_tokens_to_mint" /\ HarvestWithheldTokensToMintForm(p, i)
  <2>1. r = decode_harvest_withheld_tokens_to_mint(i)
    BY <1>27 DEF Decoded
  <2>2. Len(p.sources) \in Nat
    BY <1>27, ListsAreSequences DEF HarvestWithheldTokensToMintForm,
       HarvestWithheldTokensToMintParams
  <2>3. QED BY <1>27, <2>1, <2>2 DEF HarvestWithheldTokensToMintForm,
               decode_harvest_withheld_tokens_to_mint, HarvestWithheldTokensToMintParams,
               Listing
<1>28. CASE k = "amount_to_ui_amount" /\ AmountToUiAmountForm(p, i)
  <2>1. r = decode_amount_to_ui_amount(i)
    BY <1>28 DEF Decoded
  <2>2. QED BY <1>28, <2>1 DEF AmountToUiAmountForm, decode_amount_to_ui_amount,
               AmountToUiAmountParams, Fixed
<1>29. CASE k = "ui_amount_to_amount" /\ UiAmountToAmountForm(p, i)
  <2>1. r = decode_ui_amount_to_amount(i)
    BY <1>29 DEF Decoded
  <2>2. QED BY <1>29, <2>1 DEF UiAmountToAmountForm, decode_ui_amount_to_amount,
               UiAmountToAmountParams, Fixed
<1>30. CASE k = "create_associated_token_account" /\ CreateAssociatedTokenAccountForm(p, i)
  BY <1>30 DEF Decoded
<1>31. CASE /\ k = "create_idempotent_associated_token_account"
            /\ CreateIdempotentAssociatedTokenAccountForm(p, i)
  BY <1>31 DEF Decoded
<1>32. CASE k = "create_memo" /\ CreateMemoForm(p, i)
  <2>1. r = decode_create_memo(i)
    BY <1>32 DEF Decoded
  <2>2. QED BY <1>32, <2>1 DEF CreateMemoForm, decode_create_memo, MemoParams, Key, Meta
<1>33. CASE k = "withdraw_from_vote_account" /\ WithdrawFromVoteAccountForm(p, i)
  BY <1>33 DEF Decoded
<1> HIDE DEF Carries, Instruction, parse_and_validate_instruction, HasKeys, Multisigs, Fee
<1>34. QED BY <1>1, <1>2, <1>3, <1>4, <1>5, <1>6, <1>7, <1>8, <1>9, <1>10, <1>11, <1>12, <1>13,
              <1>14, <1>15, <1>16, <1>17, <1>18, <1>19, <1>20, <1>21, <1>22, <1>23, <1>24,
              <1>25, <1>26, <1>27, <1>28, <1>29, <1>30, <1>31, <1>32, <1>33 DEF Formed
(* What comes back as it was encoded is decoded to the very parameters.    *)
THEOREM ParametersReturn == Spec => []RoundTrip
<1>1. IInv => RoundTrip
  BY ReadBack DEF IInv, RoundTrip
<1>2. QED BY <1>1, Invariance, PTL

----------------------------------------------------------------------------
(* The signatures.                                                         *)

LEMMA OneList ==
    ASSUME NEW s, s \in Lists
    PROVE  s \o <<>> = s /\ <<>> \o s = s
BY ListsAreSequences, ConcatEmptySeq

LEMMA PayerSigns ==
    ASSUME NEW p \in AssociatedParams, NEW i,
           \/ i.accounts = AssociatedAccounts(p)
           \/ i.accounts = AssociatedAccounts(p) \o <<Readonly(RENT)>>
    PROVE  SignerKeys(i) = {p.payer}
<1> DEFINE a == AssociatedAccounts(p)
           m == Readonly(RENT)
           S == OtherMetas(p)
<1>1. /\ a[1].pubkey = p.payer /\ a[1].is_signer = TRUE
      /\ \A k \in 2..6 : a[k].is_signer = FALSE
  BY DEF AssociatedAccounts, Meta, Writable, Readonly
<1>2. a \in Seq(S) /\ Len(a) = 6 /\ m \in S /\ m.is_signer = FALSE
  BY AssociatedAreMetas DEF Readonly, Meta
<1> HIDE DEF a, m, S
<1>3. CASE i.accounts = a
  <2>1. {k \in 1..Len(a) : a[k].is_signer} = {1}
    BY <1>1, <1>2
  <2>2. QED BY <1>1, <1>3, <2>1 DEF SignerKeys
<1>4. CASE i.accounts = a \o <<m>>
  <2> DEFINE b == a \o <<m>>
  <2>1. Len(b) = 7 /\ b[7] = m /\ \A k \in 1..6 : b[k] = a[k]
    <3> DEFINE c == <<m>>
    <3>1. c \in Seq(S) /\ Len(c) = 1 /\ c[1] = m
      BY <1>2
    <3> HIDE DEF c
    <3>2. Join(a \o c, S, a, c)
      BY <1>2, <3>1, JoinIs
    <3>3. 1 \in 1..Len(c) /\ Len(a) + 1 = 7
      BY <1>2, <3>1
    <3>4. QED BY <1>2, <3>1, <3>2, <3>3 DEF Join, c
  <2> HIDE DEF b
  <2>2. {k \in 1..Len(b) : b[k].is_signer} = {1}
    BY <1>1, <1>2, <2>1
  <2>3. QED BY <1>1, <1>4, <2>1, <2>2 DEF SignerKeys, b
<1>5. QED BY <1>3, <1>4 DEF a, m

LEMMA Signatures ==
    ASSUME Formed(kind, params, instr)
    PROVE  SignerKeys(instr) = Required
<1> USE DEF ListOf
<1>1. CASE kind = "initialize_mint" /\ InitializeMintForm(params, instr)
  BY <1>1, PlainSignsNothing DEF InitializeMintForm, Fixed, Required, Unsigned, Multisigs
<1>2. CASE kind = "initialize_mint2" /\ InitializeMint2Form(params, instr)
  BY <1>2, PlainSignsNothing DEF InitializeMint2Form, Fixed, Required, Unsigned, Multisigs
<1>3. CASE kind = "initialize_account" /\ InitializeAccountForm(params, instr)
  BY <1>3, PlainSignsNothing DEF InitializeAccountForm, Fixed, Required, Unsigned, Multisigs
<1>4. CASE kind = "initialize_account2" /\ InitializeAccount2Form(params, instr)
  BY <1>4, PlainSignsNothing DEF InitializeAccount2Form, Fixed, Required, Unsigned, Multisigs
<1>5. CASE kind = "initialize_account3" /\ InitializeAccount3Form(params, instr)
  BY <1>5, PlainSignsNothing DEF InitializeAccount3Form, Fixed, Required, Unsigned, Multisigs
<1>6. CASE kind = "initialize_multisig" /\ InitializeMultisigForm(params, instr)
  BY <1>6, PlainSignsNothing DEF InitializeMultisigForm, Listing, Required, Unsigned, Multisigs
<1>7. CASE kind = "initialize_multisig2" /\ InitializeMultisig2Form(params, instr)
  BY <1>7, PlainSignsNothing DEF InitializeMultisig2Form, Listing, Required, Unsigned, Multisigs
<1>8. CASE kind = "transfer" /\ TransferForm(params, instr)
  <2>1. DOMAIN params = {"program_id", "source", "dest", "owner", "amount", "signers"}
    BY <1>8 DEF TransferForm, TransferParams
  <2>2. AuthorityFields = {"owner"}
    BY <1>8, <2>1 DEF AuthorityFields, Authorities
  <2>3. params.signers \in Lists
    BY <1>8 DEF TransferForm, TransferParams
  <2>4. params.signers \o <<>> = params.signers
    BY <2>3, OneList
  <2>5. Required = Signing(params.owner, params.signers)
    BY <1>8, <2>1, <2>2, <2>4 DEF Required, Unsigned, Multisigs, Signing
  <2>6. QED BY <1>8, <2>5 DEF TransferForm, Owned
<1>9. CASE kind = "approve" /\ ApproveForm(params, instr)
  <2>1. DOMAIN params = {"program_id", "source", "delegate", "owner", "amount", "signers"}
    BY <1>9 DEF ApproveForm, ApproveParams
  <2>2. AuthorityFields = {"owner"}
    BY <1>9, <2>1 DEF AuthorityFields, Authorities
  <2>3. params.signers \in Lists
    BY <1>9 DEF ApproveForm, ApproveParams
  <2>4. params.signers \o <<>> = params.signers
    BY <2>3, OneList
  <2>5. Required = Signing(params.owner, params.signers)
    BY <1>9, <2>1, <2>2, <2>4 DEF Required, Unsigned, Multisigs, Signing
  <2>6. QED BY <1>9, <2>5 DEF ApproveForm, Owned
<1>10. CASE kind = "revoke" /\ RevokeForm(params, instr)
  <2>1. DOMAIN params = {"program_id", "account", "owner", "signers"}
    BY <1>10 DEF RevokeForm, RevokeParams
  <2>2. AuthorityFields = {"owner"}
    BY <1>10, <2>1 DEF AuthorityFields, Authorities
  <2>3. params.signers \in Lists
    BY <1>10 DEF RevokeForm, RevokeParams
  <2>4. params.signers \o <<>> = params.signers
    BY <2>3, OneList
  <2>5. Required = Signing(params.owner, params.signers)
    BY <1>10, <2>1, <2>2, <2>4 DEF Required, Unsigned, Multisigs, Signing
  <2>6. QED BY <1>10, <2>5 DEF RevokeForm, Owned
<1>11. CASE kind = "set_authority" /\ SetAuthorityForm(params, instr)
  <2>1. DOMAIN params = {"program_id", "account", "authority", "current_authority", "signers",
                         "new_authority"}
    BY <1>11 DEF SetAuthorityForm, SetAuthorityParams
  <2>2. AuthorityFields = {"current_authority"}
    BY <1>11, <2>1 DEF AuthorityFields, Authorities
  <2>3. params.signers \in Lists
    BY <1>11 DEF SetAuthorityForm, SetAuthorityParams
  <2>4. params.signers \o <<>> = params.signers
    BY <2>3, OneList
  <2>5. Required = Signing(params.current_authority, params.signers)
    BY <1>11, <2>1, <2>2, <2>4 DEF Required, Unsigned, Multisigs, Signing
  <2>6. QED BY <1>11, <2>5 DEF SetAuthorityForm, Owned
<1>12. CASE kind = "mint_to" /\ MintToForm(params, instr)
  <2>1. DOMAIN params = {"program_id", "mint", "dest", "mint_authority", "amount", "signers"}
    BY <1>12 DEF MintToForm, MintToParams
  <2>2. AuthorityFields = {"mint_authority"}
    BY <1>12, <2>1 DEF AuthorityFields, Authorities
  <2>3. params.signers \in Lists
    BY <1>12 DEF MintToForm, MintToParams
  <2>4. params.signers \o <<>> = params.signers
    BY <2>3, OneList
  <2>5. Required = Signing(params.mint_authority, params.signers)
    BY <1>12, <2>1, <2>2, <2>4 DEF Required, Unsigned, Multisigs, Signing
  <2>6. QED BY <1>12, <2>5 DEF MintToForm, Owned
<1>13. CASE kind = "burn" /\ BurnForm(params, instr)
  <2>1. DOMAIN params = {"program_id", "account", "mint", "owner", "amount", "signers"}
    BY <1>13 DEF BurnForm, BurnParams
  <2>2. AuthorityFields = {"owner"}
    BY <1>13, <2>1 DEF AuthorityFields, Authorities
  <2>3. params.signers \in Lists
    BY <1>13 DEF BurnForm, BurnParams
  <2>4. params.signers \o <<>> = params.signers
    BY <2>3, OneList
  <2>5. Required = Signing(params.owner, params.signers)
    BY <1>13, <2>1, <2>2, <2>4 DEF Required, Unsigned, Multisigs, Signing
  <2>6. QED BY <1>13, <2>5 DEF BurnForm, Owned
<1>14. CASE kind = "close_account" /\ CloseAccountForm(params, instr)
  <2>1. DOMAIN params = {"program_id", "account", "dest", "owner", "signers"}
    BY <1>14 DEF CloseAccountForm, CloseAccountParams
  <2>2. AuthorityFields = {"owner"}
    BY <1>14, <2>1 DEF AuthorityFields, Authorities
  <2>3. params.signers \in Lists
    BY <1>14 DEF CloseAccountForm, CloseAccountParams
  <2>4. params.signers \o <<>> = params.signers
    BY <2>3, OneList
  <2>5. Required = Signing(params.owner, params.signers)
    BY <1>14, <2>1, <2>2, <2>4 DEF Required, Unsigned, Multisigs, Signing
  <2>6. QED BY <1>14, <2>5 DEF CloseAccountForm, Owned
<1>15. CASE kind = "freeze_account" /\ FreezeAccountForm(params, instr)
  <2>1. DOMAIN params = {"program_id", "account", "mint", "authority", "multi_signers"}
    BY <1>15 DEF FreezeAccountForm, FreezeAccountParams
  <2>2. AuthorityFields = {"authority"}
    BY <1>15, <2>1 DEF AuthorityFields, Authorities
  <2>3. params.multi_signers \in Lists
    BY <1>15 DEF FreezeAccountForm, FreezeAccountParams
  <2>4. <<>> \o params.multi_signers = params.multi_signers
    BY <2>3, OneList
  <2>5. Required = Signing(params.authority, params.multi_signers)
    BY <1>15, <2>1, <2>2, <2>4 DEF Required, Unsigned, Multisigs, Signing
  <2>6. QED BY <1>15, <2>5 DEF FreezeAccountForm, Owned
<1>16. CASE kind = "thaw_account" /\ ThawAccountForm(params, instr)
  <2>1. DOMAIN params = {"program_id", "account", "mint", "authority", "multi_signers"}
    BY <1>16 DEF ThawAccountForm, ThawAccountParams, FreezeAccountParams
  <2>2. AuthorityFields = {"authority"}
    BY <1>16, <2>1 DEF AuthorityFields, Authorities
  <2>3. params.multi_signers \in Lists
    BY <1>16 DEF ThawAccountForm, ThawAccountParams, FreezeAccountParams
  <2>4. <<>> \o params.multi_signers = params.multi_signers
    BY <2>3, OneList
  <2>5. Required = Signing(params.authority, params.multi_signers)
    BY <1>16, <2>1, <2>2, <2>4 DEF Required, Unsigned, Multisigs, Signing
  <2>6. QED BY <1>16, <2>5 DEF ThawAccountForm, Owned
<1>17. CASE kind = "transfer_checked" /\ TransferCheckedForm(params, instr)
  <2>1. DOMAIN params = {"program_id", "source", "mint", "dest", "owner", "amount", "decimals",
                         "signers"}
    BY <1>17 DEF TransferCheckedForm, TransferCheckedParams
  <2>2. AuthorityFields = {"owner"}
    BY <1>17, <2>1 DEF AuthorityFields, Authorities
  <2>3. params.signers \in Lists
    BY <1>17 DEF TransferCheckedForm, TransferCheckedParams
  <2>4. params.signers \o <<>> = params.signers
    BY <2>3, OneList
  <2>5. Required = Signing(params.owner, params.signers)
    BY <1>17, <2>1, <2>2, <2>4 DEF Required, Unsigned, Multisigs, Signing
  <2>6. QED BY <1>17, <2>5 DEF TransferCheckedForm, Owned
<1>18. CASE kind = "approve_checked" /\ ApproveCheckedForm(params, instr)
  <2>1. DOMAIN params = {"program_id", "source", "mint", "delegate", "owner", "amount",
                         "decimals", "signers"}
    BY <1>18 DEF ApproveCheckedForm, ApproveCheckedParams
  <2>2. AuthorityFields = {"owner"}
    BY <1>18, <2>1 DEF AuthorityFields, Authorities
  <2>3. params.signers \in Lists
    BY <1>18 DEF ApproveCheckedForm, ApproveCheckedParams
  <2>4. params.signers \o <<>> = params.signers
    BY <2>3, OneList
  <2>5. Required = Signing(params.owner, params.signers)
    BY <1>18, <2>1, <2>2, <2>4 DEF Required, Unsigned, Multisigs, Signing
  <2>6. QED BY <1>18, <2>5 DEF ApproveCheckedForm, Owned
<1>19. CASE kind = "mint_to_checked" /\ MintToCheckedForm(params, instr)
  <2>1. DOMAIN params = {"program_id", "mint", "dest", "mint_authority", "amount", "decimals",
                         "signers"}
    BY <1>19 DEF MintToCheckedForm, MintToCheckedParams
  <2>2. AuthorityFields = {"mint_authority"}
    BY <1>19, <2>1 DEF AuthorityFields, Authorities
  <2>3. params.signers \in Lists
    BY <1>19 DEF MintToCheckedForm, MintToCheckedParams
  <2>4. params.signers \o <<>> = params.signers
    BY <2>3, OneList
  <2>5. Required = Signing(params.mint_authority, params.signers)
    BY <1>19, <2>1, <2>2, <2>4 DEF Required, Unsigned, Multisigs, Signing
  <2>6. QED BY <1>19, <2>5 DEF MintToCheckedForm, Owned
<1>20. CASE kind = "burn_checked" /\ BurnCheckedForm(params, instr)
  <2>1. DOMAIN params = {"program_id", "mint", "account", "owner", "amount", "decimals",
                         "signers"}
    BY <1>20 DEF BurnCheckedForm, BurnCheckedParams
  <2>2. AuthorityFields = {"owner"}
    BY <1>20, <2>1 DEF AuthorityFields, Authorities
  <2>3. params.signers \in Lists
    BY <1>20 DEF BurnCheckedForm, BurnCheckedParams
  <2>4. params.signers \o <<>> = params.signers
    BY <2>3, OneList
  <2>5. Required = Signing(params.owner, params.signers)
    BY <1>20, <2>1, <2>2, <2>4 DEF Required, Unsigned, Multisigs, Signing
  <2>6. QED BY <1>20, <2>5 DEF BurnCheckedForm, Owned
<1>21. CASE kind = "sync_native" /\ SyncNativeForm(params, instr)
  BY <1>21, PlainSignsNothing DEF SyncNativeForm, Fixed, Required, Unsigned, Multisigs
<1>22. CASE kind = "get_account_data_size" /\ GetAccountDataSizeForm(params, instr)
  BY <1>22, PlainSignsNothing DEF GetAccountDataSizeForm, Fixed, Required, Unsigned, Multisigs
<1>23. CASE kind = "initialize_immutable_owner" /\ InitializeImmutableOwnerForm(params, instr)
  BY <1>23, PlainSignsNothing DEF InitializeImmutableOwnerForm, Fixed, Required, Unsigned,
     Multisigs
<1>24. CASE /\ kind = "initialize_transfer_fee_config"
            /\ InitializeTransferFeeConfigForm(params, instr)
  BY <1>24, PlainSignsNothing DEF InitializeTransferFeeConfigForm, Fixed, Required, Unsigned,
     Multisigs
<1>25. CASE /\ kind = "withdraw_withheld_tokens_from_accounts"
            /\ WithdrawWithheldTokensFromAccountsForm(params, instr)
  <2>1. DOMAIN params = {"program_id", "mint", "dest", "authority", "signers", "sources"}
    BY <1>25 DEF WithdrawWithheldTokensFromAccountsForm,
       WithdrawWithheldTokensFromAccountsParams
  <2>2. AuthorityFields = {"authority"}
    BY <1>25, <2>1 DEF AuthorityFields, Authorities
  <2>3. params.signers \in Lists
    BY <1>25 DEF WithdrawWithheldTokensFromAccountsForm,
       WithdrawWithheldTokensFromAccountsParams
  <2>4. params.signers \o <<>> = params.signers
    BY <2>3, OneList
  <2>5. Required = Signing(params.authority, params.signers)
    BY <1>25, <2>1, <2>2, <2>4 DEF Required, Unsigned, Multisigs, Signing
  <2>6. QED BY <1>25, <2>5 DEF WithdrawWithheldTokensFromAccountsForm, Sourced
<1>26. CASE /\ kind = "withdraw_withheld_tokens_from_mint"
            /\ WithdrawWithheldTokensFromMintForm(params, instr)
  <2>1. DOMAIN params = {"program_id", "mint", "dest", "authority", "signers"}
    BY <1>26 DEF WithdrawWithheldTokensFromMintForm, WithdrawWithheldTokensFromMintParams
  <2>2. AuthorityFields = {"authority"}
    BY <1>26, <2>1 DEF AuthorityFields, Authorities
  <2>3. params.signers \in Lists
    BY <1>26 DEF WithdrawWithheldTokensFromMintForm, WithdrawWithheldTokensFromMintParams
  <2>4. params.signers \o <<>> = params.signers
    BY <2>3, OneList
  <2>5. Required = Signing(params.authority, params.signers)
    BY <1>26, <2>1, <2>2, <2>4 DEF Required, Unsigned, Multisigs, Signing
  <2>6. QED BY <1>26, <2>5 DEF WithdrawWithheldTokensFromMintForm, Owned
<1>27. CASE /\ kind = "harvest_withheld_tokens_to_mint"
            /\ HarvestWithheldTokensToMintForm(params, instr)
  BY <1>27, PlainSignsNothing DEF HarvestWithheldTokensToMintForm, Listing, Required, Unsigned,
     Multisigs
<1>28. CASE kind = "amount_to_ui_amount" /\ AmountToUiAmountForm(params, instr)
  BY <1>28, PlainSignsNothing DEF AmountToUiAmountForm, Fixed, Required, Unsigned, Multisigs
<1>29. CASE kind = "ui_amount_to_amount" /\ UiAmountToAmountForm(params, instr)
  BY <1>29, PlainSignsNothing DEF UiAmountToAmountForm, Fixed, Required, Unsigned, Multisigs
<1>30. CASE /\ kind = "create_associated_token_account"
            /\ CreateAssociatedTokenAccountForm(params, instr)
  <2>1. DOMAIN params = {"payer", "owner", "mint", "token_program_id"}
    BY <1>30 DEF CreateAssociatedTokenAccountForm, AssociatedParams
  <2>2. AuthorityFields = {"payer"}
    BY <1>30, <2>1 DEF AuthorityFields, Authorities
  <2>3. Required = {params.payer}
    BY <1>30, <2>1, <2>2, ConcatEmptySeq DEF Required, Unsigned, Multisigs
  <2>4. QED BY <1>30, <2>3, PayerSigns DEF CreateAssociatedTokenAccountForm, Instruction
<1>31. CASE /\ kind = "create_idempotent_associated_token_account"
            /\ CreateIdempotentAssociatedTokenAccountForm(params, instr)
  <2>1. DOMAIN params = {"payer", "owner", "mint", "token_program_id"}
    BY <1>31 DEF CreateIdempotentAssociatedTokenAccountForm, AssociatedParams
  <2>2. AuthorityFields = {"payer"}
    BY <1>31, <2>1 DEF AuthorityFields, Authorities
  <2>3. Required = {params.payer}
    BY <1>31, <2>1, <2>2, ConcatEmptySeq DEF Required, Unsigned, Multisigs
  <2>4. QED BY <1>31, <2>3, PayerSigns DEF CreateIdempotentAssociatedTokenAccountForm,
               Instruction
<1>32. CASE kind = "create_memo" /\ CreateMemoForm(params, instr)
  <2>1. DOMAIN params = {"program_id", "signer", "message"}
    BY <1>32 DEF CreateMemoForm, MemoParams
  <2>2. AuthorityFields = {"signer"}
    BY <1>32, <2>1 DEF AuthorityFields, Authorities
  <2>3. Required = {params.signer}
    BY <1>32, <2>1, <2>2, ConcatEmptySeq DEF Required, Unsigned, Multisigs
  <2>4. instr.accounts = <<Meta(params.signer, TRUE, TRUE)>>
    BY <1>32 DEF CreateMemoForm
  <2>5. QED BY <2>3, <2>4 DEF SignerKeys, Meta
<1>33. CASE kind = "withdraw_from_vote_account" /\ WithdrawFromVoteAccountForm(params, instr)
  <2>1. DOMAIN params = {"vote_account_from_pubkey", "to_pubkey", "withdrawer", "lamports"}
    BY <1>33 DEF WithdrawFromVoteAccountForm, WithdrawFromVoteAccountParams
  <2>2. AuthorityFields = {"withdrawer"}
    BY <1>33, <2>1 DEF AuthorityFields, Authorities
  <2>3. Required = {params.withdrawer}
    BY <1>33, <2>1, <2>2, ConcatEmptySeq DEF Required, Unsigned, Multisigs
  <2>4. instr.accounts = <<Writable(params.vote_account_from_pubkey),
                           Writable(params.to_pubkey), Meta(params.withdrawer, TRUE, TRUE)>>
    BY <1>33 DEF WithdrawFromVoteAccountForm
  <2>5. QED BY <2>3, <2>4 DEF SignerKeys, Meta, Writable
<1> HIDE DEF ListOf
<1>34. QED BY <1>1, <1>2, <1>3, <1>4, <1>5, <1>6, <1>7, <1>8, <1>9, <1>10, <1>11, <1>12, <1>13,
              <1>14, <1>15, <1>16, <1>17, <1>18, <1>19, <1>20, <1>21, <1>22, <1>23, <1>24,
              <1>25, <1>26, <1>27, <1>28, <1>29, <1>30, <1>31, <1>32, <1>33 DEF Formed

(* An instruction lists as signers exactly those whose signature it needs. *)
THEOREM TheRightOnesSign == Spec => []SignaturesRequired
<1>1. IInv => SignaturesRequired
  <2>1. SUFFICES ASSUME IInv, pc = "encoded"
                 PROVE  \A key \in Pubkeys :
                            key \in Required <=>
                            \E k \in 1..Len(instr.accounts) :
                                instr.accounts[k].pubkey = key /\ instr.accounts[k].is_signer
    BY DEF SignaturesRequired
  <2>2. SignerKeys(instr) = Required
    BY <2>1, Signatures DEF IInv
  <2>3. QED BY <2>2 DEF SignerKeys
<1>2. QED BY <1>1, Invariance, PTL
----------------------------------------------------------------------------
(* The accounts behind the fixed ones.                                     *)

Stretch(s, i, m, n) ==
    /\ s \in Seq(AnyKey)
    /\ Len(s) = IF n >= m THEN n - m + 1 ELSE 0
    /\ \A k \in 1..Len(s) : s[k] = i.accounts[m + k - 1].pubkey

LEMMA KeysAre ==
    ASSUME NEW i, i.accounts \in Seq(Metas), NEW m \in Nat \ {0}, NEW n \in 0..Len(i.accounts)
    PROVE  Stretch(Keys(i, m, n), i, m, n)
<1> DEFINE c == IF n >= m THEN n - m + 1 ELSE 0
<1>1. c \in Nat /\ \A k \in 1..c : m + k - 1 \in 1..Len(i.accounts)
  BY LenProperties
<1>2. \A k \in 1..c : i.accounts[m + k - 1].pubkey \in AnyKey
  <2>1. \A k \in 1..c : i.accounts[m + k - 1] \in Metas
    BY <1>1, ElementOfSeq
  <2>2. QED BY <2>1 DEF Metas
<1> HIDE DEF c
<1>3. Keys(i, m, n) = [k \in 1..c |-> i.accounts[m + k - 1].pubkey]
  BY DEF Keys, c
<1>4. Keys(i, m, n) \in Seq(AnyKey) /\ Len(Keys(i, m, n)) = c
  BY <1>1, <1>2, <1>3
<1>5. \A k \in 1..c : Keys(i, m, n)[k] = i.accounts[m + k - 1].pubkey
  BY <1>1, <1>3
<1>6. QED BY <1>4, <1>5 DEF c, Stretch

(* Two stretches of keys that meet.                                        *)
LEMMA KeysJoin ==
    ASSUME NEW i, i.accounts \in Seq(Metas), NEW m \in Nat \ {0},
           NEW n \in Nat, n <= Len(i.accounts), m <= n + 1
    PROVE  Keys(i, m, n) \o KeysFrom(i, n + 1) = KeysFrom(i, m)
<1> DEFINE l == Len(i.accounts)
           s == Keys(i, m, n)
           t == Keys(i, n + 1, l)
           u == Keys(i, m, l)
<1>1. l \in Nat /\ l \in 0..Len(i.accounts) /\ n <= l /\ m <= l + 1
  BY LenProperties
<1>2. /\ s \in Seq(AnyKey) /\ Len(s) = n - m + 1
      /\ \A k \in 1..Len(s) : s[k] = i.accounts[m + k - 1].pubkey
  <2>1. m \in Nat \ {0} /\ n \in 0..Len(i.accounts)
    BY <1>1
  <2> HIDE DEF l
  <2>2. Stretch(s, i, m, n)
    BY <2>1, KeysAre
  <2> HIDE DEF s
  <2>3. QED BY <1>1, <2>2 DEF Stretch
<1>3. /\ t \in Seq(AnyKey) /\ Len(t) = l - n
      /\ \A k \in 1..Len(t) : t[k] = i.accounts[n + 1 + k - 1].pubkey
  <2>1. n + 1 \in Nat \ {0} /\ l \in 0..Len(i.accounts)
    BY <1>1
  <2> HIDE DEF l
  <2>2. Stretch(t, i, n + 1, l)
    BY <2>1, KeysAre
  <2> HIDE DEF t
  <2>3. QED BY <1>1, <2>2 DEF Stretch
<1>4. /\ u \in Seq(AnyKey) /\ Len(u) = l - m + 1
      /\ \A k \in 1..Len(u) : u[k] = i.accounts[m + k - 1].pubkey
  <2>1. m \in Nat \ {0} /\ l \in 0..Len(i.accounts)
    BY <1>1
  <2> HIDE DEF l
  <2>2. Stretch(u, i, m, l)
    BY <2>1, KeysAre
  <2> HIDE DEF u
  <2>3. QED BY <1>1, <2>2 DEF Stretch
<1> HIDE DEF l, s, t, u
<1>5. Join(s \o t, AnyKey, s, t)
  BY <1>2, <1>3, JoinIs
<1> DEFINE a == s \o t
<1>6. a \in Seq(AnyKey) /\ Len(a) = Len(u)
  BY <1>1, <1>2, <1>3, <1>4, <1>5 DEF Join
<1>7. ASSUME NEW k \in 1..Len(a)
      PROVE  a[k] = u[k]
  <2>1. CASE k \in 1..Len(s)
    BY <1>2, <1>4, <1>5, <1>6, <2>1 DEF Join
  <2>2. CASE k \notin 1..Len(s)
    <3> DEFINE j == k - Len(s)
    <3>1. j \in 1..Len(t) /\ Len(s) + j = k /\ n + 1 + j - 1 = m + k - 1
      BY <1>1, <1>2, <1>3, <1>4, <1>6, <1>7, <2>2
    <3> HIDE DEF j
    <3>2. a[k] = t[j] /\ t[j] = i.accounts[n + 1 + j - 1].pubkey
      BY <1>3, <1>5, <3>1 DEF Join
    <3>3. QED BY <1>4, <1>6, <1>7, <3>1, <3>2
  <2>3. QED BY <2>1, <2>2
<1> HIDE DEF a
<1>8. a = u
  BY <1>4, <1>6, <1>7, SeqEqual
<1>9. QED BY <1>8 DEF a, s, t, u, l, KeysFrom

(* Parameters with one list, and those with two.                           *)
ListsOf(p) == DOMAIN p \cap {"signers", "multi_signers", "sources"}

Trails(p, f, s) == ListsOf(p) = {f} /\ p[f] = s /\ s \in Seq(AnyKey)

TrailsTwo(p, s, t) ==
    /\ ListsOf(p) = {"signers", "sources"}
    /\ p.signers = s /\ s \in Seq(AnyKey) /\ p.sources = t /\ t \in Seq(AnyKey)

LEMMA TrailingIs ==
    ASSUME NEW p, NEW f \in {"signers", "multi_signers", "sources"}, NEW s, Trails(p, f, s)
    PROVE  Trailing(p) = s
<1>1. CASE f = "signers"
  <2>1. /\ ListOf(p, "signers") = s /\ ListOf(p, "multi_signers") = <<>>
        /\ ListOf(p, "sources") = <<>>
    BY <1>1 DEF ListOf, Trails, ListsOf
  <2>2. QED BY <1>1, <2>1, ConcatEmptySeq DEF Trailing, Trails
<1>2. CASE f = "multi_signers"
  <2>1. /\ ListOf(p, "signers") = <<>> /\ ListOf(p, "multi_signers") = s
        /\ ListOf(p, "sources") = <<>>
    BY <1>2 DEF ListOf, Trails, ListsOf
  <2>2. QED BY <1>2, <2>1, ConcatEmptySeq DEF Trailing, Trails
<1>3. CASE f = "sources"
  <2>1. /\ ListOf(p, "signers") = <<>> /\ ListOf(p, "multi_signers") = <<>>
        /\ ListOf(p, "sources") = s
    BY <1>3 DEF ListOf, Trails, ListsOf
  <2>2. QED BY <1>3, <2>1, ConcatEmptySeq DEF Trailing, Trails
<1>4. QED BY <1>1, <1>2, <1>3

LEMMA TrailingAre ==
    ASSUME NEW p, NEW s, NEW t, TrailsTwo(p, s, t)
    PROVE  Trailing(p) = s \o t
<1>1. ListOf(p, "signers") = s /\ ListOf(p, "multi_signers") = <<>> /\ ListOf(p, "sources") = t
  BY DEF ListOf, TrailsTwo, ListsOf
<1>2. QED BY <1>1, ConcatEmptySeq DEF Trailing, TrailsTwo
LEMMA ListsAreKeys == \A l \in Lists : l \in Seq(AnyKey) /\ Len(l) \in Nat
BY ListsAreSequences, SeqMonotonic DEF AnyKey

LEMMA TrailingReturns ==
    ASSUME NEW k, NEW p, NEW i, NEW r, NEW res, Formed(k, p, i), Came(i, r), Decoded(k, r, res),
           res.ok, ListsOf(p) # {}
    PROVE  Trailing(res.params) = KeysFrom(r, Len(i.accounts) - Len(Trailing(p)) + 1)
<1>0. i.accounts \in Seq(Plain) => i.accounts \in Seq(Metas)
  BY PlainSignsNothing
<1>1. ASSUME i.accounts \in Seq(Metas)
      PROVE  /\ r.accounts \in Seq(Metas) /\ Len(r.accounts) \in Nat
             /\ \A n \in Nat \ {0} : KeysFrom(r, n) \in Seq(AnyKey)
  <2>1. r.accounts \in Seq(Metas) /\ Len(r.accounts) \in Nat
    BY <1>1, LenProperties DEF Came
  <2>2. \A n \in Nat \ {0} : Stretch(Keys(r, n, Len(r.accounts)), r, n, Len(r.accounts))
    BY <2>1, KeysAre
  <2>3. QED BY <2>1, <2>2 DEF Stretch, KeysFrom
<1> USE DEF parse_and_validate_instruction, HasKeys, Rejected, ParamsOf
<1>2. CASE k = "initialize_mint" /\ InitializeMintForm(p, i)
  BY <1>2 DEF InitializeMintForm, InitializeMintParams, ListsOf
<1>3. CASE k = "initialize_mint2" /\ InitializeMint2Form(p, i)
  BY <1>3 DEF InitializeMint2Form, InitializeMint2Params, InitializeMintParams, ListsOf
<1>4. CASE k = "initialize_account" /\ InitializeAccountForm(p, i)
  BY <1>4 DEF InitializeAccountForm, InitializeAccountParams, ListsOf
<1>5. CASE k = "initialize_account2" /\ InitializeAccount2Form(p, i)
  BY <1>5 DEF InitializeAccount2Form, InitializeAccount2Params, InitializeAccountParams, ListsOf
<1>6. CASE k = "initialize_account3" /\ InitializeAccount3Form(p, i)
  BY <1>6 DEF InitializeAccount3Form, InitializeAccount3Params, InitializeAccountParams, ListsOf
<1>7. CASE k = "initialize_multisig" /\ InitializeMultisigForm(p, i)
  <2>1. res = decode_initialize_multisig(r)
    BY <1>7 DEF Decoded
  <2>2. ListsOf(p) = {"signers"} /\ p.signers \in Lists
    BY <1>7 DEF InitializeMultisigForm, InitializeMultisigParams, ListsOf
  <2>3. Trails(p, "signers", p.signers) /\ Len(p.signers) \in Nat
    BY <2>2, ListsAreKeys DEF Trails
  <2>4. i.accounts \in Seq(Metas) /\ Len(i.accounts) = 2 + Len(p.signers)
    BY <1>0, <1>7, <2>3 DEF InitializeMultisigForm, Listing
  <2>5. Trails(res.params, "signers", KeysFrom(r, 3))
    BY <1>1, <2>1, <2>4 DEF decode_initialize_multisig, Trails, ListsOf
  <2>6. Trailing(p) = p.signers /\ Trailing(res.params) = KeysFrom(r, 3)
    BY <2>3, <2>5, TrailingIs
  <2>7. QED BY <2>3, <2>4, <2>6
<1>8. CASE k = "initialize_multisig2" /\ InitializeMultisig2Form(p, i)
  <2>1. res = decode_initialize_multisig2(r)
    BY <1>8 DEF Decoded
  <2>2. ListsOf(p) = {"signers"} /\ p.signers \in Lists
    BY <1>8 DEF InitializeMultisig2Form, InitializeMultisig2Params, InitializeMultisigParams,
       ListsOf
  <2>3. Trails(p, "signers", p.signers) /\ Len(p.signers) \in Nat
    BY <2>2, ListsAreKeys DEF Trails
  <2>4. i.accounts \in Seq(Metas) /\ Len(i.accounts) = 1 + Len(p.signers)
    BY <1>0, <1>8, <2>3 DEF InitializeMultisig2Form, Listing
  <2>5. Trails(res.params, "signers", KeysFrom(r, 2))
    BY <1>1, <2>1, <2>4 DEF decode_initialize_multisig2, Trails, ListsOf
  <2>6. Trailing(p) = p.signers /\ Trailing(res.params) = KeysFrom(r, 2)
    BY <2>3, <2>5, TrailingIs
  <2>7. QED BY <2>3, <2>4, <2>6
<1>9. CASE k = "transfer" /\ TransferForm(p, i)
  <2>1. res = decode_transfer(r)
    BY <1>9 DEF Decoded
  <2>2. ListsOf(p) = {"signers"} /\ p.signers \in Lists
    BY <1>9 DEF TransferForm, TransferParams, ListsOf
  <2>3. Trails(p, "signers", p.signers) /\ Len(p.signers) \in Nat
    BY <2>2, ListsAreKeys DEF Trails
  <2>4. i.accounts \in Seq(Metas) /\ Len(i.accounts) = 3 + Len(p.signers)
    BY <1>9, <2>3 DEF TransferForm, Owned
  <2>5. Trails(res.params, "signers", KeysFrom(r, 4))
    BY <1>1, <2>1, <2>4 DEF decode_transfer, Trails, ListsOf
  <2>6. Trailing(p) = p.signers /\ Trailing(res.params) = KeysFrom(r, 4)
    BY <2>3, <2>5, TrailingIs
  <2>7. QED BY <2>3, <2>4, <2>6
<1>10. CASE k = "approve" /\ ApproveForm(p, i)
  <2>1. res = decode_approve(r)
    BY <1>10 DEF Decoded
  <2>2. ListsOf(p) = {"signers"} /\ p.signers \in Lists
    BY <1>10 DEF ApproveForm, ApproveParams, ListsOf
  <2>3. Trails(p, "signers", p.signers) /\ Len(p.signers) \in Nat
    BY <2>2, ListsAreKeys DEF Trails
  <2>4. i.accounts \in Seq(Metas) /\ Len(i.accounts) = 3 + Len(p.signers)
    BY <1>10, <2>3 DEF ApproveForm, Owned
  <2>5. Trails(res.params, "signers", KeysFrom(r, 4))
    BY <1>1, <2>1, <2>4 DEF decode_approve, Trails, ListsOf
  <2>6. Trailing(p) = p.signers /\ Trailing(res.params) = KeysFrom(r, 4)
    BY <2>3, <2>5, TrailingIs
  <2>7. QED BY <2>3, <2>4, <2>6
<1>11. CASE k = "revoke" /\ RevokeForm(p, i)
  <2>1. res = decode_revoke(r)
    BY <1>11 DEF Decoded
  <2>2. ListsOf(p) = {"signers"} /\ p.signers \in Lists
    BY <1>11 DEF RevokeForm, RevokeParams, ListsOf
  <2>3. Trails(p, "signers", p.signers) /\ Len(p.signers) \in Nat
    BY <2>2, ListsAreKeys DEF Trails
  <2>4. i.accounts \in Seq(Metas) /\ Len(i.accounts) = 2 + Len(p.signers)
    BY <1>11, <2>3 DEF RevokeForm, Owned
  <2>5. Trails(res.params, "signers", KeysFrom(r, 3))
    BY <1>1, <2>1, <2>4 DEF decode_revoke, Trails, ListsOf
  <2>6. Trailing(p) = p.signers /\ Trailing(res.params) = KeysFrom(r, 3)
    BY <2>3, <2>5, TrailingIs
  <2>7. QED BY <2>3, <2>4, <2>6
<1>12. CASE k = "set_authority" /\ SetAuthorityForm(p, i)
  <2>1. res = decode_set_authority(r)
    BY <1>12 DEF Decoded
  <2>2. ListsOf(p) = {"signers"} /\ p.signers \in Lists
    BY <1>12 DEF SetAuthorityForm, SetAuthorityParams, ListsOf
  <2>3. Trails(p, "signers", p.signers) /\ Len(p.signers) \in Nat
    BY <2>2, ListsAreKeys DEF Trails
  <2>4. i.accounts \in Seq(Metas) /\ Len(i.accounts) = 2 + Len(p.signers)
    BY <1>12, <2>3 DEF SetAuthorityForm, Owned
  <2>5. Trails(res.params, "signers", KeysFrom(r, 3))
    BY <1>1, <2>1, <2>4 DEF decode_set_authority, Trails, ListsOf
  <2>6. Trailing(p) = p.signers /\ Trailing(res.params) = KeysFrom(r, 3)
    BY <2>3, <2>5, TrailingIs
  <2>7. QED BY <2>3, <2>4, <2>6
<1>13. CASE k = "mint_to" /\ MintToForm(p, i)
  <2>1. res = decode_mint_to(r)
    BY <1>13 DEF Decoded
  <2>2. ListsOf(p) = {"signers"} /\ p.signers \in Lists
    BY <1>13 DEF MintToForm, MintToParams, ListsOf
  <2>3. Trails(p, "signers", p.signers) /\ Len(p.signers) \in Nat
    BY <2>2, ListsAreKeys DEF Trails
  <2>4. i.accounts \in Seq(Metas) /\ Len(i.accounts) = 3 + Len(p.signers)
    BY <1>13, <2>3 DEF MintToForm, Owned
  <2>5. Trails(res.params, "signers", KeysFrom(r, 4))
    BY <1>1, <2>1, <2>4 DEF decode_mint_to, Trails, ListsOf
  <2>6. Trailing(p) = p.signers /\ Trailing(res.params) = KeysFrom(r, 4)
    BY <2>3, <2>5, TrailingIs
  <2>7. QED BY <2>3, <2>4, <2>6
<1>14. CASE k = "burn" /\ BurnForm(p, i)
  <2>1. res = decode_burn(r)
    BY <1>14 DEF Decoded
  <2>2. ListsOf(p) = {"signers"} /\ p.signers \in Lists
    BY <1>14 DEF BurnForm, BurnParams, ListsOf
  <2>3. Trails(p, "signers", p.signers) /\ Len(p.signers) \in Nat
    BY <2>2, ListsAreKeys DEF Trails
  <2>4. i.accounts \in Seq(Metas) /\ Len(i.accounts) = 3 + Len(p.signers)
    BY <1>14, <2>3 DEF BurnForm, Owned
  <2>5. Trails(res.params, "signers", KeysFrom(r, 4))
    BY <1>1, <2>1, <2>4 DEF decode_burn, Trails, ListsOf
  <2>6. Trailing(p) = p.signers /\ Trailing(res.params) = KeysFrom(r, 4)
    BY <2>3, <2>5, TrailingIs
  <2>7. QED BY <2>3, <2>4, <2>6
<1>15. CASE k = "close_account" /\ CloseAccountForm(p, i)
  <2>1. res = decode_close_account(r)
    BY <1>15 DEF Decoded
  <2>2. ListsOf(p) = {"signers"} /\ p.signers \in Lists
    BY <1>15 DEF CloseAccountForm, CloseAccountParams, ListsOf
  <2>3. Trails(p, "signers", p.signers) /\ Len(p.signers) \in Nat
    BY <2>2, ListsAreKeys DEF Trails
  <2>4. i.accounts \in Seq(Metas) /\ Len(i.accounts) = 3 + Len(p.signers)
    BY <1>15, <2>3 DEF CloseAccountForm, Owned
  <2>5. Trails(res.params, "signers", KeysFrom(r, 4))
    BY <1>1, <2>1, <2>4 DEF decode_close_account, Trails, ListsOf
  <2>6. Trailing(p) = p.signers /\ Trailing(res.params) = KeysFrom(r, 4)
    BY <2>3, <2>5, TrailingIs
  <2>7. QED BY <2>3, <2>4, <2>6
<1>16. CASE k = "freeze_account" /\ FreezeAccountForm(p, i)
  <2>1. res = decode_freeze_account(r)
    BY <1>16 DEF Decoded
  <2>2. ListsOf(p) = {"multi_signers"} /\ p.multi_signers \in Lists
    BY <1>16 DEF FreezeAccountForm, FreezeAccountParams, ListsOf
  <2>3. Trails(p, "multi_signers", p.multi_signers) /\ Len(p.multi_signers) \in Nat
    BY <2>2, ListsAreKeys DEF Trails
  <2>4. i.accounts \in Seq(Metas) /\ Len(i.accounts) = 3 + Len(p.multi_signers)
    BY <1>16, <2>3 DEF FreezeAccountForm, Owned
  <2>5. Trails(res.params, "multi_signers", KeysFrom(r, 4))
    BY <1>1, <2>1, <2>4 DEF decode_freeze_account, Trails, ListsOf
  <2>6. Trailing(p) = p.multi_signers /\ Trailing(res.params) = KeysFrom(r, 4)
    BY <2>3, <2>5, TrailingIs
  <2>7. QED BY <2>3, <2>4, <2>6
<1>17. CASE k = "thaw_account" /\ ThawAccountForm(p, i)
  <2>1. res = decode_thaw_account(r)
    BY <1>17 DEF Decoded
  <2>2. ListsOf(p) = {"multi_signers"} /\ p.multi_signers \in Lists
    BY <1>17 DEF ThawAccountForm, ThawAccountParams, FreezeAccountParams, ListsOf
  <2>3. Trails(p, "multi_signers", p.multi_signers) /\ Len(p.multi_signers) \in Nat
    BY <2>2, ListsAreKeys DEF Trails
  <2>4. i.accounts \in Seq(Metas) /\ Len(i.accounts) = 3 + Len(p.multi_signers)
    BY <1>17, <2>3 DEF ThawAccountForm, Owned
  <2>5. Trails(res.params, "multi_signers", KeysFrom(r, 4))
    BY <1>1, <2>1, <2>4 DEF decode_thaw_account, Trails, ListsOf
  <2>6. Trailing(p) = p.multi_signers /\ Trailing(res.params) = KeysFrom(r, 4)
    BY <2>3, <2>5, TrailingIs
  <2>7. QED BY <2>3, <2>4, <2>6
<1>18. CASE k = "transfer_checked" /\ TransferCheckedForm(p, i)
  <2>1. res = decode_transfer_checked(r)
    BY <1>18 DEF Decoded
  <2>2. ListsOf(p) = {"signers"} /\ p.signers \in Lists
    BY <1>18 DEF TransferCheckedForm, TransferCheckedParams, ListsOf
  <2>3. Trails(p, "signers", p.signers) /\ Len(p.signers) \in Nat
    BY <2>2, ListsAreKeys DEF Trails
  <2>4. i.accounts \in Seq(Metas) /\ Len(i.accounts) = 4 + Len(p.signers)
    BY <1>18, <2>3 DEF TransferCheckedForm, Owned
  <2>5. Trails(res.params, "signers", KeysFrom(r, 5))
    BY <1>1, <2>1, <2>4 DEF decode_transfer_checked, Trails, ListsOf
  <2>6. Trailing(p) = p.signers /\ Trailing(res.params) = KeysFrom(r, 5)
    BY <2>3, <2>5, TrailingIs
  <2>7. QED BY <2>3, <2>4, <2>6
<1>19. CASE k = "approve_checked" /\ ApproveCheckedForm(p, i)
  <2>1. res = decode_approve_checked(r)
    BY <1>19 DEF Decoded
  <2>2. ListsOf(p) = {"signers"} /\ p.signers \in Lists
    BY <1>19 DEF ApproveCheckedForm, ApproveCheckedParams, ListsOf
  <2>3. Trails(p, "signers", p.signers) /\ Len(p.signers) \in Nat
    BY <2>2, ListsAreKeys DEF Trails
  <2>4. i.accounts \in Seq(Metas) /\ Len(i.accounts) = 4 + Len(p.signers)
    BY <1>19, <2>3 DEF ApproveCheckedForm, Owned
  <2>5. Trails(res.params, "signers", KeysFrom(r, 5))
    BY <1>1, <2>1, <2>4 DEF decode_approve_checked, Trails, ListsOf
  <2>6. Trailing(p) = p.signers /\ Trailing(res.params) = KeysFrom(r, 5)
    BY <2>3, <2>5, TrailingIs
  <2>7. QED BY <2>3, <2>4, <2>6
<1>20. CASE k = "mint_to_checked" /\ MintToCheckedForm(p, i)
  <2>1. res = decode_mint_to_checked(r)
    BY <1>20 DEF Decoded
  <2>2. ListsOf(p) = {"signers"} /\ p.signers \in Lists
    BY <1>20 DEF MintToCheckedForm, MintToCheckedParams, ListsOf
  <2>3. Trails(p, "signers", p.signers) /\ Len(p.signers) \in Nat
    BY <2>2, ListsAreKeys DEF Trails
  <2>4. i.accounts \in Seq(Metas) /\ Len(i.accounts) = 3 + Len(p.signers)
    BY <1>20, <2>3 DEF MintToCheckedForm, Owned
  <2>5. Trails(res.params, "signers", KeysFrom(r, 4))
    BY <1>1, <2>1, <2>4 DEF decode_mint_to_checked, Trails, ListsOf
  <2>6. Trailing(p) = p.signers /\ Trailing(res.params) = KeysFrom(r, 4)
    BY <2>3, <2>5, TrailingIs
  <2>7. QED BY <2>3, <2>4, <2>6
<1>21. CASE k = "burn_checked" /\ BurnCheckedForm(p, i)
  <2>1. res = decode_burn_checked(r)
    BY <1>21 DEF Decoded
  <2>2. ListsOf(p) = {"signers"} /\ p.signers \in Lists
    BY <1>21 DEF BurnCheckedForm, BurnCheckedParams, ListsOf
  <2>3. Trails(p, "signers", p.signers) /\ Len(p.signers) \in Nat
    BY <2>2, ListsAreKeys DEF Trails
  <2>4. i.accounts \in Seq(Metas) /\ Len(i.accounts) = 3 + Len(p.signers)
    BY <1>21, <2>3 DEF BurnCheckedForm, Owned
  <2>5. Trails(res.params, "signers", KeysFrom(r, 4))
    BY <1>1, <2>1, <2>4 DEF decode_burn_checked, Trails, ListsOf
  <2>6. Trailing(p) = p.signers /\ Trailing(res.params) = KeysFrom(r, 4)
    BY <2>3, <2>5, TrailingIs
  <2>7. QED BY <2>3, <2>4, <2>6
<1>22. CASE k = "sync_native" /\ SyncNativeForm(p, i)
  BY <1>22 DEF SyncNativeForm, SyncNativeParams, ListsOf
<1>23. CASE k = "get_account_data_size" /\ GetAccountDataSizeForm(p, i)
  BY <1>23 DEF GetAccountDataSizeForm, GetAccountDataSizeParams, ListsOf
<1>24. CASE k = "initialize_immutable_owner" /\ InitializeImmutableOwnerForm(p, i)
  BY <1>24 DEF InitializeImmutableOwnerForm, InitializeImmutableOwnerParams, ListsOf
<1>25. CASE k = "initialize_transfer_fee_config" /\ InitializeTransferFeeConfigForm(p, i)
  BY <1>25 DEF InitializeTransferFeeConfigForm, InitializeTransferFeeConfigParams, ListsOf
<1>26. CASE /\ k = "withdraw_withheld_tokens_from_accounts"
            /\ WithdrawWithheldTokensFromAccountsForm(p, i)
  <2>1. res = decode_withdraw_withheld_tokens_from_accounts(r)
    BY <1>26 DEF Decoded
  <2>2. ListsOf(p) = {"signers", "sources"} /\ p.signers \in Lists /\ p.sources \in Lists
    BY <1>26 DEF WithdrawWithheldTokensFromAccountsForm,
       WithdrawWithheldTokensFromAccountsParams, ListsOf
  <2>3. /\ TrailsTwo(p, p.signers, p.sources)
        /\ Len(p.signers) \in Nat /\ Len(p.sources) \in Nat
    BY <2>2, ListsAreKeys DEF TrailsTwo
  <2>4. /\ Trailing(p) = p.signers \o p.sources
        /\ Len(Trailing(p)) = Len(p.signers) + Len(p.sources)
    <3>1. Trailing(p) = p.signers \o p.sources
      BY <2>3, TrailingAre
    <3> DEFINE s == p.signers
               t == p.sources
    <3>2. s \in Seq(AnyKey) /\ t \in Seq(AnyKey)
      BY <2>3 DEF TrailsTwo
    <3> HIDE DEF s, t
    <3>3. Join(s \o t, AnyKey, s, t)
      BY <3>2, JoinIs
    <3>4. QED BY <3>1, <3>3 DEF Join, s, t
  <2>5. /\ i.accounts \in Seq(Metas) /\ Len(i.accounts) = 3 + Len(p.signers) + Len(p.sources)
        /\ r.args[2] = Len(p.sources)
    BY <1>26, <2>3 DEF WithdrawWithheldTokensFromAccountsForm, Sourced, Carries, Instruction,
       Came
  <2> DEFINE l == Len(r.accounts)
             num == Len(p.sources)
  <2>6. /\ l \in Nat /\ r.accounts \in Seq(Metas) /\ l >= 3 + num
        /\ ListsOf(res.params) = {"signers", "sources"}
        /\ res.params.signers = Keys(r, 4, l - num)
        /\ res.params.sources = KeysFrom(r, l - num + 1)
    BY <1>1, <2>1, <2>5 DEF decode_withdraw_withheld_tokens_from_accounts, SignersBefore,
       ListsOf
  <2> HIDE DEF l, num
  <2> DEFINE m == l - num
  <2>7. m \in Nat /\ m \in 0..l /\ 4 <= m + 1 /\ m + 1 \in Nat \ {0} /\ 4 \in Nat \ {0}
    BY <2>3, <2>6 DEF num
  <2>8. Stretch(Keys(r, 4, m), r, 4, m)
    BY <2>6, <2>7, KeysAre DEF l
  <2>9. TrailsTwo(res.params, Keys(r, 4, m), KeysFrom(r, m + 1))
    BY <1>1, <2>5, <2>6, <2>7, <2>8 DEF Stretch, TrailsTwo
  <2> HIDE DEF m
  <2>10. Trailing(res.params) = Keys(r, 4, m) \o KeysFrom(r, m + 1)
    BY <2>9, TrailingAre
  <2>11. Keys(r, 4, m) \o KeysFrom(r, m + 1) = KeysFrom(r, 4)
    BY <2>6, <2>7, KeysJoin DEF l
  <2>12. Len(i.accounts) - Len(Trailing(p)) + 1 = 4
    <3> DEFINE a == Len(p.signers)
               b == Len(p.sources)
               c == Len(Trailing(p))
               d == Len(i.accounts)
    <3>1. a \in Nat /\ b \in Nat /\ c = a + b /\ d = 3 + a + b
      BY <2>3, <2>4, <2>5
    <3> HIDE DEF a, b, c, d
    <3>2. d - c + 1 = 4
      BY <3>1
    <3>3. QED BY <3>2 DEF c, d
  <2>13. QED BY <2>10, <2>11, <2>12
<1>27. CASE k = "withdraw_withheld_tokens_from_mint" /\ WithdrawWithheldTokensFromMintForm(p, i)
  <2>1. res = decode_withdraw_withheld_tokens_from_mint(r)
    BY <1>27 DEF Decoded
  <2>2. ListsOf(p) = {"signers"} /\ p.signers \in Lists
    BY <1>27 DEF WithdrawWithheldTokensFromMintForm, WithdrawWithheldTokensFromMintParams,
       ListsOf
  <2>3. Trails(p, "signers", p.signers) /\ Len(p.signers) \in Nat
    BY <2>2, ListsAreKeys DEF Trails
  <2>4. i.accounts \in Seq(Metas) /\ Len(i.accounts) = 3 + Len(p.signers)
    BY <1>27, <2>3 DEF WithdrawWithheldTokensFromMintForm, Owned
  <2>5. Trails(res.params, "signers", KeysFrom(r, 4))
    BY <1>1, <2>1, <2>4 DEF decode_withdraw_withheld_tokens_from_mint, Trails, ListsOf
  <2>6. Trailing(p) = p.signers /\ Trailing(res.params) = KeysFrom(r, 4)
    BY <2>3, <2>5, TrailingIs
  <2>7. QED BY <2>3, <2>4, <2>6
<1>28. CASE k = "harvest_withheld_tokens_to_mint" /\ HarvestWithheldTokensToMintForm(p, i)
  <2>1. res = decode_harvest_withheld_tokens_to_mint(r)
    BY <1>28 DEF Decoded
  <2>2. ListsOf(p) = {"sources"} /\ p.sources \in Lists
    BY <1>28 DEF HarvestWithheldTokensToMintForm, HarvestWithheldTokensToMintParams, ListsOf
  <2>3. Trails(p, "sources", p.sources) /\ Len(p.sources) \in Nat
    BY <2>2, ListsAreKeys DEF Trails
  <2>4. i.accounts \in Seq(Metas) /\ Len(i.accounts) = 1 + Len(p.sources)
    BY <1>0, <1>28, <2>3 DEF HarvestWithheldTokensToMintForm, Listing
  <2>5. Trails(res.params, "sources", KeysFrom(r, 2))
    BY <1>1, <2>1, <2>4 DEF decode_harvest_withheld_tokens_to_mint, Trails, ListsOf
  <2>6. Trailing(p) = p.sources /\ Trailing(res.params) = KeysFrom(r, 2)
    BY <2>3, <2>5, TrailingIs
  <2>7. QED BY <2>3, <2>4, <2>6
<1>29. CASE k = "amount_to_ui_amount" /\ AmountToUiAmountForm(p, i)
  BY <1>29 DEF AmountToUiAmountForm, AmountToUiAmountParams, ListsOf
<1>30. CASE k = "ui_amount_to_amount" /\ UiAmountToAmountForm(p, i)
  BY <1>30 DEF UiAmountToAmountForm, UiAmountToAmountParams, ListsOf
<1>31. CASE k = "create_associated_token_account" /\ CreateAssociatedTokenAccountForm(p, i)
  BY <1>31 DEF Decoded
<1>32. CASE /\ k = "create_idempotent_associated_token_account"
            /\ CreateIdempotentAssociatedTokenAccountForm(p, i)
  BY <1>32 DEF Decoded
<1>33. CASE k = "create_memo" /\ CreateMemoForm(p, i)
  BY <1>33 DEF CreateMemoForm, MemoParams, ListsOf
<1>34. CASE k = "withdraw_from_vote_account" /\ WithdrawFromVoteAccountForm(p, i)
  BY <1>34 DEF Decoded
<1> HIDE DEF parse_and_validate_instruction, HasKeys, Rejected, ParamsOf
<1>35. QED BY <1>2, <1>3, <1>4, <1>5, <1>6, <1>7, <1>8, <1>9, <1>10, <1>11, <1>12, <1>13, <1>14,
              <1>15, <1>16, <1>17, <1>18, <1>19, <1>20, <1>21, <1>22, <1>23, <1>24, <1>25,
              <1>26, <1>27, <1>28, <1>29, <1>30, <1>31, <1>32, <1>33, <1>34 DEF Formed

(* Every account behind the fixed ones reaches the caller, in order.       *)
THEOREM EveryAccountArrives == Spec => []NoAccountLost
<1>1. IInv => NoAccountLost
  BY TrailingReturns DEF IInv, NoAccountLost, ListsOf
<1>2. QED BY <1>1, Invariance, PTL
----------------------------------------------------------------------------
(* The ends of the lists.                                                  *)

(* What a decoder made can be told from an exception.                      *)
Sound(res) == \A f \in DOMAIN res.params : res.params[f] # IndexError

LEMMA NoKeyIsAnError ==
    ASSUME NEW i, i.accounts \in Seq(Metas)
    PROVE  /\ \A n \in 1..Len(i.accounts) : Key(i, n) # IndexError
           /\ \A m \in Nat \ {0}, n \in 0..Len(i.accounts) : Keys(i, m, n) # IndexError
           /\ \A n \in Nat \ {0} : KeysFrom(i, n) # IndexError
           /\ Len(i.accounts) \in Nat
<1>1. Len(i.accounts) \in Nat
  BY LenProperties
<1>2. ASSUME NEW n \in 1..Len(i.accounts)
      PROVE  Key(i, n) # IndexError
  <2>1. i.accounts[n] \in Metas
    BY ElementOfSeq
  <2>2. i.accounts[n].pubkey \in AnyKey
    BY <2>1 DEF Metas
  <2>3. Key(i, n) \in AnyKey
    BY <1>1, <2>2 DEF Key
  <2>4. QED BY <2>3, InstructionAssumption DEF AnyKey
<1>3. ASSUME NEW m \in Nat \ {0}, NEW n \in 0..Len(i.accounts)
      PROVE  Keys(i, m, n) # IndexError
  <2>1. Stretch(Keys(i, m, n), i, m, n)
    BY KeysAre
  <2>2. Keys(i, m, n) \in Seq(Pubkeys \cup {RENT} \cup TokenPrograms)
    BY <2>1, SeqMonotonic DEF Stretch, AnyKey
  <2>3. QED BY <2>2, InstructionAssumption
<1>4. QED BY <1>1, <1>2, <1>3 DEF KeysFrom

LEMMA ReadsWithin ==
    ASSUME NEW k, NEW p, NEW i, NEW r, NEW res, Formed(k, p, i), Came(i, r), Decoded(k, r, res),
           res.ok, k # "create_memo"
    PROVE  Sound(res)
<1>0. i.accounts \in Seq(Plain) => i.accounts \in Seq(Metas)
  BY PlainSignsNothing
<1>1. ASSUME i.accounts \in Seq(Metas)
      PROVE  /\ \A n \in 1..Len(r.accounts) : Key(r, n) # IndexError
             /\ \A m \in Nat \ {0}, n \in 0..Len(r.accounts) : Keys(r, m, n) # IndexError
             /\ \A n \in Nat \ {0} : KeysFrom(r, n) # IndexError
             /\ Len(r.accounts) \in Nat
  BY <1>1, NoKeyIsAnError DEF Came
<1>2. /\ \A n \in Int8ul \cup Int16ul \cup Int64ul : n # IndexError
      /\ \A v \in Pubkeys \cup {None} \cup TokenPrograms \cup UiAmounts \cup AuthorityType :
            v # IndexError
  BY InstructionAssumption, ModelAssumption DEF Int8ul, Int16ul, Int64ul
<1> USE DEF parse_and_validate_instruction, HasKeys, Rejected, ParamsOf, Came, Carries,
            Instruction
<1>3. CASE k = "initialize_mint" /\ InitializeMintForm(p, i)
  <2>1. res = decode_initialize_mint(r)
    BY <1>3 DEF Decoded
  <2>2. i.accounts \in Seq(Metas)
    BY <1>0, <1>3 DEF InitializeMintForm, Fixed
  <2>3. /\ i.args[1] = p.decimals /\ i.args[2] = p.mint_authority
        /\ ReadOption(i, 3) = p.freeze_authority
    BY <1>3, MintArgsAre DEF InitializeMintForm
  <2>4. /\ r.args[1] # IndexError
        /\ r.args[2] # IndexError
        /\ ReadOption(r, 3) # IndexError
    BY <1>2, <1>3, <2>3 DEF InitializeMintForm, InitializeMintParams, MaybePubkey, ReadOption,
       AfterOption
  <2>5. QED BY <1>1, <1>2, <1>3, <2>1, <2>2, <2>4 DEF decode_initialize_mint,
               InitializeMintForm, InitializeMintParams, Sound
<1>4. CASE k = "initialize_mint2" /\ InitializeMint2Form(p, i)
  <2>1. res = decode_initialize_mint2(r)
    BY <1>4 DEF Decoded
  <2>2. i.accounts \in Seq(Metas)
    BY <1>0, <1>4 DEF InitializeMint2Form, Fixed
  <2>3. /\ i.args[1] = p.decimals /\ i.args[2] = p.mint_authority
        /\ ReadOption(i, 3) = p.freeze_authority
    BY <1>4, MintArgsAre DEF InitializeMint2Form
  <2>4. /\ r.args[1] # IndexError
        /\ r.args[2] # IndexError
        /\ ReadOption(r, 3) # IndexError
    BY <1>2, <1>4, <2>3 DEF InitializeMint2Form, InitializeMint2Params, InitializeMintParams,
       MaybePubkey, ReadOption, AfterOption
  <2>5. QED BY <1>1, <1>2, <1>4, <2>1, <2>2, <2>4 DEF decode_initialize_mint2,
               InitializeMint2Form, InitializeMint2Params, InitializeMintParams, Sound
<1>5. CASE k = "initialize_account" /\ InitializeAccountForm(p, i)
  <2>1. res = decode_initialize_account(r)
    BY <1>5 DEF Decoded
  <2>2. i.accounts \in Seq(Metas)
    BY <1>0, <1>5 DEF InitializeAccountForm, Fixed
  <2>3. r.program_id # IndexError
    BY <1>2, <1>5 DEF InitializeAccountForm, InitializeAccountParams
  <2>4. Len(r.accounts) \in Nat /\ Len(r.accounts) >= 4
    BY <1>1, <2>1, <2>2 DEF decode_initialize_account
  <2>5. Key(r, 1) # IndexError /\ Key(r, 2) # IndexError /\ Key(r, 3) # IndexError
    BY <1>1, <2>2, <2>4
  <2>6. QED BY <2>1, <2>3, <2>5 DEF decode_initialize_account, Sound
<1>6. CASE k = "initialize_account2" /\ InitializeAccount2Form(p, i)
  <2>1. res = decode_initialize_account2(r)
    BY <1>6 DEF Decoded
  <2>2. i.accounts \in Seq(Metas)
    BY <1>0, <1>6 DEF InitializeAccount2Form, Fixed
  <2>3. r.program_id # IndexError /\ r.args[1] # IndexError
    BY <1>2, <1>6 DEF InitializeAccount2Form, InitializeAccount2Params, InitializeAccountParams
  <2>4. Len(r.accounts) \in Nat /\ Len(r.accounts) >= 3
    BY <1>1, <2>1, <2>2 DEF decode_initialize_account2
  <2>5. Key(r, 1) # IndexError /\ Key(r, 2) # IndexError
    BY <1>1, <2>2, <2>4
  <2>6. QED BY <2>1, <2>3, <2>5 DEF decode_initialize_account2, Sound
<1>7. CASE k = "initialize_account3" /\ InitializeAccount3Form(p, i)
  <2>1. res = decode_initialize_account3(r)
    BY <1>7 DEF Decoded
  <2>2. i.accounts \in Seq(Metas)
    BY <1>0, <1>7 DEF InitializeAccount3Form, Fixed
  <2>3. r.program_id # IndexError /\ r.args[1] # IndexError
    BY <1>2, <1>7 DEF InitializeAccount3Form, InitializeAccount3Params, InitializeAccountParams
  <2>4. Len(r.accounts) \in Nat /\ Len(r.accounts) >= 2
    BY <1>1, <2>1, <2>2 DEF decode_initialize_account3
  <2>5. Key(r, 1) # IndexError /\ Key(r, 2) # IndexError
    BY <1>1, <2>2, <2>4
  <2>6. QED BY <2>1, <2>3, <2>5 DEF decode_initialize_account3, Sound
<1>8. CASE k = "initialize_multisig" /\ InitializeMultisigForm(p, i)
  <2>1. res = decode_initialize_multisig(r)
    BY <1>8 DEF Decoded
  <2>2. i.accounts \in Seq(Metas)
    BY <1>0, <1>8 DEF InitializeMultisigForm, Listing
  <2>3. r.program_id # IndexError /\ r.args[1] # IndexError
    BY <1>2, <1>8 DEF InitializeMultisigForm, InitializeMultisigParams
  <2>4. Len(r.accounts) \in Nat /\ Len(r.accounts) >= 2
    BY <1>1, <2>1, <2>2 DEF decode_initialize_multisig
  <2>5. Key(r, 1) # IndexError /\ KeysFrom(r, 3) # IndexError
    BY <1>1, <2>2, <2>4
  <2>6. QED BY <2>1, <2>3, <2>5 DEF decode_initialize_multisig, Sound
<1>9. CASE k = "initialize_multisig2" /\ InitializeMultisig2Form(p, i)
  <2>1. res = decode_initialize_multisig2(r)
    BY <1>9 DEF Decoded
  <2>2. i.accounts \in Seq(Metas)
    BY <1>0, <1>9 DEF InitializeMultisig2Form, Listing
  <2>3. r.program_id # IndexError /\ r.args[1] # IndexError
    BY <1>2, <1>9 DEF InitializeMultisig2Form, InitializeMultisig2Params,
       InitializeMultisigParams
  <2>4. Len(r.accounts) \in Nat /\ Len(r.accounts) >= 1
    BY <1>1, <2>1, <2>2 DEF decode_initialize_multisig2
  <2>5. Key(r, 1) # IndexError /\ KeysFrom(r, 2) # IndexError
    BY <1>1, <2>2, <2>4
  <2>6. QED BY <2>1, <2>3, <2>5 DEF decode_initialize_multisig2, Sound
<1>10. CASE k = "transfer" /\ TransferForm(p, i)
  <2>1. res = decode_transfer(r)
    BY <1>10 DEF Decoded
  <2>2. i.accounts \in Seq(Metas)
    BY <1>10 DEF TransferForm, Owned
  <2>3. r.program_id # IndexError /\ r.args[1] # IndexError
    BY <1>2, <1>10 DEF TransferForm, TransferParams
  <2>4. Len(r.accounts) \in Nat /\ Len(r.accounts) >= 3
    BY <1>1, <2>1, <2>2 DEF decode_transfer
  <2>5. /\ Key(r, 1) # IndexError /\ Key(r, 2) # IndexError /\ Key(r, 3) # IndexError
        /\ KeysFrom(r, 4) # IndexError
    BY <1>1, <2>2, <2>4
  <2>6. QED BY <2>1, <2>3, <2>5 DEF decode_transfer, Sound
<1>11. CASE k = "approve" /\ ApproveForm(p, i)
  <2>1. res = decode_approve(r)
    BY <1>11 DEF Decoded
  <2>2. i.accounts \in Seq(Metas)
    BY <1>11 DEF ApproveForm, Owned
  <2>3. r.program_id # IndexError /\ r.args[1] # IndexError
    BY <1>2, <1>11 DEF ApproveForm, ApproveParams
  <2>4. Len(r.accounts) \in Nat /\ Len(r.accounts) >= 3
    BY <1>1, <2>1, <2>2 DEF decode_approve
  <2>5. /\ Key(r, 1) # IndexError /\ Key(r, 2) # IndexError /\ Key(r, 3) # IndexError
        /\ KeysFrom(r, 4) # IndexError
    BY <1>1, <2>2, <2>4
  <2>6. QED BY <2>1, <2>3, <2>5 DEF decode_approve, Sound
<1>12. CASE k = "revoke" /\ RevokeForm(p, i)
  <2>1. res = decode_revoke(r)
    BY <1>12 DEF Decoded
  <2>2. i.accounts \in Seq(Metas)
    BY <1>12 DEF RevokeForm, Owned
  <2>3. r.program_id # IndexError
    BY <1>2, <1>12 DEF RevokeForm, RevokeParams
  <2>4. Len(r.accounts) \in Nat /\ Len(r.accounts) >= 2
    BY <1>1, <2>1, <2>2 DEF decode_revoke
  <2>5. Key(r, 1) # IndexError /\ Key(r, 2) # IndexError /\ KeysFrom(r, 3) # IndexError
    BY <1>1, <2>2, <2>4
  <2>6. QED BY <2>1, <2>3, <2>5 DEF decode_revoke, Sound
<1>13. CASE k = "set_authority" /\ SetAuthorityForm(p, i)
  <2>1. res = decode_set_authority(r)
    BY <1>13 DEF Decoded
  <2>2. i.accounts \in Seq(Metas)
    BY <1>13 DEF SetAuthorityForm, Owned
  <2>3. /\ i.args[1] = p.authority /\ ReadOption(i, 2) = p.new_authority
    BY <1>13, AuthorityArgsAre DEF SetAuthorityForm
  <2>4. /\ r.args[1] # IndexError
        /\ ReadOption(r, 2) # IndexError
    BY <1>2, <1>13, <2>3 DEF SetAuthorityForm, SetAuthorityParams, MaybePubkey, ReadOption,
       AfterOption
  <2>5. QED BY <1>1, <1>2, <1>13, <2>1, <2>2, <2>4 DEF decode_set_authority, SetAuthorityForm,
               SetAuthorityParams, Sound
<1>14. CASE k = "mint_to" /\ MintToForm(p, i)
  <2>1. res = decode_mint_to(r)
    BY <1>14 DEF Decoded
  <2>2. i.accounts \in Seq(Metas)
    BY <1>14 DEF MintToForm, Owned
  <2>3. r.program_id # IndexError /\ r.args[1] # IndexError
    BY <1>2, <1>14 DEF MintToForm, MintToParams
  <2>4. Len(r.accounts) \in Nat /\ Len(r.accounts) >= 3
    BY <1>1, <2>1, <2>2 DEF decode_mint_to
  <2>5. /\ Key(r, 1) # IndexError /\ Key(r, 2) # IndexError /\ Key(r, 3) # IndexError
        /\ KeysFrom(r, 4) # IndexError
    BY <1>1, <2>2, <2>4
  <2>6. QED BY <2>1, <2>3, <2>5 DEF decode_mint_to, Sound
<1>15. CASE k = "burn" /\ BurnForm(p, i)
  <2>1. res = decode_burn(r)
    BY <1>15 DEF Decoded
  <2>2. i.accounts \in Seq(Metas)
    BY <1>15 DEF BurnForm, Owned
  <2>3. r.program_id # IndexError /\ r.args[1] # IndexError
    BY <1>2, <1>15 DEF BurnForm, BurnParams
  <2>4. Len(r.accounts) \in Nat /\ Len(r.accounts) >= 3
    BY <1>1, <2>1, <2>2 DEF decode_burn
  <2>5. /\ Key(r, 1) # IndexError /\ Key(r, 2) # IndexError /\ Key(r, 3) # IndexError
        /\ KeysFrom(r, 4) # IndexError
    BY <1>1, <2>2, <2>4
  <2>6. QED BY <2>1, <2>3, <2>5 DEF decode_burn, Sound
<1>16. CASE k = "close_account" /\ CloseAccountForm(p, i)
  <2>1. res = decode_close_account(r)
    BY <1>16 DEF Decoded
  <2>2. i.accounts \in Seq(Metas)
    BY <1>16 DEF CloseAccountForm, Owned
  <2>3. r.program_id # IndexError
    BY <1>2, <1>16 DEF CloseAccountForm, CloseAccountParams
  <2>4. Len(r.accounts) \in Nat /\ Len(r.accounts) >= 3
    BY <1>1, <2>1, <2>2 DEF decode_close_account
  <2>5. /\ Key(r, 1) # IndexError /\ Key(r, 2) # IndexError /\ Key(r, 3) # IndexError
        /\ KeysFrom(r, 4) # IndexError
    BY <1>1, <2>2, <2>4
  <2>6. QED BY <2>1, <2>3, <2>5 DEF decode_close_account, Sound
<1>17. CASE k = "freeze_account" /\ FreezeAccountForm(p, i)
  <2>1. res = decode_freeze_account(r)
    BY <1>17 DEF Decoded
  <2>2. i.accounts \in Seq(Metas)
    BY <1>17 DEF FreezeAccountForm, Owned
  <2>3. r.program_id # IndexError
    BY <1>2, <1>17 DEF FreezeAccountForm, FreezeAccountParams
  <2>4. Len(r.accounts) \in Nat /\ Len(r.accounts) >= 3
    BY <1>1, <2>1, <2>2 DEF decode_freeze_account
  <2>5. /\ Key(r, 1) # IndexError /\ Key(r, 2) # IndexError /\ Key(r, 3) # IndexError
        /\ KeysFrom(r, 4) # IndexError
    BY <1>1, <2>2, <2>4
  <2>6. QED BY <2>1, <2>3, <2>5 DEF decode_freeze_account, Sound
<1>18. CASE k = "thaw_account" /\ ThawAccountForm(p, i)
  <2>1. res = decode_thaw_account(r)
    BY <1>18 DEF Decoded
  <2>2. i.accounts \in Seq(Metas)
    BY <1>18 DEF ThawAccountForm, Owned
  <2>3. r.program_id # IndexError
    BY <1>2, <1>18 DEF ThawAccountForm, ThawAccountParams, FreezeAccountParams
  <2>4. Len(r.accounts) \in Nat /\ Len(r.accounts) >= 3
    BY <1>1, <2>1, <2>2 DEF decode_thaw_account
  <2>5. /\ Key(r, 1) # IndexError /\ Key(r, 2) # IndexError /\ Key(r, 3) # IndexError
        /\ KeysFrom(r, 4) # IndexError
    BY <1>1, <2>2, <2>4
  <2>6. QED BY <2>1, <2>3, <2>5 DEF decode_thaw_account, Sound
<1>19. CASE k = "transfer_checked" /\ TransferCheckedForm(p, i)
  <2>1. res = decode_transfer_checked(r)
    BY <1>19 DEF Decoded
  <2>2. i.accounts \in Seq(Metas)
    BY <1>19 DEF TransferCheckedForm, Owned
  <2>3. r.program_id # IndexError /\ r.args[1] # IndexError /\ r.args[2] # IndexError
    BY <1>2, <1>19 DEF TransferCheckedForm, TransferCheckedParams
  <2>4. Len(r.accounts) \in Nat /\ Len(r.accounts) >= 4
    BY <1>1, <2>1, <2>2 DEF decode_transfer_checked
  <2>5. /\ Key(r, 1) # IndexError /\ Key(r, 2) # IndexError /\ Key(r, 3) # IndexError
        /\ Key(r, 4) # IndexError /\ KeysFrom(r, 5) # IndexError
    BY <1>1, <2>2, <2>4
  <2>6. QED BY <2>1, <2>3, <2>5 DEF decode_transfer_checked, Sound
<1>20. CASE k = "approve_checked" /\ ApproveCheckedForm(p, i)
  <2>1. res = decode_approve_checked(r)
    BY <1>20 DEF Decoded
  <2>2. i.accounts \in Seq(Metas)
    BY <1>20 DEF ApproveCheckedForm, Owned
  <2>3. r.program_id # IndexError /\ r.args[1] # IndexError /\ r.args[2] # IndexError
    BY <1>2, <1>20 DEF ApproveCheckedForm, ApproveCheckedParams
  <2>4. Len(r.accounts) \in Nat /\ Len(r.accounts) >= 4
    BY <1>1, <2>1, <2>2 DEF decode_approve_checked
  <2>5. /\ Key(r, 1) # IndexError /\ Key(r, 2) # IndexError /\ Key(r, 3) # IndexError
        /\ Key(r, 4) # IndexError /\ KeysFrom(r, 5) # IndexError
    BY <1>1, <2>2, <2>4
  <2>6. QED BY <2>1, <2>3, <2>5 DEF decode_approve_checked, Sound
<1>21. CASE k = "mint_to_checked" /\ MintToCheckedForm(p, i)
  <2>1. res = decode_mint_to_checked(r)
    BY <1>21 DEF Decoded
  <2>2. i.accounts \in Seq(Metas)
    BY <1>21 DEF MintToCheckedForm, Owned
  <2>3. r.program_id # IndexError /\ r.args[1] # IndexError /\ r.args[2] # IndexError
    BY <1>2, <1>21 DEF MintToCheckedForm, MintToCheckedParams
  <2>4. Len(r.accounts) \in Nat /\ Len(r.accounts) >= 3
    BY <1>1, <2>1, <2>2 DEF decode_mint_to_checked
  <2>5. /\ Key(r, 1) # IndexError /\ Key(r, 2) # IndexError /\ Key(r, 3) # IndexError
        /\ KeysFrom(r, 4) # IndexError
    BY <1>1, <2>2, <2>4
  <2>6. QED BY <2>1, <2>3, <2>5 DEF decode_mint_to_checked, Sound
<1>22. CASE k = "burn_checked" /\ BurnCheckedForm(p, i)
  <2>1. res = decode_burn_checked(r)
    BY <1>22 DEF Decoded
  <2>2. i.accounts \in Seq(Metas)
    BY <1>22 DEF BurnCheckedForm, Owned
  <2>3. r.program_id # IndexError /\ r.args[1] # IndexError /\ r.args[2] # IndexError
    BY <1>2, <1>22 DEF BurnCheckedForm, BurnCheckedParams
  <2>4. Len(r.accounts) \in Nat /\ Len(r.accounts) >= 3
    BY <1>1, <2>1, <2>2 DEF decode_burn_checked
  <2>5. /\ Key(r, 1) # IndexError /\ Key(r, 2) # IndexError /\ Key(r, 3) # IndexError
        /\ KeysFrom(r, 4) # IndexError
    BY <1>1, <2>2, <2>4
  <2>6. QED BY <2>1, <2>3, <2>5 DEF decode_burn_checked, Sound
<1>23. CASE k = "sync_native" /\ SyncNativeForm(p, i)
  <2>1. res = decode_sync_native(r)
    BY <1>23 DEF Decoded
  <2>2. i.accounts \in Seq(Metas)
    BY <1>0, <1>23 DEF SyncNativeForm, Fixed
  <2>3. r.program_id # IndexError
    BY <1>2, <1>23 DEF SyncNativeForm, SyncNativeParams
  <2>4. Len(r.accounts) \in Nat /\ Len(r.accounts) >= 1
    BY <1>1, <2>1, <2>2 DEF decode_sync_native
  <2>5. Key(r, 1) # IndexError
    BY <1>1, <2>2, <2>4
  <2>6. QED BY <2>1, <2>3, <2>5 DEF decode_sync_native, Sound
<1>24. CASE k = "get_account_data_size" /\ GetAccountDataSizeForm(p, i)
  <2>1. res = decode_get_account_data_size(r)
    BY <1>24 DEF Decoded
  <2>2. i.accounts \in Seq(Metas)
    BY <1>0, <1>24 DEF GetAccountDataSizeForm, Fixed
  <2>3. r.program_id # IndexError
    BY <1>2, <1>24 DEF GetAccountDataSizeForm, GetAccountDataSizeParams
  <2>4. Len(r.accounts) \in Nat /\ Len(r.accounts) >= 1
    BY <1>1, <2>1, <2>2 DEF decode_get_account_data_size
  <2>5. Key(r, 1) # IndexError
    BY <1>1, <2>2, <2>4
  <2>6. QED BY <2>1, <2>3, <2>5 DEF decode_get_account_data_size, Sound
<1>25. CASE k = "initialize_immutable_owner" /\ InitializeImmutableOwnerForm(p, i)
  <2>1. res = decode_initialize_immutable_owner(r)
    BY <1>25 DEF Decoded
  <2>2. i.accounts \in Seq(Metas)
    BY <1>0, <1>25 DEF InitializeImmutableOwnerForm, Fixed
  <2>3. r.program_id # IndexError
    BY <1>2, <1>25 DEF InitializeImmutableOwnerForm, InitializeImmutableOwnerParams
  <2>4. Len(r.accounts) \in Nat /\ Len(r.accounts) >= 1
    BY <1>1, <2>1, <2>2 DEF decode_initialize_immutable_owner
  <2>5. Key(r, 1) # IndexError
    BY <1>1, <2>2, <2>4
  <2>6. QED BY <2>1, <2>3, <2>5 DEF decode_initialize_immutable_owner, Sound
<1>26. CASE k = "initialize_transfer_fee_config" /\ InitializeTransferFeeConfigForm(p, i)
  <2>1. res = decode_initialize_transfer_fee_config(r)
    BY <1>26 DEF Decoded
  <2>2. i.accounts \in Seq(Metas)
    BY <1>0, <1>26 DEF InitializeTransferFeeConfigForm, Fixed
  <2>3. /\ ReadOption(i, 2) = p.transfer_fee_config_authority
        /\ ReadOption(i, AfterOption(i, 2)) = p.withdraw_withheld_authority
        /\ i.args[AfterOption(i, AfterOption(i, 2))] = p.transfer_fee_basis_points
        /\ i.args[AfterOption(i, AfterOption(i, 2)) + 1] = p.maximum_fee
    BY <1>26, FeeConfigArgsAre DEF InitializeTransferFeeConfigForm
  <2>4. /\ ReadOption(r, 2) # IndexError
        /\ ReadOption(r, AfterOption(r, 2)) # IndexError
        /\ r.args[AfterOption(r, AfterOption(r, 2))] # IndexError
        /\ r.args[AfterOption(r, AfterOption(r, 2)) + 1] # IndexError
    BY <1>2, <1>26, <2>3 DEF InitializeTransferFeeConfigForm, InitializeTransferFeeConfigParams,
       MaybePubkey, ReadOption, AfterOption
  <2>5. QED BY <1>1, <1>2, <1>26, <2>1, <2>2, <2>4 DEF decode_initialize_transfer_fee_config,
               InitializeTransferFeeConfigForm, InitializeTransferFeeConfigParams, Sound
<1>27. CASE /\ k = "withdraw_withheld_tokens_from_accounts"
            /\ WithdrawWithheldTokensFromAccountsForm(p, i)
  <2>1. res = decode_withdraw_withheld_tokens_from_accounts(r)
    BY <1>27 DEF Decoded
  <2>2. i.accounts \in Seq(Metas)
    BY <1>27 DEF WithdrawWithheldTokensFromAccountsForm, Sourced
  <2>3. r.args[2] = Len(p.sources) /\ Len(p.sources) \in Nat
    BY <1>27, ListsAreSequences DEF WithdrawWithheldTokensFromAccountsForm,
       WithdrawWithheldTokensFromAccountsParams
  <2>4. /\ Len(r.accounts) \in Nat /\ Len(r.accounts) >= 3 + Len(p.sources)
        /\ r.program_id # IndexError
    BY <1>1, <1>2, <1>27, <2>1, <2>2, <2>3 DEF decode_withdraw_withheld_tokens_from_accounts,
       WithdrawWithheldTokensFromAccountsForm, WithdrawWithheldTokensFromAccountsParams
  <2> DEFINE l == Len(r.accounts)
             num == Len(p.sources)
  <2>5. r.args[2] = num /\ num \in Nat /\ l \in Nat /\ l >= 3 + num
    BY <2>3, <2>4
  <2>6. res.params = [program_id |-> r.program_id, mint |-> Key(r, 1), dest |-> Key(r, 2),
                      authority |-> Key(r, 3), signers |-> Keys(r, 4, l - num),
                      sources |-> KeysFrom(r, l - num + 1)]
    BY <2>1, <2>5 DEF decode_withdraw_withheld_tokens_from_accounts, SignersBefore
  <2> HIDE DEF l, num
  <2>7. l - num \in 0..l /\ l - num + 1 \in Nat \ {0} /\ 4 \in Nat \ {0}
    BY <2>5
  <2>8. 1 \in 1..l /\ 2 \in 1..l /\ 3 \in 1..l
    BY <2>5
  <2>9. Keys(r, 4, l - num) # IndexError /\ KeysFrom(r, l - num + 1) # IndexError
    BY <1>1, <2>2, <2>7 DEF l
  <2>10. Key(r, 1) # IndexError /\ Key(r, 2) # IndexError /\ Key(r, 3) # IndexError
    BY <1>1, <2>2, <2>8 DEF l
  <2>11. QED BY <2>4, <2>6, <2>9, <2>10 DEF Sound
<1>28. CASE k = "withdraw_withheld_tokens_from_mint" /\ WithdrawWithheldTokensFromMintForm(p, i)
  <2>1. res = decode_withdraw_withheld_tokens_from_mint(r)
    BY <1>28 DEF Decoded
  <2>2. i.accounts \in Seq(Metas)
    BY <1>28 DEF WithdrawWithheldTokensFromMintForm, Owned
  <2>3. r.program_id # IndexError
    BY <1>2, <1>28 DEF WithdrawWithheldTokensFromMintForm, WithdrawWithheldTokensFromMintParams
  <2>4. Len(r.accounts) \in Nat /\ Len(r.accounts) >= 3
    BY <1>1, <2>1, <2>2 DEF decode_withdraw_withheld_tokens_from_mint
  <2>5. /\ Key(r, 1) # IndexError /\ Key(r, 2) # IndexError /\ Key(r, 3) # IndexError
        /\ KeysFrom(r, 4) # IndexError
    BY <1>1, <2>2, <2>4
  <2>6. QED BY <2>1, <2>3, <2>5 DEF decode_withdraw_withheld_tokens_from_mint, Sound
<1>29. CASE k = "harvest_withheld_tokens_to_mint" /\ HarvestWithheldTokensToMintForm(p, i)
  <2>1. res = decode_harvest_withheld_tokens_to_mint(r)
    BY <1>29 DEF Decoded
  <2>2. i.accounts \in Seq(Metas)
    BY <1>0, <1>29 DEF HarvestWithheldTokensToMintForm, Listing
  <2>3. r.program_id # IndexError
    BY <1>2, <1>29 DEF HarvestWithheldTokensToMintForm, HarvestWithheldTokensToMintParams
  <2>4. Len(r.accounts) \in Nat /\ Len(r.accounts) >= 1
    BY <1>1, <2>1, <2>2 DEF decode_harvest_withheld_tokens_to_mint
  <2>5. Key(r, 1) # IndexError /\ KeysFrom(r, 2) # IndexError
    BY <1>1, <2>2, <2>4
  <2>6. QED BY <2>1, <2>3, <2>5 DEF decode_harvest_withheld_tokens_to_mint, Sound
<1>30. CASE k = "amount_to_ui_amount" /\ AmountToUiAmountForm(p, i)
  <2>1. res = decode_amount_to_ui_amount(r)
    BY <1>30 DEF Decoded
  <2>2. i.accounts \in Seq(Metas)
    BY <1>0, <1>30 DEF AmountToUiAmountForm, Fixed
  <2>3. r.program_id # IndexError /\ r.args[1] # IndexError
    BY <1>2, <1>30 DEF AmountToUiAmountForm, AmountToUiAmountParams
  <2>4. Len(r.accounts) \in Nat /\ Len(r.accounts) >= 1
    BY <1>1, <2>1, <2>2 DEF decode_amount_to_ui_amount
  <2>5. Key(r, 1) # IndexError
    BY <1>1, <2>2, <2>4
  <2>6. QED BY <2>1, <2>3, <2>5 DEF decode_amount_to_ui_amount, Sound
<1>31. CASE k = "ui_amount_to_amount" /\ UiAmountToAmountForm(p, i)
  <2>1. res = decode_ui_amount_to_amount(r)
    BY <1>31 DEF Decoded
  <2>2. i.accounts \in Seq(Metas)
    BY <1>0, <1>31 DEF UiAmountToAmountForm, Fixed
  <2>3. r.program_id # IndexError /\ r.args[1] # IndexError
    BY <1>2, <1>31 DEF UiAmountToAmountForm, UiAmountToAmountParams
  <2>4. Len(r.accounts) \in Nat /\ Len(r.accounts) >= 1
    BY <1>1, <2>1, <2>2 DEF decode_ui_amount_to_amount
  <2>5. Key(r, 1) # IndexError
    BY <1>1, <2>2, <2>4
  <2>6. QED BY <2>1, <2>3, <2>5 DEF decode_ui_amount_to_amount, Sound
<1>32. CASE k = "create_associated_token_account" /\ CreateAssociatedTokenAccountForm(p, i)
  BY <1>32 DEF Decoded
<1>33. CASE /\ k = "create_idempotent_associated_token_account"
            /\ CreateIdempotentAssociatedTokenAccountForm(p, i)
  BY <1>33 DEF Decoded
<1>34. CASE k = "create_memo" /\ CreateMemoForm(p, i)
  BY <1>34
<1>35. CASE k = "withdraw_from_vote_account" /\ WithdrawFromVoteAccountForm(p, i)
  BY <1>35 DEF Decoded
<1> HIDE DEF parse_and_validate_instruction, HasKeys, Rejected, ParamsOf, Came, Carries,
             Instruction
<1>36. QED BY <1>3, <1>4, <1>5, <1>6, <1>7, <1>8, <1>9, <1>10, <1>11, <1>12, <1>13, <1>14,
              <1>15, <1>16, <1>17, <1>18, <1>19, <1>20, <1>21, <1>22, <1>23, <1>24, <1>25,
              <1>26, <1>27, <1>28, <1>29, <1>30, <1>31, <1>32, <1>33, <1>34, <1>35 DEF Formed

(* A decoder of another kind takes one instruction: the idempotent         *)
(* constructor of an associated account has its type from another program. *)
LEMMA OnlyIdempotent ==
    ASSUME NEW k, NEW l, NEW p, NEW i, NEW res, Formed(k, p, i), Decoded(l, i, res), res.ok,
           k # l, l # "create_memo"
    PROVE  /\ k = "create_idempotent_associated_token_account"
           /\ CreateIdempotentAssociatedTokenAccountForm(p, i)
           /\ l = "initialize_account" /\ res = decode_initialize_account(i)
<1>1. Tagged(i, l)
  BY DecodedIsTagged
<1>2. k \in Foreign
  BY <1>1, FormIsTagged, OneKind
<1>3. CASE k = "create_associated_token_account" /\ CreateAssociatedTokenAccountForm(p, i)
  BY <1>1, <1>3 DEF CreateAssociatedTokenAccountForm, Instruction, Tagged, Tag, Fee
<1>4. CASE k = "create_memo" /\ CreateMemoForm(p, i)
  BY <1>1, <1>4 DEF CreateMemoForm, Carries, Instruction, Tagged, Tag, Fee
<1>5. CASE k = "withdraw_from_vote_account" /\ WithdrawFromVoteAccountForm(p, i)
  BY <1>1, <1>5 DEF WithdrawFromVoteAccountForm, Instruction, Tagged, Tag, Fee
<1>6. CASE /\ k = "create_idempotent_associated_token_account"
           /\ CreateIdempotentAssociatedTokenAccountForm(p, i)
  <2>1. l = "initialize_account"
    BY <1>1, <1>6 DEF CreateIdempotentAssociatedTokenAccountForm, Instruction, Tagged, Tag, Fee
  <2>2. QED BY <1>6, <2>1 DEF Decoded
<1>7. QED BY <1>2, <1>3, <1>4, <1>5, <1>6 DEF Formed, Foreign

LEMMA AssociatedAsAccount ==
    ASSUME NEW p, NEW i, CreateIdempotentAssociatedTokenAccountForm(p, i)
    PROVE  Sound(decode_initialize_account(i))
<1>1. /\ p.owner \in Pubkeys /\ p.mint \in Pubkeys /\ p.payer \in Pubkeys
      /\ p.token_program_id \in TokenPrograms
      /\ i = Instruction(ASSOCIATED_TOKEN_PROGRAM_ID, "INITIALIZE_ACCOUNT", <<>>, i.accounts)
      /\ i.accounts = AssociatedAccounts(p)
  BY DEF CreateIdempotentAssociatedTokenAccountForm, AssociatedParams
<1> DEFINE a == get_associated_token_address(p.owner, p.mint, p.token_program_id)
<1>2. Len(i.accounts) = 6 /\ Key(i, 1) = p.payer /\ Key(i, 2) = a /\ Key(i, 3) = p.owner
  BY <1>1 DEF AssociatedAccounts, Key, Meta, Writable, Readonly
<1>3. a # IndexError
  <2>1. a \in Seq(Pubkeys \cup {RENT} \cup TokenPrograms)
    BY <1>1 DEF get_associated_token_address
  <2>2. QED BY <2>1, InstructionAssumption
<1>4. p.payer # IndexError /\ p.owner # IndexError /\ ASSOCIATED_TOKEN_PROGRAM_ID # IndexError
  BY <1>1, InstructionAssumption
<1> HIDE DEF a
<1>5. QED BY <1>1, <1>2, <1>3, <1>4
          DEF Sound, decode_initialize_account, parse_and_validate_instruction, HasKeys,
              Instruction, ParamsOf

(* Whatever list of accounts comes back, no decoder but that of memos      *)
(* reads beyond its end.                                                   *)
THEOREM NoDecoderReadsBeyond == Spec => []NeverBeyondTheEnd
<1>1. IInv => NeverBeyondTheEnd
  <2>1. SUFFICES ASSUME IInv, pc = "decoded", result.ok, decoder # "create_memo"
                 PROVE  Sound(result)
    BY DEF NeverBeyondTheEnd, Sound
  <2>2. /\ Formed(kind, params, instr) /\ Decoded(decoder, received, result)
        /\ Came(instr, received)
    BY <2>1 DEF IInv
  <2>3. CASE decoder = kind
    BY <2>1, <2>2, <2>3, ReadsWithin
  <2>4. CASE decoder # kind
    <3>1. received = instr
      BY <2>1, <2>4 DEF IInv
    <3>2. QED BY <2>1, <2>2, <2>4, <3>1, OnlyIdempotent, AssociatedAsAccount
  <2>5. QED BY <2>3, <2>4
<1>2. QED BY <1>1, Invariance, PTL
----------------------------------------------------------------------------
(* The type invariant.                                                     *)

Fits(p, f, values) == f \in DOMAIN p => p[f] \in values

AllFit(k, p) ==
    /\ Fits(p, "amount", Int64ul) /\ Fits(p, "lamports", Int64ul)
    /\ Fits(p, "maximum_fee", Int64ul)
    /\ Fits(p, "decimals", Int8ul) /\ Fits(p, "m", Int8ul)
    /\ Fits(p, "transfer_fee_basis_points", Int16ul)
    /\ k = "withdraw_withheld_tokens_from_accounts" => Len(p.sources) \in Int8ul

LEMMA FormedFits ==
    ASSUME NEW k, NEW p, NEW i, Formed(k, p, i)
    PROVE  AllFit(k, p)
<1> USE DEF AllFit, Fits
<1>1. CASE k = "initialize_mint" /\ InitializeMintForm(p, i)
  BY <1>1 DEF InitializeMintForm, InitializeMintParams
<1>2. CASE k = "initialize_mint2" /\ InitializeMint2Form(p, i)
  BY <1>2 DEF InitializeMint2Form, InitializeMint2Params, InitializeMintParams
<1>3. CASE k = "initialize_account" /\ InitializeAccountForm(p, i)
  BY <1>3 DEF InitializeAccountForm, InitializeAccountParams
<1>4. CASE k = "initialize_account2" /\ InitializeAccount2Form(p, i)
  BY <1>4 DEF InitializeAccount2Form, InitializeAccount2Params, InitializeAccountParams
<1>5. CASE k = "initialize_account3" /\ InitializeAccount3Form(p, i)
  BY <1>5 DEF InitializeAccount3Form, InitializeAccount3Params, InitializeAccountParams
<1>6. CASE k = "initialize_multisig" /\ InitializeMultisigForm(p, i)
  BY <1>6 DEF InitializeMultisigForm, InitializeMultisigParams
<1>7. CASE k = "initialize_multisig2" /\ InitializeMultisig2Form(p, i)
  BY <1>7 DEF InitializeMultisig2Form, InitializeMultisig2Params, InitializeMultisigParams
<1>8. CASE k = "transfer" /\ TransferForm(p, i)
  BY <1>8 DEF TransferForm, TransferParams
<1>9. CASE k = "approve" /\ ApproveForm(p, i)
  BY <1>9 DEF ApproveForm, ApproveParams
<1>10. CASE k = "revoke" /\ RevokeForm(p, i)
  BY <1>10 DEF RevokeForm, RevokeParams
<1>11. CASE k = "set_authority" /\ SetAuthorityForm(p, i)
  BY <1>11 DEF SetAuthorityForm, SetAuthorityParams
<1>12. CASE k = "mint_to" /\ MintToForm(p, i)
  BY <1>12 DEF MintToForm, MintToParams
<1>13. CASE k = "burn" /\ BurnForm(p, i)
  BY <1>13 DEF BurnForm, BurnParams
<1>14. CASE k = "close_account" /\ CloseAccountForm(p, i)
  BY <1>14 DEF CloseAccountForm, CloseAccountParams
<1>15. CASE k = "freeze_account" /\ FreezeAccountForm(p, i)
  BY <1>15 DEF FreezeAccountForm, FreezeAccountParams
<1>16. CASE k = "thaw_account" /\ ThawAccountForm(p, i)
  BY <1>16 DEF ThawAccountForm, ThawAccountParams, FreezeAccountParams
<1>17. CASE k = "transfer_checked" /\ TransferCheckedForm(p, i)
  BY <1>17 DEF TransferCheckedForm, TransferCheckedParams
<1>18. CASE k = "approve_checked" /\ ApproveCheckedForm(p, i)
  BY <1>18 DEF ApproveCheckedForm, ApproveCheckedParams
<1>19. CASE k = "mint_to_checked" /\ MintToCheckedForm(p, i)
  BY <1>19 DEF MintToCheckedForm, MintToCheckedParams
<1>20. CASE k = "burn_checked" /\ BurnCheckedForm(p, i)
  BY <1>20 DEF BurnCheckedForm, BurnCheckedParams
<1>21. CASE k = "sync_native" /\ SyncNativeForm(p, i)
  BY <1>21 DEF SyncNativeForm, SyncNativeParams
<1>22. CASE k = "get_account_data_size" /\ GetAccountDataSizeForm(p, i)
  BY <1>22 DEF GetAccountDataSizeForm, GetAccountDataSizeParams
<1>23. CASE k = "initialize_immutable_owner" /\ InitializeImmutableOwnerForm(p, i)
  BY <1>23 DEF InitializeImmutableOwnerForm, InitializeImmutableOwnerParams
<1>24. CASE k = "initialize_transfer_fee_config" /\ InitializeTransferFeeConfigForm(p, i)
  BY <1>24 DEF InitializeTransferFeeConfigForm, InitializeTransferFeeConfigParams
<1>25. CASE /\ k = "withdraw_withheld_tokens_from_accounts"
            /\ WithdrawWithheldTokensFromAccountsForm(p, i)
  BY <1>25 DEF WithdrawWithheldTokensFromAccountsForm, WithdrawWithheldTokensFromAccountsParams
<1>26. CASE k = "withdraw_withheld_tokens_from_mint" /\ WithdrawWithheldTokensFromMintForm(p, i)
  BY <1>26 DEF WithdrawWithheldTokensFromMintForm, WithdrawWithheldTokensFromMintParams
<1>27. CASE k = "harvest_withheld_tokens_to_mint" /\ HarvestWithheldTokensToMintForm(p, i)
  BY <1>27 DEF HarvestWithheldTokensToMintForm, HarvestWithheldTokensToMintParams
<1>28. CASE k = "amount_to_ui_amount" /\ AmountToUiAmountForm(p, i)
  BY <1>28 DEF AmountToUiAmountForm, AmountToUiAmountParams
<1>29. CASE k = "ui_amount_to_amount" /\ UiAmountToAmountForm(p, i)
  BY <1>29 DEF UiAmountToAmountForm, UiAmountToAmountParams
<1>30. CASE k = "create_associated_token_account" /\ CreateAssociatedTokenAccountForm(p, i)
  BY <1>30 DEF CreateAssociatedTokenAccountForm, AssociatedParams
<1>31. CASE /\ k = "create_idempotent_associated_token_account"
            /\ CreateIdempotentAssociatedTokenAccountForm(p, i)
  BY <1>31 DEF CreateIdempotentAssociatedTokenAccountForm, AssociatedParams
<1>32. CASE k = "create_memo" /\ CreateMemoForm(p, i)
  BY <1>32 DEF CreateMemoForm, MemoParams
<1>33. CASE k = "withdraw_from_vote_account" /\ WithdrawFromVoteAccountForm(p, i)
  BY <1>33 DEF WithdrawFromVoteAccountForm, WithdrawFromVoteAccountParams
<1> HIDE DEF AllFit, Fits
<1>34. QED BY <1>1, <1>2, <1>3, <1>4, <1>5, <1>6, <1>7, <1>8, <1>9, <1>10, <1>11, <1>12, <1>13,
              <1>14, <1>15, <1>16, <1>17, <1>18, <1>19, <1>20, <1>21, <1>22, <1>23, <1>24,
              <1>25, <1>26, <1>27, <1>28, <1>29, <1>30, <1>31, <1>32, <1>33 DEF Formed

(* A decoder raises or returns parameters.                                 *)
LEMMA DecodedIsResult ==
    ASSUME NEW k, NEW i, NEW r, Decoded(k, i, r)
    PROVE  r.ok \in BOOLEAN
<1> USE DEF Rejected, ParamsOf
<1>1. CASE k = "initialize_mint" /\ r = decode_initialize_mint(i)
  BY <1>1 DEF decode_initialize_mint
<1>2. CASE k = "initialize_mint2" /\ r = decode_initialize_mint2(i)
  BY <1>2 DEF decode_initialize_mint2
<1>3. CASE k = "initialize_account" /\ r = decode_initialize_account(i)
  BY <1>3 DEF decode_initialize_account
<1>4. CASE k = "initialize_account2" /\ r = decode_initialize_account2(i)
  BY <1>4 DEF decode_initialize_account2
<1>5. CASE k = "initialize_account3" /\ r = decode_initialize_account3(i)
  BY <1>5 DEF decode_initialize_account3
<1>6. CASE k = "initialize_multisig" /\ r = decode_initialize_multisig(i)
  BY <1>6 DEF decode_initialize_multisig
<1>7. CASE k = "initialize_multisig2" /\ r = decode_initialize_multisig2(i)
  BY <1>7 DEF decode_initialize_multisig2
<1>8. CASE k = "transfer" /\ r = decode_transfer(i)
  BY <1>8 DEF decode_transfer
<1>9. CASE k = "approve" /\ r = decode_approve(i)
  BY <1>9 DEF decode_approve
<1>10. CASE k = "revoke" /\ r = decode_revoke(i)
  BY <1>10 DEF decode_revoke
<1>11. CASE k = "set_authority" /\ r = decode_set_authority(i)
  BY <1>11 DEF decode_set_authority
<1>12. CASE k = "mint_to" /\ r = decode_mint_to(i)
  BY <1>12 DEF decode_mint_to
<1>13. CASE k = "burn" /\ r = decode_burn(i)
  BY <1>13 DEF decode_burn
<1>14. CASE k = "close_account" /\ r = decode_close_account(i)
  BY <1>14 DEF decode_close_account
<1>15. CASE k = "freeze_account" /\ r = decode_freeze_account(i)
  BY <1>15 DEF decode_freeze_account
<1>16. CASE k = "thaw_account" /\ r = decode_thaw_account(i)
  BY <1>16 DEF decode_thaw_account
<1>17. CASE k = "transfer_checked" /\ r = decode_transfer_checked(i)
  BY <1>17 DEF decode_transfer_checked
<1>18. CASE k = "approve_checked" /\ r = decode_approve_checked(i)
  BY <1>18 DEF decode_approve_checked
<1>19. CASE k = "mint_to_checked" /\ r = decode_mint_to_checked(i)
  BY <1>19 DEF decode_mint_to_checked
<1>20. CASE k = "burn_checked" /\ r = decode_burn_checked(i)
  BY <1>20 DEF decode_burn_checked
<1>21. CASE k = "sync_native" /\ r = decode_sync_native(i)
  BY <1>21 DEF decode_sync_native
<1>22. CASE k = "get_account_data_size" /\ r = decode_get_account_data_size(i)
  BY <1>22 DEF decode_get_account_data_size
<1>23. CASE k = "initialize_immutable_owner" /\ r = decode_initialize_immutable_owner(i)
  BY <1>23 DEF decode_initialize_immutable_owner
<1>24. CASE k = "initialize_transfer_fee_config" /\ r = decode_initialize_transfer_fee_config(i)
  BY <1>24 DEF decode_initialize_transfer_fee_config
<1>25. CASE /\ k = "withdraw_withheld_tokens_from_accounts"
            /\ r = decode_withdraw_withheld_tokens_from_accounts(i)
  BY <1>25 DEF decode_withdraw_withheld_tokens_from_accounts
<1>26. CASE /\ k = "withdraw_withheld_tokens_from_mint"
            /\ r = decode_withdraw_withheld_tokens_from_mint(i)
  BY <1>26 DEF decode_withdraw_withheld_tokens_from_mint
<1>27. CASE /\ k = "harvest_withheld_tokens_to_mint"
            /\ r = decode_harvest_withheld_tokens_to_mint(i)
  BY <1>27 DEF decode_harvest_withheld_tokens_to_mint
<1>28. CASE k = "amount_to_ui_amount" /\ r = decode_amount_to_ui_amount(i)
  BY <1>28 DEF decode_amount_to_ui_amount
<1>29. CASE k = "ui_amount_to_amount" /\ r = decode_ui_amount_to_amount(i)
  BY <1>29 DEF decode_ui_amount_to_amount
<1>30. CASE k = "create_memo" /\ r = decode_create_memo(i)
  BY <1>30 DEF decode_create_memo
<1>31. QED BY <1>1, <1>2, <1>3, <1>4, <1>5, <1>6, <1>7, <1>8, <1>9, <1>10, <1>11, <1>12, <1>13,
              <1>14, <1>15, <1>16, <1>17, <1>18, <1>19, <1>20, <1>21, <1>22, <1>23, <1>24,
              <1>25, <1>26, <1>27, <1>28, <1>29, <1>30 DEF Decoded

(* An instruction carries only integers its fields can hold, and what is   *)
(* read of it has its type and its data.                                   *)
THEOREM IntegersFit == Spec => []TypeOK
<1>1. IInv => TypeOK
  <2>1. SUFFICES ASSUME IInv
                 PROVE  TypeOK
    OBVIOUS
  <2>2. pc \in {"start", "encoded", "raised", "received", "decoded"}
    BY <2>1 DEF IInv, Phases
  <2>3. ASSUME pc \notin {"start", "raised"}
        PROVE  AllFit(kind, params)
    BY <2>1, <2>2, <2>3, FormedFits DEF IInv
  <2>4. ASSUME pc \in {"received", "decoded"}
        PROVE  /\ received.type = instr.type /\ received.args = instr.args
               /\ Len(received.accounts) <= Len(instr.accounts) + 1
    BY <2>1, <2>4 DEF IInv, Came
  <2>5. result.ok \in BOOLEAN
    <3>1. CASE pc # "decoded"
      <4>1. result = Rejected
        BY <2>1, <3>1 DEF IInv, Phases
      <4>2. QED BY <4>1 DEF Rejected
    <3>2. CASE pc = "decoded"
      BY <2>1, <3>2, DecodedIsResult DEF IInv
    <3>3. QED BY <3>1, <3>2
  <2>6. QED BY <2>2, <2>3, <2>4, <2>5 DEF TypeOK, AllFit, Fits, Holds
<1>2. QED BY <1>1, Invariance, PTL
=============================================================================
