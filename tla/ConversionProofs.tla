-------------------------- MODULE ConversionProofs --------------------------
(***************************************************************************)
(* Theorems about Conversions: for data of every size.  A state is one     *)
(* input, so each property is a fact about the conversions, stated as a    *)
(* lemma for any input of the kind, and the theorem says that every input  *)
(* of a behaviour is one.                                                  *)
(***************************************************************************)
EXTENDS Conversions, SumProofs, SequenceTheorems

Byte == {x \in Nat : x < 256}
Attempt == [r: Byte \X Byte, s: Byte \X Byte, recovery: Nat]

LEMMA AttemptsAre ==
    ASSUME NEW r \in HalfHeads, NEW s \in HalfHeads, NEW t \in HalfHeads
    PROVE  <<[r |-> r, s |-> s, recovery |-> 0], [r |-> s, s |-> t, recovery |-> 1],
             [r |-> t, s |-> r, recovery |-> 3]>> \in Seq(Attempt)
<1>1. HalfHeads \subseteq Byte \X Byte
  BY DEF HalfHeads, Byte
<1> QED
  BY <1>1 DEF Attempt

(* What a step feeds, by its kind. *)
LEMMA OnlyFed ==
    ASSUME Next
    PROVE  /\ input'.of = "number" => input'.n \in Numbers /\ input'.v \in Machine
           /\ input'.of = "transaction" =>
                /\ input'.nonce \in Nonces /\ input'.value \in Numerals
                /\ input'.to \in {<<>>, Filled(20, 9, 0)}
                /\ input'.halves \in (Heads \X Heads) \cup {<<>>}
                /\ \E size \in Sizes, head \in Heads : input'.payload = Filled(size, head, 5)
           /\ input'.of = "name" => input'.name \in Names
           /\ input'.of = "string" => input'.string \in Strings
           /\ input'.of = "key" =>
                input'.key \in PrivateKeys /\ input'.net \in {"main", "test"} /\ input'.compressed \in BOOLEAN
           /\ input'.of = "leaf" => input'.leaf \in Leaves
           /\ input'.of = "attempts" => input'.attempts \in Seq(Attempt)
<1>1. CASE FeedNumber
  BY <1>1 DEF FeedNumber, Feed
<1>2. CASE FeedTransaction
  BY <1>2 DEF FeedTransaction, Feed
<1>3. CASE FeedName
  BY <1>3 DEF FeedName, Feed
<1>4. CASE FeedString
  BY <1>4 DEF FeedString, Feed
<1>5. CASE FeedKey
  BY <1>5 DEF FeedKey, Feed
<1>6. CASE FeedLeaf
  BY <1>6 DEF FeedLeaf, Feed
<1>7. CASE FeedAttempts
  BY <1>7, AttemptsAre DEF FeedAttempts, Feed
<1>8. CASE Forget
  BY <1>8 DEF Forget
<1> QED
  BY <1>1, <1>2, <1>3, <1>4, <1>5, <1>6, <1>7, <1>8 DEF Next

-----------------------------------------------------------------------------
(* Names. *)

LEMMA SymbolReadsBack ==
    ASSUME NEW c, EncodeSymbol(c) # -1
    PROVE  EncodeSymbol(c) \in 0..31 /\ Symbols[(EncodeSymbol(c) % 32) + 1] = c
<1>1. Symbols = [i \in 1..32 |-> IF i <= 6 THEN <<46, 49, 50, 51, 52, 53>>[i] ELSE 90 + i]
  <2>1. <<46, 49, 50, 51, 52, 53>> \in Seq(Int) /\ Len(<<46, 49, 50, 51, 52, 53>>) = 6
    OBVIOUS
  <2>2. [i \in 1..26 |-> 96 + i] \in Seq(Int) /\ Len([i \in 1..26 |-> 96 + i]) = 26
    OBVIOUS
  <2> QED
    BY <2>1, <2>2 DEF Symbols
<1>2. c = Dot \/ c \in 97..122 \/ c \in 49..53
  BY DEF EncodeSymbol
<1>3. CASE c = Dot
  BY <1>1, <1>3 DEF EncodeSymbol, Dot
<1>4. CASE c \in 97..122
  <2>1. EncodeSymbol(c) = c - 91
    BY <1>4 DEF EncodeSymbol, Dot
  <2> QED
    BY <1>1, <1>4, <2>1
<1>5. CASE c \in 49..53
  <2>1. EncodeSymbol(c) = c - 48
    BY <1>5 DEF EncodeSymbol, Dot
  <2> QED
    BY <1>1, <1>5, <2>1
<1> QED
  BY <1>2, <1>3, <1>4, <1>5

(* What is left of a name without the dots at its end. *)
IsEnd(n, s) ==
    LET used == {i \in DOMAIN s : s[i] # Dot} IN
    (n = 0 \/ n \in used) /\ \A i \in used : i <= n

LEMMA EndExists ==
    ASSUME NEW S, NEW s \in Seq(S)
    PROVE  \E n \in 0..Len(s) : IsEnd(n, s)
<1> DEFINE T == {n \in 0..Len(s) : \A i \in DOMAIN s : s[i] # Dot => i <= n}
<1>1. Len(s) \in Nat /\ DOMAIN s = 1..Len(s)
  OBVIOUS
<1>2. T \in SUBSET Nat /\ Len(s) \in T
  BY <1>1
<1>3. PICK n \in T : \A m \in T : n <= m
  BY <1>2, LeastNatural
<1>4. n = 0 \/ (n \in DOMAIN s /\ s[n] # Dot)
  <2> SUFFICES ASSUME n # 0, s[n] = Dot PROVE FALSE
    BY <1>1, <1>3
  <2>1. n - 1 \in T
    BY <1>1, <1>3
  <2> QED
    BY <1>1, <1>3, <2>1
<1> QED
  BY <1>3, <1>4 DEF IsEnd

LEMMA StrippedIs ==
    ASSUME NEW S, NEW s \in Seq(S), NEW n \in 0..Len(s), IsEnd(n, s)
    PROVE  Stripped(s) = SubSeq(s, 1, n)
<1>1. \A m \in 0..Len(s) : IsEnd(m, s) => m = n
  BY DEF IsEnd
<1> DEFINE e == CHOOSE m \in 0..Len(s) : IsEnd(m, s)
<1>2. e = n
  BY <1>1
<1> QED
  BY <1>2 DEF Stripped, IsEnd

(* The data of an accepted name gives the name back, of any symbols.       *)
LEMMA NameReadsBack ==
    ASSUME NEW S, NEW name \in Seq(S), IsAccepted(name)
    PROVE  DecodeName(EncodeName(name)) = Stripped(name)
<1> DEFINE full == [i \in 1..MaxSize |-> Symbols[EncodeName(name)[i] + 1]]
<1>1. PICK n \in Nat : n = Len(name) /\ n <= 12 /\ DOMAIN name = 1..n
  BY DEF IsAccepted, MaxSize
<1>2. Symbols[1] = Dot
  <2>1. EncodeSymbol(Dot) = 0 /\ (0 % 32) + 1 = 1
    BY DEF EncodeSymbol, Dot
  <2> QED
    BY <2>1, SymbolReadsBack
<1>3. \A i \in 1..12 : full[i] = IF i <= n THEN name[i] ELSE Dot
  <2> SUFFICES ASSUME NEW i \in 1..12 PROVE full[i] = IF i <= n THEN name[i] ELSE Dot
    OBVIOUS
  <2>1. CASE i <= n
    <3>1. i \in DOMAIN name /\ EncodeSymbol(name[i]) # -1
      BY <1>1, <2>1 DEF IsAccepted
    <3>2. full[i] = Symbols[(EncodeSymbol(name[i]) % 32) + 1]
      BY <3>1 DEF EncodeName, MaxSize
    <3> QED
      BY <2>1, <3>1, <3>2, SymbolReadsBack
  <2>2. CASE ~(i <= n)
    <3>1. EncodeName(name)[i] = 0
      BY <1>1, <2>2 DEF EncodeName, MaxSize
    <3> QED
      BY <1>2, <2>2, <3>1 DEF MaxSize
  <2> QED
    BY <2>1, <2>2
<1>4. full \in Seq({full[i] : i \in 1..12}) /\ Len(full) = 12 /\ DOMAIN full = 1..12
  BY DEF MaxSize
<1> HIDE DEF full
<1>5. PICK e \in 0..n : IsEnd(e, name)
  BY <1>1, EndExists
<1>6. IsEnd(e, full) /\ e \in 0..12
  <2>1. e \in 0..12 /\ (e # 0 => e \in 1..12 /\ e \in 1..n)
    BY <1>1
  <2>2. \A i \in 1..12 : full[i] # Dot => i \in DOMAIN name /\ name[i] = full[i]
    BY <1>1, <1>3
  <2>3. \A i \in 1..12 : full[i] # Dot => i <= e
    BY <1>5, <2>2 DEF IsEnd
  <2>4. e # 0 => full[e] # Dot
    BY <1>3, <1>5, <2>1 DEF IsEnd
  <2> QED
    BY <1>4, <2>1, <2>3, <2>4 DEF IsEnd
<1>7. Stripped(full) = SubSeq(full, 1, e)
  BY <1>4, <1>6, StrippedIs
<1>8. Stripped(name) = SubSeq(name, 1, e)
  BY <1>1, <1>5, StrippedIs
<1>9. SubSeq(full, 1, e) = SubSeq(name, 1, e)
  BY <1>1, <1>3, <1>4, <1>5, <1>6
<1> QED
  BY <1>7, <1>8, <1>9 DEF DecodeName, full

(* Every name the model feeds is a sequence. *)
LEMMA NamesAre == ASSUME NEW name \in Names PROVE name \in Seq(Characters)
<1>1. ASSUME NEW n \in 0..2, name \in [1..n -> Characters] PROVE name \in Seq(Characters)
  <2>1. n \in Nat
    OBVIOUS
  <2> QED
    BY <1>1, <2>1
<1>2. ASSUME NEW n \in {3, 11, 12, 13, 16, 17}, NEW a \in Characters, NEW b \in Characters,
             name = Filled(n, a, b)
      PROVE  name \in Seq(Characters)
  <2>1. n \in Nat
    OBVIOUS
  <2>2. name \in [1..n -> Characters]
    BY <1>2 DEF Filled
  <2> QED
    BY <2>1, <2>2
<1>3. \/ \E n \in 0..2 : name \in [1..n -> Characters]
      \/ \E n \in {3, 11, 12, 13, 16, 17}, a, b \in Characters : name = Filled(n, a, b)
  BY DEF Names
<1> QED
  BY <1>1, <1>2, <1>3

(* The property: the data of a name of EOS denotes that name, and a name   *)
(* of Golos starts with a letter and ends with one or a digit.             *)
THEOREM NamesHold == Spec => []NamesReadBack
<1>1. Init => NamesReadBack
  BY DEF Init, NamesReadBack
<1>2. NamesReadBack /\ [Next]_input => NamesReadBack'
  <2> SUFFICES ASSUME NamesReadBack, [Next]_input PROVE NamesReadBack'
    OBVIOUS
  <2>1. CASE UNCHANGED input
    BY <2>1 DEF NamesReadBack
  <2>2. CASE Next
    <3> SUFFICES ASSUME input'.of = "name"
                 PROVE  LET name == input'.name IN
                        /\ IsAccepted(name) => DecodeName(EncodeName(name)) = Stripped(name)
                        /\ IsGolosAddress(name) =>
                             name[1] \in 97..122 /\ Last(name) \in 97..122 \cup 48..57
      BY DEF NamesReadBack
    <3>1. PICK name \in Names : input'.name = name
      BY <2>2, OnlyFed
    <3>2. name \in Seq(Characters)
      BY NamesAre
    <3>3. IsAccepted(name) => DecodeName(EncodeName(name)) = Stripped(name)
      BY <3>2, NameReadsBack
    <3>4. IsGolosAddress(name) => name[1] \in 97..122 /\ Last(name) \in 97..122 \cup 48..57
      <4> SUFFICES ASSUME IsGolosAddress(name)
                   PROVE  name[1] \in 97..122 /\ Last(name) \in 97..122 \cup 48..57
        OBVIOUS
      <4>1. Len(name) \in DOMAIN name
        BY <3>2 DEF IsGolosAddress
      <4> QED
        BY <4>1 DEF IsGolosAddress, Last
    <3> QED
      BY <3>1, <3>3, <3>4
  <2> QED
    BY <2>1, <2>2
<1> QED
  BY <1>1, <1>2, PTL DEF Spec
-----------------------------------------------------------------------------
(* Signatures of EOS and Golos. *)

LEMMA HalfIsTaken ==
    ASSUME NEW x \in Nat, NEW y \in Nat, x < 256, y < 256
    PROVE  (x < 128 /\ ~(x = 0 /\ y < 128)) <=> (128 <= x * 256 + y /\ x * 256 + y < 32768)
  OBVIOUS

LEMMA CanonicalIsTaken ==
    ASSUME NEW c \in Attempt
    PROVE  IsCanonical(c) <=> Takes(c)
<1> DEFINE Half(h) == 128 <= h[1] * 256 + h[2] /\ h[1] * 256 + h[2] < 32768
<1>1. /\ c.r[1] \in Nat /\ c.r[1] < 256 /\ c.r[2] \in Nat /\ c.r[2] < 256
      /\ c.s[1] \in Nat /\ c.s[1] < 256 /\ c.s[2] \in Nat /\ c.s[2] < 256
  BY DEF Attempt, Byte
<1>2. Half(c.r) <=> (c.r[1] < 128 /\ ~(c.r[1] = 0 /\ c.r[2] < 128))
  BY <1>1, HalfIsTaken
<1>3. Half(c.s) <=> (c.s[1] < 128 /\ ~(c.s[1] = 0 /\ c.s[2] < 128))
  BY <1>1, HalfIsTaken
<1>4. Takes(c) <=> \A half \in {c.r, c.s} : Half(half)
  BY DEF Takes
<1> HIDE DEF Half
<1>5. Takes(c) <=> Half(c.r) /\ Half(c.s)
  BY <1>4
<1> QED
  BY <1>2, <1>3, <1>5 DEF IsCanonical

(* The attempt that is taken is the first of those that can be. *)
LEMMA SignatureIsAmong ==
    ASSUME NEW attempts \in Seq(Attempt)
    PROVE  LET i == SignatureAmong(attempts) IN
           IF i = 0 THEN \A j \in DOMAIN attempts : ~IsCanonical(attempts[j])
           ELSE i \in DOMAIN attempts /\ IsCanonical(attempts[i])
<1> DEFINE good == {i \in DOMAIN attempts : IsCanonical(attempts[i])}
<1>1. good \in SUBSET Nat /\ 0 \notin good
  OBVIOUS
<1>2. CASE good = {}
  BY <1>2 DEF SignatureAmong
<1>3. CASE good # {}
  <2>1. \E i \in good : \A j \in good : i <= j
    BY <1>1, <1>3, LeastNatural
  <2>2. SignatureAmong(attempts) = CHOOSE i \in good : \A j \in good : i <= j
    BY <1>3 DEF SignatureAmong
  <2>3. SignatureAmong(attempts) \in good
    BY <2>1, <2>2
  <2> QED
    BY <1>1, <2>3
<1> QED
  BY <1>2, <1>3

LEMMA SignatureIsTaken ==
    ASSUME NEW attempts \in Seq(Attempt)
    PROVE  LET i == SignatureAmong(attempts)
           IN IF i = 0 THEN \A j \in DOMAIN attempts : ~Takes(attempts[j])
              ELSE \E c \in ToSet(attempts) :
                     /\ Takes(c)
                     /\ GolosSignature(attempts) = [head |-> 31 + c.recovery, r |-> c.r, s |-> c.s]
                     /\ EosSignature(attempts).check = <<GolosSignature(attempts), "K1">>
<1> DEFINE i == SignatureAmong(attempts)
<1>1. CASE i = 0
  BY <1>1, SignatureIsAmong, CanonicalIsTaken
<1>2. CASE i # 0
  <2>1. i \in DOMAIN attempts /\ IsCanonical(attempts[i])
    BY <1>2, SignatureIsAmong
  <2>2. attempts[i] \in Attempt /\ attempts[i] \in ToSet(attempts)
    BY <2>1 DEF ToSet
  <2>3. Takes(attempts[i])
    BY <2>1, <2>2, CanonicalIsTaken
  <2>4. GolosSignature(attempts) = [head |-> 31 + attempts[i].recovery, r |-> attempts[i].r, s |-> attempts[i].s]
    <3>1. attempts[i].recovery \in Nat /\ 4 + 27 = 31
      BY <2>2 DEF Attempt
    <3> QED
      BY <3>1 DEF GolosSignature, CompressedCompact
  <2>5. EosSignature(attempts).check = <<GolosSignature(attempts), "K1">>
    BY DEF EosSignature, GolosSignature
  <2> QED
    BY <1>2, <2>2, <2>3, <2>4, <2>5
<1> QED
  BY <1>1, <1>2

(* The property: a signature of EOS or Golos is one a node takes, and one  *)
(* that can be had is had.                                                 *)
THEOREM SignaturesHold == Spec => []SignaturesAreCanonical
<1>1. Init => SignaturesAreCanonical
  BY DEF Init, SignaturesAreCanonical
<1>2. SignaturesAreCanonical /\ [Next]_input => SignaturesAreCanonical'
  <2> SUFFICES ASSUME SignaturesAreCanonical, [Next]_input PROVE SignaturesAreCanonical'
    OBVIOUS
  <2>1. CASE UNCHANGED input
    BY <2>1 DEF SignaturesAreCanonical
  <2>2. CASE Next
    <3> SUFFICES ASSUME input'.of = "attempts" PROVE SignaturesAreCanonical'
      BY DEF SignaturesAreCanonical
    <3>1. input'.attempts \in Seq(Attempt)
      BY <2>2, OnlyFed
    <3>2. PICK attempts \in Seq(Attempt) : attempts = input'.attempts
      BY <3>1
    <3> QED
      BY <3>2, SignatureIsTaken DEF SignaturesAreCanonical
  <2> QED
    BY <2>1, <2>2
<1> QED
  BY <1>1, <1>2, PTL DEF Spec

-----------------------------------------------------------------------------
(* Leaves. *)

LEMMA LeafIs ==
    ASSUME NEW l \in Leaves
    PROVE  /\ l.chain \in AccountChains /\ l.net \in Nets(l.chain)
           /\ l.account \in Int /\ l.type \in Int /\ l.index \in Int
<1>1. PICK c \in AccountChains : l \in [chain: {c}, net: Nets(c), account: 0..1, type: 0..1, index: 0..1]
  BY DEF Leaves
<1> QED
  BY <1>1

LEMMA ChainIndexIs ==
    ASSUME NEW c \in AccountChains, NEW net
    PROVE  ChainIndex(c, net) = IF IsTestnet(c, net) THEN 1
                                ELSE IF c = "bitcoin" THEN 0 ELSE IF c = "ethereum" THEN 60
                                ELSE IF c = "eos" THEN 194 ELSE 393477
<1>1. CASE IsTestnet(c, net)
  BY <1>1 DEF ChainIndex
<1>2. CASE ~IsTestnet(c, net)
  <2>1. c = "bitcoin" => ChainIndex(c, net) = 0
    BY <1>2 DEF ChainIndex
  <2>2. c = "ethereum" => ChainIndex(c, net) = 60
    BY <1>2 DEF ChainIndex
  <2>3. c = "eos" => ChainIndex(c, net) = 194
    BY <1>2 DEF ChainIndex
  <2>4. c = "golos" => ChainIndex(c, net) = 393477
    BY <1>2 DEF ChainIndex
  <2> QED
    BY <1>2, <2>1, <2>2, <2>3, <2>4 DEF AccountChains
<1> QED
  BY <1>1, <1>2

LEMMA Appended ==
    ASSUME NEW S, NEW s \in Seq(S), NEW x \in S
    PROVE  /\ Append(s, x) \in Seq(S) /\ Len(Append(s, x)) = Len(s) + 1
           /\ Append(s, x)[Len(s) + 1] = x
           /\ \A i \in 1..Len(s) : Append(s, x)[i] = s[i]
  OBVIOUS

LEMMA PathIs ==
    ASSUME NEW l \in Leaves
    PROVE  /\ Len(Path(l)) = 5 /\ Path(l) \in Seq([hardened: BOOLEAN, index: Int])
           /\ Path(l)[1] = Hardened(44)
           /\ Path(l)[2] = Hardened(ChainIndex(l.chain, l.net))
           /\ Path(l)[3] = Hardened(l.account)
           /\ Path(l)[4] = Normal(l.type)
           /\ Path(l)[5] = Normal(l.index)
<1> DEFINE Steps == [hardened: BOOLEAN, index: Int]
           p == AccountPath(l.chain, l.net, l.account)
<1>1. /\ Hardened(44) \in Steps /\ Hardened(ChainIndex(l.chain, l.net)) \in Steps
      /\ Hardened(l.account) \in Steps /\ Normal(l.type) \in Steps /\ Normal(l.index) \in Steps
  BY LeafIs, ChainIndexIs DEF Hardened, Normal
<1> HIDE DEF Steps
<1>2. /\ p \in Seq(Steps) /\ Len(p) = 3
      /\ p[1] = Hardened(44) /\ p[2] = Hardened(ChainIndex(l.chain, l.net)) /\ p[3] = Hardened(l.account)
  BY <1>1 DEF AccountPath, Child
<1> HIDE DEF p
<1>3. Path(l) = Append(Append(p, Normal(l.type)), Normal(l.index))
  BY DEF Path, LeafPath, Child, p
<1>4. PICK q : q = Append(p, Normal(l.type))
  OBVIOUS
<1>5. /\ q \in Seq(Steps) /\ Len(q) = 4
      /\ q[1] = p[1] /\ q[2] = p[2] /\ q[3] = p[3] /\ q[4] = Normal(l.type)
  <2>1. q \in Seq(Steps) /\ Len(q) = Len(p) + 1 /\ q[Len(p) + 1] = Normal(l.type)
    BY <1>1, <1>2, <1>4, Appended
  <2>2. \A i \in 1..Len(p) : q[i] = p[i]
    BY <1>1, <1>2, <1>4, Appended
  <2> QED
    BY <1>2, <2>1, <2>2
<1>6. /\ Path(l) \in Seq(Steps) /\ Len(Path(l)) = 5
      /\ Path(l)[1] = q[1] /\ Path(l)[2] = q[2] /\ Path(l)[3] = q[3] /\ Path(l)[4] = q[4]
      /\ Path(l)[5] = Normal(l.index)
  BY <1>1, <1>3, <1>4, <1>5, Appended
<1> QED
  BY <1>2, <1>5, <1>6 DEF Steps

LEMMA IndexTellsTheChain ==
    ASSUME NEW c \in AccountChains, NEW d \in AccountChains, NEW n \in Nets(c), NEW m \in Nets(d),
           ChainIndex(c, n) = ChainIndex(d, m)
    PROVE  /\ c = d \/ (IsTestnet(c, n) /\ IsTestnet(d, m))
           /\ IsTestnet(c, n) <=> IsTestnet(d, m)
  BY ChainIndexIs DEF AccountChains

(* The property: two leaves have one key only if they are the same leaf of *)
(* one chain, or of test nets, and none has the key of a user id.          *)
THEOREM LeavesHold == Spec => []LeavesHaveTheirKeys
<1>1. Init => LeavesHaveTheirKeys
  BY DEF Init, LeavesHaveTheirKeys
<1>2. LeavesHaveTheirKeys /\ [Next]_input => LeavesHaveTheirKeys'
  <2> SUFFICES ASSUME LeavesHaveTheirKeys, [Next]_input PROVE LeavesHaveTheirKeys'
    OBVIOUS
  <2>1. CASE UNCHANGED input
    BY <2>1 DEF LeavesHaveTheirKeys
  <2>2. CASE Next
    <3> SUFFICES ASSUME input'.of = "leaf" PROVE LeavesHaveTheirKeys'
      BY DEF LeavesHaveTheirKeys
    <3>1. PICK l \in Leaves : input'.leaf = l
      BY <2>2, OnlyFed
    <3>2. ASSUME NEW m \in Leaves, Path(l) = Path(m)
          PROVE  /\ <<l.account, l.type, l.index>> = <<m.account, m.type, m.index>>
                 /\ l.chain = m.chain \/ (IsTestnet(l.chain, l.net) /\ IsTestnet(m.chain, m.net))
                 /\ IsTestnet(l.chain, l.net) <=> IsTestnet(m.chain, m.net)
      <4>1. /\ ChainIndex(l.chain, l.net) = ChainIndex(m.chain, m.net)
            /\ l.account = m.account /\ l.type = m.type /\ l.index = m.index
        <5>1. ASSUME NEW k \in Leaves
              PROVE  /\ Path(k)[2].index = ChainIndex(k.chain, k.net)
                     /\ Path(k)[3].index = k.account
                     /\ Path(k)[4].index = k.type
                     /\ Path(k)[5].index = k.index
          <6>1. \A x : Hardened(x).index = x /\ Normal(x).index = x
            BY DEF Hardened, Normal
          <6> QED
            BY <6>1, PathIs
        <5> QED
          BY <3>2, <5>1
      <4> QED
        BY <4>1, LeafIs, IndexTellsTheChain
    <3>3. UserIdPath(<<>>) # {} /\ UserIdPath(Path(l)) = {}
      <4>1. Len(Path(l)) = 5
        BY PathIs
      <4> QED
        BY <4>1 DEF UserIdPath
    <3>4. ASSUME NEW p \in UserIdPath(<<>>) PROVE ~IsPrefix(p, Path(l))
      <4>1. p = <<Hardened(1297435732)>>
        BY DEF UserIdPath, Child
      <4>2. Len(p) = 1 /\ SubSeq(p, 1, 1)[1] = Hardened(1297435732)
        BY <4>1
      <4>3. SubSeq(Path(l), 1, 1)[1] = Hardened(44)
        BY PathIs
      <4>4. Hardened(1297435732) # Hardened(44)
        BY DEF Hardened
      <4> QED
        BY <4>2, <4>3, <4>4 DEF IsPrefix
    <3> QED
      BY <3>1, <3>2, <3>3, <3>4 DEF LeavesHaveTheirKeys
  <2> QED
    BY <2>1, <2>2
<1> QED
  BY <1>1, <1>2, PTL DEF Spec
-----------------------------------------------------------------------------
(* Hex. *)

(* Whatever has the prefixes of a concatenation has the whole.             *)
LEMMA FlattenIs ==
    ASSUME NEW seqs, Len(seqs) \in Nat \ {0}, NEW f, f[1] = seqs[1],
           \A i \in 2..Len(seqs) : f[i] = f[i - 1] \o seqs[i]
    PROVE  FlattenSeq(seqs) = f[Len(seqs)]
<1> DEFINE R(g) == g = [i \in 1..Len(seqs) |-> IF i = 1 THEN seqs[i] ELSE g[i - 1] \o seqs[i]]
           v == CHOOSE g : R(g)
           h == [i \in 1..Len(seqs) |-> f[i]]
<1>1. R(h)
  <2>1. ASSUME NEW i \in 1..Len(seqs)
        PROVE  h[i] = IF i = 1 THEN seqs[i] ELSE h[i - 1] \o seqs[i]
    <3>1. i # 1 => i \in 2..Len(seqs) /\ i - 1 \in 1..Len(seqs)
      OBVIOUS
    <3> QED
      BY <3>1
  <2> QED
    BY <2>1
<1>2. R(v)
  BY <1>1
<1>3. FlattenSeq(seqs) = v[Len(seqs)]
  BY DEF FlattenSeq
<1>4. PICK r : r = v
  OBVIOUS
<1>5. \A i \in 1..Len(seqs) : r[i] = IF i = 1 THEN seqs[i] ELSE r[i - 1] \o seqs[i]
  <2>1. r = [i \in 1..Len(seqs) |-> IF i = 1 THEN seqs[i] ELSE r[i - 1] \o seqs[i]]
    BY <1>2, <1>4
  <2> QED
    BY <2>1
<1> HIDE DEF v, h
<1> DEFINE S == {m \in 0..Len(seqs) : m # 0 => r[m] = f[m]}
<1>6. 0 \in S
  OBVIOUS
<1> HIDE DEF S
<1>7. ASSUME NEW m \in 1..Len(seqs), m - 1 \in S PROVE m \in S
  <2>1. CASE m = 1
    <3>1. r[m] = f[m]
      BY <1>5, <2>1
    <3> QED
      BY <3>1 DEF S
  <2>2. CASE m # 1
    <3>1. m \in 2..Len(seqs) /\ m - 1 # 0
      BY <2>2
    <3>2. r[m] = r[m - 1] \o seqs[m]
      BY <1>5, <2>2
    <3>3. r[m - 1] = f[m - 1]
      BY <1>7, <3>1 DEF S
    <3>4. f[m] = f[m - 1] \o seqs[m]
      BY <3>1
    <3>5. r[m] = f[m]
      BY <3>2, <3>3, <3>4
    <3> QED
      BY <3>5 DEF S
  <2> QED
    BY <2>1, <2>2
<1>8. \A m \in 0..Len(seqs) : m \in S
  BY <1>6, <1>7, Induction
<1>9. r[Len(seqs)] = f[Len(seqs)]
  BY <1>8 DEF S
<1> QED
  BY <1>3, <1>4, <1>9

LEMMA Pair ==
    ASSUME NEW S, NEW x \in S, NEW y \in S
    PROVE  <<x, y>> \in Seq(S) /\ Len(<<x, y>>) = 2 /\ <<x, y>>[1] = x /\ <<x, y>>[2] = y
  OBVIOUS

LEMMA PairJoined ==
    ASSUME NEW S, NEW s \in Seq(S), NEW n \in Nat, Len(s) = n, NEW x \in S, NEW y \in S
    PROVE  /\ s \o <<x, y>> \in Seq(S) /\ Len(s \o <<x, y>>) = n + 2
           /\ \A i \in 1..n : (s \o <<x, y>>)[i] = s[i]
           /\ (s \o <<x, y>>)[n + 1] = x /\ (s \o <<x, y>>)[n + 2] = y
<1>1. PICK p : p = <<x, y>>
  OBVIOUS
<1>2. p \in Seq(S) /\ Len(p) = 2 /\ p[1] = x /\ p[2] = y
  BY <1>1, Pair
<1>3. /\ s \o p \in Seq(S) /\ Len(s \o p) = n + 2
      /\ \A i \in 1..(n + 2) : (s \o p)[i] = IF i <= n THEN s[i] ELSE p[i - n]
  <2>1. s \o p \in Seq(S)
    BY <1>2, ConcatProperties
  <2>2. Len(s \o p) = Len(s) + Len(p)
    BY <1>2, ConcatProperties
  <2>3. \A i \in 1..(Len(s) + Len(p)) : (s \o p)[i] = IF i <= Len(s) THEN s[i] ELSE p[i - Len(s)]
    BY <1>2, ConcatProperties
  <2> QED
    BY <1>2, <2>1, <2>2, <2>3
<1>4. /\ n + 1 \in 1..(n + 2) /\ n + 2 \in 1..(n + 2) /\ ~(n + 1 <= n) /\ ~(n + 2 <= n)
      /\ (n + 1) - n = 1 /\ (n + 2) - n = 2
  OBVIOUS
<1>5. (s \o p)[n + 1] = x /\ (s \o p)[n + 2] = y
  BY <1>2, <1>3, <1>4
<1>6. \A i \in 1..n : (s \o p)[i] = s[i]
  BY <1>3
<1> QED
  BY <1>1, <1>3, <1>5, <1>6

LEMMA Halves ==
    ASSUME NEW x \in Byte
    PROVE  /\ x \div 16 \in Nat /\ x \div 16 < 16
           /\ x % 16 \in Nat /\ x % 16 < 16
           /\ (x \div 16) * 16 + (x % 16) = x
<1>1. x \in Nat /\ x < 256
  BY DEF Byte
<1>2. x \div 16 \in Nat
  BY <1>1
<1>3. x \div 16 < 16
  BY <1>1
<1>4. x % 16 \in Nat /\ x % 16 < 16
  BY <1>1
<1>5. (x \div 16) * 16 + (x % 16) = x
  BY <1>1
<1> QED
  BY <1>2, <1>3, <1>4, <1>5

HexDigit == {x \in Nat : x < 16}

(* Every position is one of a pair. *)
LEMMA Paired ==
    ASSUME NEW n \in Nat, NEW j \in 1..(2 * n)
    PROVE  \E i \in 1..n : j = 2 * i - 1 \/ j = 2 * i
<1>1. CASE j % 2 = 1
  <2>1. (j + 1) \div 2 \in 1..n /\ j = 2 * ((j + 1) \div 2) - 1
    BY <1>1
  <2> QED
    BY <2>1
<1>2. CASE j % 2 # 1
  <2>1. j \div 2 \in 1..n /\ j = 2 * (j \div 2)
    BY <1>2
  <2> QED
    BY <2>1
<1> QED
  BY <1>1, <1>2

(* Two digits for each byte. *)
LEMMA HexIs ==
    ASSUME NEW b \in Seq(Byte)
    PROVE  /\ EncodeHex(b) \in Seq(HexDigit) /\ Len(EncodeHex(b)) = 2 * Len(b)
           /\ \A i \in 1..Len(b) : EncodeHex(b)[2 * i - 1] = b[i] \div 16 /\ EncodeHex(b)[2 * i] = b[i] % 16
<1> DEFINE seqs == [i \in DOMAIN b |-> <<b[i] \div 16, b[i] % 16>>]
           digit(j) == IF j % 2 = 1 THEN b[(j + 1) \div 2] \div 16 ELSE b[j \div 2] % 16
           w == [j \in 1..(2 * Len(b)) |-> digit(j)]
           f == [m \in 1..Len(b) |-> SubSeq(w, 1, 2 * m)]
<1>1. PICK n \in Nat : n = Len(b)
  OBVIOUS
<1>2. \A i \in 1..n : b[i] \in Byte
  BY <1>1
<1>3. \A i \in 1..n : /\ 2 * i - 1 \in 1..(2 * n) /\ 2 * i \in 1..(2 * n)
                      /\ (2 * i - 1) % 2 = 1 /\ (2 * i) % 2 = 0
                      /\ ((2 * i - 1) + 1) \div 2 = i /\ (2 * i) \div 2 = i
  OBVIOUS
<1>4. \A i \in 1..n : w[2 * i - 1] = b[i] \div 16 /\ w[2 * i] = b[i] % 16
  BY <1>1, <1>3
<1>5. \A j \in 1..(2 * n) : \E i \in 1..n : j = 2 * i - 1 \/ j = 2 * i
  BY Paired
<1>6. DOMAIN w = 1..(2 * n)
  BY <1>1
<1> HIDE DEF w
<1>7. \A j \in 1..(2 * n) : w[j] \in HexDigit
  <2> SUFFICES ASSUME NEW j \in 1..(2 * n) PROVE w[j] \in HexDigit
    OBVIOUS
  <2>1. PICK i \in 1..n : j = 2 * i - 1 \/ j = 2 * i
    BY <1>5
  <2> QED
    BY <1>2, <1>4, <2>1, Halves DEF HexDigit
<1>8. w \in Seq(HexDigit) /\ Len(w) = 2 * n
  <2>1. w \in [1..(2 * n) -> HexDigit]
    BY <1>1, <1>6, <1>7 DEF w
  <2> QED
    BY <2>1
<1>9. EncodeHex(b) = w
  <2>1. CASE n = 0
    <3>1. seqs \in Seq(HexDigit) /\ Len(seqs) = 0
      <4>1. DOMAIN b = 1..0
        <5>1. DOMAIN b = 1..Len(b)
          OBVIOUS
        <5> QED
          BY <1>1, <2>1, <5>1
      <4>2. seqs \in [1..0 -> HexDigit]
        BY <4>1
      <4> QED
        BY <4>2
    <3>2. seqs = w
      BY <1>8, <2>1, <3>1, SeqEqual
    <3> QED
      BY <3>1, <3>2 DEF EncodeHex, FlattenSeq
  <2>2. CASE n # 0
    <3>1. Len(seqs) = n
      BY <1>1
    <3>2. \A i \in 1..n : seqs[i] = <<w[2 * i - 1], w[2 * i]>>
      BY <1>1, <1>4
    <3> HIDE DEF seqs
    <3>3. \A m \in 1..n : f[m] \in Seq(HexDigit) /\ Len(f[m]) = 2 * m
                          /\ \A j \in 1..(2 * m) : f[m][j] = w[j]
      BY <1>1, <1>8
    <3> HIDE DEF f
    <3>4. \A m \in 1..n : /\ w[2 * m - 1] \in HexDigit /\ w[2 * m] \in HexDigit
                          /\ m \in Nat
      BY <1>3, <1>7
    <3>5. f[1] = seqs[1]
      <4>1. PICK x \in HexDigit, y \in HexDigit : x = w[1] /\ y = w[2]
        <5>1. 1 \in 1..n /\ 2 * 1 - 1 = 1 /\ 2 * 1 = 2
          BY <2>2
        <5> QED
          BY <3>4, <5>1
      <4>2. seqs[1] = <<x, y>>
        <5>1. 1 \in 1..n /\ 2 * 1 - 1 = 1 /\ 2 * 1 = 2
          BY <2>2
        <5> QED
          BY <3>2, <4>1, <5>1
      <4>3. f[1] \in Seq(HexDigit) /\ Len(f[1]) = 2 /\ \A j \in 1..2 : f[1][j] = w[j]
        <5>1. 1 \in 1..n /\ 2 * 1 = 2
          BY <2>2
        <5> QED
          BY <3>3, <5>1
      <4>4. \A j \in 1..2 : f[1][j] = <<x, y>>[j]
        BY <4>1, <4>3, Pair
      <4> QED
        BY <4>2, <4>3, <4>4, Pair, SeqEqual
    <3>6. ASSUME NEW m \in 2..n PROVE f[m] = f[m - 1] \o seqs[m]
      <4>1. m \in 1..n /\ m - 1 \in 1..n /\ m \in Nat
        OBVIOUS
      <4>2. PICK k \in Nat : k = 2 * m - 2
        BY <4>1
      <4>3. PICK x \in HexDigit, y \in HexDigit : x = w[k + 1] /\ y = w[k + 2]
        <5>1. k + 1 = 2 * m - 1 /\ k + 2 = 2 * m
          BY <4>1, <4>2
        <5> QED
          BY <3>4, <4>1, <5>1
      <4>4. seqs[m] = <<x, y>>
        <5>1. k + 1 = 2 * m - 1 /\ k + 2 = 2 * m
          BY <4>1, <4>2
        <5> QED
          BY <3>2, <4>1, <4>3, <5>1
      <4>5. PICK u \in Seq(HexDigit) : u = f[m - 1] /\ Len(u) = k /\ \A j \in 1..k : u[j] = w[j]
        <5>1. 2 * (m - 1) = k
          BY <4>1, <4>2
        <5> QED
          BY <3>3, <4>1, <5>1
      <4>6. PICK v \in Seq(HexDigit) : v = f[m] /\ Len(v) = k + 2 /\ \A j \in 1..(k + 2) : v[j] = w[j]
        <5>1. 2 * m = k + 2
          BY <4>1, <4>2
        <5> QED
          BY <3>3, <4>1, <5>1
      <4>7. PICK t : t = u \o <<x, y>>
        OBVIOUS
      <4>8. /\ t \in Seq(HexDigit) /\ Len(t) = k + 2
            /\ \A j \in 1..k : t[j] = u[j]
            /\ t[k + 1] = x /\ t[k + 2] = y
        <5>1. k \in Nat /\ Len(u) = k
          BY <4>2, <4>5
        <5> QED
          BY <4>3, <4>7, <5>1, PairJoined
      <4>9. \A j \in 1..(k + 2) : t[j] = v[j]
        <5> SUFFICES ASSUME NEW j \in 1..(k + 2) PROVE t[j] = v[j]
          OBVIOUS
        <5>1. j \in 1..k \/ j = k + 1 \/ j = k + 2
          OBVIOUS
        <5> QED
          BY <4>3, <4>5, <4>6, <4>8, <5>1
      <4>10. t = v
        BY <4>6, <4>8, <4>9, SeqEqual
      <4> QED
        BY <4>4, <4>5, <4>6, <4>7, <4>10
    <3>7. FlattenSeq(seqs) = f[n]
      BY <1>1, <2>2, <3>1, <3>5, <3>6, FlattenIs
    <3>8. f[n] = w
      <4>1. n \in 1..n
        BY <2>2
      <4>2. f[n] \in Seq(HexDigit) /\ Len(f[n]) = 2 * n /\ \A j \in 1..(2 * n) : f[n][j] = w[j]
        BY <3>3, <4>1
      <4> QED
        BY <1>8, <4>2, SeqEqual
    <3> QED
      BY <3>7, <3>8 DEF EncodeHex, seqs
  <2> QED
    BY <2>1, <2>2
<1> QED
  BY <1>1, <1>4, <1>8, <1>9

(* A prefix is skipped, and digits are no prefix. *)
LEMMA PrefixIsSkipped ==
    ASSUME NEW s \in Seq(Nat)
    PROVE  /\ s \in Seq(HexDigit) => SkipPrefix(s) = s
           /\ SkipPrefix(<<0, X>> \o s) = s
           /\ SkipPrefix(s) \in Seq(Nat)
<1>1. s \in Seq(HexDigit) => SkipPrefix(s) = s
  <2> SUFFICES ASSUME s \in Seq(HexDigit), IsPrefix(<<0, X>>, s) PROVE FALSE
    BY DEF SkipPrefix
  <2>1. Len(s) >= 2 /\ SubSeq(<<0, X>>, 1, 2)[2] = SubSeq(s, 1, 2)[2]
    BY DEF IsPrefix
  <2>2. s[2] \in HexDigit
    BY <2>1
  <2>3. SubSeq(s, 1, 2)[2] = s[2] /\ SubSeq(<<0, X>>, 1, 2)[2] = X
    BY <2>1 DEF X
  <2> QED
    BY <2>1, <2>2, <2>3 DEF HexDigit, X
<1>2. PICK p : p = <<0, X>>
  OBVIOUS
<1>3. p \in Seq(Nat) /\ Len(p) = 2
  BY <1>2 DEF X
<1>4. PICK t : t = p \o s
  OBVIOUS
<1>5. t \in Seq(Nat) /\ Len(t) = 2 + Len(s)
      /\ \A i \in 1..(2 + Len(s)) : t[i] = IF i <= 2 THEN p[i] ELSE s[i - 2]
  <2>1. p \o s \in Seq(Nat)
    BY <1>3, ConcatProperties
  <2>2. Len(p \o s) = Len(p) + Len(s)
    BY <1>3, ConcatProperties
  <2>3. \A i \in 1..(Len(p) + Len(s)) : (p \o s)[i] = IF i <= Len(p) THEN p[i] ELSE s[i - Len(p)]
    BY <1>3, ConcatProperties
  <2> QED
    BY <1>3, <1>4, <2>1, <2>2, <2>3
<1>6. \A i \in 1..(2 + Len(s)) : t[i] = IF i <= 2 THEN p[i] ELSE s[i - 2]
  BY <1>5
<1>7. SubSeq(p, 1, 2) = SubSeq(t, 1, 2)
  <2>1. \A i \in 1..2 : t[i] = p[i] /\ t[i] \in Nat /\ p[i] \in Nat
    BY <1>3, <1>5, <1>6
  <2> QED
    BY <1>3, <1>5, <2>1
<1>8. SkipPrefix(t) = SubSeq(t, 3, Len(t))
  BY <1>2, <1>3, <1>5, <1>7 DEF SkipPrefix, IsPrefix
<1>9. SubSeq(t, 3, Len(t)) = s
  <2>1. PICK n \in Nat : n = Len(s)
    OBVIOUS
  <2>2. PICK u : u = SubSeq(t, 3, 2 + n)
    OBVIOUS
  <2>3. u \in Seq(Nat) /\ Len(u) = n /\ \A i \in 1..n : u[i] = t[i + 2]
    BY <1>5, <2>1, <2>2
  <2>4. \A i \in 1..n : i + 2 \in 1..(2 + n) /\ ~(i + 2 <= 2) /\ (i + 2) - 2 = i
    BY <2>1
  <2>5. \A i \in 1..n : u[i] = s[i]
    BY <1>6, <2>1, <2>3, <2>4
  <2> QED
    BY <1>5, <2>1, <2>2, <2>3, <2>5, SeqEqual
<1>10. SkipPrefix(s) \in Seq(Nat)
  <2>1. CASE Len(s) >= 2
    BY <2>1 DEF SkipPrefix
  <2>2. CASE ~(Len(s) >= 2)
    BY <2>2 DEF SkipPrefix, IsPrefix
  <2> QED
    BY <2>1, <2>2
<1> QED
  BY <1>1, <1>2, <1>4, <1>8, <1>9, <1>10

(* The bytes of a string of hex digits are written as its digits. *)
LEMMA BytesAre ==
    ASSUME NEW s \in Seq(Nat), DecodeHex(s) # Failed
    PROVE  /\ DecodeHex(s) \in Seq(Byte) /\ EncodeHex(DecodeHex(s)) = SkipPrefix(s)
           /\ SkipPrefix(s) \in Seq(HexDigit)
<1>1. PICK d \in Seq(Nat) : d = SkipPrefix(s)
  BY PrefixIsSkipped
<1>2. Len(d) % 2 = 0 /\ (\A i \in DOMAIN d : ~(d[i] >= X))
      /\ DecodeHex(s) = [i \in 1..(Len(d) \div 2) |-> d[2 * i - 1] * 16 + d[2 * i]]
  <2>1. /\ ~(Len(d) % 2 = 1) /\ \A i \in DOMAIN d : ~(d[i] >= X)
        /\ DecodeHex(s) = [i \in 1..(Len(d) \div 2) |-> d[2 * i - 1] * 16 + d[2 * i]]
    BY <1>1 DEF DecodeHex
  <2>2. Len(d) % 2 = 0
    <3>1. PICK n \in Nat : n = Len(d)
      OBVIOUS
    <3>2. n % 2 = 0 \/ n % 2 = 1
      OBVIOUS
    <3> QED
      BY <2>1, <3>1, <3>2
  <2> QED
    BY <2>1, <2>2
<1>3. PICK n \in Nat : Len(d) = 2 * n /\ Len(d) \div 2 = n
  <2>1. Len(d) \div 2 \in Nat /\ Len(d) = 2 * (Len(d) \div 2)
    BY <1>2
  <2> QED
    BY <2>1
<1>4. \A i \in 1..(2 * n) : d[i] \in Nat /\ d[i] < 16
  <2> SUFFICES ASSUME NEW i \in 1..(2 * n) PROVE d[i] \in Nat /\ d[i] < 16
    OBVIOUS
  <2>1. i \in 1..Len(d)
    BY <1>3
  <2>2. d[i] \in Nat /\ i \in DOMAIN d
    BY <2>1
  <2> QED
    BY <1>2, <2>2 DEF X
<1>5. d \in Seq(HexDigit)
  BY <1>3, <1>4 DEF HexDigit
<1>6. PICK b : b = DecodeHex(s)
  OBVIOUS
<1>7. b = [i \in 1..n |-> d[2 * i - 1] * 16 + d[2 * i]]
  BY <1>2, <1>3, <1>6
<1>8. \A i \in 1..n : 2 * i - 1 \in 1..(2 * n) /\ 2 * i \in 1..(2 * n)
  OBVIOUS
<1>9. ASSUME NEW i \in 1..n
      PROVE  b[i] \in Byte /\ b[i] \div 16 = d[2 * i - 1] /\ b[i] % 16 = d[2 * i]
  <2>1. PICK x \in Nat, y \in Nat : x = d[2 * i - 1] /\ y = d[2 * i] /\ x < 16 /\ y < 16
    BY <1>4, <1>8
  <2>2. b[i] = x * 16 + y
    BY <1>7, <2>1
  <2>3. PICK z : z = x * 16 + y
    OBVIOUS
  <2>4. z \in Nat /\ z < 256 /\ z \div 16 = x /\ z % 16 = y
    <3>1. x < 16 /\ y < 16
      BY <2>1
    <3> QED
      BY <2>3, <3>1
  <2>5. b[i] \in Byte
    BY <2>2, <2>3, <2>4 DEF Byte
  <2> QED
    BY <2>1, <2>2, <2>3, <2>4, <2>5
<1>10. b \in Seq(Byte) /\ Len(b) = n
  <2>1. b \in [1..n -> Byte]
    BY <1>7, <1>9
  <2> QED
    BY <2>1
<1>11. PICK e \in Seq(HexDigit) :
         /\ e = EncodeHex(b) /\ Len(e) = 2 * n
         /\ \A i \in 1..n : e[2 * i - 1] = d[2 * i - 1] /\ e[2 * i] = d[2 * i]
  <2>1. \A i \in 1..n : EncodeHex(b)[2 * i - 1] = b[i] \div 16 /\ EncodeHex(b)[2 * i] = b[i] % 16
    BY <1>10, HexIs
  <2>2. EncodeHex(b) \in Seq(HexDigit) /\ Len(EncodeHex(b)) = 2 * n
    BY <1>10, HexIs
  <2> QED
    BY <1>9, <2>1, <2>2
<1>12. \A j \in 1..(2 * n) : e[j] = d[j]
  BY <1>11, Paired
<1> QED
  BY <1>1, <1>3, <1>5, <1>6, <1>10, <1>11, <1>12, SeqEqual

(* The digits of bytes are read as the bytes, with a prefix or without. *)
LEMMA BytesReadBack ==
    ASSUME NEW b \in Seq(Byte)
    PROVE  /\ SkipPrefix(EncodeHex(b)) = EncodeHex(b)
           /\ SkipPrefix(<<0, X>> \o EncodeHex(b)) = EncodeHex(b)
           /\ DecodeHex(EncodeHex(b)) = b
           /\ DecodeHex(<<0, X>> \o EncodeHex(b)) = b
<1>1. PICK n \in Nat, d \in Seq(HexDigit) :
        /\ n = Len(b) /\ d = EncodeHex(b) /\ Len(d) = 2 * n
        /\ \A i \in 1..n : d[2 * i - 1] = b[i] \div 16 /\ d[2 * i] = b[i] % 16
  BY HexIs
<1>2. d \in Seq(Nat)
  BY DEF HexDigit
<1>3. SkipPrefix(d) = d /\ SkipPrefix(<<0, X>> \o d) = d
  BY <1>2, PrefixIsSkipped
<1>4. \A i \in DOMAIN d : ~(d[i] >= X)
  BY DEF HexDigit, X
<1>5. Len(d) % 2 = 0 /\ Len(d) \div 2 = n
  BY <1>1
<1>6. ASSUME NEW s, SkipPrefix(s) = d PROVE DecodeHex(s) = b
  <2>1. DecodeHex(s) = [i \in 1..n |-> d[2 * i - 1] * 16 + d[2 * i]]
    BY <1>4, <1>5, <1>6 DEF DecodeHex
  <2>2. \A i \in 1..n : d[2 * i - 1] * 16 + d[2 * i] = b[i]
    BY <1>1, Halves
  <2>3. b = [i \in 1..n |-> b[i]]
    BY <1>1
  <2> QED
    BY <2>1, <2>2, <2>3
<1> QED
  BY <1>1, <1>3, <1>6

(* An address is read from what it is written as. *)
LEMMA AddressReadsBack ==
    ASSUME NEW s \in Seq(Nat), AddressOf(s, AddressSize) # Failed
    PROVE  LET a == AddressOf(s, AddressSize) IN
           Len(a) = AddressSize /\ AddressOf(AddressString(a), AddressSize) = a
<1>1. PICK a : a = AddressOf(s, AddressSize)
  OBVIOUS
<1>2. a = DecodeHex(SkipPrefix(s)) /\ Len(a) = AddressSize
  BY <1>1 DEF AddressOf
<1>3. a \in Seq(Byte)
  BY <1>1, <1>2, PrefixIsSkipped, BytesAre
<1>4. PICK d \in Seq(HexDigit) : d = EncodeHex(a) /\ Len(d) = 2 * AddressSize
  BY <1>2, <1>3, HexIs
<1>5. SkipPrefix(<<0, X>> \o d) = d /\ DecodeHex(d) = a
  BY <1>3, <1>4, BytesReadBack
<1>6. Len(<<0, X>> \o d) = 2 + 2 * AddressSize
  <2>1. PICK p : p = <<0, X>>
    OBVIOUS
  <2>2. p \in Seq(Nat) /\ Len(p) = 2 /\ d \in Seq(Nat)
    BY <2>1 DEF X, HexDigit
  <2>3. Len(p \o d) = Len(p) + Len(d)
    BY <2>2, ConcatProperties
  <2> QED
    BY <1>4, <2>1, <2>2, <2>3
<1>7. ~(2 + 2 * AddressSize < 2 * AddressSize)
  BY SymbolsAssumption
<1>8. AddressOf(AddressString(a), AddressSize) = a
  BY <1>2, <1>4, <1>5, <1>6, <1>7 DEF AddressOf, AddressString
<1> QED
  BY <1>1, <1>2, <1>8

(* The last bytes, by a negative offset and as many. *)
LEMMA SliceIs ==
    ASSUME NEW b \in Seq(Byte), NEW k \in -Len(b)..-1
    PROVE  PowerSlice(b, k, -k) = SubSeq(b, Len(b) + k + 1, Len(b))
<1>1. PICK n \in Nat : n = Len(b)
  OBVIOUS
<1>2. k \in Int /\ k < 0 /\ ~(-k < 0) /\ ~(k + n < 0) /\ ~(k + n > n)
      /\ k + n + (-k) = n /\ k + n + 1 = n + k + 1
  BY <1>1
<1>3. PowerSlice(b, k, -k) = Slice(b, k + n, -k)
  BY <1>1, <1>2 DEF PowerSlice
<1>4. Slice(b, k + n, -k) = SubSeq(b, k + n + 1, n)
  BY <1>1, <1>2 DEF Slice
<1> QED
  BY <1>1, <1>2, <1>3, <1>4

LEMMA JsonReadsBack ==
    ASSUME NEW b \in Seq(Byte), b # Failed, NEW prefix \in {"hex:", "none", "0x", "base32:", "base58:"}
    PROVE  BinaryFromJson(JsonSymbols(prefix, Encoded(CodecOf(prefix), b))) = {b}
<1>1. CASE prefix = "0x"
  <2>1. CodecOf(prefix) = "hex"
    BY <1>1 DEF CodecOf
  <2> QED
    BY <1>1, <2>1, BytesReadBack DEF BinaryFromJson, JsonSymbols, Encoded, Decoded
<1>2. CASE prefix # "0x"
  <2>1. CASE CodecOf(prefix) = "hex"
    BY <1>2, <2>1, BytesReadBack DEF BinaryFromJson, JsonSymbols, Encoded, Decoded
  <2>2. CASE CodecOf(prefix) # "hex"
    BY <1>2, <2>2 DEF BinaryFromJson, JsonSymbols, Encoded, Decoded
  <2> QED
    BY <2>1, <2>2
<1> QED
  BY <1>1, <1>2

(* The property: hex strings, addresses and bytes in a request denote what *)
(* they were written from, and the last bytes are those of a slice.        *)
THEOREM StringsHold == Spec => []StringsReadBack
<1>1. Init => StringsReadBack
  BY DEF Init, StringsReadBack
<1>2. StringsReadBack /\ [Next]_input => StringsReadBack'
  <2> SUFFICES ASSUME StringsReadBack, [Next]_input PROVE StringsReadBack'
    OBVIOUS
  <2>1. CASE UNCHANGED input
    BY <2>1 DEF StringsReadBack
  <2>2. CASE Next
    <3> SUFFICES ASSUME input'.of = "string" PROVE StringsReadBack'
      BY DEF StringsReadBack
    <3>1. PICK s \in Strings : input'.string = s
      BY <2>2, OnlyFed
    <3>2. s \in Seq(Nat)
      <4>1. PICK n \in 0..(2 * AddressSize + 2) : s \in [1..n -> Digits]
        BY DEF Strings
      <4>2. n \in Nat
        BY SymbolsAssumption
      <4>3. s \in [1..n -> Nat]
        BY <4>1, SymbolsAssumption
      <4> QED
        BY <4>2, <4>3
    <3>3. PICK b : b = DecodeHex(s)
      OBVIOUS
    <3>4. b # Failed => b \in Seq(Byte) /\ EncodeHex(b) = SkipPrefix(s)
      BY <3>2, <3>3, BytesAre
    <3>5. AddressOf(s, AddressSize) # Failed =>
            /\ Len(AddressOf(s, AddressSize)) = AddressSize
            /\ AddressOf(AddressString(AddressOf(s, AddressSize)), AddressSize) = AddressOf(s, AddressSize)
      BY <3>2, AddressReadsBack
    <3>6. b # Failed => \A k \in -Len(b)..-1 : PowerSlice(b, k, -k) = SubSeq(b, Len(b) + k + 1, Len(b))
      BY <3>4, SliceIs
    <3>7. b # Failed => \A prefix \in {"hex:", "none", "0x", "base32:", "base58:"} :
                          BinaryFromJson(JsonSymbols(prefix, Encoded(CodecOf(prefix), b))) = {b}
      BY <3>4, JsonReadsBack
    <3> QED
      BY <3>1, <3>3, <3>4, <3>5, <3>6, <3>7 DEF StringsReadBack
  <2> QED
    BY <2>1, <2>2
<1> QED
  BY <1>1, <1>2, PTL DEF Spec
-----------------------------------------------------------------------------
(* Keys and the accounts they import as. *)

Key == {key \in [1..KeySize -> Byte] : IsValid(key)}

LEMMA KeysAre == PrivateKeys \subseteq Key /\ NoKey \notin Key
<1>1. PrivateKeys \subseteq Key
  <2>1. KeyBytes \subseteq Byte
    BY DEF KeyBytes, Byte
  <2> QED
    BY <2>1 DEF PrivateKeys, Key
<1>2. NoKey \notin Key
  <2>1. 1 \in 1..KeySize
    BY KeySizeAssumption
  <2>2. NoKey[1] \notin Byte
    BY DEF NoKey, Byte
  <2> QED
    BY <2>1, <2>2 DEF Key
<1> QED
  BY <1>1, <1>2

(* A byte before a key, and what may come after it. *)
LEMMA Prefixed ==
    ASSUME NEW key \in Key, NEW x \in Byte
    PROVE  /\ <<x>> \o key \in Seq(Byte) /\ Len(<<x>> \o key) = KeySize + 1
           /\ (<<x>> \o key)[1] = x
           /\ \A i \in 1..KeySize : (<<x>> \o key)[i + 1] = key[i]
           /\ key \in Seq(Byte) /\ Len(key) = KeySize
           /\ Tail(<<x>> \o key) = key
<1>1. key \in Seq(Byte) /\ Len(key) = KeySize
  BY KeySizeAssumption DEF Key
<1>2. PICK p : p = <<x>>
  OBVIOUS
<1>3. p \in Seq(Byte) /\ Len(p) = 1 /\ p[1] = x
  BY <1>2
<1>4. PICK b : b = p \o key
  OBVIOUS
<1>5. b \in Seq(Byte) /\ Len(b) = KeySize + 1
      /\ \A i \in 1..(KeySize + 1) : b[i] = IF i <= 1 THEN p[i] ELSE key[i - 1]
  <2>1. p \o key \in Seq(Byte)
    BY <1>1, <1>3, ConcatProperties
  <2>2. Len(p \o key) = Len(p) + Len(key)
    BY <1>1, <1>3, ConcatProperties
  <2>3. \A i \in 1..(Len(p) + Len(key)) : (p \o key)[i] = IF i <= Len(p) THEN p[i] ELSE key[i - Len(p)]
    BY <1>1, <1>3, ConcatProperties
  <2> QED
    BY <1>1, <1>3, <1>4, <2>1, <2>2, <2>3, KeySizeAssumption
<1>6. b[1] = x
  BY <1>3, <1>5, KeySizeAssumption
<1>7. ASSUME NEW i \in 1..KeySize PROVE b[i + 1] = key[i]
  <2>1. i + 1 \in 1..(KeySize + 1) /\ ~(i + 1 <= 1) /\ (i + 1) - 1 = i
    BY KeySizeAssumption
  <2> QED
    BY <1>5, <2>1
<1>8. Tail(b) = key
  <2>1. b # <<>>
    BY <1>5, KeySizeAssumption
  <2>2. Tail(b) \in Seq(Byte) /\ Len(Tail(b)) = KeySize
        /\ \A i \in 1..Len(Tail(b)) : Tail(b)[i] = b[i + 1]
    BY <1>5, <2>1, HeadTailProperties, KeySizeAssumption
  <2>3. \A i \in 1..KeySize : Tail(b)[i] = key[i]
    BY <1>7, <2>2
  <2> QED
    BY <1>1, <2>2, <2>3, SeqEqual
<1> QED
  BY <1>1, <1>2, <1>4, <1>5, <1>6, <1>7, <1>8

(* A byte after a sequence of bytes. *)
LEMMA Ended ==
    ASSUME NEW s \in Seq(Byte), NEW n \in Nat, Len(s) = n, NEW x \in Byte, NEW e, e = s \o <<x>>
    PROVE  /\ e \in Seq(Byte) /\ Len(e) = n + 1 /\ e[n + 1] = x
           /\ \A i \in 1..n : e[i] = s[i]
<1>1. PICK p : p = <<x>>
  OBVIOUS
<1>2. p \in Seq(Byte) /\ Len(p) = 1 /\ p[1] = x
  BY <1>1
<1>3. s \o p \in Seq(Byte)
  BY <1>2, ConcatProperties
<1>4. Len(s \o p) = Len(s) + Len(p)
  BY <1>2, ConcatProperties
<1>5. \A i \in 1..(Len(s) + Len(p)) : (s \o p)[i] = IF i <= Len(s) THEN s[i] ELSE p[i - Len(s)]
  BY <1>2, ConcatProperties
<1>6. n + 1 \in 1..(n + 1) /\ ~(n + 1 <= n) /\ (n + 1) - n = 1
  OBVIOUS
<1>7. e[n + 1] = x
  BY <1>1, <1>2, <1>5, <1>6
<1>8. \A i \in 1..n : e[i] = s[i]
  BY <1>1, <1>2, <1>5
<1> QED
  BY <1>1, <1>2, <1>3, <1>4, <1>7, <1>8

LEMMA BitcoinKeyIs ==
    ASSUME NEW key \in Key, NEW net \in {"main", "test"}, NEW compressed \in BOOLEAN
    PROVE  BitcoinKeyFrom(BitcoinKeyString(key, net, compressed))
             = [key |-> key, net |-> net, compressed |-> compressed]
<1>1. PICK w \in Byte : w = WifPrefix(net)
  BY DEF WifPrefix, Byte
<1>2. (w = 239 /\ net = "test") \/ (w = 128 /\ net = "main")
  BY <1>1 DEF WifPrefix
<1>3. PICK b \in Seq(Byte) : b = <<w>> \o key /\ Len(b) = KeySize + 1 /\ b[1] = w /\ Tail(b) = key
  BY Prefixed
<1>4. key \in Seq(Byte) /\ Len(key) = KeySize /\ IsValid(key)
  BY Prefixed, <1>1 DEF Key
<1>5. ASSUME NEW bytes, NEW first, bytes[1] = w,
             BitcoinKeyString(key, net, compressed) = [first |-> first, bytes |-> bytes],
             HasSuffix([first |-> first, bytes |-> bytes], net) = compressed,
             key = IF compressed THEN Front(Tail(bytes)) ELSE Tail(bytes)
      PROVE  BitcoinKeyFrom(BitcoinKeyString(key, net, compressed))
               = [key |-> key, net |-> net, compressed |-> compressed]
  <2>1. w \in {128, 239} /\ (IF w = 239 THEN "test" ELSE "main") = net
    BY <1>2
  <2>2. PICK k : k = [first |-> first, bytes |-> bytes]
    OBVIOUS
  <2>3. /\ (IF k.bytes[1] = 239 THEN "test" ELSE "main") = net
        /\ (IF k.bytes[1] \in {128, 239} THEN Tail(k.bytes) ELSE k.bytes) = Tail(bytes)
    BY <1>5, <2>1, <2>2
  <2>4. HasSuffix(k, net) <=> compressed
    BY <1>5, <2>2
  <2>5. BitcoinKeyFrom(k) = [key |-> key, net |-> net, compressed |-> compressed]
    <3>1. CASE compressed
      <4>1. HasSuffix(k, net) /\ Front(Tail(bytes)) = key
        BY <1>5, <2>4, <3>1
      <4> QED
        BY <1>4, <2>3, <3>1, <4>1 DEF BitcoinKeyFrom
    <3>2. CASE ~compressed
      <4>1. ~HasSuffix(k, net) /\ Tail(bytes) = key
        BY <1>5, <2>4, <3>2
      <4>2. HasSuffix(k, net) = FALSE /\ compressed = FALSE
        BY <3>2, <4>1
      <4>3. BitcoinKeyFrom(k) = [key |-> key, net |-> net, compressed |-> HasSuffix(k, net)]
        BY <1>4, <2>3, <4>1 DEF BitcoinKeyFrom
      <4> QED
        BY <4>2, <4>3
    <3> QED
      BY <3>1, <3>2
  <2> QED
    BY <1>5, <2>2, <2>5
<1>6. CASE compressed
  <2>1. PICK e : e = b \o <<1>>
    OBVIOUS
  <2>2. /\ e \in Seq(Byte) /\ Len(e) = KeySize + 2 /\ e[KeySize + 2] = 1
        /\ \A i \in 1..(KeySize + 1) : e[i] = b[i]
    <3>1. 1 \in Byte
      BY DEF Byte
    <3>2. PICK n \in Nat : n = KeySize + 1
      BY KeySizeAssumption
    <3>3. /\ e \in Seq(Byte) /\ Len(e) = n + 1 /\ e[n + 1] = 1
          /\ \A i \in 1..n : e[i] = b[i]
      BY <1>3, <2>1, <3>1, <3>2, Ended
    <3>4. n + 1 = KeySize + 2
      BY <3>2, KeySizeAssumption
    <3> QED
      BY <3>2, <3>3, <3>4
  <2>3. e[1] = w
    BY <1>3, <2>2, KeySizeAssumption
  <2>4. PICK first : first = FirstCharacter(e)
    OBVIOUS
  <2>5. BitcoinKeyString(key, net, compressed) = [first |-> first, bytes |-> e]
    BY <1>1, <1>3, <1>6, <2>1, <2>4 DEF BitcoinKeyString
  <2>6. first = IF net = "main" THEN "K" ELSE "c"
    BY <1>2, <2>2, <2>3, <2>4 DEF FirstCharacter
  <2>7. HasSuffix([first |-> first, bytes |-> e], net) = compressed
    BY <1>6, <2>2, <2>6 DEF HasSuffix, Last
  <2>8. Front(Tail(e)) = key
    <3>1. e # <<>>
      BY <2>2, KeySizeAssumption
    <3>2. PICK t \in Seq(Byte) : t = Tail(e) /\ Len(t) = KeySize + 1 /\ \A i \in 1..(KeySize + 1) : t[i] = e[i + 1]
      <4>1. Tail(e) \in Seq(Byte) /\ Len(Tail(e)) = Len(e) - 1
            /\ \A i \in 1..Len(Tail(e)) : Tail(e)[i] = e[i + 1]
        BY <2>2, <3>1, HeadTailProperties
      <4>2. Len(e) - 1 = KeySize + 1
        BY <2>2, KeySizeAssumption
      <4> QED
        BY <4>1, <4>2
    <3>3. \A i \in 1..KeySize : t[i] = key[i]
      <4> SUFFICES ASSUME NEW i \in 1..KeySize PROVE t[i] = key[i]
        OBVIOUS
      <4>1. i \in 1..(KeySize + 1) /\ i + 1 \in 1..(KeySize + 1)
        BY KeySizeAssumption
      <4>2. t[i] = b[i + 1]
        BY <2>2, <3>2, <4>1
      <4> QED
        BY <1>3, <4>2, Prefixed
    <3>4. PICK u : u = SubSeq(t, 1, KeySize)
      OBVIOUS
    <3>5. u \in Seq(Byte) /\ Len(u) = KeySize /\ \A i \in 1..KeySize : u[i] = t[i]
      BY <3>2, <3>4, KeySizeAssumption
    <3>6. u = key
      BY <1>4, <3>3, <3>5, SeqEqual
    <3>7. (KeySize + 1) - 1 = KeySize
      BY KeySizeAssumption
    <3> QED
      BY <3>2, <3>4, <3>6, <3>7 DEF Front
  <2> QED
    BY <1>5, <1>6, <2>3, <2>5, <2>7, <2>8
<1>7. CASE ~compressed
  <2>1. b \o <<>> = b
    BY ConcatEmptySeq
  <2>2. PICK first : first = FirstCharacter(b)
    OBVIOUS
  <2>3. BitcoinKeyString(key, net, compressed) = [first |-> first, bytes |-> b]
    BY <1>1, <1>3, <1>7, <2>1, <2>2 DEF BitcoinKeyString
  <2>4. first = IF net = "main" THEN "5" ELSE "9"
    BY <1>2, <1>3, <2>2, KeySizeAssumption DEF FirstCharacter
  <2>5. HasSuffix([first |-> first, bytes |-> b], net) = compressed
    BY <1>7, <2>4 DEF HasSuffix
  <2> QED
    BY <1>3, <1>5, <1>7, <2>3, <2>5
<1> QED
  BY <1>6, <1>7

LEMMA EthereumKeyIs ==
    ASSUME NEW key \in Key
    PROVE  EthereumKeyFrom(EthereumKeyString(key)) = key
<1>1. key \in Seq(Byte) /\ Len(key) = KeySize /\ IsValid(key) /\ key = [i \in 1..KeySize |-> key[i]]
  BY KeySizeAssumption DEF Key
<1>2. PICK d \in Seq(HexDigit) :
        /\ d = EncodeHex(key) /\ Len(d) = 2 * KeySize
        /\ \A i \in 1..KeySize : d[2 * i - 1] = key[i] \div 16 /\ d[2 * i] = key[i] % 16
  BY <1>1, HexIs
<1>3. \A i \in DOMAIN d : ~(d[i] >= X)
  BY DEF HexDigit, X
<1>4. ASSUME NEW i \in 1..KeySize PROVE d[2 * i - 1] * 16 + d[2 * i] = key[i]
  <2>1. PICK x \in Byte : x = key[i]
    BY DEF Key
  <2>2. (x \div 16) * 16 + (x % 16) = x
    BY Halves
  <2> QED
    BY <1>2, <2>1, <2>2
<1>5. [i \in 1..KeySize |-> d[2 * i - 1] * 16 + d[2 * i]] = key
  BY <1>1, <1>4
<1> QED
  BY <1>1, <1>2, <1>3, <1>5 DEF EthereumKeyFrom, EthereumKeyString

LEMMA EosKeyIs ==
    ASSUME NEW key \in Key
    PROVE  EosKeyFrom(EosKeyString(key)) = key /\ GolosKeyFrom(GolosKeyString(key)) = key
<1>1. PICK b : b = <<128>> \o key
  OBVIOUS
<1>2. b # <<>> /\ b[1] = 128 /\ Tail(b) = key
  <2>1. 128 \in Byte
    BY DEF Byte
  <2>2. Len(b) = KeySize + 1 /\ b[1] = 128 /\ Tail(b) = key
    BY <1>1, <2>1, Prefixed
  <2> QED
    BY <2>2, KeySizeAssumption
<1>3. PICK k : k = [bytes |-> b, hashed |-> "twice"]
  OBVIOUS
<1>4. k.bytes = b /\ k.hashed = "twice"
  BY <1>3
<1>5. EosKeyFrom(k) = key
  BY <1>2, <1>4 DEF EosKeyFrom
<1> QED
  BY <1>1, <1>3, <1>5 DEF EosKeyString, GolosKeyString, GolosKeyFrom

(* The key of a leaf is that of the extended key without its first byte. *)
LEMMA LeafAccountIs ==
    ASSUME NEW key \in Key, NEW a \in LeafAccounts(key)
    PROVE  \E c \in AccountChains : \E net \in Nets(c), type \in Types(c) :
             a = Account(c, net, type, key, c # "ethereum", <<>>)
<1>1. PICK x : x = <<0>> \o key
  OBVIOUS
<1>2. /\ x \in Seq(Byte) /\ Len(x) = KeySize + 1
      /\ \A i \in 1..KeySize : x[i + 1] = key[i]
      /\ key \in Seq(Byte) /\ Len(key) = KeySize
  <2>1. 0 \in Byte
    BY DEF Byte
  <2> QED
    BY <1>1, <2>1, Prefixed
<1>3. SubSeq(x, 2, KeySize + 1) = key
  <2>1. PICK u : u = SubSeq(x, 2, KeySize + 1)
    OBVIOUS
  <2>2. u \in Seq(Byte) /\ Len(u) = KeySize /\ \A i \in 1..KeySize : u[i] = x[i + 1]
    BY <1>2, <2>1, KeySizeAssumption
  <2>3. \A i \in 1..KeySize : u[i] = key[i]
    BY <1>2, <2>2
  <2> QED
    BY <1>2, <2>1, <2>2, <2>3, SeqEqual
<1>4. Slice(x, 1, KeySize) = key
  <2>1. ~(1 > KeySize + 1) /\ ~(1 + KeySize > KeySize + 1) /\ 1 + 1 = 2 /\ 1 + KeySize = KeySize + 1
    BY KeySizeAssumption
  <2> QED
    BY <1>2, <1>3, <2>1 DEF Slice
<1>5. Slice(x, 1, Len(x) - 1) = key
  <2>1. Len(x) - 1 = KeySize
    BY <1>2, KeySizeAssumption
  <2> QED
    BY <1>4, <2>1
<1>6. PowerSlice(x, 1, -1) = key
  <2>1. ~(1 < 0) /\ -1 < 0 /\ -1 + Len(x) = KeySize /\ ~(KeySize < 0)
    BY <1>2, KeySizeAssumption
  <2> QED
    BY <1>4, <2>1 DEF PowerSlice
<1>7. PICK c \in AccountChains : \E net \in Nets(c), type \in Types(c) : a = Leaf(c, net, type, x, <<>>)
  BY <1>1 DEF LeafAccounts
<1>8. PICK net \in Nets(c), type \in Types(c) : a = Leaf(c, net, type, x, <<>>)
  BY <1>7
<1>9. c = "bitcoin" \/ c = "ethereum" \/ c = "eos" \/ c = "golos"
  BY DEF AccountChains
<1>10. Leaf(c, net, type, x, <<>>) = Account(c, net, type, key, c # "ethereum", <<>>)
  <2>1. CASE c = "bitcoin"
    BY <1>5, <2>1 DEF Leaf, BitcoinLeaf
  <2>2. CASE c = "ethereum"
    <3>1. type = "default"
      BY <2>2 DEF Types
    <3> QED
      BY <1>6, <2>2, <3>1 DEF Leaf, EthereumLeaf
  <2>3. CASE c = "eos"
    <3>1. type = "default"
      BY <2>3 DEF Types
    <3> QED
      BY <1>5, <2>3, <3>1 DEF Leaf, EosLeaf
  <2>4. CASE c = "golos"
    <3>1. type = "default"
      BY <2>4 DEF Types
    <3> QED
      BY <1>5, <2>4, <3>1 DEF Leaf, GolosLeaf
  <2> QED
    BY <1>9, <2>1, <2>2, <2>3, <2>4
<1> QED
  BY <1>8, <1>10

LEMMA ExportImports ==
    ASSUME NEW key \in Key, NEW c \in AccountChains, NEW net \in Nets(c), NEW type \in Types(c),
           NEW a, a = Account(c, net, type, key, c # "ethereum", <<>>)
    PROVE  /\ AccountFrom(c, net, type, ExportedKey(a)) = a
           /\ KeyFromJson(c, net, ExportedKey(a)) = {key}
<1>1. a.chain = c /\ a.net = net /\ a.key = key /\ a.compressed = (c # "ethereum")
  BY DEF Account
<1>2. c = "bitcoin" \/ c = "ethereum" \/ c = "eos" \/ c = "golos"
  BY DEF AccountChains
<1>3. key # NoKey
  BY KeysAre
<1>4. ASSUME NEW s, NEW account, AccountFrom(c, net, "default", s) = account, account.key = key
      PROVE  KeyFromJson(c, net, s) = {key}
  BY <1>3, <1>4 DEF KeyFromJson
<1>5. CASE c = "bitcoin"
  <2>1. a.compressed = TRUE /\ net \in {"main", "test"}
    BY <1>1, <1>5 DEF Nets
  <2>2. PICK s : s = BitcoinKeyString(key, net, TRUE)
    OBVIOUS
  <2>3. ExportedKey(a) = s
    BY <1>1, <1>5, <2>1, <2>2 DEF ExportedKey
  <2>4. BitcoinKeyFrom(s) = [key |-> key, net |-> net, compressed |-> TRUE]
    BY <2>1, <2>2, BitcoinKeyIs
  <2>5. \A t : AccountFrom(c, net, t, s) = Account("bitcoin", net, t, key, TRUE, <<>>)
    BY <1>3, <1>5, <2>4 DEF AccountFrom, BitcoinImport
  <2>6. Account("bitcoin", net, "default", key, TRUE, <<>>).key = key
    BY DEF Account
  <2>7. KeyFromJson(c, net, s) = {key}
    BY <1>4, <2>5, <2>6
  <2>8. a = Account("bitcoin", net, type, key, TRUE, <<>>)
    BY <1>5
  <2> QED
    BY <2>3, <2>5, <2>7, <2>8
<1>6. CASE c = "ethereum"
  <2>1. type = "default"
    BY <1>6 DEF Types
  <2>2. PICK s : s = EthereumKeyString(key)
    OBVIOUS
  <2>3. ExportedKey(a) = s
    BY <1>1, <1>6, <2>2 DEF ExportedKey
  <2>4. AccountFrom(c, net, "default", s) = Account("ethereum", net, "default", key, FALSE, <<>>)
    BY <1>6, <2>2, EthereumKeyIs DEF AccountFrom
  <2>5. Account("ethereum", net, "default", key, FALSE, <<>>).key = key
    BY DEF Account
  <2>6. KeyFromJson(c, net, s) = {key}
    BY <1>4, <2>4, <2>5
  <2>7. a = Account("ethereum", net, "default", key, FALSE, <<>>)
    BY <1>6, <2>1
  <2> QED
    BY <2>1, <2>3, <2>4, <2>6, <2>7
<1>7. CASE c = "eos"
  <2>1. type = "default"
    BY <1>7 DEF Types
  <2>2. PICK s : s = EosKeyString(key)
    OBVIOUS
  <2>3. ExportedKey(a) = s
    BY <1>1, <1>7, <2>2 DEF ExportedKey
  <2>4. AccountFrom(c, net, "default", s) = Account("eos", net, "default", key, TRUE, <<>>)
    BY <1>7, <2>2, EosKeyIs DEF AccountFrom
  <2>5. Account("eos", net, "default", key, TRUE, <<>>).key = key
    BY DEF Account
  <2>6. KeyFromJson(c, net, s) = {key}
    BY <1>4, <2>4, <2>5
  <2>7. a = Account("eos", net, "default", key, TRUE, <<>>)
    BY <1>7, <2>1
  <2> QED
    BY <2>1, <2>3, <2>4, <2>6, <2>7
<1>8. CASE c = "golos"
  <2>1. type = "default"
    BY <1>8 DEF Types
  <2>2. PICK s : s = GolosKeyString(key)
    OBVIOUS
  <2>3. ExportedKey(a) = s
    BY <1>1, <1>8, <2>2 DEF ExportedKey
  <2>4. AccountFrom(c, net, "default", s) = Account("golos", net, "default", key, TRUE, <<>>)
    BY <1>8, <2>2, EosKeyIs DEF AccountFrom
  <2>5. Account("golos", net, "default", key, TRUE, <<>>).key = key
    BY DEF Account
  <2>6. KeyFromJson(c, net, s) = {key}
    BY <1>4, <2>4, <2>5
  <2>7. a = Account("golos", net, "default", key, TRUE, <<>>)
    BY <1>8, <2>1
  <2> QED
    BY <2>1, <2>3, <2>4, <2>6, <2>7
<1> QED
  BY <1>2, <1>5, <1>6, <1>7, <1>8

(* A key of Bitcoin is of one net, and so are the addresses of its account. *)
LEMMA NetIsKept ==
    ASSUME NEW key \in Key, NEW net \in Nets("bitcoin"), NEW type \in Types("bitcoin"),
           NEW a, a = Account("bitcoin", net, type, key, TRUE, <<>>)
    PROVE  /\ \A other \in Nets("bitcoin") \ {net} :
                AccountFrom("bitcoin", other, type, ExportedKey(a)) = NoAccount
           /\ \A address \in Addresses(a) : ParsedAddress(address) = [net |-> net, type |-> AddressType(type)]
<1>1. a.chain = "bitcoin" /\ a.net = net /\ a.type = type /\ a.key = key /\ a.compressed = TRUE
  BY DEF Account
<1>2. net \in {"main", "test"} /\ type \in {"default", "segwit"}
  BY DEF Nets, Types
<1>3. ASSUME NEW other \in Nets("bitcoin") \ {net}
      PROVE  AccountFrom("bitcoin", other, type, ExportedKey(a)) = NoAccount
  <2>1. PICK s : s = BitcoinKeyString(key, net, TRUE)
    OBVIOUS
  <2>2. ExportedKey(a) = s
    BY <1>1, <2>1 DEF ExportedKey
  <2>3. BitcoinKeyFrom(s).net = net
    <3>1. BitcoinKeyFrom(s) = [key |-> key, net |-> net, compressed |-> TRUE]
      BY <1>2, <2>1, BitcoinKeyIs
    <3> QED
      BY <3>1
  <2> QED
    BY <2>2, <2>3 DEF AccountFrom, BitcoinImport
<1>4. ASSUME NEW n \in {"main", "test"}, NEW t \in {"P2PKH", "P2SH"}, NEW address,
             address.version = AddressPrefixes[n][t]
      PROVE  ParsedAddress(address) = [net |-> n, type |-> t]
  <2> DEFINE Kinds == [net: {"main", "test"}, type: {"P2PKH", "P2SH"}]
             known == {p \in Kinds : AddressPrefixes[p.net][p.type] = address.version}
  <2>1. ASSUME NEW p \in Kinds, AddressPrefixes[p.net][p.type] = address.version
        PROVE  p = [net |-> n, type |-> t]
    <3>1. p.net = n /\ p.type = t
      BY <1>4, <2>1 DEF AddressPrefixes
    <3> QED
      BY <3>1
  <2>2. [net |-> n, type |-> t] \in known
    BY <1>4
  <2>3. known = {[net |-> n, type |-> t]}
    BY <2>1, <2>2
  <2> HIDE DEF known
  <2>4. ParsedAddress(address) = CHOOSE p \in known : TRUE
    BY <2>3 DEF ParsedAddress, known
  <2> QED
    BY <2>3, <2>4
<1>5. ASSUME NEW address \in Addresses(a)
      PROVE  ParsedAddress(address) = [net |-> net, type |-> AddressType(type)]
  <2>1. CASE type = "segwit"
    <3>1. address.version = AddressPrefixes[net]["P2SH"]
      <4>1. address = WitnessAddress(a)
        BY <1>1, <2>1 DEF Addresses
      <4> QED
        BY <1>1, <4>1 DEF WitnessAddress
    <3> QED
      BY <1>2, <1>4, <2>1, <3>1 DEF AddressType
  <2>2. CASE type = "default"
    <3>1. address.version = AddressPrefixes[net]["P2PKH"]
      <4>1. address = PublicKeyHashAddress(a)
        BY <1>1, <2>2 DEF Addresses
      <4> QED
        BY <1>1, <4>1 DEF PublicKeyHashAddress
    <3> QED
      BY <1>2, <1>4, <2>2, <3>1 DEF AddressType
  <2> QED
    BY <1>2, <2>1, <2>2
<1> QED
  BY <1>3, <1>5

(* A byte is changed where it was asked for, or nothing is. *)
LEMMA ChangeIs ==
    ASSUME NEW key \in Key, NEW position \in (-KeySize - 1)..KeySize, NEW byte,
           NEW at, at = IF position < 0 THEN KeySize + position + 1 ELSE position + 1,
           NEW asked, asked = [i \in 1..KeySize |-> IF i = at THEN byte ELSE key[i]]
    PROVE  ChangedKey(key, position, byte)
             = IF position \in -KeySize..(KeySize - 1) /\ IsValid(asked) THEN asked ELSE NoKey
<1>1. PICK pos : pos = IF position < 0 THEN KeySize + position ELSE position
  OBVIOUS
<1>2. pos \in Int /\ at = pos + 1 /\ position \in Int
  BY <1>1, KeySizeAssumption
<1>3. (pos < 0 \/ pos >= KeySize) <=> position \notin -KeySize..(KeySize - 1)
  BY <1>1, KeySizeAssumption
<1>4. [key EXCEPT ![pos + 1] = byte] = asked
  <2>1. key \in [1..KeySize -> Byte]
    BY DEF Key
  <2>2. DOMAIN key = 1..KeySize
    BY <2>1
  <2> QED
    BY <1>2, <2>2
<1>5. CASE position \in -KeySize..(KeySize - 1)
  <2>1. ~(pos < 0 \/ pos >= KeySize)
    BY <1>3, <1>5
  <2>2. ChangedKey(key, position, byte) = IF IsValid(asked) THEN asked ELSE NoKey
    BY <1>1, <1>4, <2>1 DEF ChangedKey
  <2> QED
    BY <1>5, <2>2
<1>6. CASE position \notin -KeySize..(KeySize - 1)
  <2>1. pos < 0 \/ pos >= KeySize
    BY <1>3, <1>6
  <2>2. ChangedKey(key, position, byte) = NoKey
    BY <1>1, <2>1 DEF ChangedKey
  <2> QED
    BY <1>6, <2>2
<1> QED
  BY <1>5, <1>6

(* The property: a private key imports as what was exported, of its net    *)
(* alone and with its addresses, and a byte of it is changed where asked.  *)
THEOREM KeysHold == Spec => []KeysImportAsExported
<1>1. Init => KeysImportAsExported
  BY DEF Init, KeysImportAsExported
<1>2. KeysImportAsExported /\ [Next]_input => KeysImportAsExported'
  <2> SUFFICES ASSUME KeysImportAsExported, [Next]_input PROVE KeysImportAsExported'
    OBVIOUS
  <2>1. CASE UNCHANGED input
    BY <2>1 DEF KeysImportAsExported
  <2>2. CASE Next
    <3> SUFFICES ASSUME input'.of = "key" PROVE KeysImportAsExported'
      BY DEF KeysImportAsExported
    <3>1. PICK key \in Key, net \in {"main", "test"}, compressed \in BOOLEAN :
            input'.key = key /\ input'.net = net /\ input'.compressed = compressed
      BY <2>2, OnlyFed, KeysAre
    <3>2. BitcoinKeyFrom(BitcoinKeyString(key, net, compressed))
            = [key |-> key, net |-> net, compressed |-> compressed]
      BY BitcoinKeyIs
    <3>3. ASSUME NEW a \in LeafAccounts(key)
          PROVE  /\ LET imported == AccountFrom(a.chain, a.net, a.type, ExportedKey(a)) IN
                    imported = a /\ PublicKey(imported) = PublicKey(a) /\ Addresses(imported) = Addresses(a)
                 /\ KeyFromJson(a.chain, a.net, ExportedKey(a)) = {a.key}
                 /\ a.chain = "bitcoin" =>
                      /\ \A other \in Nets("bitcoin") \ {a.net} :
                            AccountFrom("bitcoin", other, a.type, ExportedKey(a)) = NoAccount
                      /\ \A address \in Addresses(a) :
                            ParsedAddress(address) = [net |-> a.net, type |-> AddressType(a.type)]
      <4>1. PICK c \in AccountChains : \E n \in Nets(c), type \in Types(c) :
              a = Account(c, n, type, key, c # "ethereum", <<>>)
        BY LeafAccountIs
      <4>2. PICK n \in Nets(c), type \in Types(c) : a = Account(c, n, type, key, c # "ethereum", <<>>)
        BY <4>1
      <4>3. a.chain = c /\ a.net = n /\ a.type = type /\ a.key = key
        BY <4>2 DEF Account
      <4>4. AccountFrom(c, n, type, ExportedKey(a)) = a /\ KeyFromJson(c, n, ExportedKey(a)) = {key}
        BY <4>2, ExportImports
      <4>5. ASSUME c = "bitcoin"
            PROVE  /\ \A other \in Nets("bitcoin") \ {n} :
                        AccountFrom("bitcoin", other, type, ExportedKey(a)) = NoAccount
                   /\ \A address \in Addresses(a) :
                        ParsedAddress(address) = [net |-> n, type |-> AddressType(type)]
        <5>1. a = Account("bitcoin", n, type, key, TRUE, <<>>)
          BY <4>2, <4>5
        <5>2. n \in Nets("bitcoin") /\ type \in Types("bitcoin")
          BY <4>5
        <5> QED
          BY <5>1, <5>2, NetIsKept
      <4> QED
        BY <4>3, <4>4, <4>5
    <3>4. ASSUME NEW position \in (-KeySize - 1)..KeySize, NEW byte \in KeyBytes
          PROVE  LET new == ChangedKey(key, position, byte)
                     at == IF position < 0 THEN KeySize + position + 1 ELSE position + 1
                     asked == [i \in 1..KeySize |-> IF i = at THEN byte ELSE key[i]]
                 IN new = IF position \in -KeySize..(KeySize - 1) /\ IsValid(asked) THEN asked ELSE NoKey
      BY ChangeIs
    <3> QED
      BY <3>1, <3>2, <3>3, <3>4 DEF KeysImportAsExported
  <2> QED
    BY <2>1, <2>2
<1> QED
  BY <1>1, <1>2, PTL DEF Spec
-----------------------------------------------------------------------------
(* The bytes of a number. *)

IsBytes(f, m) == \A i \in 0..m : f[i] = IF i = 0 THEN <<>> ELSE Append(f[i \div 256], i % 256)

LEMMA Quotient ==
    ASSUME NEW n \in Nat \ {0}
    PROVE  /\ n \div 256 \in Nat /\ n \div 256 < n /\ n % 256 \in Byte
           /\ n = (n \div 256) * 256 + (n % 256)
<1>1. n \div 256 \in Nat
  OBVIOUS
<1>2. n \div 256 < n
  OBVIOUS
<1>3. n % 256 \in Nat /\ n % 256 < 256
  OBVIOUS
<1>4. n = (n \div 256) * 256 + (n % 256)
  OBVIOUS
<1> QED
  BY <1>1, <1>2, <1>3, <1>4 DEF Byte

(* Numbers in the order of their quotients. *)
LEMMA StrongInduction ==
    ASSUME NEW T \in SUBSET Nat, 0 \in T,
           \A n \in Nat \ {0} : n \div 256 \in T => n \in T
    PROVE  \A n \in Nat : n \in T
<1> SUFFICES ASSUME Nat \ T # {} PROVE FALSE
  OBVIOUS
<1>1. PICK n \in Nat \ T : \A y \in Nat \ T : n <= y
  <2>1. Nat \ T \in SUBSET Nat
    OBVIOUS
  <2> QED
    BY <2>1, LeastNatural
<1>2. n \in Nat \ {0}
  BY <1>1
<1>3. n \div 256 \in Nat /\ n \div 256 < n
  BY <1>2, Quotient
<1>4. n \div 256 \in T
  <2>1. PICK q \in Nat : q = n \div 256 /\ q < n
    BY <1>3
  <2>2. q \notin Nat \ T
    BY <1>1, <2>1
  <2> QED
    BY <2>1, <2>2
<1> QED
  BY <1>1, <1>2, <1>4

LEMMA BytesExist == \A m \in Nat : \E f \in [0..m -> Seq(Byte)] : IsBytes(f, m)
<1> SUFFICES ASSUME NEW n \in Nat PROVE \E f \in [0..n -> Seq(Byte)] : IsBytes(f, n)
  OBVIOUS
<1> DEFINE S == {m \in Nat : \E f \in [0..m -> Seq(Byte)] : IsBytes(f, m)}
<1>1. 0 \in S
  <2>1. [i \in 0..0 |-> <<>>] \in [0..0 -> Seq(Byte)] /\ IsBytes([i \in 0..0 |-> <<>>], 0)
    BY DEF IsBytes
  <2> QED
    BY <2>1
<1>2. ASSUME NEW m \in 1..n, m - 1 \in S PROVE m \in S
  <2>1. PICK f \in [0..(m - 1) -> Seq(Byte)] : IsBytes(f, m - 1)
    BY <1>2
  <2>2. PICK x \in Seq(Byte) : x = Append(f[m \div 256], m % 256)
    <3>1. m \div 256 \in 0..(m - 1) /\ m % 256 \in Byte
      BY Quotient
    <3>2. f[m \div 256] \in Seq(Byte)
      BY <2>1, <3>1
    <3> QED
      BY <3>1, <3>2
  <2> DEFINE g == [i \in 0..m |-> IF i = m THEN x ELSE f[i]]
  <2>3. g \in [0..m -> Seq(Byte)]
    BY <2>1
  <2>4. ASSUME NEW i \in 0..m PROVE g[i] = IF i = 0 THEN <<>> ELSE Append(g[i \div 256], i % 256)
    <3>1. CASE i = 0
      BY <2>1, <3>1 DEF IsBytes
    <3>2. CASE i # 0
      <4>1. i \div 256 \in 0..m /\ i \div 256 # m
        BY <3>2, Quotient
      <4>2. g[i \div 256] = f[i \div 256]
        BY <4>1
      <4>3. CASE i = m
        BY <2>2, <3>2, <4>2, <4>3
      <4>4. CASE i # m
        <5>1. i \in 0..(m - 1) /\ g[i] = f[i]
          BY <4>4
        <5> QED
          BY <2>1, <3>2, <4>2, <5>1 DEF IsBytes
      <4> QED
        BY <4>3, <4>4
    <3> QED
      BY <3>1, <3>2
  <2>5. IsBytes(g, m)
    BY <2>4 DEF IsBytes
  <2> QED
    BY <2>3, <2>5
<1> HIDE DEF S
<1>3. n \in S
  BY <1>1, <1>2, Induction
<1> QED
  BY <1>3 DEF S

LEMMA BytesAgree ==
    ASSUME NEW m \in Nat, NEW f, IsBytes(f, m), NEW n \in Nat, NEW g, IsBytes(g, n)
    PROVE  \A i \in Nat : i <= m /\ i <= n => f[i] = g[i]
<1> DEFINE T == {i \in Nat : i <= m /\ i <= n => f[i] = g[i]}
<1>1. 0 \in T
  BY DEF IsBytes
<1>2. ASSUME NEW i \in Nat \ {0}, i \div 256 \in T PROVE i \in T
  <2> SUFFICES ASSUME i <= m, i <= n PROVE f[i] = g[i]
    OBVIOUS
  <2>1. i \div 256 <= m /\ i \div 256 <= n
    BY Quotient
  <2>2. f[i \div 256] = g[i \div 256]
    BY <1>2, <2>1
  <2>3. i \in 0..m /\ i \in 0..n /\ i # 0
    OBVIOUS
  <2> QED
    BY <2>2, <2>3 DEF IsBytes
<1> HIDE DEF T
<1>3. T \in SUBSET Nat
  BY DEF T
<1>4. \A i \in Nat : i \in T
  BY <1>1, <1>2, <1>3, StrongInduction
<1> QED
  BY <1>4 DEF T

(* What the recursive function is. *)
LEMMA BytesOfIs ==
    /\ BytesOf[0] = <<>>
    /\ \A n \in Nat : BytesOf[n] \in Seq(Byte)
    /\ \A n \in Nat \ {0} : BytesOf[n] = Append(BytesOf[n \div 256], n % 256)
<1> DEFINE R(f) == f = [n \in Nat |-> IF n = 0 THEN <<>> ELSE Append(f[n \div 256], n % 256)]
           at(n) == CHOOSE f \in [0..n -> Seq(Byte)] : IsBytes(f, n)
           g == [n \in Nat |-> at(n)[n]]
<1>1. \A n \in Nat : at(n) \in [0..n -> Seq(Byte)] /\ IsBytes(at(n), n)
  BY BytesExist
<1> HIDE DEF at
<1>2. ASSUME NEW n \in Nat PROVE g[n] \in Seq(Byte) /\ g[n] = IF n = 0 THEN <<>> ELSE Append(g[n \div 256], n % 256)
  <2>1. at(n) \in [0..n -> Seq(Byte)] /\ IsBytes(at(n), n) /\ n \in 0..n
    BY <1>1
  <2>2. CASE n = 0
    BY <2>1, <2>2 DEF IsBytes
  <2>3. CASE n # 0
    <3>1. PICK q \in Nat : q = n \div 256 /\ q <= n
      BY <2>3, Quotient
    <3>2. at(n)[q] = at(q)[q]
      <4>1. PICK u : u = at(n) /\ IsBytes(u, n)
        BY <1>1
      <4>2. PICK v : v = at(q) /\ IsBytes(v, q)
        BY <1>1
      <4>3. \A i \in Nat : i <= n /\ i <= q => u[i] = v[i]
        BY <4>1, <4>2, BytesAgree
      <4>4. q <= q
        OBVIOUS
      <4> QED
        BY <3>1, <4>1, <4>2, <4>3, <4>4
    <3>3. g[q] = at(n)[q]
      BY <3>2
    <3>4. at(n)[n] = Append(at(n)[n \div 256], n % 256)
      BY <2>1, <2>3 DEF IsBytes
    <3> QED
      BY <2>1, <2>3, <3>1, <3>3, <3>4
  <2> QED
    BY <2>2, <2>3
<1>3. R(g)
  BY <1>2
<1>4. BytesOf = CHOOSE f : R(f)
  BY DEF BytesOf
<1>5. R(BytesOf)
  BY <1>3, <1>4
<1>6. PICK r : r = BytesOf
  OBVIOUS
<1>7. \A n \in Nat : r[n] = IF n = 0 THEN <<>> ELSE Append(r[n \div 256], n % 256)
  <2>1. r = [n \in Nat |-> IF n = 0 THEN <<>> ELSE Append(r[n \div 256], n % 256)]
    BY <1>5, <1>6
  <2> QED
    BY <2>1
<1> DEFINE T == {n \in Nat : r[n] \in Seq(Byte)}
<1>8. 0 \in T
  <2>1. PICK n \in Nat : n = 0
    OBVIOUS
  <2>2. r[n] = <<>> /\ <<>> \in Seq(Byte)
    BY <1>7, <2>1
  <2> QED
    BY <2>1, <2>2
<1>9. ASSUME NEW n \in Nat \ {0}, n \div 256 \in T PROVE n \in T
  <2>1. r[n] = Append(r[n \div 256], n % 256) /\ r[n \div 256] \in Seq(Byte) /\ n % 256 \in Byte
    BY <1>7, <1>9, Quotient
  <2>2. Append(r[n \div 256], n % 256) \in Seq(Byte)
    BY <2>1
  <2> QED
    BY <2>1, <2>2
<1> HIDE DEF T
<1>10. \A n \in Nat : n \in T
  <2>1. T \in SUBSET Nat
    BY DEF T
  <2> QED
    BY <1>8, <1>9, <2>1, StrongInduction
<1>11. \A n \in Nat : r[n] \in Seq(Byte)
  BY <1>10 DEF T
<1> QED
  BY <1>6, <1>7, <1>11

(* Bytes read as a number, one after the other. *)
IsValue(f, b, n) == f[0] = 0 /\ \A i \in 1..n : f[i] = f[i - 1] * 256 + b[i]

LEMMA ValueExists ==
    ASSUME NEW b \in Seq(Nat)
    PROVE  \E f \in [0..Len(b) -> Nat] : IsValue(f, b, Len(b))
<1> DEFINE S == {m \in 0..Len(b) : \E f \in [0..m -> Nat] : IsValue(f, b, m)}
<1>1. Len(b) \in Nat
  OBVIOUS
<1>2. 0 \in S
  <2>1. [i \in 0..0 |-> 0] \in [0..0 -> Nat] /\ IsValue([i \in 0..0 |-> 0], b, 0)
    BY DEF IsValue
  <2> QED
    BY <1>1, <2>1
<1>3. ASSUME NEW m \in 1..Len(b), m - 1 \in S PROVE m \in S
  <2>1. PICK f \in [0..(m - 1) -> Nat] : IsValue(f, b, m - 1)
    BY <1>3
  <2>2. b[m] \in Nat /\ m - 1 \in 0..(m - 1) /\ m \in 0..Len(b) /\ m # 0
    BY <1>1
  <2>3. PICK x \in Nat : x = f[m - 1] * 256 + b[m]
    <3>1. f[m - 1] \in Nat
      BY <2>1, <2>2
    <3> QED
      BY <2>2, <3>1
  <2> DEFINE g == [i \in 0..m |-> IF i = m THEN x ELSE f[i]]
  <2>4. g \in [0..m -> Nat]
    BY <2>1, <2>2
  <2>5. g[0] = 0
    BY <2>1, <2>2 DEF IsValue
  <2>6. ASSUME NEW i \in 1..m PROVE g[i] = g[i - 1] * 256 + b[i]
    <3>1. i \in 0..m /\ i - 1 \in 0..m /\ i - 1 # m /\ (i # m => i \in 1..(m - 1))
      BY <1>1
    <3>2. g[i - 1] = f[i - 1] /\ g[i] = IF i = m THEN x ELSE f[i]
      BY <3>1
    <3> QED
      BY <2>1, <2>3, <3>1, <3>2 DEF IsValue
  <2>7. IsValue(g, b, m)
    BY <2>5, <2>6 DEF IsValue
  <2> QED
    BY <2>2, <2>4, <2>7
<1> HIDE DEF S
<1>4. \A m \in 0..Len(b) : m \in S
  BY <1>1, <1>2, <1>3, Induction
<1>5. Len(b) \in S
  BY <1>1, <1>4
<1> QED
  BY <1>5 DEF S

LEMMA ImportIs ==
    ASSUME NEW b \in Seq(Nat)
    PROVE  \E f \in [0..Len(b) -> Nat] : IsValue(f, b, Len(b)) /\ Import(b) = f[Len(b)]
<1> DEFINE R(f) == f = [i \in 0..Len(b) |-> IF i = 0 THEN 0 ELSE f[i - 1] * 256 + b[i]]
<1>1. Len(b) \in Nat
  OBVIOUS
<1>2. PICK f \in [0..Len(b) -> Nat] : IsValue(f, b, Len(b))
  BY <1>1, ValueExists
<1>3. R(f)
  BY <1>1, <1>2 DEF IsValue
<1>4. PICK r : r = CHOOSE g : R(g)
  OBVIOUS
<1>5. Import(b) = r[Len(b)]
  BY <1>4 DEF Import
<1>6. R(r)
  BY <1>3, <1>4
<1>7. \A i \in 0..Len(b) : r[i] = IF i = 0 THEN 0 ELSE r[i - 1] * 256 + b[i]
  <2>1. r = [i \in 0..Len(b) |-> IF i = 0 THEN 0 ELSE r[i - 1] * 256 + b[i]]
    BY <1>6
  <2> QED
    BY <2>1
<1> DEFINE S == {m \in 0..Len(b) : r[m] = f[m]}
<1>8. 0 \in S
  BY <1>1, <1>2, <1>7 DEF IsValue
<1>9. ASSUME NEW m \in 1..Len(b), m - 1 \in S PROVE m \in S
  <2>1. m \in 0..Len(b) /\ m # 0
    BY <1>1
  <2>2. r[m] = r[m - 1] * 256 + b[m] /\ r[m - 1] = f[m - 1]
    BY <1>7, <1>9, <2>1
  <2>3. f[m] = f[m - 1] * 256 + b[m]
    BY <1>2 DEF IsValue
  <2> QED
    BY <2>1, <2>2, <2>3
<1> HIDE DEF S
<1>10. \A m \in 0..Len(b) : m \in S
  BY <1>1, <1>8, <1>9, Induction
<1>11. r[Len(b)] = f[Len(b)]
  BY <1>1, <1>10 DEF S
<1> QED
  BY <1>2, <1>5, <1>11

Agree(b, c, n) == \A i \in 1..n : b[i] = c[i]

(* Two ways to read the same bytes give the same. *)
LEMMA ValuesAgree ==
    ASSUME NEW n \in Nat, NEW b, NEW f, IsValue(f, b, n), NEW c, NEW g, IsValue(g, c, n),
           Agree(b, c, n)
    PROVE  f[n] = g[n]
<1> DEFINE S == {m \in 0..n : f[m] = g[m]}
<1>1. \A i \in 1..n : b[i] = c[i]
  BY DEF Agree
<1>2. 0 \in S
  BY DEF IsValue
<1>3. ASSUME NEW m \in 1..n, m - 1 \in S PROVE m \in S
  <2>1. f[m] = f[m - 1] * 256 + b[m] /\ g[m] = g[m - 1] * 256 + c[m] /\ b[m] = c[m]
    BY <1>1 DEF IsValue
  <2>2. f[m - 1] = g[m - 1] /\ m \in 0..n
    BY <1>3
  <2> QED
    BY <2>1, <2>2
<1> HIDE DEF S
<1>4. n \in S
  BY <1>2, <1>3, Induction
<1> QED
  BY <1>4 DEF S

LEMMA ImportOfAppended ==
    ASSUME NEW b \in Seq(Nat), NEW x \in Nat
    PROVE  Import(Append(b, x)) = Import(b) * 256 + x
<1>1. PICK n \in Nat : n = Len(b)
  OBVIOUS
<1>2. PICK c \in Seq(Nat) :
        /\ c = Append(b, x) /\ Len(c) = n + 1 /\ c[n + 1] = x
        /\ \A i \in 1..n : c[i] = b[i]
  <2>1. PICK c : c = Append(b, x)
    OBVIOUS
  <2>2. c \in Seq(Nat) /\ Len(c) = Len(b) + 1 /\ c[Len(b) + 1] = x
    BY <2>1, AppendProperties
  <2>3. \A i \in 1..Len(b) : c[i] = b[i]
    BY <2>1, AppendProperties
  <2> QED
    BY <1>1, <2>1, <2>2, <2>3
<1>3. PICK f \in [0..n -> Nat] : IsValue(f, b, n) /\ Import(b) = f[n]
  BY <1>1, ImportIs
<1>4. PICK g \in [0..(n + 1) -> Nat] : IsValue(g, c, n + 1) /\ Import(c) = g[n + 1]
  BY <1>2, ImportIs
<1>5. IsValue(g, c, n)
  BY <1>4 DEF IsValue
<1>6. g[n] = f[n]
  <2>1. IsValue(f, b, n) /\ IsValue(g, c, n) /\ Agree(b, c, n)
    BY <1>2, <1>3, <1>5 DEF Agree
  <2>2. f[n] = g[n]
    BY <2>1, ValuesAgree
  <2> QED
    BY <2>2
<1>7. g[n + 1] = g[n] * 256 + c[n + 1]
  <2>1. n + 1 \in 1..(n + 1) /\ (n + 1) - 1 = n
    OBVIOUS
  <2> QED
    BY <1>4, <2>1 DEF IsValue
<1> QED
  BY <1>2, <1>3, <1>4, <1>6, <1>7

LEMMA ImportOfNothing == Import(<<>>) = 0
<1>1. PICK b : b = <<>>
  OBVIOUS
<1>2. b \in Seq(Nat) /\ Len(b) = 0
  BY <1>1
<1>3. PICK f \in [0..0 -> Nat] : IsValue(f, b, 0) /\ Import(b) = f[0]
  BY <1>2, ImportIs
<1> QED
  BY <1>1, <1>3 DEF IsValue

(* The bytes of a number are read as the number. *)
LEMMA NumberReadsBack ==
    ASSUME NEW n \in Nat
    PROVE  Import(BytesOf[n]) = n
<1> DEFINE T == {m \in Nat : Import(BytesOf[m]) = m}
<1>1. 0 \in T
  BY BytesOfIs, ImportOfNothing
<1>2. ASSUME NEW m \in Nat \ {0}, m \div 256 \in T PROVE m \in T
  <2>1. PICK q \in Nat, x \in Byte : q = m \div 256 /\ x = m % 256 /\ m = q * 256 + x
    BY Quotient
  <2>2. PICK b \in Seq(Nat) : b = BytesOf[q] /\ Import(b) = q
    <3>1. BytesOf[q] \in Seq(Byte)
      BY BytesOfIs
    <3>2. BytesOf[q] \in Seq(Nat)
      BY <3>1 DEF Byte
    <3> QED
      BY <1>2, <2>1, <3>2
  <2>3. BytesOf[m] = Append(b, x)
    BY <2>1, <2>2, BytesOfIs
  <2>4. Import(Append(b, x)) = Import(b) * 256 + x
    BY ImportOfAppended DEF Byte
  <2>5. Import(BytesOf[m]) = m
    BY <2>1, <2>2, <2>3, <2>4
  <2> QED
    BY <2>5
<1> HIDE DEF T
<1>3. \A m \in Nat : m \in T
  <2>1. T \in SUBSET Nat
    BY DEF T
  <2> QED
    BY <1>1, <1>2, <2>1, StrongInduction
<1> QED
  BY <1>3 DEF T
-----------------------------------------------------------------------------
(* The parts of what was written one after the other. *)
Joined(t, a, b) == t = a \o b
Parts(t, a, b, c) == t = (a \o b) \o c

LEMMA Middle ==
    ASSUME NEW a \in Seq(Nat), NEW b \in Seq(Nat), NEW c \in Seq(Nat), NEW t, Parts(t, a, b, c)
    PROVE  /\ t \in Seq(Nat) /\ Len(t) = Len(a) + Len(b) + Len(c)
           /\ SubSeq(t, Len(a) + 1, Len(a) + Len(b)) = b
           /\ \A i \in 1..Len(a) : t[i] = a[i]
<1>1. PICK m \in Nat, n \in Nat, l \in Nat : m = Len(a) /\ n = Len(b) /\ l = Len(c)
  OBVIOUS
<1>2. PICK u : u = a \o b
  OBVIOUS
<1>3. /\ u \in Seq(Nat) /\ Len(u) = m + n
      /\ \A i \in 1..(m + n) : u[i] = IF i <= m THEN a[i] ELSE b[i - m]
  <2>1. a \o b \in Seq(Nat)
    BY ConcatProperties
  <2>2. Len(a \o b) = Len(a) + Len(b)
    BY ConcatProperties
  <2>3. \A i \in 1..(Len(a) + Len(b)) : (a \o b)[i] = IF i <= Len(a) THEN a[i] ELSE b[i - Len(a)]
    BY ConcatProperties
  <2> QED
    BY <1>1, <1>2, <2>1, <2>2, <2>3
<1>4. /\ t \in Seq(Nat) /\ Len(t) = m + n + l
      /\ \A i \in 1..(m + n) : t[i] = u[i]
  <2>1. u \o c \in Seq(Nat)
    BY <1>3, ConcatProperties
  <2>2. Len(u \o c) = Len(u) + Len(c)
    BY <1>3, ConcatProperties
  <2>3. \A i \in 1..(Len(u) + Len(c)) : (u \o c)[i] = IF i <= Len(u) THEN u[i] ELSE c[i - Len(u)]
    BY <1>3, ConcatProperties
  <2>4. \A i \in 1..(m + n) : i \in 1..(m + n + l) /\ i <= m + n
    OBVIOUS
  <2> QED
    BY <1>1, <1>2, <1>3, <2>1, <2>2, <2>3, <2>4 DEF Parts
<1>5. \A i \in 1..m : t[i] = a[i]
  <2>1. \A i \in 1..m : i \in 1..(m + n) /\ i <= m
    OBVIOUS
  <2> QED
    BY <1>3, <1>4, <2>1
<1>6. \A i \in 1..n : t[m + i] = b[i]
  <2>1. \A i \in 1..n : m + i \in 1..(m + n) /\ ~(m + i <= m) /\ (m + i) - m = i
    OBVIOUS
  <2> QED
    BY <1>3, <1>4, <2>1
<1>7. PICK v : v = SubSeq(t, m + 1, m + n)
  OBVIOUS
<1>8. v \in Seq(Nat) /\ Len(v) = n /\ \A i \in 1..n : v[i] = t[m + i]
  <2>1. \A i \in (m + 1)..(m + n) : t[i] \in Nat
    BY <1>4
  <2>2. m + 1 \in Int /\ m + n \in Int /\ (m + n) - (m + 1) + 1 = n
    OBVIOUS
  <2>3. v \in Seq(Nat)
    BY <1>7, <2>1, <2>2, SubSeqProperties
  <2>4. Len(v) = n
    BY <1>7
  <2>5. \A i \in 1..n : v[i] = t[m + i]
    <3> SUFFICES ASSUME NEW i \in 1..n PROVE v[i] = t[m + i]
      OBVIOUS
    <3>1. (m + 1) + i - 1 = m + i /\ i \in 1..((m + n) - (m + 1) + 1)
      OBVIOUS
    <3>2. v[i] = t[(m + 1) + i - 1]
      BY <1>7, <2>1, <2>2, <3>1, SubSeqProperties
    <3> QED
      BY <3>1, <3>2
  <2> QED
    BY <2>3, <2>4, <2>5
<1>9. v = b
  BY <1>1, <1>6, <1>8, SeqEqual
<1> QED
  BY <1>1, <1>4, <1>5, <1>7, <1>9

LEMMA AtTheEnd ==
    ASSUME NEW a \in Seq(Nat), NEW b \in Seq(Nat), NEW t, Joined(t, a, b)
    PROVE  t \in Seq(Nat) /\ Len(t) = Len(a) + Len(b) /\ SubSeq(t, Len(a) + 1, Len(t)) = b
<1>1. PICK c : c = <<>>
  OBVIOUS
<1>2. c \in Seq(Nat)
  BY <1>1
<1>3. t \in Seq(Nat) /\ Len(t) = Len(a) + Len(b)
  BY ConcatProperties DEF Joined
<1>4. t \o <<>> = t
  BY <1>3, ConcatEmptySeq
<1>5. Parts(t, a, b, c)
  BY <1>1, <1>4 DEF Joined, Parts
<1>6. SubSeq(t, Len(a) + 1, Len(a) + Len(b)) = b
  BY <1>2, <1>5, Middle
<1> QED
  BY <1>3, <1>6

LEMMA Associative ==
    ASSUME NEW a \in Seq(Nat), NEW b \in Seq(Nat), NEW c \in Seq(Nat)
    PROVE  (a \o b) \o c = a \o (b \o c)
  BY ConcatAssociative

LEMMA SameRest ==
    ASSUME NEW a \in Seq(Nat), NEW b \in Seq(Nat), NEW c \in Seq(Nat), a \o b = a \o c
    PROVE  b = c
  BY ConcatSimplifications

LEMMA One ==
    ASSUME NEW x \in Nat
    PROVE  <<x>> \in Seq(Nat) /\ Len(<<x>>) = 1 /\ <<x>>[1] = x
  OBVIOUS

(* An item with a short header is read back, and what follows it is left. *)
LEMMA ShortIsRead ==
    ASSUME NEW start \in Nat, NEW d \in Seq(Nat), NEW r \in Seq(Nat), NEW s, Len(d) <= 55,
           Parts(s, <<start + Len(d)>>, d, r)
    PROVE  ReadItem(s, start) = [bytes |-> d, rest |-> r] /\ s[1] = start + Len(d)
<1>1. PICK n \in Nat : n = Len(d) /\ n <= 55 /\ start + n \in Nat
  OBVIOUS
<1>2. PICK a : a = <<start + n>>
  OBVIOUS
<1>3. a \in Seq(Nat) /\ Len(a) = 1 /\ a[1] = start + n
  BY <1>1, <1>2, One
<1>4. a \in Seq(Nat)
  BY <1>3
<1>5. Parts(s, a, d, r)
  BY <1>1, <1>2
<1>6. /\ s \in Seq(Nat) /\ Len(s) = Len(a) + Len(d) + Len(r)
      /\ SubSeq(s, Len(a) + 1, Len(a) + Len(d)) = d
      /\ \A i \in 1..Len(a) : s[i] = a[i]
  <2>1. s \in Seq(Nat) /\ Len(s) = Len(a) + Len(d) + Len(r)
    BY <1>4, <1>5, Middle
  <2>2. SubSeq(s, Len(a) + 1, Len(a) + Len(d)) = d
    BY <1>4, <1>5, Middle
  <2>3. \A i \in 1..Len(a) : s[i] = a[i]
    BY <1>4, <1>5, Middle
  <2> QED
    BY <2>1, <2>2, <2>3
<1>7. SubSeq(s, 2, 1 + n) = d /\ s[1] = start + n
  <2>1. Len(a) + 1 = 2 /\ Len(a) + Len(d) = 1 + n /\ 1 \in 1..Len(a)
    BY <1>1, <1>3
  <2> QED
    BY <1>6, <1>3, <2>1
<1>8. SubSeq(s, 2 + n, Len(s)) = r
  <2>1. PICK u : u = a \o d
    OBVIOUS
  <2>2. Joined(u, a, d) /\ Joined(s, u, r)
    BY <1>5, <2>1 DEF Joined, Parts
  <2>3. u \in Seq(Nat) /\ Len(u) = Len(a) + Len(d)
    BY <1>3, <2>2, AtTheEnd
  <2>4. SubSeq(s, Len(u) + 1, Len(s)) = r
    BY <2>2, <2>3, AtTheEnd
  <2>5. Len(u) + 1 = 2 + n
    BY <1>1, <1>3, <2>3
  <2> QED
    BY <2>4, <2>5
<1>9. s[1] - start = n
  BY <1>7
<1>10. ItemAt(s, 2, n) = [bytes |-> d, rest |-> r]
  <2>1. Len(s) = 1 + n + Len(r)
    BY <1>1, <1>3, <1>6
  <2>2. 2 - 1 + n <= Len(s) /\ 2 - 1 + n = 1 + n
    BY <2>1
  <2> QED
    BY <1>7, <1>8, <2>2 DEF ItemAt
<1> QED
  BY <1>1, <1>7, <1>9, <1>10 DEF ReadItem

(* The bytes of a number have no zero in front. *)
LEMMA FirstOfBytes ==
    ASSUME NEW n \in Nat \ {0}
    PROVE  BytesOf[n][1] # 0
<1> DEFINE T == {m \in Nat : m # 0 => BytesOf[m][1] # 0}
<1>1. 0 \in T
  OBVIOUS
<1>2. ASSUME NEW m \in Nat \ {0}, m \div 256 \in T PROVE m \in T
  <2>1. PICK q \in Nat, x \in Byte : q = m \div 256 /\ x = m % 256 /\ m = q * 256 + x
    BY Quotient
  <2>2. PICK b \in Seq(Byte) : b = BytesOf[q]
    BY BytesOfIs
  <2>3. BytesOf[m] = Append(b, x)
    BY <2>1, <2>2, BytesOfIs
  <2>4. CASE q = 0
    <3>1. x # 0 /\ b = <<>>
      BY <2>1, <2>2, <2>4, BytesOfIs
    <3>2. Append(b, x)[1] = x
      BY <3>1
    <3> QED
      BY <2>3, <3>1, <3>2
  <2>5. CASE q # 0
    <3>1. b[1] # 0
      BY <1>2, <2>1, <2>2, <2>5
    <3>2. PICK c \in Seq(Byte), y \in Byte : b = Append(c, y)
      <4>1. BytesOf[q] = Append(BytesOf[q \div 256], q % 256) /\ q \in Nat \ {0}
        BY <2>5, BytesOfIs
      <4> QED
        BY <2>2, <4>1, Quotient, BytesOfIs
    <3>3. Len(b) >= 1
      BY <3>2
    <3>4. 1 \in 1..Len(b)
      BY <3>3
    <3>5. Append(b, x)[1] = b[1]
      BY <3>4, AppendProperties
    <3> QED
      BY <2>3, <3>1, <3>5
  <2> QED
    BY <2>4, <2>5
<1> HIDE DEF T
<1>3. T \in SUBSET Nat
  BY DEF T
<1>4. n \in T
  BY <1>1, <1>2, <1>3, StrongInduction
<1> QED
  BY <1>4 DEF T

LEMMA BytesOfPositive ==
    ASSUME NEW n \in Nat \ {0}
    PROVE  /\ BytesOf[n] \in Seq(Nat) /\ Len(BytesOf[n]) >= 1 /\ Import(BytesOf[n]) = n
           /\ BytesOf[n][1] # 0
<1>1. PICK q \in Nat : q = n \div 256
  BY Quotient
<1>2. PICK b \in Seq(Byte) : b = BytesOf[q]
  BY BytesOfIs
<1>3. PICK x \in Byte : x = n % 256
  BY Quotient
<1>4. BytesOf[n] = Append(b, x)
  BY <1>1, <1>2, <1>3, BytesOfIs
<1>5. Append(b, x) \in Seq(Nat) /\ Len(Append(b, x)) = Len(b) + 1
  BY DEF Byte
<1>6. Len(b) + 1 >= 1
  OBVIOUS
<1>7. Import(BytesOf[n]) = n
  BY NumberReadsBack
<1> QED
  BY <1>4, <1>5, <1>6, <1>7, FirstOfBytes

(* So is an item with a long header. *)
LEMMA LongIsRead ==
    ASSUME NEW start \in Nat, NEW d \in Seq(Nat), NEW r \in Seq(Nat), NEW s, Len(d) > 55,
           Parts(s, LongHeader(start + 55, Len(d)), d, r)
    PROVE  /\ ReadItem(s, start) = [bytes |-> d, rest |-> r]
           /\ s[1] = start + 55 + Len(BytesOf[Len(d)]) /\ s[1] > start + 55
<1>1. PICK n \in Nat \ {0} : n = Len(d) /\ n > 55
  OBVIOUS
<1>2. PICK h : h = LongHeader(start + 55, n)
  OBVIOUS
<1>3. Parts(s, h, d, r)
  BY <1>1, <1>2
<1>4. PICK b \in Seq(Nat) : b = BytesOf[n] /\ Len(b) >= 1 /\ Import(b) = n /\ b[1] # 0
  BY BytesOfPositive
<1>5. PICK k \in Nat : k = Len(b) /\ k >= 1
  BY <1>4
<1>6. PICK a : a = <<start + 55 + k>>
  OBVIOUS
<1>7. a \in Seq(Nat) /\ Len(a) = 1 /\ a[1] = start + 55 + k
  <2>1. start + 55 + k \in Nat
    OBVIOUS
  <2> QED
    BY <1>6, <2>1, One
<1>8. a \in Seq(Nat)
  BY <1>7
<1>9. Joined(h, a, b)
  BY <1>4, <1>5, <1>6, <1>2 DEF LongHeader, Joined
<1>10. h \in Seq(Nat) /\ Len(h) = Len(a) + Len(b)
  BY <1>7, <1>9, AtTheEnd
<1>11. h \in Seq(Nat)
  BY <1>10
<1>12. Len(h) = 1 + k
  BY <1>5, <1>7, <1>10
<1>13. /\ s \in Seq(Nat) /\ Len(s) = Len(h) + Len(d) + Len(r)
      /\ SubSeq(s, Len(h) + 1, Len(h) + Len(d)) = d
      /\ \A i \in 1..Len(h) : s[i] = h[i]
  <2>1. s \in Seq(Nat) /\ Len(s) = Len(h) + Len(d) + Len(r)
    BY <1>11, <1>3, Middle
  <2>2. SubSeq(s, Len(h) + 1, Len(h) + Len(d)) = d
    BY <1>11, <1>3, Middle
  <2>3. \A i \in 1..Len(h) : s[i] = h[i]
    BY <1>11, <1>3, Middle
  <2> QED
    BY <2>1, <2>2, <2>3
<1>14. SubSeq(s, 2 + k, 1 + k + n) = d
  <2>1. Len(h) + 1 = 2 + k /\ Len(h) + Len(d) = 1 + k + n
    BY <1>1, <1>12
  <2> QED
    BY <1>13, <2>1
<1>15. SubSeq(s, 2 + k + n, Len(s)) = r
  <2>1. PICK u : u = h \o d
    OBVIOUS
  <2>2. Joined(u, h, d) /\ Joined(s, u, r)
    BY <1>3, <2>1 DEF Joined, Parts
  <2>3. u \in Seq(Nat) /\ Len(u) = Len(h) + Len(d)
    BY <1>10, <2>2, AtTheEnd
  <2>4. SubSeq(s, Len(u) + 1, Len(s)) = r
    BY <2>2, <2>3, AtTheEnd
  <2>5. Len(u) + 1 = 2 + k + n
    BY <1>1, <1>12, <2>3
  <2> QED
    BY <2>4, <2>5
<1>16. SubSeq(s, 2, 1 + k) = b /\ s[1] = start + 55 + k
  <2>1. PICK v : v = d \o r
    OBVIOUS
  <2>2. v \in Seq(Nat)
    BY <2>1, ConcatProperties
  <2>3. Parts(s, a, b, v)
    <3>1. s = ((a \o b) \o d) \o r
      BY <1>9, <1>3 DEF Parts, Joined
    <3>2. h = a \o b
      BY <1>9 DEF Joined
    <3>3. (h \o d) \o r = h \o (d \o r)
      <4>1. h \in Seq(Nat)
        BY <1>10
      <4> QED
        BY <4>1, Associative
    <3> QED
      BY <2>1, <3>1, <3>2, <3>3 DEF Parts
  <2>4. SubSeq(s, Len(a) + 1, Len(a) + Len(b)) = b
    BY <1>8, <2>2, <2>3, Middle
  <2>5. \A i \in 1..Len(a) : s[i] = a[i]
    BY <1>8, <2>2, <2>3, Middle
  <2>6. Len(a) + 1 = 2 /\ Len(a) + Len(b) = 1 + k /\ 1 \in 1..Len(a)
    BY <1>5, <1>7
  <2> QED
    BY <1>7, <2>4, <2>6, <2>5
<1>17. s[1] - start = 55 + k
  BY <1>16
<1>18. ~(55 + k <= 55) /\ (55 + k) - 55 = k /\ start + 55 + k > start + 55
  BY <1>5
<1>19. s[2] # 0
  <2>1. h = a \o b
    BY <1>9 DEF Joined
  <2>2. 2 \in 1..(Len(a) + Len(b)) /\ ~(2 <= Len(a)) /\ 2 - Len(a) = 1 /\ 2 \in 1..Len(h)
    BY <1>5, <1>7, <1>12
  <2>3. \A i \in 1..(Len(a) + Len(b)) : (a \o b)[i] = IF i <= Len(a) THEN a[i] ELSE b[i - Len(a)]
    BY <1>8, ConcatProperties
  <2>4. h[2] = b[1]
    BY <2>1, <2>2, <2>3
  <2>5. s[2] = h[2]
    BY <1>13, <2>2
  <2> QED
    BY <1>4, <2>4, <2>5
<1>20. 1 + k <= Len(s) /\ ItemAt(s, 2 + k, n) = [bytes |-> d, rest |-> r]
  <2>1. Len(s) = 1 + k + n + Len(r)
    BY <1>1, <1>12, <1>13
  <2>2. 1 + k <= Len(s)
    BY <2>1
  <2>3. (2 + k) - 1 + n <= Len(s) /\ (2 + k) - 1 + n = 1 + k + n
    BY <2>1
  <2> QED
    BY <1>14, <1>15, <2>2, <2>3 DEF ItemAt
<1>21. ReadItem(s, start) = [bytes |-> d, rest |-> r]
  BY <1>1, <1>4, <1>16, <1>17, <1>18, <1>19, <1>20 DEF ReadItem
<1> QED
  BY <1>1, <1>4, <1>5, <1>16, <1>18, <1>21

(* A field and what follows it: one whose length can be written, and of    *)
(* those the node does not read what makes them so.                        *)
Field ==
    {f \in [kind: {"number", "data", "half"}, bytes: Seq(Nat)] :
        /\ Len(BytesOf[Len(f.bytes)]) <= 8
        /\ f.kind = "number" =>
             /\ f.bytes # <<>> => f.bytes[1] # 0
             /\ Len(f.bytes) \in 56..63 => Len(f.bytes) = 56 /\ f.bytes[1] = 1
        /\ f.kind = "half" => Len(f.bytes) = 32}

IsShort(f) == f.kind = "number" => Len(f.bytes) \notin 56..127
Readable(f) == IsShort(f) /\ (f.kind = "half" => f.bytes[1] # 0)

Read(s, d, r) == ReadField(s) = [bytes |-> d, rest |-> r] /\ s # <<>> /\ s[1] # -1 /\ s \in Seq(Nat)

LEMMA NotEmpty ==
    ASSUME NEW d \in Seq(Nat), Len(d) > 0
    PROVE  d # <<>>
<1> SUFFICES ASSUME d = <<>> PROVE FALSE
  OBVIOUS
<1> QED
  OBVIOUS

LEMMA SingleByte ==
    ASSUME NEW d \in Seq(Nat), NEW r \in Seq(Nat), NEW s, Joined(s, d, r), Len(d) = 1, d[1] < 128
    PROVE  Read(s, d, r)
<1>1. s \in Seq(Nat) /\ Len(s) = Len(d) + Len(r)
  BY AtTheEnd
<1>2. s # <<>>
  BY <1>1
<1>3. s[1] = d[1]
  <2>1. s = d \o r
    BY DEF Joined
  <2>2. 1 \in 1..(Len(d) + Len(r)) /\ 1 <= Len(d)
    OBVIOUS
  <2>3. \A i \in 1..(Len(d) + Len(r)) : (d \o r)[i] = IF i <= Len(d) THEN d[i] ELSE r[i - Len(d)]
    BY ConcatProperties
  <2>4. (d \o r)[1] = d[1]
    BY <2>2, <2>3
  <2> QED
    BY <2>1, <2>4
<1>4. d[1] \in Nat
  <2>1. 1 \in 1..Len(d)
    OBVIOUS
  <2> QED
    BY <2>1, ElementOfSeq
<1>5. <<d[1]>> = d
  <2>1. PICK e : e = <<d[1]>>
    OBVIOUS
  <2>2. e \in Seq(Nat) /\ Len(e) = 1 /\ e[1] = d[1]
    BY <1>4, <2>1, One
  <2>3. e = d
    BY <2>2, SeqEqual
  <2> QED
    BY <2>1, <2>3
<1>6. Tail(s) = r
  <2>1. Tail(s) = SubSeq(s, 2, Len(s))
    BY <1>1, <1>2, TailIsSubSeq
  <2>2. SubSeq(s, Len(d) + 1, Len(s)) = r
    BY AtTheEnd
  <2>3. Len(d) + 1 = 2
    OBVIOUS
  <2> QED
    BY <2>1, <2>2, <2>3
<1>7. s[1] < 128 /\ s[1] # -1
  BY <1>3, <1>4
<1> QED
  BY <1>1, <1>2, <1>3, <1>5, <1>6, <1>7 DEF Read, ReadField

LEMMA SeveralBytes ==
    ASSUME NEW d \in Seq(Nat), NEW r \in Seq(Nat), NEW s,
           ReadItem(s, 128) = [bytes |-> d, rest |-> r], s[1] \in Nat, s[1] >= 128,
           s[1] < 192, ~(Len(d) = 1 /\ d[1] < 128), s \in Seq(Nat), Len(s) > 0
    PROVE  Read(s, d, r)
<1>1. ~(s[1] < 128) /\ ~(s[1] >= 192) /\ s[1] # -1 /\ s # <<>>
  OBVIOUS
<1> QED
  BY <1>1 DEF Read, ReadField

LEMMA HeaderIs ==
    ASSUME NEW start \in Nat, NEW n \in Nat \ {0}
    PROVE  LongHeader(start, n) \in Seq(Nat) /\ Len(LongHeader(start, n)) > 0
<1>1. PICK b \in Seq(Nat) : b = BytesOf[n]
  BY BytesOfPositive
<1>2. PICK a : a = <<start + Len(b)>>
  OBVIOUS
<1>3. a \in Seq(Nat) /\ Len(a) = 1
  BY <1>2
<1>4. a \in Seq(Nat)
  BY <1>3
<1>5. PICK h : h = LongHeader(start, n) /\ Joined(h, a, b)
  BY <1>1, <1>2 DEF LongHeader, Joined
<1>6. h \in Seq(Nat)
  BY <1>4, <1>5, AtTheEnd
<1>7. Len(h) = Len(a) + Len(b)
  BY <1>4, <1>5, AtTheEnd
<1> QED
  BY <1>3, <1>5, <1>6, <1>7

LEMMA ShortField ==
    ASSUME NEW d \in Seq(Nat), NEW r \in Seq(Nat), NEW s, Len(d) <= 55, Parts(s, <<128 + Len(d)>>, d, r),
           ~(Len(d) = 1 /\ d[1] < 128)
    PROVE  Read(s, d, r)
<1>1. ReadItem(s, 128) = [bytes |-> d, rest |-> r] /\ s[1] = 128 + Len(d)
  BY ShortIsRead
<1>2. PICK a : a = <<128 + Len(d)>> /\ Parts(s, a, d, r)
  OBVIOUS
<1>3. a \in Seq(Nat) /\ Len(a) = 1
  BY <1>2
<1>4. a \in Seq(Nat)
  BY <1>3
<1>5. Parts(s, a, d, r)
  BY <1>2
<1>6. s \in Seq(Nat) /\ Len(s) = Len(a) + Len(d) + Len(r)
  BY <1>5, <1>4, Middle
<1>7. Len(s) > 0
  BY <1>3, <1>6
<1>8. s[1] \in Nat /\ s[1] >= 128 /\ s[1] < 192
  BY <1>1
<1> QED
  BY <1>1, <1>6, <1>7, <1>8, SeveralBytes

LEMMA LongField ==
    ASSUME NEW d \in Seq(Nat), NEW r \in Seq(Nat), NEW s, Len(d) > 55, Len(BytesOf[Len(d)]) <= 8,
           Parts(s, LongHeader(183, Len(d)), d, r)
    PROVE  Read(s, d, r)
<1>1. ReadItem(s, 128) = [bytes |-> d, rest |-> r] /\ s[1] = 183 + Len(BytesOf[Len(d)]) /\ s[1] > 183
  <2>1. 128 + 55 = 183
    OBVIOUS
  <2>2. Parts(s, LongHeader(128 + 55, Len(d)), d, r)
    BY <2>1
  <2>3. /\ ReadItem(s, 128) = [bytes |-> d, rest |-> r]
        /\ s[1] = 128 + 55 + Len(BytesOf[Len(d)]) /\ s[1] > 128 + 55
    BY <2>2, LongIsRead
  <2> QED
    BY <2>1, <2>3
<1>2. PICK a : a = LongHeader(183, Len(d)) /\ Parts(s, a, d, r)
  OBVIOUS
<1>3. a \in Seq(Nat) /\ Len(a) > 0
  <2>1. PICK n \in Nat \ {0} : n = Len(d)
    OBVIOUS
  <2> QED
    BY <1>2, <2>1, HeaderIs
<1>4. a \in Seq(Nat)
  BY <1>3
<1>5. s \in Seq(Nat) /\ Len(s) = Len(a) + Len(d) + Len(r)
  <2>1. Parts(s, a, d, r)
    BY <1>2
  <2> QED
    BY <1>4, <2>1, Middle
<1>6. Len(s) > 0
  BY <1>3, <1>5
<1>7. s[1] \in Nat
  BY <1>5, <1>6
<1>8. s[1] >= 128 /\ s[1] < 192 /\ ~(Len(d) = 1 /\ d[1] < 128)
  <2>1. Len(BytesOf[Len(d)]) \in Nat
    <3>1. BytesOf[Len(d)] \in Seq(Byte)
      BY BytesOfIs
    <3> QED
      BY <3>1
  <2>2. PICK k \in Nat : k = Len(BytesOf[Len(d)]) /\ k <= 8
    BY <2>1
  <2>3. s[1] = 183 + k
    BY <1>1, <2>2
  <2>4. ~(Len(d) = 1)
    <3>1. \A m \in Nat : m > 55 => ~(m = 1)
      OBVIOUS
    <3>2. Len(d) \in Nat /\ Len(d) > 55
      OBVIOUS
    <3> QED
      BY <3>1, <3>2
  <2>5. 183 + k >= 128 /\ 183 + k < 192
    BY <2>2
  <2> QED
    BY <2>3, <2>4, <2>5
<1> QED
  BY <1>1, <1>5, <1>6, <1>7, <1>8, SeveralBytes

LEMMA FieldIsRead ==
    ASSUME NEW f \in Field, IsShort(f), NEW r \in Seq(Nat), NEW s, Joined(s, WriteField(f), r)
    PROVE  Read(s, f.bytes, r) /\ WriteField(f) \in Seq(Nat)
<1>1. PICK d \in Seq(Nat) : d = f.bytes /\ Len(BytesOf[Len(d)]) <= 8
  BY DEF Field
<1>2. /\ f.kind \in {"number", "data", "half"}
      /\ f.kind = "number" => Len(d) <= 55 \/ Len(d) >= 128
  <2>1. f.kind \in {"number", "data", "half"}
    BY DEF Field
  <2>2. f.kind = "number" => Len(d) \notin 56..127
    BY <1>1 DEF IsShort
  <2>3. PICK n \in Nat : n = Len(d)
    OBVIOUS
  <2>4. n \notin 56..127 => n <= 55 \/ n >= 128
    OBVIOUS
  <2> QED
    BY <2>1, <2>2, <2>3, <2>4
<1>3. CASE Len(d) = 1 /\ d[1] < 128
  <2>1. d # <<>>
    <3>1. Len(d) > 0
      BY <1>3
    <3> QED
      BY <3>1, NotEmpty
  <2>2. WriteField(f) = d
    BY <1>1, <1>2, <1>3, <2>1 DEF WriteField, WriteNumber, WriteData, DataStart
  <2>3. Joined(s, d, r)
    BY <2>2
  <2>4. Read(s, d, r)
    BY <1>3, <2>3, SingleByte
  <2> QED
    BY <1>1, <2>2, <2>4
<1>4. CASE ~(Len(d) = 1 /\ d[1] < 128) /\ Len(d) <= 55
  <2>1. WriteField(f) = <<128 + Len(d)>> \o d
    <3>1. CASE d = <<>> /\ f.kind = "number"
      <4>1. WriteField(f) = <<128>>
        BY <1>1, <3>1 DEF WriteField, WriteNumber, DataStart
      <4>2. 128 + Len(d) = 128
        BY <3>1
      <4>3. <<128>> \o <<>> = <<128>>
        <5>1. <<128>> \in Seq(Nat)
          OBVIOUS
        <5> QED
          BY <5>1, ConcatEmptySeq
      <4> QED
        BY <3>1, <4>1, <4>2, <4>3
    <3>2. CASE ~(d = <<>>) /\ f.kind = "number"
      <4>1. Len(d) < 128
        BY <1>4
      <4> QED
        BY <1>1, <1>4, <3>2, <4>1 DEF WriteField, WriteNumber, DataStart
    <3>3. CASE f.kind # "number"
      <4>1. Len(d) < DataCount
        BY <1>4 DEF DataCount, ListStart, DataStart, MaxLengthBytes
      <4> QED
        BY <1>1, <1>4, <3>3, <4>1 DEF WriteField, WriteData, DataStart
    <3> QED
      BY <3>1, <3>2, <3>3
  <2>2. Parts(s, <<128 + Len(d)>>, d, r)
    BY <2>1 DEF Joined, Parts
  <2>3. Read(s, d, r)
    BY <1>4, <2>2, ShortField
  <2>4. WriteField(f) \in Seq(Nat)
    <3>1. <<128 + Len(d)>> \in Seq(Nat)
      OBVIOUS
    <3>2. <<128 + Len(d)>> \o d \in Seq(Nat)
      BY <3>1, ConcatProperties
    <3> QED
      BY <2>1, <3>2
  <2> QED
    BY <1>1, <2>3, <2>4
<1>5. CASE ~(Len(d) <= 55)
  <2>1. PICK n \in Nat \ {0} : n = Len(d) /\ n > 0 /\ ~(n = 1) /\ ~(n <= 55)
    BY <1>5
  <2>2. Len(d) > 55 /\ ~(Len(d) = 1) /\ (f.kind = "number" => ~(Len(d) < 128)) /\ d # <<>>
    <3>1. Len(d) > 0
      BY <2>1
    <3> QED
      BY <1>2, <2>1, <3>1, NotEmpty
  <2>3. WriteField(f) = LongHeader(183, Len(d)) \o d
    <3>1. ~(Len(d) < DataCount) /\ DataLong = 183
      BY <1>5 DEF DataCount, DataLong, ListStart, DataStart, MaxLengthBytes
    <3>2. CASE f.kind = "number"
      BY <1>1, <2>2, <3>1, <3>2 DEF WriteField, WriteNumber, DataStart
    <3>3. CASE f.kind # "number"
      BY <1>1, <2>2, <3>1, <3>3 DEF WriteField, WriteData
    <3> QED
      BY <3>2, <3>3
  <2>4. Parts(s, LongHeader(183, Len(d)), d, r)
    BY <2>3 DEF Joined, Parts
  <2>5. Read(s, d, r)
    BY <1>1, <2>2, <2>4, LongField
  <2>6. WriteField(f) \in Seq(Nat)
    <3>1. LongHeader(183, Len(d)) \in Seq(Nat)
      BY <2>1, HeaderIs
    <3>2. LongHeader(183, Len(d)) \o d \in Seq(Nat)
      BY <3>1, ConcatProperties
    <3> QED
      BY <2>3, <3>2
  <2> QED
    BY <1>1, <2>5, <2>6
<1> QED
  BY <1>3, <1>4, <1>5

LEMMA WrittenIs ==
    ASSUME NEW f \in Field
    PROVE  WriteField(f) \in Seq(Nat)
<1>1. CASE IsShort(f)
  <2>1. PICK e : e = <<>>
    OBVIOUS
  <2>2. e \in Seq(Nat)
    BY <2>1
  <2>3. PICK s : s = WriteField(f) \o e
    OBVIOUS
  <2>4. Joined(s, WriteField(f), e)
    BY <2>3 DEF Joined
  <2> QED
    BY <1>1, <2>2, <2>4, FieldIsRead
<1>2. CASE ~IsShort(f)
  <2>1. PICK d \in Seq(Nat) : d = f.bytes
    BY DEF Field
  <2>2. f.kind = "number" /\ Len(d) \in 56..127
    BY <1>2, <2>1 DEF IsShort
  <2>3. Len(d) < 128 /\ ~(Len(d) = 1) /\ d # <<>> /\ 128 + Len(d) \in Nat
    <3>1. PICK n \in 56..127 : n = Len(d)
      BY <2>2
    <3>2. n > 0 /\ n < 128 /\ ~(n = 1) /\ 128 + n \in Nat
      OBVIOUS
    <3>3. d # <<>>
      BY <3>1, <3>2, NotEmpty
    <3> QED
      BY <3>1, <3>2, <3>3
  <2>4. WriteField(f) = <<128 + Len(d)>> \o d
    BY <2>1, <2>2, <2>3 DEF WriteField, WriteNumber, DataStart
  <2>5. PICK a : a = <<128 + Len(d)>>
    OBVIOUS
  <2>6. a \in Seq(Nat)
    BY <2>3, <2>5, One
  <2>7. a \o d \in Seq(Nat)
    BY <2>6, ConcatProperties
  <2> QED
    BY <2>4, <2>5, <2>7
<1> QED
  BY <1>1, <1>2

(* A number of 56 to 127 bytes has the header of a list, or that of a      *)
(* string so short that it has no long header.                             *)
LEMMA LongNumberIsRefused ==
    ASSUME NEW f \in Field, ~IsShort(f), NEW r \in Seq(Nat), NEW s, Joined(s, WriteField(f), r)
    PROVE  AfterField(s, f) = <<-1>>
<1>1. PICK d \in Seq(Nat) : d = f.bytes
  BY DEF Field
<1>2. f.kind = "number" /\ Len(d) \in 56..127
  BY <1>1 DEF IsShort
<1>3. PICK n \in 56..127 : n = Len(d)
  BY <1>2
<1>4. d # <<>> /\ ~(Len(d) = 1) /\ Len(d) < 128
  <2>1. n > 0 /\ n < 128 /\ ~(n = 1)
    OBVIOUS
  <2>2. d # <<>>
    BY <1>3, <2>1, NotEmpty
  <2> QED
    BY <1>3, <2>1, <2>2
<1>5. WriteField(f) = <<128 + Len(d)>> \o d
  BY <1>1, <1>2, <1>4 DEF WriteField, WriteNumber, DataStart
<1>6. PICK a : a = <<128 + n>>
  OBVIOUS
<1>7. a \in Seq(Nat) /\ Len(a) = 1 /\ a[1] = 128 + n
  <2>1. 128 + n \in Nat
    OBVIOUS
  <2> QED
    BY <1>6, <2>1, One
<1>8. Parts(s, a, d, r)
  BY <1>3, <1>5, <1>6 DEF Parts, Joined
<1>9. a \in Seq(Nat)
  BY <1>7
<1>10. /\ s \in Seq(Nat) /\ Len(s) = 1 + n + Len(r)
       /\ SubSeq(s, 2, 1 + n) = d /\ s[1] = 128 + n
  <2>1. s \in Seq(Nat) /\ Len(s) = Len(a) + Len(d) + Len(r)
    BY <1>9, <1>8, Middle
  <2>2. SubSeq(s, Len(a) + 1, Len(a) + Len(d)) = d
    BY <1>9, <1>8, Middle
  <2>3. \A i \in 1..Len(a) : s[i] = a[i]
    BY <1>9, <1>8, Middle
  <2>4. Len(a) + 1 = 2 /\ Len(a) + Len(d) = 1 + n /\ 1 \in 1..Len(a)
    BY <1>3, <1>7
  <2>5. s[1] = a[1]
    BY <2>3, <2>4
  <2> QED
    BY <1>3, <1>7, <2>1, <2>2, <2>4, <2>5
<1>11. ReadField(s) = Refused
  <2>1. ~(s[1] < 128)
    BY <1>10
  <2>2. CASE n >= 64
    <3>1. s[1] >= 192
      BY <1>10, <2>2
    <3> QED
      BY <2>1, <3>1 DEF ReadField
  <2>3. CASE n < 64
    <3>1. n \in 56..63
      BY <2>3
    <3>2. n = 56 /\ d[1] = 1
      <4>1. Len(f.bytes) \in 56..63 => Len(f.bytes) = 56 /\ f.bytes[1] = 1
        BY <1>2 DEF Field
      <4> QED
        BY <1>1, <1>3, <3>1, <4>1
    <3>3. s[1] - 128 = 56 /\ ~(56 <= 55) /\ 56 - 55 = 1 /\ ~(s[1] >= 192) /\ 1 + 1 = 2
      BY <1>10, <3>2
    <3>4. PICK x : x = SubSeq(s, 2, 2)
      OBVIOUS
    <3>5. x \in Seq(Nat) /\ Len(x) = 1 /\ x[1] = 1
      <4>1. \A i \in 2..2 : s[i] \in Nat
        <5>1. 2 \in 1..Len(s)
          BY <1>10, <3>2
        <5> QED
          BY <1>10, <5>1
      <4>2. x \in Seq(Nat)
        BY <3>4, <4>1, SubSeqProperties
      <4>3. Len(x) = 1
        BY <3>4
      <4>4. x[1] = s[2]
        <5>1. 1 \in 1..(2 - 2 + 1) /\ 2 + 1 - 1 = 2
          OBVIOUS
        <5> QED
          BY <3>4, <4>1, <5>1, SubSeqProperties
      <4>5. s[2] = d[1]
        <5>1. \A i \in 2..(1 + n) : s[i] \in Nat
          <6>1. \A i \in 2..(1 + n) : i \in 1..Len(s)
            BY <1>10
          <6>2. \A i \in 1..Len(s) : s[i] \in Nat
            BY <1>10, ElementOfSeq
          <6> QED
            BY <6>1, <6>2
        <5>2. 1 \in 1..((1 + n) - 2 + 1) /\ 2 + 1 - 1 = 2 /\ 1 + n \in Int
          BY <3>2
        <5>3. SubSeq(s, 2, 1 + n)[1] = s[2]
          BY <5>1, <5>2, SubSeqProperties
        <5> QED
          BY <1>10, <5>3
      <4> QED
        BY <3>2, <4>2, <4>3, <4>4, <4>5
    <3>6. Import(x) = 1
      <4>1. PICK g \in [0..1 -> Nat] : IsValue(g, x, 1) /\ Import(x) = g[1]
        BY <3>5, ImportIs
      <4>2. g[0] = 0 /\ g[1] = g[1 - 1] * 256 + x[1] /\ 1 - 1 = 0
        BY <4>1 DEF IsValue
      <4> QED
        BY <3>5, <4>1, <4>2
    <3>7. ReadItem(s, 128) = Refused
      BY <3>3, <3>4, <3>6 DEF ReadItem
    <3>8. Len(Refused.bytes) = 1 /\ Refused.bytes[1] < 128
      BY DEF Refused
    <3> QED
      BY <2>1, <3>3, <3>7, <3>8 DEF ReadField
  <2> QED
    BY <2>2, <2>3
<1>12. Refused.bytes # f.bytes
  <2>1. CASE d = <<-1>>
    <3>1. -1 \in Nat
      <4>1. 1 \in 1..Len(d)
        BY <1>3
      <4>2. d[1] \in Nat
        BY <4>1
      <4> QED
        BY <2>1, <4>2
    <3> QED
      BY <3>1
  <2> QED
    BY <1>1, <2>1 DEF Refused
<1> QED
  BY <1>11, <1>12 DEF AfterField

(* A field that the node reads leaves what follows it, and the other does  *)
(* not leave anything.                                                     *)
LEMMA AfterIs ==
    ASSUME NEW f \in Field, NEW r \in Seq(Nat), NEW s, Joined(s, WriteField(f), r)
    PROVE  AfterField(s, f) = IF Readable(f) THEN r ELSE <<-1>>
<1>1. CASE ~IsShort(f)
  BY <1>1, LongNumberIsRefused DEF Readable
<1>2. CASE IsShort(f)
  <2>1. PICK d \in Seq(Nat) : d = f.bytes /\ Read(s, d, r)
    <3>1. Read(s, f.bytes, r)
      BY <1>2, FieldIsRead
    <3>2. f.bytes \in Seq(Nat)
      BY DEF Field
    <3> QED
      BY <3>1, <3>2
  <2>2. ReadField(s).bytes = d /\ ReadField(s).rest = r /\ s # <<>> /\ s[1] # -1
    BY <2>1 DEF Read
  <2>3. AfterField(s, f) = IF f.kind # "data" => IsScalar(d) THEN r ELSE <<-1>>
    BY <2>1, <2>2 DEF AfterField
  <2>4. (f.kind # "data" => IsScalar(d)) <=> Readable(f)
    <3>1. CASE f.kind = "number"
      <4>1. IsScalar(d)
        BY <2>1, <3>1 DEF Field, IsScalar
      <4> QED
        BY <1>2, <3>1, <4>1 DEF Readable
    <3>2. CASE f.kind = "half"
      <4>1. Len(d) = 32
        BY <2>1, <3>2 DEF Field
      <4>2. d # <<>>
        BY <4>1
      <4> QED
        BY <1>2, <2>1, <3>2, <4>2 DEF Readable, IsScalar
    <3>3. CASE f.kind = "data"
      BY <1>2, <3>3 DEF Readable
    <3> QED
      BY <3>1, <3>2, <3>3 DEF Field
  <2> QED
    BY <2>3, <2>4
<1> QED
  BY <1>1, <1>2

(* So is a list, with nothing left. *)
LEMMA ListIsRead ==
    ASSUME NEW c \in Seq(Nat)
    PROVE  ReadItem(WriteList(c), 192) = [bytes |-> c, rest |-> <<>>] /\ WriteList(c)[1] >= 192
<1>1. PICK e : e = <<>>
  OBVIOUS
<1>2. e \in Seq(Nat)
  BY <1>1
<1>3. PICK s : s = WriteList(c)
  OBVIOUS
<1>4. CASE Len(c) <= 55
  <2>1. PICK a : a = <<192 + Len(c)>>
    OBVIOUS
  <2>2. 192 + Len(c) \in Nat
    OBVIOUS
  <2>3. a \in Seq(Nat)
    BY <2>1, <2>2, One
  <2>4. a \o c \in Seq(Nat)
    BY <2>3, ConcatProperties
  <2>5. (a \o c) \o <<>> = a \o c
    BY <2>4, ConcatEmptySeq
  <2>6. s = a \o c
    <3>1. Len(c) < 56
      BY <1>4
    <3> QED
      BY <1>3, <2>1, <3>1 DEF WriteList, ListCount, ListStart, MaxLengthBytes
  <2>7. Parts(s, <<192 + Len(c)>>, c, e)
    BY <1>1, <2>1, <2>5, <2>6 DEF Parts
  <2>8. ReadItem(s, 192) = [bytes |-> c, rest |-> e] /\ s[1] = 192 + Len(c)
    BY <1>2, <1>4, <2>7, ShortIsRead
  <2>9. 192 + Len(c) >= 192
    OBVIOUS
  <2> QED
    BY <1>1, <1>3, <2>8, <2>9
<1>5. CASE ~(Len(c) <= 55)
  <2>1. PICK n \in Nat \ {0} : n = Len(c)
    BY <1>5
  <2>2. PICK a : a = LongHeader(192 + 55, Len(c))
    OBVIOUS
  <2>3. a \in Seq(Nat)
    <3>1. 192 + 55 \in Nat
      OBVIOUS
    <3>2. LongHeader(192 + 55, n) \in Seq(Nat)
      BY <3>1, HeaderIs
    <3> QED
      BY <2>1, <2>2, <3>2
  <2>4. a \o c \in Seq(Nat)
    BY <2>3, ConcatProperties
  <2>5. (a \o c) \o <<>> = a \o c
    BY <2>4, ConcatEmptySeq
  <2>6. s = a \o c
    <3>1. ~(Len(c) < ListCount)
      BY <1>5 DEF ListCount, ListStart, MaxLengthBytes
    <3>2. ListLong = 192 + 55
      BY DEF ListLong, ListCount, ListStart, MaxLengthBytes
    <3> QED
      BY <1>3, <2>2, <3>1, <3>2 DEF WriteList
  <2>7. Parts(s, LongHeader(192 + 55, Len(c)), c, e)
    BY <1>1, <2>2, <2>5, <2>6 DEF Parts
  <2>8. Len(c) > 55
    BY <1>5
  <2>9. /\ ReadItem(s, 192) = [bytes |-> c, rest |-> e]
        /\ s[1] = 192 + 55 + Len(BytesOf[Len(c)]) /\ s[1] > 192 + 55
    <3>1. PICK start \in Nat : start = 192
      OBVIOUS
    <3>2. Parts(s, LongHeader(start + 55, Len(c)), c, e)
      BY <2>7, <3>1
    <3>3. /\ ReadItem(s, start) = [bytes |-> c, rest |-> e]
          /\ s[1] = start + 55 + Len(BytesOf[Len(c)]) /\ s[1] > start + 55
      BY <1>2, <2>8, <3>2, LongIsRead
    <3> QED
      BY <3>1, <3>3
  <2>10. s[1] = 192 + 55 + Len(BytesOf[n])
    BY <2>1, <2>9
  <2>11. Len(BytesOf[n]) \in Nat
    BY BytesOfPositive
  <2>12. s[1] >= 192
    BY <2>10, <2>11
  <2> QED
    BY <1>1, <1>3, <2>9, <2>12
<1> QED
  BY <1>4, <1>5

(* What the first m of the parts w make, for every m up to n. *)
IsWhole(f, w, n) == f[0] = <<>> /\ \A i \in 1..n : f[i] = f[i - 1] \o w[i]

LEMMA WholeExists ==
    ASSUME NEW n \in Nat, NEW w \in [1..n -> Seq(Nat)]
    PROVE  \E f \in [0..n -> Seq(Nat)] : IsWhole(f, w, n)
<1> DEFINE S == {m \in 0..n : \E f \in [0..m -> Seq(Nat)] : IsWhole(f, w, m)}
<1>1. 0 \in S
  <2>1. PICK f : f = [i \in 0..0 |-> <<>>]
    OBVIOUS
  <2>2. f \in [0..0 -> Seq(Nat)] /\ IsWhole(f, w, 0)
    BY <2>1 DEF IsWhole
  <2> QED
    BY <2>2
<1>2. ASSUME NEW m \in 1..n, m - 1 \in S PROVE m \in S
  <2>1. PICK f \in [0..(m - 1) -> Seq(Nat)] : IsWhole(f, w, m - 1)
    BY <1>2
  <2>2. PICK x \in Seq(Nat) : x = f[m - 1] \o w[m]
    <3>1. f[m - 1] \in Seq(Nat) /\ w[m] \in Seq(Nat)
      BY <2>1
    <3> QED
      BY <3>1, ConcatProperties
  <2>3. PICK g : g = [i \in 0..m |-> IF i = m THEN x ELSE f[i]]
    OBVIOUS
  <2>4. g \in [0..m -> Seq(Nat)]
    <3>1. \A i \in 0..m : i # m => i \in 0..(m - 1)
      OBVIOUS
    <3> QED
      BY <2>3, <3>1
  <2>5. \A i \in 0..(m - 1) : g[i] = f[i]
    <3>1. \A i \in 0..(m - 1) : i # m /\ i \in 0..m
      OBVIOUS
    <3> QED
      BY <2>3, <3>1
  <2>6. g[m] = x
    BY <2>3
  <2>7. IsWhole(g, w, m)
    <3>1. 0 \in 0..(m - 1) /\ \A i \in 1..m : i # m => i \in 1..(m - 1) /\ i \in 0..(m - 1)
      OBVIOUS
    <3>2. \A i \in 1..m : i - 1 \in 0..(m - 1)
      OBVIOUS
    <3> QED
      BY <2>1, <2>2, <2>5, <2>6, <3>1, <3>2 DEF IsWhole
  <2> QED
    BY <2>4, <2>7
<1> HIDE DEF S
<1>3. \A m \in 0..n : m \in S
  BY <1>1, <1>2, Induction
<1>4. n \in S
  BY <1>3
<1> QED
  BY <1>4 DEF S

(* After the first m of them comes a rest. *)
LEMMA RestExists ==
    ASSUME NEW n \in Nat, NEW w \in [1..n -> Seq(Nat)], NEW f \in [0..n -> Seq(Nat)], IsWhole(f, w, n)
    PROVE  \A m \in 0..n : \E t \in Seq(Nat) : Joined(f[n], f[m], t)
<1> DEFINE S == {k \in 0..n : \E t \in Seq(Nat) : Joined(f[n], f[n - k], t)}
<1>1. 0 \in S
  <2>1. f[n] \in Seq(Nat) /\ n - 0 = n
    OBVIOUS
  <2>2. f[n] = f[n] \o <<>>
    BY <2>1, ConcatEmptySeq
  <2>3. PICK e : e = <<>>
    OBVIOUS
  <2>4. e \in Seq(Nat) /\ Joined(f[n], f[n - 0], e)
    BY <2>1, <2>2, <2>3 DEF Joined
  <2> QED
    BY <2>4
<1>2. ASSUME NEW k \in 1..n, k - 1 \in S PROVE k \in S
  <2>1. PICK m \in 1..n : m = n - k + 1
    OBVIOUS
  <2>2. n - (k - 1) = m /\ n - k = m - 1 /\ m - 1 \in 0..n /\ m \in 0..n
    BY <2>1
  <2>3. PICK t \in Seq(Nat) : Joined(f[n], f[m], t)
    BY <1>2, <2>2
  <2>4. f[m] = f[m - 1] \o w[m]
    BY DEF IsWhole
  <2>5. f[m - 1] \in Seq(Nat) /\ w[m] \in Seq(Nat)
    BY <2>2
  <2>6. PICK u : u = w[m] \o t
    OBVIOUS
  <2>7. u \in Seq(Nat)
    BY <2>5, <2>6, ConcatProperties
  <2>8. f[n] = f[m - 1] \o u
    <3>1. (f[m - 1] \o w[m]) \o t = f[m - 1] \o (w[m] \o t)
      BY <2>5, Associative
    <3> QED
      BY <2>3, <2>4, <2>6, <3>1 DEF Joined
  <2>9. Joined(f[n], f[n - k], u)
    BY <2>2, <2>8 DEF Joined
  <2> QED
    BY <2>7, <2>9
<1> HIDE DEF S
<1>3. \A k \in 0..n : k \in S
  BY <1>1, <1>2, Induction
<1>4. ASSUME NEW m \in 0..n PROVE \E t \in Seq(Nat) : Joined(f[n], f[m], t)
  <2>1. PICK k \in 0..n : k = n - m /\ n - k = m
    OBVIOUS
  <2>2. k \in S
    BY <1>3
  <2> QED
    BY <2>1, <2>2 DEF S
<1> QED
  BY <1>4

IsLeft(left, fields, all, n) ==
    left[0] = all /\ \A i \in 1..n : left[i] = AfterField(left[i - 1], fields[i])

(* Reading a field after the other leaves what has not been read, and in   *)
(* the end nothing, unless there was one that the node refuses.            *)
LEMMA FieldsAreRead ==
    ASSUME NEW n \in Nat, NEW w \in [1..n -> Seq(Nat)], NEW f \in [0..n -> Seq(Nat)], IsWhole(f, w, n),
           NEW fields \in [1..n -> Field], \A i \in 1..n : w[i] = WriteField(fields[i]),
           NEW left, IsLeft(left, fields, f[n], n)
    PROVE  left[n] = <<>> <=> \A i \in 1..n : Readable(fields[i])
<1> DEFINE All(m) == \A i \in 1..m : Readable(fields[i])
           S == {m \in 0..n : IF All(m) THEN \E t \in Seq(Nat) : left[m] = t /\ Joined(f[n], f[m], t)
                              ELSE left[m] = <<-1>>}
<1>1. \A m \in 0..n : \E t \in Seq(Nat) : Joined(f[n], f[m], t)
  BY RestExists
<1> USE DEF IsLeft
<1>2. 0 \in S
  <2>1. f[n] \in Seq(Nat) /\ f[0] = <<>>
    BY DEF IsWhole
  <2>2. f[n] = <<>> \o f[n]
    BY <2>1, ConcatEmptySeq
  <2>3. Joined(f[n], f[0], f[n])
    BY <2>1, <2>2 DEF Joined
  <2> QED
    BY <2>1, <2>3
<1>3. ASSUME NEW m \in 1..n, m - 1 \in S PROVE m \in S
  <2>1. m \in 0..n /\ m - 1 \in 0..n /\ left[m] = AfterField(left[m - 1], fields[m])
    OBVIOUS
  <2>2. All(m) <=> All(m - 1) /\ Readable(fields[m])
    <3>1. \A i \in 1..m : i = m \/ i \in 1..(m - 1)
      OBVIOUS
    <3>2. m \in 1..m /\ \A i \in 1..(m - 1) : i \in 1..m
      OBVIOUS
    <3> QED
      BY <3>1, <3>2
  <2> HIDE DEF All
  <2>3. CASE All(m - 1)
    <3>1. PICK t \in Seq(Nat) : left[m - 1] = t /\ Joined(f[n], f[m - 1], t)
      BY <1>3, <2>3
    <3>2. PICK u \in Seq(Nat) : Joined(f[n], f[m], u)
      BY <1>1, <2>1
    <3>3. f[m] = f[m - 1] \o w[m]
      BY DEF IsWhole
    <3>4. f[m - 1] \in Seq(Nat) /\ w[m] \in Seq(Nat)
      BY <2>1
    <3>5. PICK v : v = w[m] \o u
      OBVIOUS
    <3>6. v \in Seq(Nat)
      BY <3>4, <3>5, ConcatProperties
    <3>7. f[m - 1] \o t = f[m - 1] \o v
      <4>1. (f[m - 1] \o w[m]) \o u = f[m - 1] \o (w[m] \o u)
        BY <3>4, Associative
      <4> QED
        BY <3>1, <3>2, <3>3, <3>5, <4>1 DEF Joined
    <3>8. t = v
      BY <3>4, <3>6, <3>7, SameRest
    <3>9. Joined(t, WriteField(fields[m]), u)
      BY <3>5, <3>8 DEF Joined
    <3>10. AfterField(t, fields[m]) = IF Readable(fields[m]) THEN u ELSE <<-1>>
      <4>1. fields[m] \in Field
        OBVIOUS
      <4> QED
        BY <3>9, <4>1, AfterIs
    <3> QED
      BY <2>1, <2>2, <2>3, <3>1, <3>2, <3>10
  <2>4. CASE ~All(m - 1)
    <3>1. left[m - 1] = <<-1>>
      BY <1>3, <2>4
    <3>2. <<-1>>[1] = -1
      OBVIOUS
    <3>3. left[m] = <<-1>>
      BY <2>1, <3>1, <3>2 DEF AfterField
    <3> QED
      BY <2>1, <2>2, <2>4, <3>3
  <2> QED
    BY <2>3, <2>4
<1> HIDE DEF S
<1>4. \A m \in 0..n : m \in S
  BY <1>2, <1>3, Induction
<1>5. n \in S
  BY <1>4
<1>6. CASE All(n)
  <2>1. PICK t \in Seq(Nat) : left[n] = t /\ Joined(f[n], f[n], t)
    <3> HIDE DEF All
    <3> QED
      BY <1>5, <1>6 DEF S
  <2>2. f[n] \in Seq(Nat)
    OBVIOUS
  <2>3. f[n] = f[n] \o <<>>
    BY <2>2, ConcatEmptySeq
  <2>4. PICK e : e = <<>>
    OBVIOUS
  <2>5. e \in Seq(Nat)
    BY <2>4
  <2>6. f[n] \o t = f[n] \o e
    BY <2>1, <2>3, <2>4 DEF Joined
  <2>7. t = e
    BY <2>2, <2>5, <2>6, SameRest
  <2> QED
    BY <1>6, <2>1, <2>4, <2>7
<1>7. CASE ~All(n)
  <2>1. left[n] = <<-1>>
    <3> HIDE DEF All
    <3> QED
      BY <1>5, <1>7 DEF S
  <2>2. <<-1>> # <<>>
    OBVIOUS
  <2> QED
    BY <1>7, <2>1, <2>2
<1> QED
  BY <1>6, <1>7

(* A list of fields is read back, if each of them can be read. *)
LEMMA FieldsReadBack ==
    ASSUME NEW n \in Nat \ {0}, NEW fields \in [1..n -> Field], Len(fields) = n, DOMAIN fields = 1..n
    PROVE  Reads(WriteFields(fields), fields) <=> \A i \in 1..n : Readable(fields[i])
<1>1. PICK w : w = [i \in 1..n |-> WriteField(fields[i])]
  OBVIOUS
<1>2. \A i \in 1..n : w[i] = WriteField(fields[i])
  BY <1>1
<1>3. w \in [1..n -> Seq(Nat)]
  <2>1. ASSUME NEW i \in 1..n PROVE WriteField(fields[i]) \in Seq(Nat)
    <3>1. fields[i] \in Field
      OBVIOUS
    <3> QED
      BY <3>1, WrittenIs
  <2> QED
    BY <1>1, <2>1
<1>4. PICK f \in [0..n -> Seq(Nat)] : IsWhole(f, w, n)
  BY <1>3, WholeExists
<1>5. FlattenSeq(w) = f[n]
  <2>1. Len(w) = n
    BY <1>1
  <2>2. 1 \in 1..n /\ 1 - 1 = 0 /\ \A i \in 2..n : i \in 1..n
    OBVIOUS
  <2>3. f[1] = w[1]
    <3>1. f[1] = <<>> \o w[1]
      <4>1. f[1] = f[1 - 1] \o w[1] /\ f[0] = <<>>
        BY <1>4, <2>2 DEF IsWhole
      <4> QED
        BY <2>2, <4>1
    <3>2. w[1] \in Seq(Nat)
      BY <1>3, <2>2
    <3>3. <<>> \o w[1] = w[1]
      BY <3>2, ConcatEmptySeq
    <3> QED
      BY <3>1, <3>3
  <2>4. \A i \in 2..Len(w) : f[i] = f[i - 1] \o w[i]
    BY <1>4, <2>1, <2>2 DEF IsWhole
  <2>5. Len(w) \in Nat \ {0}
    BY <2>1
  <2>6. FlattenSeq(w) = f[Len(w)]
    BY <2>3, <2>4, <2>5, FlattenIs
  <2> QED
    BY <2>1, <2>6
<1>6. WriteFields(fields) = WriteList(f[n])
  BY <1>1, <1>5 DEF WriteFields
<1>7. f[n] \in Seq(Nat)
  OBVIOUS
<1>8. /\ ReadItem(WriteFields(fields), 192) = [bytes |-> f[n], rest |-> <<>>]
      /\ WriteFields(fields)[1] >= 192
  BY <1>6, <1>7, ListIsRead
<1> DEFINE list == ReadItem(WriteFields(fields), 192)
           R(g) == g = [i \in 0..Len(fields) |-> IF i = 0 THEN list.bytes ELSE AfterField(g[i - 1], fields[i])]
<1>9. list.bytes = f[n] /\ list.rest = <<>>
  BY <1>8
<1>10. \E g : g = [i \in 0..n |-> IF i = 0 THEN f[n] ELSE AfterField(g[i - 1], fields[i])]
  <2> DEFINE S == {m \in 0..n : \E g : g = [i \in 0..m |-> IF i = 0 THEN f[n] ELSE AfterField(g[i - 1], fields[i])]}
  <2>1. 0 \in S
    <3>1. PICK g : g = [i \in 0..0 |-> f[n]]
      OBVIOUS
    <3>2. g = [i \in 0..0 |-> IF i = 0 THEN f[n] ELSE AfterField(g[i - 1], fields[i])]
      BY <3>1
    <3> QED
      BY <3>2
  <2>2. ASSUME NEW m \in 1..n, m - 1 \in S PROVE m \in S
    <3>1. PICK g : g = [i \in 0..(m - 1) |-> IF i = 0 THEN f[n] ELSE AfterField(g[i - 1], fields[i])]
      BY <2>2
    <3>2. \A i \in 0..(m - 1) : g[i] = IF i = 0 THEN f[n] ELSE AfterField(g[i - 1], fields[i])
      BY <3>1
    <3>3. PICK h : h = [i \in 0..m |-> IF i = m THEN AfterField(g[m - 1], fields[m]) ELSE g[i]]
      OBVIOUS
    <3>4. h[m] = AfterField(g[m - 1], fields[m]) /\ \A i \in 0..(m - 1) : h[i] = g[i]
      <4>1. \A i \in 0..(m - 1) : i \in 0..m /\ i # m
        OBVIOUS
      <4> QED
        BY <3>3, <4>1
    <3>5. ASSUME NEW i \in 0..m
          PROVE  h[i] = IF i = 0 THEN f[n] ELSE AfterField(h[i - 1], fields[i])
      <4>1. m # 0 /\ m - 1 \in 0..(m - 1) /\ (i # m => i \in 0..(m - 1)) /\ (i # m /\ i # 0 => i - 1 \in 0..(m - 1))
        OBVIOUS
      <4>2. CASE i = m
        BY <3>4, <4>1, <4>2
      <4>3. CASE i # m /\ i = 0
        BY <3>2, <3>4, <4>1, <4>3
      <4>4. CASE i # m /\ i # 0
        <5>1. i \in 0..(m - 1) /\ i - 1 \in 0..(m - 1)
          BY <4>1, <4>4
        <5>2. h[i] = g[i] /\ h[i - 1] = g[i - 1]
          BY <3>4, <5>1
        <5>3. g[i] = AfterField(g[i - 1], fields[i])
          BY <3>2, <4>4, <5>1
        <5> QED
          BY <4>4, <5>2, <5>3
      <4> QED
        BY <4>2, <4>3, <4>4
    <3>6. h = [i \in 0..m |-> h[i]]
      BY <3>3
    <3>7. h = [i \in 0..m |-> IF i = 0 THEN f[n] ELSE AfterField(h[i - 1], fields[i])]
      BY <3>5, <3>6
    <3>8. \E k : k = [i \in 0..m |-> IF i = 0 THEN f[n] ELSE AfterField(k[i - 1], fields[i])]
      BY <3>7
    <3>9. m \in 0..n
      OBVIOUS
    <3> QED
      BY <3>8, <3>9
  <2> HIDE DEF S
  <2>3. \A m \in 0..n : m \in S
    BY <2>1, <2>2, Induction
  <2>4. n \in S
    BY <2>3
  <2> QED
    BY <2>4 DEF S
<1>11. PICK left : left = CHOOSE g : R(g)
  OBVIOUS
<1>12. R(left)
  <2>1. PICK g : g = [i \in 0..n |-> IF i = 0 THEN f[n] ELSE AfterField(g[i - 1], fields[i])]
    BY <1>10
  <2> HIDE DEF list
  <2>2. R(g)
    BY <1>9, <2>1
  <2> QED
    BY <1>11, <2>2
<1>13. \A i \in 0..n : left[i] = IF i = 0 THEN f[n] ELSE AfterField(left[i - 1], fields[i])
  <2>1. left = [i \in 0..n |-> IF i = 0 THEN f[n] ELSE AfterField(left[i - 1], fields[i])]
    <3> HIDE DEF list
    <3> QED
      BY <1>12, <1>9
  <2> QED
    BY <2>1
<1>14. left[n] = <<>> <=> \A i \in 1..n : Readable(fields[i])
  <2>1. 0 \in 0..n /\ \A i \in 1..n : i \in 0..n /\ i # 0
    OBVIOUS
  <2>2. left[0] = f[n] /\ \A i \in 1..n : left[i] = AfterField(left[i - 1], fields[i])
    BY <1>13, <2>1
  <2> HIDE DEF list, R
  <2>3. /\ n \in Nat /\ w \in [1..n -> Seq(Nat)] /\ f \in [0..n -> Seq(Nat)] /\ IsWhole(f, w, n)
        /\ fields \in [1..n -> Field] /\ \A i \in 1..n : w[i] = WriteField(fields[i])
    BY <1>2, <1>3, <1>4
  <2>4. IsLeft(left, fields, f[n], n)
    BY <2>2 DEF IsLeft
  <2> QED
    BY <2>3, <2>4, FieldsAreRead
<1>15. Reads(WriteFields(fields), fields)
        <=> WriteFields(fields)[1] >= 192 /\ list.rest = <<>> /\ left[Len(fields)] = <<>>
  BY <1>11 DEF Reads
<1> QED
  BY <1>8, <1>9, <1>14, <1>15

LEMMA ItsPlaces ==
    ASSUME NEW S, NEW s \in Seq(S)
    PROVE  s \in [1..Len(s) -> S] /\ DOMAIN s = 1..Len(s)
  OBVIOUS

LEMMA FilledIs ==
    ASSUME NEW n \in Nat, NEW h \in Nat, NEW b \in Nat
    PROVE  Filled(n, h, b) \in Seq(Nat) /\ Len(Filled(n, h, b)) = n
  BY DEF Filled

(* The length of what is fed is written in one byte, but for the payload.  *)
LEMMA SmallLength ==
    ASSUME NEW n \in Nat, n < 256
    PROVE  Len(BytesOf[n]) <= 8
<1>1. CASE n = 0
  <2>1. BytesOf[n] = <<>>
    BY <1>1, BytesOfIs
  <2> QED
    BY <2>1
<1>2. CASE n # 0
  <2>1. n \div 256 = 0 /\ n % 256 = n
    OBVIOUS
  <2>2. BytesOf[n] = Append(<<>>, n)
    BY <1>2, <2>1, BytesOfIs
  <2>3. Len(Append(<<>>, n)) = 1
    OBVIOUS
  <2> QED
    BY <2>2, <2>3
<1> QED
  BY <1>1, <1>2

LEMMA NumberIs ==
    ASSUME NEW b \in Seq(Nat), Len(b) < 256, b # <<>> => b[1] # 0,
           Len(b) \in 56..63 => Len(b) = 56 /\ b[1] = 1
    PROVE  Number(b) \in Field /\ (Readable(Number(b)) <=> Len(b) \notin 56..127)
<1>1. Len(BytesOf[Len(b)]) <= 8
  BY SmallLength
<1> QED
  BY <1>1 DEF Number, Field, Readable, IsShort

LEMMA DataIs ==
    ASSUME NEW b \in Seq(Nat), Len(BytesOf[Len(b)]) <= 8
    PROVE  Data(b) \in Field /\ Readable(Data(b))
  BY DEF Data, Field, Readable, IsShort

LEMMA HalfIs ==
    ASSUME NEW h \in Nat, NEW f, f = [kind |-> "half", bytes |-> Filled(32, h, 7)]
    PROVE  f \in Field /\ (Readable(f) <=> h # 0)
<1>1. PICK b \in Seq(Nat) : b = Filled(32, h, 7) /\ Len(b) = 32 /\ b[1] = h
  <2>1. Filled(32, h, 7)[1] = h
    BY DEF Filled
  <2> QED
    BY <2>1, FilledIs
<1>2. Len(BytesOf[32]) <= 8
  BY SmallLength
<1>3. f.kind = "half" /\ f.bytes = b
  BY <1>1
<1>4. f \in [kind: {"number", "data", "half"}, bytes: Seq(Nat)]
  BY <1>1
<1> QED
  BY <1>1, <1>2, <1>3, <1>4 DEF Field, Readable, IsShort

LEMMA ShortNumberIs ==
    ASSUME NEW b, b = <<>> \/ (\E x \in Nat \ {0} : b = <<x>>) \/ \E x \in Nat \ {0}, y \in Nat : b = <<x, y>>
    PROVE  Number(b) \in Field /\ Readable(Number(b)) /\ Len(b) \notin 56..127
<1>1. b \in Seq(Nat) /\ Len(b) \in {0, 1, 2} /\ (b # <<>> => b[1] # 0)
  <2>1. CASE b = <<>>
    BY <2>1
  <2>2. ASSUME NEW x \in Nat \ {0}, b = <<x>>
        PROVE  b \in Seq(Nat) /\ Len(b) \in {0, 1, 2} /\ b[1] # 0
    BY <2>2
  <2>3. ASSUME NEW x \in Nat \ {0}, NEW y \in Nat, b = <<x, y>>
        PROVE  b \in Seq(Nat) /\ Len(b) \in {0, 1, 2} /\ b[1] # 0
    BY <2>3
  <2> QED
    BY <2>1, <2>2, <2>3
<1>2. \A n \in {0, 1, 2} : n < 256 /\ n \notin 56..63 /\ n \notin 56..127
  OBVIOUS
<1>3. Len(b) < 256 /\ Len(b) \notin 56..63 /\ Len(b) \notin 56..127
  BY <1>1, <1>2
<1> QED
  BY <1>1, <1>3, NumberIs

LEMMA NumeralsAre ==
    ASSUME NEW b \in Numerals
    PROVE  Number(b) \in Field /\ (Readable(Number(b)) <=> Len(b) \notin 56..127)
<1>1. CASE b = <<>> \/ b = <<127>> \/ b = <<128>> \/ b = <<1, 0>>
  BY <1>1, ShortNumberIs
<1>2. ASSUME NEW n \in {55, 56, 127, 128}, b = Filled(n, 1, 0)
      PROVE  Number(b) \in Field /\ (Readable(Number(b)) <=> Len(b) \notin 56..127)
  <2>1. n \in Nat /\ 1 \in Nat /\ 0 \in Nat /\ n < 256 /\ (n \in 56..63 => n = 56) /\ 1 \in 1..n /\ 1 # 0
    OBVIOUS
  <2>2. b \in Seq(Nat) /\ Len(b) = n
    BY <1>2, <2>1, FilledIs
  <2>3. b[1] = 1
    BY <1>2, <2>1 DEF Filled
  <2>4. Len(b) < 256 /\ (Len(b) \in 56..63 => Len(b) = 56 /\ b[1] = 1) /\ b[1] # 0
    BY <2>1, <2>2, <2>3
  <2> QED
    BY <2>2, <2>4, NumberIs
<1> QED
  BY <1>1, <1>2 DEF Numerals

LEMMA NoncesAre == Nonces \subseteq Numerals
  BY DEF Nonces, Numerals

(* The recovery id of a signature is one byte. *)
LEMMA RecoveryIs == BytesOf[37] = <<37>>
<1>1. PICK n \in Nat \ {0} : n = 37
  OBVIOUS
<1>2. n \div 256 = 0 /\ n % 256 = 37
  BY <1>1
<1>3. BytesOf[n] = Append(<<>>, 37)
  BY <1>2, BytesOfIs
<1>4. Append(<<>>, 37) = <<37>>
  OBVIOUS
<1> QED
  BY <1>1, <1>3, <1>4

(* Whatever is fed is made of fields. *)
LEMMA FieldsAre ==
    ASSUME NEW t, t.nonce \in Numerals, t.value \in Numerals, t.to \in {<<>>, Filled(20, 9, 0)},
           t.payload \in Seq(Nat), Len(BytesOf[Len(t.payload)]) <= 8,
           t.halves \in (Nat \X Nat) \cup {<<>>}
    PROVE  /\ Fields(t) \in Seq(Field) /\ Len(Fields(t)) = 9
           /\ (\A i \in 1..9 : Readable(Fields(t)[i]))
                <=> /\ \A b \in {t.nonce, t.value} : Len(b) \notin 56..127
                    /\ \A i \in DOMAIN t.halves : t.halves[i] # 0
<1>1. /\ Number(t.nonce) \in Field /\ (Readable(Number(t.nonce)) <=> Len(t.nonce) \notin 56..127)
      /\ Number(t.value) \in Field /\ (Readable(Number(t.value)) <=> Len(t.value) \notin 56..127)
      /\ Data(t.payload) \in Field /\ Readable(Data(t.payload))
  BY NumeralsAre, DataIs
<1>2. Data(t.to) \in Field /\ Readable(Data(t.to))
  <2>1. t.to \in Seq(Nat) /\ Len(BytesOf[Len(t.to)]) <= 8
    <3>1. CASE t.to = <<>>
      <4>1. t.to \in Seq(Nat) /\ Len(t.to) = 0
        BY <3>1
      <4> QED
        BY <4>1, SmallLength
    <3>2. CASE t.to = Filled(20, 9, 0)
      <4>1. 20 \in Nat /\ 9 \in Nat /\ 0 \in Nat /\ 20 < 256
        OBVIOUS
      <4>2. Filled(20, 9, 0) \in Seq(Nat) /\ Len(Filled(20, 9, 0)) = 20
        BY <4>1, FilledIs
      <4>3. Len(BytesOf[20]) <= 8
        BY <4>1, SmallLength
      <4> QED
        BY <3>2, <4>2, <4>3
    <3> QED
      BY <3>1, <3>2
  <2> QED
    BY <2>1, DataIs
<1>3. \A b \in {<<1>>, <<82, 8>>, <<>>, <<37>>} : Number(b) \in Field /\ Readable(Number(b))
  BY ShortNumberIs
<1>4. PICK a : a = <<Number(t.nonce), Number(<<1>>), Number(<<82, 8>>), Data(t.to), Number(t.value), Data(t.payload)>>
  OBVIOUS
<1>5. /\ a \in Seq(Field) /\ Len(a) = 6
      /\ (\A i \in 1..6 : Readable(a[i])) <=> Len(t.nonce) \notin 56..127 /\ Len(t.value) \notin 56..127
  <2>1. a \in Seq(Field) /\ Len(a) = 6
    BY <1>1, <1>2, <1>3, <1>4
  <2>2. /\ a[1] = Number(t.nonce) /\ a[2] = Number(<<1>>) /\ a[3] = Number(<<82, 8>>)
        /\ a[4] = Data(t.to) /\ a[5] = Number(t.value) /\ a[6] = Data(t.payload)
    BY <1>4
  <2>3. \A i \in 1..6 : i = 1 \/ i = 2 \/ i = 3 \/ i = 4 \/ i = 5 \/ i = 6
    OBVIOUS
  <2>4. 1 \in 1..6 /\ 5 \in 1..6
    OBVIOUS
  <2> QED
    BY <1>1, <1>2, <1>3, <2>1, <2>2, <2>3, <2>4
<1>6. PICK b : b = IF t.halves = <<>> THEN <<Number(<<1>>), Number(<<>>), Number(<<>>)>>
                   ELSE SignatureFields(37, Filled(32, t.halves[1], 7), Filled(32, t.halves[2], 7))
  OBVIOUS
<1>7. /\ b \in Seq(Field) /\ Len(b) = 3
      /\ (\A i \in 1..3 : Readable(b[i])) <=> \A i \in DOMAIN t.halves : t.halves[i] # 0
  <2>1. \A i \in 1..3 : i = 1 \/ i = 2 \/ i = 3
    OBVIOUS
  <2>2. 2 \in 1..3 /\ 3 \in 1..3
    OBVIOUS
  <2>3. CASE t.halves = <<>>
    <3>1. b = <<Number(<<1>>), Number(<<>>), Number(<<>>)>>
      BY <1>6, <2>3
    <3>2. b \in Seq(Field) /\ Len(b) = 3 /\ \A i \in 1..3 : Readable(b[i])
      BY <1>3, <2>1, <3>1
    <3>3. DOMAIN t.halves = {}
      BY <2>3
    <3> QED
      BY <3>2, <3>3
  <2>4. CASE t.halves # <<>>
    <3>1. PICK g \in Nat, h \in Nat : t.halves = <<g, h>>
      BY <2>4
    <3>2. PICK x, y : /\ x = [kind |-> "half", bytes |-> Filled(32, g, 7)]
                      /\ y = [kind |-> "half", bytes |-> Filled(32, h, 7)]
      OBVIOUS
    <3>3. x \in Field /\ (Readable(x) <=> g # 0) /\ y \in Field /\ (Readable(y) <=> h # 0)
      BY <3>2, HalfIs
    <3>4. b = <<Number(<<37>>), x, y>>
      BY <1>6, <2>4, <3>1, <3>2, RecoveryIs DEF SignatureFields, SkipLeadingZeroes, Number
    <3>5. b \in Seq(Field) /\ Len(b) = 3 /\ b[1] = Number(<<37>>) /\ b[2] = x /\ b[3] = y
      BY <1>3, <3>3, <3>4
    <3>6. (\A i \in 1..3 : Readable(b[i])) <=> g # 0 /\ h # 0
      BY <1>3, <2>1, <2>2, <3>3, <3>5
    <3>7. (\A i \in DOMAIN t.halves : t.halves[i] # 0) <=> g # 0 /\ h # 0
      BY <3>1
    <3> QED
      BY <3>5, <3>6, <3>7
  <2> QED
    BY <2>3, <2>4
<1>8. Fields(t) = a \o b
  BY <1>4, <1>6 DEF Fields
<1>9. PICK f : f = a \o b
  OBVIOUS
<1>10. a \in Seq(Field) /\ b \in Seq(Field)
  BY <1>5, <1>7
<1>11. f \in Seq(Field)
  BY <1>9, <1>10, ConcatProperties
<1>12. Len(f) = Len(a) + Len(b) /\ \A i \in 1..9 : f[i] = IF i <= 6 THEN a[i] ELSE b[i - 6]
  <2>1. Len(a \o b) = Len(a) + Len(b)
    BY <1>10, ConcatProperties
  <2>2. \A i \in 1..(Len(a) + Len(b)) : (a \o b)[i] = IF i <= Len(a) THEN a[i] ELSE b[i - Len(a)]
    BY <1>10, ConcatProperties
  <2>3. Len(a) + Len(b) = 9
    BY <1>5, <1>7
  <2> QED
    BY <1>5, <1>9, <2>1, <2>2, <2>3
<1>13. Len(f) = 9
  BY <1>5, <1>7, <1>12
<1>14. (\A i \in 1..9 : Readable(f[i])) <=> (\A i \in 1..6 : Readable(a[i])) /\ (\A i \in 1..3 : Readable(b[i]))
  <2>1. \A i \in 1..6 : i \in 1..9 /\ i <= 6
    OBVIOUS
  <2>2. \A i \in 1..3 : i + 6 \in 1..9 /\ ~(i + 6 <= 6) /\ (i + 6) - 6 = i
    OBVIOUS
  <2>3. \A i \in 1..9 : IF i <= 6 THEN i \in 1..6 ELSE i - 6 \in 1..3
    OBVIOUS
  <2>4. (\A i \in 1..6 : f[i] = a[i]) /\ (\A i \in 1..3 : f[i + 6] = b[i])
    BY <1>12, <2>1, <2>2
  <2> QED
    BY <1>12, <2>1, <2>2, <2>3, <2>4
<1> QED
  BY <1>5, <1>7, <1>8, <1>9, <1>11, <1>13, <1>14

(* An Ethereum node reads from the bytes of a transaction its fields, if   *)
(* and only if no number of it has 56 to 127 bytes and no half of its      *)
(* signature begins with a zero (EthereumTransactionSignature).            *)
THEOREM FieldsHold == Spec => []NodeReadsTheFields
<1>1. Init => NodeReadsTheFields
  BY DEF Init, NodeReadsTheFields
<1>2. ASSUME Next PROVE NodeReadsTheFields'
  <2>1. ASSUME input'.of = "transaction"
        PROVE  Reads(WriteFields(Fields(input')), Fields(input')) <=>
                 /\ \A b \in {input'.nonce, input'.value} : Len(b) \notin 56..127
                 /\ \A i \in DOMAIN input'.halves : input'.halves[i] # 0
    <3>1. PICK t : t = input'
      OBVIOUS
    <3>2. /\ t.nonce \in Nonces /\ t.value \in Numerals /\ t.to \in {<<>>, Filled(20, 9, 0)}
          /\ t.halves \in (Heads \X Heads) \cup {<<>>}
          /\ \E size \in Sizes, head \in Heads : t.payload = Filled(size, head, 5)
      BY <1>2, <2>1, <3>1, OnlyFed
    <3>3. t.payload \in Seq(Nat) /\ Len(BytesOf[Len(t.payload)]) <= 8
      <4>1. PICK size \in Sizes, head \in Heads : t.payload = Filled(size, head, 5)
        BY <3>2
      <4>2. size \in Nat /\ head \in Nat /\ Len(BytesOf[size]) <= 8
        BY PayloadsAssumption DEF MaxLengthBytes
      <4>3. 5 \in Nat
        OBVIOUS
      <4>4. Filled(size, head, 5) \in Seq(Nat) /\ Len(Filled(size, head, 5)) = size
        BY <4>2, <4>3, FilledIs
      <4> QED
        BY <4>1, <4>2, <4>4
    <3>4. t.nonce \in Numerals /\ t.halves \in (Nat \X Nat) \cup {<<>>}
      <4>1. Heads \subseteq Nat
        BY PayloadsAssumption
      <4> QED
        BY <3>2, <4>1, NoncesAre
    <3>5. PICK f : f = Fields(t)
      OBVIOUS
    <3>6. /\ f \in Seq(Field) /\ Len(f) = 9
          /\ (\A i \in 1..9 : Readable(f[i]))
               <=> /\ \A b \in {t.nonce, t.value} : Len(b) \notin 56..127
                   /\ \A i \in DOMAIN t.halves : t.halves[i] # 0
      BY <3>2, <3>3, <3>4, <3>5, FieldsAre
    <3>7. Reads(WriteFields(f), f) <=> \A i \in 1..9 : Readable(f[i])
      <4>1. PICK n \in Nat \ {0} : n = 9 /\ n = Len(f)
        BY <3>6
      <4>2. f \in [1..Len(f) -> Field] /\ DOMAIN f = 1..Len(f)
        BY <3>6, ItsPlaces
      <4>3. f \in [1..n -> Field] /\ DOMAIN f = 1..n
        BY <4>1, <4>2
      <4>4. Reads(WriteFields(f), f) <=> \A i \in 1..n : Readable(f[i])
        BY <4>1, <4>3, FieldsReadBack
      <4> QED
        BY <4>1, <4>4
    <3> QED
      BY <3>1, <3>5, <3>6, <3>7
  <2> QED
    BY <2>1 DEF NodeReadsTheFields
<1>3. NodeReadsTheFields /\ UNCHANGED input => NodeReadsTheFields'
  BY DEF NodeReadsTheFields
<1> QED
  BY <1>1, <1>2, <1>3, PTL DEF Spec
-----------------------------------------------------------------------------
(* Powers of two. *)
IsPowers(f, n) == f[0] = 1 /\ \A i \in 1..n : f[i] = 2 * f[i - 1]

LEMMA PowersExist ==
    ASSUME NEW n \in Nat
    PROVE  \E f \in [0..n -> Nat] : IsPowers(f, n)
<1> DEFINE S == {m \in 0..n : \E f \in [0..m -> Nat] : IsPowers(f, m)}
<1>1. 0 \in S
  <2>1. PICK f : f = [i \in 0..0 |-> 1]
    OBVIOUS
  <2>2. f \in [0..0 -> Nat] /\ IsPowers(f, 0)
    BY <2>1 DEF IsPowers
  <2> QED
    BY <2>2
<1>2. ASSUME NEW m \in 1..n, m - 1 \in S PROVE m \in S
  <2>1. PICK f \in [0..(m - 1) -> Nat] : IsPowers(f, m - 1)
    BY <1>2
  <2>2. PICK x \in Nat : x = 2 * f[m - 1]
    <3>1. f[m - 1] \in Nat
      OBVIOUS
    <3> QED
      BY <3>1
  <2>3. PICK g : g = [i \in 0..m |-> IF i = m THEN x ELSE f[i]]
    OBVIOUS
  <2>4. g \in [0..m -> Nat]
    <3>1. \A i \in 0..m : i # m => i \in 0..(m - 1)
      OBVIOUS
    <3> QED
      BY <2>3, <3>1
  <2>5. \A i \in 0..(m - 1) : g[i] = f[i]
    <3>1. \A i \in 0..(m - 1) : i # m /\ i \in 0..m
      OBVIOUS
    <3> QED
      BY <2>3, <3>1
  <2>6. g[m] = x
    BY <2>3
  <2>7. IsPowers(g, m)
    <3>1. 0 \in 0..(m - 1) /\ \A i \in 1..m : i # m => i \in 1..(m - 1) /\ i \in 0..(m - 1)
      OBVIOUS
    <3>2. \A i \in 1..m : i - 1 \in 0..(m - 1)
      OBVIOUS
    <3> QED
      BY <2>1, <2>2, <2>5, <2>6, <3>1, <3>2 DEF IsPowers
  <2> QED
    BY <2>4, <2>7
<1> HIDE DEF S
<1>3. \A m \in 0..n : m \in S
  BY <1>1, <1>2, Induction
<1>4. n \in S
  BY <1>3
<1> QED
  BY <1>4 DEF S

LEMMA PowersAgree ==
    ASSUME NEW n \in Nat, NEW f, IsPowers(f, n), NEW g, IsPowers(g, n)
    PROVE  f[n] = g[n]
<1> DEFINE S == {m \in 0..n : f[m] = g[m]}
<1>1. 0 \in S
  BY DEF IsPowers
<1>2. ASSUME NEW m \in 1..n, m - 1 \in S PROVE m \in S
  <2>1. f[m] = 2 * f[m - 1] /\ g[m] = 2 * g[m - 1] /\ f[m - 1] = g[m - 1] /\ m \in 0..n
    BY <1>2 DEF IsPowers
  <2> QED
    BY <2>1
<1> HIDE DEF S
<1>3. \A m \in 0..n : m \in S
  BY <1>1, <1>2, Induction
<1>4. n \in S
  BY <1>3
<1> QED
  BY <1>4 DEF S

LEMMA Exp2Is ==
    /\ Exp2[0] = 1
    /\ \A n \in Nat \ {0} : Exp2[n] = 2 * Exp2[n - 1]
    /\ \A n \in Nat : Exp2[n] \in Nat \ {0}
<1> DEFINE R(f) == f = [k \in Nat |-> IF k = 0 THEN 1 ELSE 2 * f[k - 1]]
           at(n) == CHOOSE f \in [0..n -> Nat] : IsPowers(f, n)
           g == [n \in Nat |-> at(n)[n]]
<1>1. \A n \in Nat : at(n) \in [0..n -> Nat] /\ IsPowers(at(n), n)
  BY PowersExist
<1> HIDE DEF at
<1>2. ASSUME NEW n \in Nat PROVE g[n] = IF n = 0 THEN 1 ELSE 2 * g[n - 1]
  <2>1. at(n) \in [0..n -> Nat] /\ IsPowers(at(n), n)
    BY <1>1
  <2>2. CASE n = 0
    BY <2>1, <2>2 DEF IsPowers
  <2>3. CASE n # 0
    <3>1. PICK m \in Nat : m = n - 1 /\ n \in 1..n
      BY <2>3
    <3>2. at(n)[m] = at(m)[m]
      <4>1. PICK u : u = at(n) /\ IsPowers(u, n)
        BY <1>1
      <4>2. PICK v : v = at(m) /\ IsPowers(v, m)
        BY <1>1
      <4>3. IsPowers(u, m)
        <5>1. \A i \in 1..m : i \in 1..n
          BY <3>1
        <5> QED
          BY <4>1, <5>1 DEF IsPowers
      <4>4. u[m] = v[m]
        BY <4>2, <4>3, PowersAgree
      <4> QED
        BY <4>1, <4>2, <4>4
    <3>3. at(n)[n] = 2 * at(n)[n - 1]
      BY <2>1, <3>1 DEF IsPowers
    <3>4. g[n] = at(n)[n] /\ g[m] = at(m)[m]
      OBVIOUS
    <3> QED
      BY <2>3, <3>1, <3>2, <3>3, <3>4
  <2> QED
    BY <2>2, <2>3
<1>3. R(g)
  BY <1>2
<1>4. Exp2 = CHOOSE f : R(f)
  BY DEF Exp2
<1>5. R(Exp2)
  <2> HIDE DEF g
  <2> QED
    BY <1>3, <1>4
<1>6. PICK r : r = Exp2
  OBVIOUS
<1>7. \A n \in Nat : r[n] = IF n = 0 THEN 1 ELSE 2 * r[n - 1]
  <2>1. r = [k \in Nat |-> IF k = 0 THEN 1 ELSE 2 * r[k - 1]]
    BY <1>5, <1>6
  <2> QED
    BY <2>1
<1>8. ASSUME NEW n \in Nat PROVE r[n] \in Nat \ {0}
  <2> DEFINE S == {m \in 0..n : r[m] \in Nat \ {0}}
  <2>1. 0 \in S
    BY <1>7
  <2>2. ASSUME NEW m \in 1..n, m - 1 \in S PROVE m \in S
    <3>1. r[m - 1] \in Nat \ {0} /\ m \in 0..n /\ m \in Nat /\ m # 0
      BY <2>2
    <3>2. r[m] = 2 * r[m - 1]
      BY <1>7, <3>1
    <3> QED
      BY <3>1, <3>2
  <2> HIDE DEF S
  <2>3. \A m \in 0..n : m \in S
    BY <2>1, <2>2, Induction
  <2>4. n \in S
    BY <2>3
  <2> QED
    BY <2>4 DEF S
<1>9. r[0] = 1 /\ \A n \in Nat \ {0} : r[n] = 2 * r[n - 1]
  BY <1>7
<1> QED
  BY <1>6, <1>8, <1>9

LEMMA PowersGrow ==
    ASSUME NEW j \in Nat, NEW k \in Nat, j <= k
    PROVE  Exp2[j] <= Exp2[k]
<1> DEFINE S == {m \in 0..(k - j) : Exp2[j] <= Exp2[j + m]}
<1>1. 0 \in S
  <2>1. j + 0 = j /\ Exp2[j] \in Nat /\ 0 \in 0..(k - j)
    BY Exp2Is
  <2> QED
    BY <2>1
<1>2. ASSUME NEW m \in 1..(k - j), m - 1 \in S PROVE m \in S
  <2>1. PICK p \in Nat : p = j + m - 1 /\ p + 1 = j + m /\ p = j + (m - 1)
    OBVIOUS
  <2>2. Exp2[j] <= Exp2[p]
    BY <1>2, <2>1
  <2>3. p + 1 \in Nat \ {0} /\ (p + 1) - 1 = p
    OBVIOUS
  <2>4. Exp2[p + 1] = 2 * Exp2[p]
    BY <2>3, Exp2Is
  <2>5. Exp2[p] \in Nat /\ Exp2[j] \in Nat
    BY Exp2Is
  <2>6. Exp2[j] <= Exp2[p + 1]
    BY <2>2, <2>4, <2>5
  <2>7. m \in 0..(k - j)
    OBVIOUS
  <2> QED
    BY <2>1, <2>6, <2>7
<1> HIDE DEF S
<1>3. k - j \in Nat
  OBVIOUS
<1>4. \A m \in 0..(k - j) : m \in S
  BY <1>1, <1>2, <1>3, Induction
<1>5. k - j \in S /\ j + (k - j) = k
  BY <1>3, <1>4
<1> QED
  BY <1>5 DEF S

Half == Exp2[Width - 1]

LEMMA WidthIs == /\ Half \in Nat \ {0} /\ Exp2[Width] = 2 * Half
                 /\ Width \in Nat /\ Width > 1
<1>1. Width \in Nat \ {0} /\ Width - 1 \in Nat
  BY WidthAssumption
<1> QED
  BY <1>1, WidthAssumption, Exp2Is DEF Half

LEMMA BitsAre ==
    ASSUME NEW n \in Int, Abs(n) < Exp2[2 * Width]
    PROVE  /\ Bits(n) \in Nat \ {0} /\ Abs(n) < Exp2[Bits(n)]
           /\ Bits(n) # 1 => Exp2[Bits(n) - 1] <= Abs(n)
<1> DEFINE T == {k \in Nat : k >= 1 /\ Abs(n) < Exp2[k]}
<1>1. Abs(n) \in Nat
  BY DEF Abs
<1>2. 2 * Width \in T
  BY WidthIs
<1>3. PICK x \in T : \A y \in T : x <= y
  <2>1. T \in SUBSET Nat /\ T # {}
    BY <1>2
  <2> QED
    BY <2>1, LeastNatural
<1>4. x \in 1..(2 * Width) /\ x \in Nat
  BY <1>2, <1>3, WidthIs
<1>5. x = 1 \/ Abs(n) >= Exp2[x - 1]
  <2>1. CASE x # 1
    <3>1. x - 1 \in Nat /\ x - 1 >= 1 /\ ~(x <= x - 1)
      BY <1>4, <2>1
    <3>2. x - 1 \notin T
      BY <1>3, <3>1
    <3>3. ~(Abs(n) < Exp2[x - 1])
      BY <3>1, <3>2
    <3>4. Exp2[x - 1] \in Nat
      BY <3>1, Exp2Is
    <3> QED
      BY <1>1, <3>3, <3>4
  <2> QED
    BY <2>1
<1>6. \E k \in 1..(2 * Width) : Abs(n) < Exp2[k] /\ (k = 1 \/ Abs(n) >= Exp2[k - 1])
  BY <1>3, <1>4, <1>5
<1>7. PICK b : b = Bits(n)
  OBVIOUS
<1>8. b \in 1..(2 * Width) /\ Abs(n) < Exp2[b] /\ (b = 1 \/ Abs(n) >= Exp2[b - 1])
  BY <1>6, <1>7 DEF Bits
<1>9. b \in Nat \ {0}
  BY <1>8, WidthIs
<1>10. b # 1 => Exp2[b - 1] <= Abs(n)
  <2>1. b # 1 => b - 1 \in Nat
    BY <1>9
  <2>2. b # 1 => Exp2[b - 1] \in Nat
    BY <2>1, Exp2Is
  <2> QED
    BY <1>1, <1>8, <2>2
<1> QED
  BY <1>7, <1>8, <1>9, <1>10

(* What fits in k bits is below the k-th power of two. *)
LEMMA BitsBound ==
    ASSUME NEW n \in Int, Abs(n) < Exp2[2 * Width], NEW k \in Nat \ {0}
    PROVE  Bits(n) <= k <=> Abs(n) < Exp2[k]
<1>1. PICK b \in Nat \ {0} : b = Bits(n) /\ Abs(n) < Exp2[b] /\ (b # 1 => Exp2[b - 1] <= Abs(n))
  BY BitsAre
<1>2. Abs(n) \in Nat /\ Exp2[b] \in Nat /\ Exp2[k] \in Nat /\ Exp2[b - 1] \in Nat
  <2>1. b - 1 \in Nat
    OBVIOUS
  <2> QED
    BY <2>1, Exp2Is DEF Abs
<1>3. CASE b <= k
  BY <1>1, <1>2, <1>3, PowersGrow
<1>4. CASE ~(b <= k)
  <2>1. b # 1 /\ b - 1 \in Nat /\ k <= b - 1
    BY <1>4
  <2>2. Exp2[k] <= Exp2[b - 1]
    BY <2>1, PowersGrow
  <2> QED
    BY <1>1, <1>2, <1>4, <2>1, <2>2
<1> QED
  BY <1>3, <1>4

(* The remainder of what is below a modulus, or just below zero. *)
LEMMA Below ==
    ASSUME NEW a \in Int, NEW m \in Nat \ {0}, 0 <= a, a < m
    PROVE  a % m = a
  OBVIOUS

LEMMA JustBelowZero ==
    ASSUME NEW a \in Int, NEW m \in Nat \ {0}, -m <= a, a < 0
    PROVE  a % m = a + m
  OBVIOUS

LEMMA WrapIs ==
    ASSUME NEW n \in Int
    PROVE  /\ -Half <= n /\ n < Half => Wrap(n) = n
           /\ n = Half => Wrap(n) = -Half
<1>1. PICK h \in Nat \ {0} : h = Half
  BY WidthIs
<1>2. Wrap(n) = ((n + h) % (2 * h)) - h
  BY <1>1, WidthIs DEF Wrap, Half
<1>3. 2 * h \in Nat \ {0} /\ n + h \in Int
  OBVIOUS
<1>4. CASE -h <= n /\ n < h
  <2>1. 0 <= n + h /\ n + h < 2 * h
    BY <1>4
  <2>2. (n + h) % (2 * h) = n + h
    BY <1>3, <2>1, Below
  <2> QED
    BY <1>1, <1>2, <1>4, <2>2
<1>5. CASE n = h
  <2>1. PICK z \in Int : z = n + h /\ z = 2 * h /\ 2 * h > 0
    BY <1>5
  <2>2. z % (2 * h) = 0
    BY <2>1
  <2> QED
    BY <1>1, <1>2, <1>5, <2>1, <2>2
<1> QED
  BY <1>1, <1>4, <1>5

LEMMA Representable ==
    ASSUME NEW n \in Int, Abs(n) < Exp2[2 * Width]
    PROVE  IsRepresentable(n) <=> (-Half < n /\ n < Half)
<1>1. Width - 1 \in Nat \ {0}
  BY WidthIs
<1>2. Bits(n) <= Width - 1 <=> Abs(n) < Half
  BY <1>1, BitsBound DEF Half
<1>3. PICK b \in Nat : b = Bits(n)
  BY BitsAre
<1>4. b <= Width - 1 <=> b < Width
  BY WidthIs
<1>5. Abs(n) < Half <=> (-Half < n /\ n < Half)
  BY WidthIs DEF Abs
<1> QED
  BY <1>2, <1>3, <1>4, <1>5 DEF IsRepresentable

(* The conversions to machine integers. *)
LEMMA IntIs ==
    ASSUME NEW n \in Int, Abs(n) < Exp2[2 * Width]
    PROVE  GetInt(n) = IF -Half < n /\ n < Half THEN {n} ELSE {}
<1>1. -Half < n /\ n < Half => Wrap(n) = n
  <2>1. -Half < n => -Half <= n
    BY WidthIs
  <2> QED
    BY <2>1, WrapIs
<1> QED
  BY <1>1, Representable DEF GetInt

LEMMA UintIs ==
    ASSUME NEW n \in Int, Abs(n) < Exp2[2 * Width]
    PROVE  GetUint(n) = IF 0 <= n /\ n < 2 * Half THEN {n} ELSE {}
<1>1. Bits(n) <= Width <=> Abs(n) < 2 * Half
  BY WidthIs, BitsBound
<1>2. Bits(n) > Width <=> ~(Bits(n) <= Width)
  <2>1. PICK b \in Nat : b = Bits(n)
    BY BitsAre
  <2>2. b > Width <=> ~(b <= Width)
    BY WidthIs
  <2> QED
    BY <2>1, <2>2
<1>3. CASE n < 0
  <2>1. ~(0 <= n)
    BY <1>3
  <2> QED
    BY <1>3, <2>1 DEF GetUint
<1>4. CASE ~(n < 0)
  <2>1. Abs(n) = n /\ 0 <= n
    BY <1>4 DEF Abs
  <2>2. PICK m \in Nat \ {0} : m = 2 * Half /\ m = Exp2[Width]
    BY WidthIs
  <2>3. n < m => n % m = n
    BY <2>1, Below
  <2> QED
    BY <1>1, <1>2, <1>4, <2>1, <2>2, <2>3 DEF GetUint
<1> QED
  BY <1>3, <1>4

LEMMA MachineIs == \A v \in Machine : v \in Int /\ -Half <= v /\ v < Half
<1>1. Machine = -Half..(Half - 1)
  BY DEF Machine, Half
<1> QED
  BY <1>1, WidthIs

LEMMA SignedImportIs == ASSUME NEW v \in Machine PROVE SignedImport(v) = v
<1>1. v \in Int /\ -Half <= v /\ v < Half
  BY MachineIs
<1>2. PICK h \in Nat \ {0} : h = Half /\ Exp2[Width] = 2 * h /\ 2 * h \in Nat \ {0}
  BY WidthIs
<1>3. CASE v < 0 /\ v # -h
  <2>1. Abs(v) = -v /\ -v \in Int /\ -h <= -v /\ -v < h
    BY <1>1, <1>2, <1>3 DEF Abs
  <2>2. Wrap(-v) = -v
    BY <1>2, <2>1, WrapIs
  <2>3. 0 <= -v /\ -v < 2 * h
    BY <1>1, <1>2, <1>3, <2>1
  <2>4. (-v) % (2 * h) = -v
    BY <1>2, <2>1, <2>3, Below
  <2> QED
    BY <1>1, <1>2, <1>3, <2>1, <2>2, <2>4 DEF SignedImport
<1>4. CASE v = -h
  <2>1. Abs(v) = h /\ v < 0
    BY <1>2, <1>4 DEF Abs
  <2>2. Wrap(h) = -h
    BY <1>2, WrapIs
  <2>3. PICK a \in Int : a = -h /\ -(2 * h) <= a /\ a < 0 /\ a + 2 * h = h
    BY <1>2
  <2>4. a % (2 * h) = a + 2 * h
    BY <1>2, <2>3, JustBelowZero
  <2> QED
    BY <1>2, <1>4, <2>1, <2>2, <2>3, <2>4 DEF SignedImport
<1>5. CASE ~(v < 0)
  BY <1>5 DEF SignedImport
<1> QED
  BY <1>1, <1>2, <1>3, <1>4, <1>5

(* A comparison with a machine integer. *)
LEMMA CompareIs ==
    ASSUME NEW n \in Int, Abs(n) < Exp2[2 * Width], NEW v \in Machine,
           Abs(n - v) < Half \/ GetInt(n) = {}
    PROVE  CompareInt(n, v) = Sign(n - v)
<1>1. v \in Int /\ n - v \in Int
  BY MachineIs
<1>2. PICK d \in Int : d = n - v
  BY <1>1
<1>3. CASE IsRepresentable(n)
  <2>1. GetInt(n) # {}
    BY <1>3 DEF GetInt
  <2>2. Abs(d) < Half
    BY <1>2, <2>1
  <2>3. -Half <= d /\ d < Half /\ Abs(d) \in Int /\ -Half <= Abs(d)
    BY <2>2, WidthIs DEF Abs
  <2>4. Wrap(d) = d /\ Wrap(Abs(d)) = Abs(d)
    BY <2>2, <2>3, WrapIs
  <2>5. CASE d = 0
    BY <1>2, <1>3, <2>4, <2>5 DEF CompareInt, Sign
  <2>6. CASE d # 0
    <3>1. CompareInt(n, v) = Truncated(d, Abs(d))
      BY <1>2, <1>3, <2>4, <2>6 DEF CompareInt
    <3>2. Truncated(d, Abs(d)) = Sign(d)
      <4>1. PICK a \in Nat \ {0} : a = Abs(d) /\ Abs(a) = a
        BY <2>6 DEF Abs
      <4>2. a \div a = 1
        OBVIOUS
      <4>3. Sign(a) = 1 /\ Sign(d) \in Int
        BY DEF Sign
      <4>4. Truncated(d, a) = Sign(d) * Sign(a) * (Abs(d) \div Abs(a))
        BY DEF Truncated
      <4> QED
        BY <4>1, <4>2, <4>3, <4>4
    <3> QED
      BY <1>2, <3>1, <3>2
  <2> QED
    BY <2>5, <2>6
<1>4. CASE ~IsRepresentable(n)
  BY <1>4, SignedImportIs DEF CompareInt, CompareBig
<1> QED
  BY <1>3, <1>4

(* A quotient is rounded towards zero. *)
LEMMA QuotientIs ==
    ASSUME NEW a \in Nat, NEW b \in Nat \ {0}
    PROVE  \E k \in Nat, s \in Nat : k = a \div b /\ a = k * b + s /\ s < b
<1>1. a = (a \div b) * b + (a % b)
  OBVIOUS
<1>2. a \div b \in Nat /\ a % b \in Nat /\ a % b < b
  OBVIOUS
<1> QED
  BY <1>1, <1>2

LEMMA RemainderIs ==
    ASSUME NEW n \in Int, NEW v \in Int, NEW q \in Divide(n, v)
    PROVE  Abs(n - q * v) < Abs(v) /\ Sign(n - q * v) \in {0, Sign(n)}
<1>1. v # 0 /\ q = Truncated(n, v)
  BY DEF Divide
<1>2. PICK a \in Nat, b \in Nat \ {0} : a = Abs(n) /\ b = Abs(v)
  BY <1>1 DEF Abs
<1>3. PICK k \in Nat, s \in Nat : k = a \div b /\ a = k * b + s /\ s < b
  BY QuotientIs
<1>4. q = Sign(n) * Sign(v) * k
  BY <1>1, <1>2, <1>3 DEF Truncated
<1>5. PICK p \in Nat : p = k * b
  OBVIOUS
<1>6. a = p + s
  BY <1>3, <1>5
<1>7. q * v = Sign(n) * p
  <2>1. CASE v > 0 /\ n > 0
    <3>1. q = k /\ v = b /\ Sign(n) = 1
      BY <1>2, <1>4, <2>1 DEF Sign, Abs
    <3> QED
      BY <1>5, <3>1
  <2>2. CASE v > 0 /\ n < 0
    <3>1. q = -k /\ v = b /\ Sign(n) = -1
      BY <1>2, <1>4, <2>2 DEF Sign, Abs
    <3>2. (-k) * b = -(k * b)
      OBVIOUS
    <3> QED
      BY <1>5, <3>1, <3>2
  <2>3. CASE v < 0 /\ n > 0
    <3>1. q = -k /\ v = -b /\ Sign(n) = 1
      BY <1>2, <1>4, <2>3 DEF Sign, Abs
    <3>2. (-k) * (-b) = k * b
      OBVIOUS
    <3> QED
      BY <1>5, <3>1, <3>2
  <2>4. CASE v < 0 /\ n < 0
    <3>1. q = k /\ v = -b /\ Sign(n) = -1
      BY <1>2, <1>4, <2>4 DEF Sign, Abs
    <3>2. k * (-b) = -(k * b)
      OBVIOUS
    <3> QED
      BY <1>5, <3>1, <3>2
  <2>5. CASE n = 0
    <3>1. Sign(n) = 0 /\ Sign(v) \in Int
      BY <2>5 DEF Sign
    <3>2. q = 0
      BY <1>4, <3>1
    <3> QED
      BY <3>1, <3>2
  <2> QED
    BY <1>1, <2>1, <2>2, <2>3, <2>4, <2>5
<1>8. PICK r \in Int : r = n - q * v
  BY <1>4, <1>7 DEF Sign
<1>9. (n > 0 /\ r = s) \/ (n < 0 /\ r = -s) \/ (n = 0 /\ r = 0)
  BY <1>2, <1>6, <1>7, <1>8 DEF Sign, Abs
<1>10. Abs(r) < b /\ Sign(r) \in {0, Sign(n)}
  BY <1>3, <1>9 DEF Sign, Abs
<1> QED
  BY <1>2, <1>8, <1>10

(* Zeroes in front of a number leave it as it is. *)
LEMMA ImportOfPadded ==
    ASSUME NEW z \in Seq(Nat), \A i \in 1..Len(z) : z[i] = 0, NEW b \in Seq(Nat), NEW c, Joined(c, z, b)
    PROVE  Import(c) = Import(b) /\ Len(c) = Len(z) + Len(b)
<1>1. PICK k \in Nat, n \in Nat : k = Len(z) /\ n = Len(b)
  OBVIOUS
<1>2. c \in Seq(Nat) /\ Len(c) = k + n
  BY <1>1, AtTheEnd
<1>3. \A i \in 1..(k + n) : c[i] = IF i <= k THEN z[i] ELSE b[i - k]
  BY <1>1, ConcatProperties DEF Joined
<1>4. PICK f \in [0..Len(b) -> Nat] : IsValue(f, b, Len(b)) /\ Import(b) = f[Len(b)]
  BY ImportIs
<1>5. c \in Seq(Nat)
  BY <1>2
<1>6. PICK g \in [0..Len(c) -> Nat] : IsValue(g, c, Len(c)) /\ Import(c) = g[Len(c)]
  BY <1>5, ImportIs
<1>7. IsValue(f, b, n) /\ Import(b) = f[n] /\ IsValue(g, c, k + n) /\ Import(c) = g[k + n]
  BY <1>1, <1>2, <1>4, <1>6
<1>8. g[k] = 0
  <2> DEFINE S == {m \in 0..k : g[m] = 0}
  <2>1. 0 \in S
    BY <1>7 DEF IsValue
  <2>2. ASSUME NEW m \in 1..k, m - 1 \in S PROVE m \in S
    <3>1. m \in 1..(k + n) /\ m <= k /\ m \in 1..Len(z)
      BY <1>1
    <3>2. c[m] = 0
      BY <1>3, <3>1
    <3>3. g[m] = g[m - 1] * 256 + c[m]
      BY <1>7, <3>1 DEF IsValue
    <3>4. g[m - 1] = 0 /\ m \in 0..k
      BY <2>2
    <3> QED
      BY <3>2, <3>3, <3>4
  <2> HIDE DEF S
  <2>3. \A m \in 0..k : m \in S
    BY <2>1, <2>2, Induction
  <2>4. k \in S
    BY <2>3
  <2> QED
    BY <2>4 DEF S
<1>9. g[k + n] = f[n]
  <2> DEFINE S == {m \in 0..n : g[k + m] = f[m]}
  <2>1. 0 \in S
    <3>1. k + 0 = k /\ f[0] = 0
      BY <1>7 DEF IsValue
    <3> QED
      BY <1>8, <3>1
  <2>2. ASSUME NEW m \in 1..n, m - 1 \in S PROVE m \in S
    <3>1. k + m \in 1..(k + n) /\ ~(k + m <= k) /\ (k + m) - k = m /\ (k + m) - 1 = k + (m - 1)
      OBVIOUS
    <3>2. c[k + m] = b[m]
      BY <1>3, <3>1
    <3>3. g[k + m] = g[k + (m - 1)] * 256 + c[k + m]
      BY <1>7, <3>1 DEF IsValue
    <3>4. f[m] = f[m - 1] * 256 + b[m]
      BY <1>7 DEF IsValue
    <3>5. g[k + (m - 1)] = f[m - 1] /\ m \in 0..n
      BY <2>2
    <3> QED
      BY <3>2, <3>3, <3>4, <3>5
  <2> HIDE DEF S
  <2>3. \A m \in 0..n : m \in S
    BY <2>1, <2>2, Induction
  <2>4. n \in S
    BY <2>3
  <2> QED
    BY <2>4 DEF S
<1> QED
  BY <1>1, <1>2, <1>7, <1>9

LEMMA ExportIs ==
    ASSUME NEW n \in Int
    PROVE  Export(n) \in Seq(Byte) /\ Export(n) \in Seq(Nat) /\ Import(Export(n)) = Abs(n)
<1>1. CASE n = 0
  <2>1. PICK z : z = <<0>>
    OBVIOUS
  <2>2. z \in Seq(Nat) /\ Len(z) = 1 /\ z[1] = 0
    BY <2>1
  <2>3. z \in Seq(Nat) /\ \A i \in 1..Len(z) : z[i] = 0
    BY <2>2
  <2>4. PICK e : e = <<>>
    OBVIOUS
  <2>5. e \in Seq(Nat)
    BY <2>4
  <2>6. z = z \o <<>>
    BY <2>3, ConcatEmptySeq
  <2>7. Joined(z, z, e)
    BY <2>4, <2>6 DEF Joined
  <2>8. Import(z) = Import(e)
    BY <2>3, <2>5, <2>7, ImportOfPadded
  <2>9. Export(n) = z /\ Abs(n) = 0
    BY <1>1, <2>1 DEF Export, Abs
  <2>10. z \in Seq(Byte)
    BY <2>1 DEF Byte
  <2> QED
    BY <2>2, <2>4, <2>8, <2>9, <2>10, ImportOfNothing
<1>2. CASE n # 0
  <2>1. PICK a \in Nat : a = Abs(n) /\ Export(n) = BytesOf[a]
    BY <1>2 DEF Export, Abs
  <2>2. BytesOf[a] \in Seq(Byte) /\ Import(BytesOf[a]) = a
    BY BytesOfIs, NumberReadsBack
  <2>3. BytesOf[a] \in Seq(Nat)
    BY <2>2 DEF Byte
  <2> QED
    BY <2>1, <2>2, <2>3
<1> QED
  BY <1>1, <1>2

(* A word of a contract call has its size and is the number. *)
LEMMA WordIs ==
    ASSUME NEW b \in Seq(Nat), IsWord(b, WordSize)
    PROVE  Len(WriteWord(b, WordSize)) = WordSize /\ Import(WriteWord(b, WordSize)) = Import(b)
<1>1. PICK k \in Nat : k = WordSize - Len(b) /\ k + Len(b) = WordSize
  BY WordAssumption DEF IsWord
<1>2. PICK z : z = [i \in 1..k |-> 0]
  OBVIOUS
<1>3. z \in Seq(Nat) /\ Len(z) = k /\ \A i \in 1..k : z[i] = 0
  BY <1>2
<1>4. z \in Seq(Nat) /\ \A i \in 1..Len(z) : z[i] = 0
  BY <1>3
<1>5. PICK c : c = z \o b
  OBVIOUS
<1>6. Joined(c, z, b)
  BY <1>5 DEF Joined
<1>7. Import(c) = Import(b) /\ Len(c) = Len(z) + Len(b)
  BY <1>4, <1>6, ImportOfPadded
<1>8. WriteWord(b, WordSize) = c
  BY <1>1, <1>2, <1>5 DEF WriteWord
<1> QED
  BY <1>1, <1>3, <1>7, <1>8

(* What a JSON request sets a number to. *)
LEMMA JsonIntIs ==
    ASSUME NEW n \in Int
    PROVE  BigIntFromJson(JsonInt(n)) = (IF n \in Machine \cup 0..(Exp2[Width] - 1) THEN {n} ELSE {})
<1>1. PICK j : j = JsonInt(n)
  OBVIOUS
<1>2. j.type = "int" /\ j.value = n /\ j.type # "string"
  BY <1>1 DEF JsonInt
<1>3. IsInt64(j) <=> n \in Machine
  BY <1>2 DEF IsInt64, Machine
<1>4. IsUInt64(j) <=> n \in 0..(Exp2[Width] - 1)
  BY <1>2 DEF IsUInt64
<1>5. CASE n \in Machine
  <2>1. BigIntFromJson(j) = {SignedImport(n)}
    BY <1>2, <1>3, <1>5 DEF BigIntFromJson
  <2> QED
    BY <1>1, <1>5, <2>1, SignedImportIs
<1>6. CASE n \notin Machine /\ n \in 0..(Exp2[Width] - 1)
  <2>1. BigIntFromJson(j) = {n}
    BY <1>2, <1>3, <1>4, <1>6 DEF BigIntFromJson
  <2> QED
    BY <1>1, <1>6, <2>1
<1>7. CASE n \notin Machine /\ n \notin 0..(Exp2[Width] - 1)
  <2>1. BigIntFromJson(j) = {}
    BY <1>2, <1>3, <1>4, <1>7 DEF BigIntFromJson
  <2> QED
    BY <1>1, <1>7, <2>1
<1> QED
  BY <1>5, <1>6, <1>7

LEMMA JsonStringsAre ==
    ASSUME NEW n \in Int
    PROVE  /\ BigIntFromJson(JsonDecimal(n)) = {n}
           /\ n >= 0 => BigIntFromJson(JsonSymbols("0x", EncodeHex(Export(n)))) = {n}
<1>1. BigIntFromJson(JsonDecimal(n)) = {n}
  <2>1. PICK j : j = JsonDecimal(n)
    OBVIOUS
  <2>2. j.type = "string" /\ j.format = "decimal" /\ j.value = n /\ ~IsInt64(j) /\ ~IsUInt64(j)
    BY <2>1 DEF JsonDecimal, IsInt64, IsUInt64
  <2>3. BigIntFromJson(j) = {n}
    BY <2>2 DEF BigIntFromJson
  <2> QED
    BY <2>1, <2>3
<1>2. ASSUME n >= 0 PROVE BigIntFromJson(JsonSymbols("0x", EncodeHex(Export(n)))) = {n}
  <2>1. PICK b : b = Export(n)
    OBVIOUS
  <2>2. b \in Seq(Byte) /\ Import(b) = n
    BY <1>2, <2>1, ExportIs DEF Abs
  <2>3. PICK s : s = EncodeHex(b)
    OBVIOUS
  <2>4. DecodeHex(s) = b
    BY <2>2, <2>3, BytesReadBack
  <2>5. b # Failed
    BY <2>2 DEF Failed, Byte
  <2>6. PICK j : j = JsonSymbols("0x", s)
    OBVIOUS
  <2>7. j.type = "string" /\ j.format = "0x" /\ j.value = s /\ ~IsInt64(j) /\ ~IsUInt64(j)
    BY <2>6 DEF JsonSymbols, IsInt64, IsUInt64
  <2>8. BigIntFromJson(j) = {Import(b)}
    BY <2>4, <2>5, <2>7 DEF BigIntFromJson
  <2> QED
    BY <2>1, <2>2, <2>3, <2>6, <2>8
<1> QED
  BY <1>1, <1>2

(* The property: a number that is converted is kept, whatever the width of *)
(* a machine integer, or the conversion throws.                            *)
THEOREM NumbersHold == Spec => []NumbersAreKept
<1>1. Init => NumbersAreKept
  BY DEF Init, NumbersAreKept
<1>2. ASSUME Next PROVE NumbersAreKept'
  <2> SUFFICES ASSUME input'.of = "number",
                      NEW n, n = input'.n, NEW v, v = input'.v
               PROVE  /\ GetInt(n) \cup GetUint(n) \subseteq {n}
                      /\ (n \in Machine /\ n # -(Exp2[Width - 1])) => n \in GetInt(n)
                      /\ n \in 0..(Exp2[Width] - 1) => n \in GetUint(n)
                      /\ SignedImport(v) = v
                      /\ (Abs(n - v) < Exp2[Width - 1] \/ GetInt(n) = {}) => CompareInt(n, v) = Sign(n - v)
                      /\ Import(Export(n)) = Abs(n)
                      /\ \A q \in Divide(n, v) : Abs(n - q * v) < Abs(v) /\ Sign(n - q * v) \in {0, Sign(n)}
                      /\ IsWord(Export(n), WordSize) =>
                           /\ Len(WriteWord(Export(n), WordSize)) = WordSize
                           /\ Import(WriteWord(Export(n), WordSize)) = Abs(n)
                      /\ BigIntFromJson(JsonInt(n)) = (IF n \in Machine \cup 0..(Exp2[Width] - 1) THEN {n} ELSE {})
                      /\ BigIntFromJson(JsonDecimal(n)) = {n}
                      /\ n >= 0 => BigIntFromJson(JsonSymbols("0x", EncodeHex(Export(n)))) = {n}
    BY DEF NumbersAreKept
  <2>1. n \in Int /\ Abs(n) < Exp2[2 * Width] /\ v \in Machine
    BY <1>2, OnlyFed, NumbersAssumption
  <2>2. v \in Int
    BY <2>1, MachineIs
  <2>3. GetInt(n) \cup GetUint(n) \subseteq {n}
    BY <2>1, IntIs, UintIs
  <2>4. (n \in Machine /\ n # -(Exp2[Width - 1])) => n \in GetInt(n)
    <3>1. n \in Machine => -Half <= n /\ n < Half
      BY MachineIs
    <3>2. n # -Half /\ -Half <= n => -Half < n
      BY <2>1, WidthIs
    <3> QED
      BY <2>1, <3>1, <3>2, IntIs DEF Half
  <2>5. n \in 0..(Exp2[Width] - 1) => n \in GetUint(n)
    <3>1. n \in 0..(Exp2[Width] - 1) => 0 <= n /\ n < 2 * Half
      BY <2>1, WidthIs
    <3> QED
      BY <2>1, <3>1, UintIs
  <2>6. SignedImport(v) = v
    BY <2>1, SignedImportIs
  <2>7. (Abs(n - v) < Exp2[Width - 1] \/ GetInt(n) = {}) => CompareInt(n, v) = Sign(n - v)
    BY <2>1, CompareIs DEF Half
  <2>8. \A q \in Divide(n, v) : Abs(n - q * v) < Abs(v) /\ Sign(n - q * v) \in {0, Sign(n)}
    BY <2>1, <2>2, RemainderIs
  <2>9. Export(n) \in Seq(Nat) /\ Import(Export(n)) = Abs(n)
    BY <2>1, ExportIs
  <2>10. IsWord(Export(n), WordSize) =>
           /\ Len(WriteWord(Export(n), WordSize)) = WordSize
           /\ Import(WriteWord(Export(n), WordSize)) = Abs(n)
    BY <2>9, WordIs
  <2>11. BigIntFromJson(JsonInt(n)) = (IF n \in Machine \cup 0..(Exp2[Width] - 1) THEN {n} ELSE {})
    BY <2>1, JsonIntIs
  <2>12. /\ BigIntFromJson(JsonDecimal(n)) = {n}
         /\ n >= 0 => BigIntFromJson(JsonSymbols("0x", EncodeHex(Export(n)))) = {n}
    BY <2>1, JsonStringsAre
  <2> QED
    BY <2>3, <2>4, <2>5, <2>6, <2>7, <2>8, <2>9, <2>10, <2>11, <2>12
<1>3. NumbersAreKept /\ UNCHANGED input => NumbersAreKept'
  BY DEF NumbersAreKept
<1> QED
  BY <1>1, <1>2, <1>3, PTL DEF Spec
=============================================================================
