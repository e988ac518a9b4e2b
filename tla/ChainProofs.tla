---------------------------- MODULE ChainProofs ----------------------------
(***************************************************************************)
(* Theorems about ChainTransactions, for any accounts, amounts, messages,  *)
(* blocks and time zone: what a transaction that is sent transfers, when   *)
(* it expires, and what its signature covers.                              *)
(***************************************************************************)
EXTENDS ChainTransactions, SumProofs

Margin == IF chain = "EOS" THEN ConfirmTime ELSE 0

(* While an explicit expiration is set, the variable beside it is its      *)
(* instant: recomputing it must leave it alone.                            *)
DeadlineInv ==
    expiration.isSet =>
        /\ expiration.value \in Times /\ IsTime(expiration.value, Offset)
        /\ expires = ParseTime(expiration.value, Offset) + Margin

(* The duration is one the predicate accepted, or the initial one. *)
ClockInv ==
    /\ chain \in {"EOS", "Golos"}
    /\ clock \in Int
    /\ duration \in PropertyOf(Int) /\ duration.value >= MinDuration

IInv == ClockInv /\ DeadlineInv /\ SentExpiresAsAsked /\ SignatureIsOfWhatIsSent
-----------------------------------------------------------------------------
(* What fits a word is written as it is. *)
LEMMA CutKeeps ==
    ASSUME NEW n, NEW bits, 2^bits \in Nat, n \in 0..(2^bits - 1)
    PROVE  Cut(n, bits) = n
<1> DEFINE k == 2^bits
<1>1. k \in Nat /\ n \in Int /\ 0 <= n /\ n < k
  OBVIOUS
<1>2. \A j \in Nat : n < j => n % j = n
  BY <1>1
<1> QED
  BY <1>1, <1>2 DEF Cut

LEMMA InitHolds == Init => IInv
BY ClockAssumption DEF Init, IInv, ClockInv, DeadlineInv, SentExpiresAsAsked, SignatureIsOfWhatIsSent,
   Never, Nothing, PropertyOf, MinDuration

(* An edit that says nothing of times forgets what was sent. *)
LEMMA EditHolds ==
    ASSUME IInv, Modified, UNCHANGED duration, UNCHANGED <<expiration, expires>>
    PROVE  IInv'
BY DEF IInv, ClockInv, DeadlineInv, Margin, SentExpiresAsAsked, SignatureIsOfWhatIsSent, Modified, Nothing

(* A call that throws leaves everything. *)
LEMMA StutterHolds ==
    ASSUME IInv, UNCHANGED vars
    PROVE  IInv'
BY DEF IInv, ClockInv, DeadlineInv, Margin, SentExpiresAsAsked, SignatureIsOfWhatIsSent, Instant,
   IsEosWritable, BlockIsKnown, EosContent, Actions, Transfer, vars, parts, made

(* Giving a property a value, or resetting it. *)
LEMMA ValueKept ==
    ASSUME NEW p \in PropertyOf(Int), NEW v \in Int
    PROVE  /\ Given(v) \in PropertyOf(Int) /\ Given(v).value = v
           /\ Forgotten(p) \in PropertyOf(Int) /\ Forgotten(p).value = p.value
BY DEF Given, Forgotten, PropertyOf

(* The edits that change a time, one by one. *)
LEMMA TimeEditHolds ==
    ASSUME IInv,
           \/ \E t \in Times : SetExpiration(t)
           \/ ResetExpiration
           \/ \E d \in Durations : SetDuration(d)
    PROVE  IInv'
<1> USE DEF IInv, ClockInv, DeadlineInv, Margin, SentExpiresAsAsked, SignatureIsOfWhatIsSent, Modified, Nothing
<1>1. ASSUME NEW t \in Times, SetExpiration(t) PROVE IInv'
  BY <1>1, StutterHolds DEF SetExpiration, Rejected, Given
<1>2. CASE ResetExpiration
  BY <1>2 DEF ResetExpiration, Forgotten
<1>3. ASSUME NEW d \in Durations, SetDuration(d) PROVE IInv'
  <2>1. CASE ~VerifyBiggerThan(d, MinDuration)
    BY <1>3, <2>1, StutterHolds DEF SetDuration, Rejected
  <2>2. CASE VerifyBiggerThan(d, MinDuration)
    <3>1. duration' \in PropertyOf(Int) /\ duration'.value \in {d, duration.value}
      <4>1. duration' = Given(d) \/ duration' = Forgotten(duration)
        BY <1>3, <2>2 DEF SetDuration
      <4>2. duration \in PropertyOf(Int) /\ d \in Int
        BY ClockAssumption
      <4> QED
        BY <4>1, <4>2, ValueKept
    <3>2. d \in Int /\ d >= MinDuration
      BY <2>2, ClockAssumption DEF VerifyBiggerThan, MinDuration
    <3> QED
      BY <1>3, <2>2, <3>1, <3>2 DEF SetDuration
  <2> QED
    BY <2>1, <2>2
<1> QED
  BY <1>1, <1>2, <1>3

(* Time passes: what was sent was sent at its moment. *)
LEMMA TickHolds ==
    ASSUME IInv, Tick
    PROVE  IInv'
BY DEF Tick, IInv, ClockInv, DeadlineInv, Margin, SentExpiresAsAsked, SignatureIsOfWhatIsSent, Instant,
   IsEosWritable, BlockIsKnown, EosContent, Actions, Transfer, parts, made

LEMMA AnyEditHolds ==
    ASSUME IInv, Edit
    PROVE  IInv'
<1>1. CASE AddSource
  BY <1>1, EditHolds, StutterHolds DEF AddSource, Rejected
<1>2. CASE AddDestination
  BY <1>2, EditHolds, StutterHolds DEF AddDestination, Rejected
<1>3. ASSUME NEW a \in Payers, SetSource(a) PROVE IInv'
  BY <1>3, EditHolds DEF SetSource
<1>4. ASSUME NEW a \in Payees, SetDestination(a) PROVE IInv'
  BY <1>4, EditHolds DEF SetDestination
<1>5. ASSUME NEW v \in Amounts, SetAmount(v) PROVE IInv'
  BY <1>5, EditHolds, StutterHolds DEF SetAmount, Rejected
<1>6. ASSUME NEW n \in Messages, SetMessage(n) PROVE IInv'
  BY <1>6, EditHolds, StutterHolds DEF SetMessage, Rejected
<1>7. ASSUME NEW n \in BlockNums, NEW r \in BlockRefs, SetBlock(n, r) PROVE IInv'
  BY <1>7, EditHolds DEF SetBlock
<1>8. CASE GetFee
  BY <1>8, StutterHolds DEF GetFee, Rejected
<1> QED
  BY <1>1, <1>2, <1>3, <1>4, <1>5, <1>6, <1>7, <1>8, TimeEditHolds, TickHolds DEF Edit
-----------------------------------------------------------------------------
(* The calls of EOS touch no time, and sign what they write. *)
LEMMA EosHolds ==
    ASSUME IInv, EosUpdate \/ EosSerialize
    PROVE  IInv'
<1>1. /\ UNCHANGED <<chain, parts, expires, clock>> /\ chain = "EOS"
      /\ MissingPart \in {"NO_SOURCES", "NO_DESTINATIONS", "PROPERTY_NOT_SET", "ok"}
  BY DEF EosUpdate, EosSerialize, MissingPart
<1>2. ClockInv' /\ DeadlineInv'
  BY <1>1 DEF IInv, ClockInv, DeadlineInv, Margin, parts
<1>3. IsEosWritable(Actions)' = IsEosWritable(Actions) /\ EosContent(Actions)' = EosContent(Actions)
  BY <1>1 DEF IsEosWritable, BlockIsKnown, EosContent, Actions, Transfer, parts
<1>4. ASSUME sent' = sent PROVE SentExpiresAsAsked'
  BY <1>1, <1>4 DEF IInv, SentExpiresAsAsked, Instant, parts
<1>5. CASE sent' = sent
  <2>1. status' = "ok" => IsEosWritable(Actions) /\ signature' = EosSignature /\ operations' = Actions
    BY <1>1 DEF EosUpdate, EosSerialize
  <2> QED
    BY <1>1, <1>2, <1>3, <1>4, <1>5, <2>1 DEF IInv, SignatureIsOfWhatIsSent, EosSignature
<1>6. CASE sent' # sent
  <2>1. /\ IsEosWritable(Actions) /\ signature' = EosSignature
        /\ sent' = [made |-> TRUE, content |-> EosContent(Actions),
                    signature |-> EosSignature, at |-> clock]
    BY <1>6 DEF EosUpdate, EosSerialize, made
  <2>2. SignatureIsOfWhatIsSent'
    BY <1>1, <1>3, <2>1 DEF SignatureIsOfWhatIsSent, EosSignature
  <2>3. SentExpiresAsAsked'
    <3>1. sent'.content.expires = Cut(expires, WordBits)
      BY <2>1 DEF EosContent
    <3>2. ASSUME expiration.isSet PROVE Cut(expires, WordBits) = expires
      <4>1. expires \in 0..(2^WordBits - 1)
        BY <1>1, <3>2, TimesAssumption DEF IInv, DeadlineInv, Margin
      <4>2. 2^WordBits \in Nat
        BY TimesAssumption
      <4> QED
        BY <4>1, <4>2, CutKeeps
    <3>3. ASSUME expiration.isSet
          PROVE  expires = Instant(expiration.value) + ConfirmTime
      BY <1>1, <3>3, ClockAssumption, TimesAssumption
      DEF IInv, DeadlineInv, Margin, ParseTime, Mktime, Instant, ConfirmTime
    <3> QED
      BY <1>1, <3>1, <3>2, <3>3 DEF SentExpiresAsAsked, Instant, parts
  <2> QED
    BY <1>2, <2>2, <2>3 DEF IInv
<1> QED
  BY <1>5, <1>6

(* The calls of Golos compute an expiration only if none is set. *)
LEMMA GolosHolds ==
    ASSUME IInv, GolosUpdate \/ GolosSerialize
    PROVE  IInv'
<1>1. UNCHANGED <<chain, parts, clock>> /\ chain = "Golos"
  BY DEF GolosUpdate, GolosSerialize
<1>2. expiration.isSet => expires' = expires
  BY DEF GolosUpdate, GolosSerialize, Expires
<1>3. ClockInv' /\ DeadlineInv'
  BY <1>1, <1>2 DEF IInv, ClockInv, DeadlineInv, Margin, parts
<1>4. SignatureIsOfWhatIsSent'
  BY <1>1 DEF SignatureIsOfWhatIsSent
<1>5. CASE sent' = sent
  BY <1>1, <1>3, <1>4, <1>5 DEF IInv, SentExpiresAsAsked, Instant, parts
<1>6. CASE sent' # sent
  <2>1. /\ GolosVerdict = "ok"
        /\ sent'.at = clock /\ sent'.content.expires = Expires
    <3>1. GolosSerialize
      BY <1>6 DEF GolosUpdate
    <3>2. GolosVerdict = "ok" /\ BlockIsKnown /\ IsFormatted(Operation)
      BY <1>6, <3>1 DEF GolosSerialize, made
    <3>3. sent'.at = clock /\ sent'.content.expires = FormatTime(Expires).fields
      BY <3>1, <3>2 DEF GolosSerialize
    <3> QED
      BY <3>2, <3>3 DEF FormatTime
  <2>2. ~expiration.isSet => duration.isSet
    BY <2>1 DEF GolosVerdict
  <2>3. ASSUME expiration.isSet PROVE Expires = Instant(expiration.value) + 0
    BY <1>1, <2>3, ClockAssumption, TimesAssumption
    DEF IInv, DeadlineInv, Margin, ParseTime, Mktime, Instant, Expires
  <2>4. ASSUME ~expiration.isSet
        PROVE  Expires = clock + duration.value /\ Expires >= clock + MinDuration
    BY <2>4 DEF IInv, ClockInv, PropertyOf, Expires, MinDuration
  <2>5. SentExpiresAsAsked'
    BY <1>1, <2>1, <2>3, <2>4 DEF SentExpiresAsAsked, Instant, parts
  <2> QED
    BY <1>3, <1>4, <2>5 DEF IInv
<1> QED
  BY <1>5, <1>6
-----------------------------------------------------------------------------
(* Whatever the caller edits, and whatever calls fail. *)
THEOREM ChainInvariance == Spec => []IInv
<1>1. IInv /\ [Next]_vars => IInv'
  BY AnyEditHolds, EosHolds, GolosHolds, StutterHolds DEF Next
<1> QED
  BY InitHolds, <1>1, PTL DEF Spec

(* A transaction expires when its caller said: at the time that was given, *)
(* wherever the device is, or that long after serialize() (EosTransaction  *)
(* and GolosTransaction, with the predicate of the expiration).            *)
THEOREM ExpiresAsAsked == Spec => []SentExpiresAsAsked
<1>1. IInv => SentExpiresAsAsked
  BY DEF IInv
<1> QED
  BY <1>1, ChainInvariance, PTL

(* The signature of an EOS transaction is of what it is sent with          *)
(* (EosTransaction::serialize()).                                          *)
THEOREM SignedAsWritten == Spec => []SignatureIsOfWhatIsSent
<1>1. IInv => SignatureIsOfWhatIsSent
  BY DEF IInv
<1> QED
  BY <1>1, ChainInvariance, PTL
-----------------------------------------------------------------------------
(* Fractions of a block's number: what is written differs from it by whole *)
(* multiples of the width.                                                 *)
LEMMA WrittenIsCongruent ==
    ASSUME NEW n \in Int, NEW k \in Nat \ {0}
    PROVE  ((n % k) - n) % k = 0
<1>1. PICK q \in Int, r \in 0..(k - 1) : q = n \div k /\ r = n % k /\ n = k * q + r
  OBVIOUS
<1>2. r - n = k * (-q)
  BY <1>1
<1>3. \A m \in Int : (k * m) % k = 0
  OBVIOUS
<1>4. PICK d \in Int : d = r - n
  BY <1>1
<1>5. d % k = 0
  <2>1. -q \in Int
    BY <1>1
  <2> QED
    BY <1>2, <1>3, <1>4, <2>1
<1> QED
  BY <1>1, <1>4, <1>5

-----------------------------------------------------------------------------
(* Numbers in decimal. *)

Reads(f, s, n) ==
    /\ f[0] = 0
    /\ \A i \in 1..n : f[i] = f[i - 1] * 10 + s[i]

LEMMA ReadingExists ==
    ASSUME NEW s \in Seq(Int)
    PROVE  \E f \in [0..Len(s) -> Int] : Reads(f, s, Len(s))
<1> DEFINE S == {m \in 0..Len(s) : \E f \in [0..m -> Int] : Reads(f, s, m)}
<1>1. Len(s) \in Nat
  OBVIOUS
<1>2. 0 \in S
  <2>1. [i \in 0..0 |-> 0] \in [0..0 -> Int] /\ Reads([i \in 0..0 |-> 0], s, 0)
    BY DEF Reads
  <2> QED
    BY <1>1, <2>1
<1>3. ASSUME NEW m \in 1..Len(s), m - 1 \in S PROVE m \in S
  <2>1. PICK f \in [0..(m - 1) -> Int] : Reads(f, s, m - 1)
    BY <1>3
  <2> DEFINE g == [i \in 0..m |-> IF i = m THEN f[m - 1] * 10 + s[m] ELSE f[i]]
  <2>2. s[m] \in Int /\ m - 1 \in 0..(m - 1) /\ m \in 0..Len(s) /\ m # 0
    BY <1>1
  <2>3. f[m - 1] \in Int
    BY <2>1, <2>2
  <2>4. g \in [0..m -> Int]
    BY <2>1, <2>2, <2>3
  <2>5. g[0] = 0
    BY <2>1, <2>2 DEF Reads
  <2>6. ASSUME NEW i \in 1..m PROVE g[i] = g[i - 1] * 10 + s[i]
    <3>1. i \in 0..m /\ i - 1 \in 0..m /\ i - 1 # m /\ (i # m => i \in 1..(m - 1))
      BY <1>1
    <3>2. g[i - 1] = f[i - 1] /\ g[i] = IF i = m THEN f[m - 1] * 10 + s[m] ELSE f[i]
      BY <3>1
    <3> QED
      BY <2>1, <3>1, <3>2 DEF Reads
  <2>7. Reads(g, s, m)
    BY <2>5, <2>6 DEF Reads
  <2> QED
    BY <2>2, <2>4, <2>7
<1> HIDE DEF S
<1>4. \A m \in 0..Len(s) : m \in S
  BY <1>1, <1>2, <1>3, Induction
<1>5. Len(s) \in S
  BY <1>1, <1>4
<1> QED
  BY <1>5 DEF S

(* Any function that reads the digits from the left gives their number.    *)
LEMMA NumberIsRead ==
    ASSUME NEW s \in Seq(Int), NEW f, Reads(f, s, Len(s))
    PROVE  NumberOf(s) = f[Len(s)]
<1> DEFINE R(g) == g = [i \in 0..Len(s) |-> IF i = 0 THEN 0 ELSE g[i - 1] * 10 + s[i]]
<1> DEFINE v == CHOOSE g : R(g)
<1>1. Len(s) \in Nat
  OBVIOUS
<1>2. PICK h \in [0..Len(s) -> Int] : Reads(h, s, Len(s))
  BY ReadingExists
<1>3. R(h)
  BY <1>1, <1>2 DEF Reads
<1>4. R(v)
  BY <1>3
<1>5. NumberOf(s) = v[Len(s)]
  BY DEF NumberOf
<1>6. PICK r : r = v
  OBVIOUS
<1>7. \A i \in 0..Len(s) : r[i] = IF i = 0 THEN 0 ELSE r[i - 1] * 10 + s[i]
  <2>1. r = [i \in 0..Len(s) |-> IF i = 0 THEN 0 ELSE r[i - 1] * 10 + s[i]]
    BY <1>4, <1>6
  <2> QED
    BY <2>1
<1> HIDE DEF v
<1> DEFINE S == {m \in 0..Len(s) : r[m] = f[m]}
<1>8. 0 \in S
  BY <1>1, <1>7 DEF Reads
<1>9. ASSUME NEW m \in 1..Len(s), m - 1 \in S PROVE m \in S
  <2>1. m \in 0..Len(s) /\ m # 0
    BY <1>1
  <2>2. r[m] = r[m - 1] * 10 + s[m]
    BY <1>7, <2>1
  <2>3. f[m] = f[m - 1] * 10 + s[m]
    BY DEF Reads
  <2> QED
    BY <1>9, <2>1, <2>2, <2>3
<1> HIDE DEF S
<1>10. \A m \in 0..Len(s) : m \in S
  BY <1>1, <1>8, <1>9, Induction
<1>11. r[Len(s)] = f[Len(s)]
  BY <1>1, <1>10 DEF S
<1> QED
  BY <1>5, <1>6, <1>11

(* One more digit. *)
LEMMA NumberOfAppended ==
    ASSUME NEW s \in Seq(Int), NEW d \in Int
    PROVE  NumberOf(Append(s, d)) = NumberOf(s) * 10 + d
<1> DEFINE t == Append(s, d)
<1>1. Len(s) \in Nat /\ t \in Seq(Int) /\ Len(t) = Len(s) + 1 /\ t[Len(s) + 1] = d
  OBVIOUS
<1>2. \A i \in 1..Len(s) : t[i] = s[i]
  OBVIOUS
<1> HIDE DEF t
<1>3. PICK f \in [0..Len(t) -> Int] : Reads(f, t, Len(t))
  BY <1>1, ReadingExists
<1>4. Reads(f, s, Len(s))
  BY <1>1, <1>2, <1>3 DEF Reads
<1>5. NumberOf(t) = f[Len(t)] /\ NumberOf(s) = f[Len(s)]
  BY <1>1, <1>3, <1>4, NumberIsRead
<1>6. f[Len(t)] = f[Len(s)] * 10 + d
  <2>1. Len(t) \in 1..Len(t) /\ Len(t) - 1 = Len(s) /\ t[Len(t)] = d
    BY <1>1
  <2> QED
    BY <1>3, <2>1 DEF Reads
<1> QED
  BY <1>5, <1>6 DEF t

(* Zeroes on the left. *)
LEMMA NumberOfPadded ==
    ASSUME NEW s \in Seq(Int), NEW k \in Nat
    PROVE  Zeroes(k) \o s \in Seq(Int) /\ NumberOf(Zeroes(k) \o s) = NumberOf(s)
<1> DEFINE t == Zeroes(k) \o s
<1>1. Zeroes(k) \in Seq(Int) /\ Len(Zeroes(k)) = k /\ \A i \in 1..k : Zeroes(k)[i] = 0
  BY DEF Zeroes
<1>2. Len(s) \in Nat /\ t \in Seq(Int) /\ Len(t) = k + Len(s)
  BY <1>1
<1>3. /\ \A i \in 1..k : t[i] = 0
      /\ \A i \in (k + 1)..(k + Len(s)) : t[i] = s[i - k]
  BY <1>1, <1>2
<1> HIDE DEF t
<1>4. PICK f \in [0..Len(s) -> Int] : Reads(f, s, Len(s))
  BY ReadingExists
<1> DEFINE g == [i \in 0..Len(t) |-> IF i <= k THEN 0 ELSE f[i - k]]
<1>5. Reads(g, t, Len(t))
  <2>1. g[0] = 0
    BY <1>2
  <2>2. ASSUME NEW i \in 1..Len(t) PROVE g[i] = g[i - 1] * 10 + t[i]
    <3>1. i \in 0..Len(t) /\ i - 1 \in 0..Len(t) /\ i \in Int
      BY <1>2
    <3>2. g[i] = IF i <= k THEN 0 ELSE f[i - k]
      BY <3>1
    <3>3. g[i - 1] = IF i - 1 <= k THEN 0 ELSE f[i - 1 - k]
      BY <3>1
    <3>4. CASE i <= k
      BY <1>3, <3>2, <3>3, <3>4
    <3>5. CASE i > k
      <4>1. i - k \in 1..Len(s) /\ (i - k) - 1 = i - 1 - k
        BY <1>2, <3>5
      <4>2. f[i - k] = f[i - 1 - k] * 10 + s[i - k]
        BY <1>4, <4>1 DEF Reads
      <4>3. t[i] = s[i - k]
        BY <1>2, <1>3, <3>5
      <4>4. i - 1 <= k => f[i - 1 - k] = 0
        <5>1. i - 1 <= k => i - 1 - k = 0
          BY <3>5
        <5> QED
          BY <1>4, <5>1 DEF Reads
      <4> QED
        BY <3>2, <3>3, <3>5, <4>2, <4>3, <4>4
    <3> QED
      BY <3>1, <3>4, <3>5
  <2> QED
    BY <2>1, <2>2 DEF Reads
<1>6. g[Len(t)] = f[Len(s)]
  <2>1. Len(t) \in 0..Len(t)
    BY <1>2
  <2>2. g[Len(t)] = IF Len(t) <= k THEN 0 ELSE f[Len(t) - k]
    BY <2>1
  <2>3. Len(t) <= k => Len(s) = 0
    BY <1>2
  <2>4. f[0] = 0
    BY <1>4 DEF Reads
  <2> QED
    BY <1>2, <2>2, <2>3, <2>4
<1> HIDE DEF g
<1>7. NumberOf(t) = g[Len(t)] /\ NumberOf(s) = f[Len(s)]
  BY <1>2, <1>4, <1>5, NumberIsRead
<1> QED
  BY <1>2, <1>6, <1>7 DEF t

(* A point before the last three digits. *)
LEMMA NumberOfSplit ==
    ASSUME NEW p \in Seq(Int), Len(p) > Places
    PROVE  NumberOf(SubSeq(p, 1, Len(p) - Places)) * 1000
             + NumberOf(SubSeq(p, Len(p) - Places + 1, Len(p))) = NumberOf(p)
<1> DEFINE w == SubSeq(p, 1, Len(p) - Places)
           c == SubSeq(p, Len(p) - Places + 1, Len(p))
<1>1. PICK n \in Nat : n = Len(p) /\ n >= 4
  BY DEF Places
<1>2. w \in Seq(Int) /\ Len(w) = n - 3 /\ \A i \in 1..(n - 3) : w[i] = p[i]
  BY <1>1 DEF Places
<1>3. c \in Seq(Int) /\ Len(c) = 3 /\ c[1] = p[n - 2] /\ c[2] = p[n - 1] /\ c[3] = p[n]
  BY <1>1 DEF Places
<1> HIDE DEF w, c
<1>4. PICK f \in [0..n -> Int] : Reads(f, p, Len(p))
  BY <1>1, ReadingExists
<1>5. PICK g \in [0..3 -> Int] : Reads(g, c, Len(c))
  BY <1>3, ReadingExists
<1>6. Reads(f, w, Len(w))
  <2>1. \A i \in 1..Len(w) : i \in 1..Len(p) /\ w[i] = p[i]
    BY <1>1, <1>2
  <2> QED
    BY <1>4, <2>1 DEF Reads
<1>7. NumberOf(p) = f[n] /\ NumberOf(w) = f[n - 3] /\ NumberOf(c) = g[3]
  BY <1>1, <1>2, <1>3, <1>4, <1>5, <1>6, NumberIsRead
<1>8. PICK x \in Int, y \in Int, z \in Int, v \in Int :
        x = p[n - 2] /\ y = p[n - 1] /\ z = p[n] /\ v = f[n - 3]
  <2>1. n \in 1..Len(p) /\ n - 1 \in 1..Len(p) /\ n - 2 \in 1..Len(p) /\ n - 3 \in 0..n
    BY <1>1
  <2>2. \A i \in 1..Len(p) : p[i] \in Int
    OBVIOUS
  <2> QED
    BY <2>1, <2>2
<1>9. f[n] = v * 1000 + (x * 100 + y * 10 + z)
  <2>1. n \in 1..n /\ n - 1 \in 1..n /\ n - 2 \in 1..n
        /\ (n - 1) - 1 = n - 2 /\ (n - 2) - 1 = n - 3
    BY <1>1
  <2>2. PICK a \in Int, b \in Int, d \in Int : a = f[n - 2] /\ b = f[n - 1] /\ d = f[n]
    <3>1. n - 2 \in 0..n /\ n - 1 \in 0..n /\ n \in 0..n
      BY <1>1
    <3>2. f[n - 2] \in Int /\ f[n - 1] \in Int /\ f[n] \in Int
      BY <3>1
    <3> QED
      BY <3>2
  <2>3. a = v * 10 + x /\ b = a * 10 + y /\ d = b * 10 + z
    BY <1>1, <1>4, <1>8, <2>1, <2>2 DEF Reads
  <2>4. d = v * 1000 + (x * 100 + y * 10 + z)
    BY <2>3
  <2> QED
    BY <2>2, <2>4
<1>10. g[3] = x * 100 + y * 10 + z
  <2>1. Reads(g, c, 3)
    BY <1>3, <1>5
  <2>2. c[1] = x /\ c[2] = y /\ c[3] = z
    BY <1>3, <1>8
  <2>3. PICK a \in Int, b \in Int, d \in Int : a = g[1] /\ b = g[2] /\ d = g[3]
    OBVIOUS
  <2>4. a = 0 * 10 + x /\ b = a * 10 + y /\ d = b * 10 + z
    <3>1. g[0] = 0 /\ \A i \in 1..3 : g[i] = g[i - 1] * 10 + c[i]
      BY <2>1 DEF Reads
    <3>2. g[1] = g[0] * 10 + c[1] /\ g[2] = g[1] * 10 + c[2] /\ g[3] = g[2] * 10 + c[3]
      BY <3>1
    <3> QED
      BY <2>2, <2>3, <3>1, <3>2
  <2>5. d = x * 100 + y * 10 + z
    BY <2>4
  <2> QED
    BY <2>3, <2>5
<1> QED
  BY <1>7, <1>8, <1>9, <1>10 DEF w, c

Writes(f, n) == \A i \in 0..n : f[i] = IF i < 10 THEN <<i>> ELSE Append(f[i \div 10], i % 10)

LEMMA Tenth ==
    ASSUME NEW n \in Nat, n >= 10
    PROVE  n \div 10 \in 0..(n - 1) /\ n % 10 \in 0..9 /\ (n \div 10) * 10 + (n % 10) = n
<1>1. n = 10 * (n \div 10) + (n % 10) /\ n \div 10 \in Int /\ n % 10 \in 0..9
  OBVIOUS
<1>2. \A q \in Int, r \in 0..9 : n = 10 * q + r => q \in 0..(n - 1) /\ q * 10 + r = n
  OBVIOUS
<1> QED
  BY <1>1, <1>2

LEMMA WritingExists ==
    ASSUME NEW n \in Nat
    PROVE  \E f : Writes(f, n)
<1> DEFINE S == {m \in 0..n : \E f : Writes(f, m)}
<1>1. 0 \in S
  <2>1. Writes([i \in 0..0 |-> <<0>>], 0)
    BY DEF Writes
  <2> QED
    BY <2>1
<1>2. ASSUME NEW m \in 1..n, m - 1 \in S PROVE m \in S
  <2>1. PICK f : Writes(f, m - 1)
    BY <1>2
  <2> DEFINE g == [i \in 0..m |-> IF i < 10 THEN <<i>> ELSE Append(f[i \div 10], i % 10)]
  <2>2. ASSUME NEW i \in 0..m, i >= 10 PROVE g[i \div 10] = f[i \div 10]
    <3>1. PICK k \in 0..(m - 1) : k = i \div 10
      BY <2>2, Tenth
    <3>2. k \in 0..m
      OBVIOUS
    <3>3. f[k] = IF k < 10 THEN <<k>> ELSE Append(f[k \div 10], k % 10)
      BY <2>1 DEF Writes
    <3>4. g[k] = IF k < 10 THEN <<k>> ELSE Append(f[k \div 10], k % 10)
      BY <3>2
    <3> QED
      BY <3>1, <3>3, <3>4
  <2>3. ASSUME NEW i \in 0..m PROVE g[i] = IF i < 10 THEN <<i>> ELSE Append(g[i \div 10], i % 10)
    <3>1. g[i] = IF i < 10 THEN <<i>> ELSE Append(f[i \div 10], i % 10)
      OBVIOUS
    <3>2. i < 10 \/ i >= 10
      OBVIOUS
    <3>3. i >= 10 => g[i \div 10] = f[i \div 10]
      BY <2>2
    <3> HIDE DEF g
    <3> QED
      BY <3>1, <3>2, <3>3
  <2>4. Writes(g, m)
    BY <2>3 DEF Writes
  <2> QED
    BY <2>4
<1> HIDE DEF S
<1>3. \A m \in 0..n : m \in S
  BY <1>1, <1>2, Induction
<1> QED
  BY <1>3 DEF S

LEMMA WritingsAgree ==
    ASSUME NEW m \in Nat, NEW n \in 0..m, NEW f, NEW g, Writes(f, n), Writes(g, m)
    PROVE  \A i \in 0..n : f[i] = g[i]
<1> DEFINE T == {i \in 0..n : f[i] # g[i]}
<1> SUFFICES ASSUME T # {} PROVE FALSE
  OBVIOUS
<1>1. PICK i \in T : \A j \in T : i <= j
  <2>1. T \in SUBSET Nat
    OBVIOUS
  <2> QED
    BY <2>1, LeastNatural
<1>2. /\ f[i] = IF i < 10 THEN <<i>> ELSE Append(f[i \div 10], i % 10)
      /\ g[i] = IF i < 10 THEN <<i>> ELSE Append(g[i \div 10], i % 10)
  BY DEF Writes
<1>3. i >= 10
  BY <1>2
<1>4. i \div 10 \in 0..n /\ i \div 10 < i
  BY <1>3, Tenth
<1>5. i \div 10 \notin T
  BY <1>1, <1>4
<1> QED
  BY <1>2, <1>4, <1>5

LEMMA DigitsOfAre ==
    \A n \in Nat : DigitsOf[n] = IF n < 10 THEN <<n>> ELSE Append(DigitsOf[n \div 10], n % 10)
<1> DEFINE R(f) == f = [n \in Nat |-> IF n < 10 THEN <<n>> ELSE Append(f[n \div 10], n % 10)]
<1> DEFINE W(n) == CHOOSE f : Writes(f, n)
<1> DEFINE F == [n \in Nat |-> W(n)[n]]
<1>1. \A n \in Nat : Writes(W(n), n)
  BY WritingExists
<1> HIDE DEF W
<1>2. ASSUME NEW n \in Nat PROVE F[n] = IF n < 10 THEN <<n>> ELSE Append(F[n \div 10], n % 10)
  <2>1. F[n] = IF n < 10 THEN <<n>> ELSE Append(W(n)[n \div 10], n % 10)
    BY <1>1 DEF Writes
  <2>2. ASSUME n >= 10 PROVE W(n)[n \div 10] = F[n \div 10]
    <3>1. PICK k \in Nat : k = n \div 10 /\ k \in 0..n
      BY <2>2, Tenth
    <3>2. W(k)[k] = W(n)[k]
      BY <1>1, <3>1, WritingsAgree
    <3> QED
      BY <3>1, <3>2
  <2> QED
    BY <2>1, <2>2
<1>3. R(F)
  BY <1>2
<1> HIDE DEF F
<1>4. DigitsOf = CHOOSE f : R(f)
  BY DEF DigitsOf
<1>5. R(DigitsOf)
  BY <1>3, <1>4
<1>6. PICK d : d = DigitsOf
  OBVIOUS
<1>7. d = [n \in Nat |-> IF n < 10 THEN <<n>> ELSE Append(d[n \div 10], n % 10)]
  BY <1>5, <1>6
<1>8. \A n \in Nat : d[n] = IF n < 10 THEN <<n>> ELSE Append(d[n \div 10], n % 10)
  BY <1>7
<1> QED
  BY <1>6, <1>8

(* The digits of a number are of that number. *)
LEMMA NumberOfDigits ==
    \A n \in Nat : DigitsOf[n] \in Seq(Int) /\ Len(DigitsOf[n]) >= 1 /\ NumberOf(DigitsOf[n]) = n
<1> DEFINE Good(n) == DigitsOf[n] \in Seq(Int) /\ Len(DigitsOf[n]) >= 1 /\ NumberOf(DigitsOf[n]) = n
<1> DEFINE T == {n \in Nat : ~Good(n)}
<1> SUFFICES ASSUME T # {} PROVE FALSE
  OBVIOUS
<1>1. PICK n \in T : \A j \in T : n <= j
  BY LeastNatural
<1>2. n >= 10
  <2> SUFFICES ASSUME n < 10 PROVE FALSE
    OBVIOUS
  <2>1. n \in Nat /\ DigitsOf[n] = <<n>>
    BY DigitsOfAre
  <2>2. <<n>> \in Seq(Int) /\ Len(<<n>>) = 1 /\ <<n>>[1] = n
    BY <2>1
  <2>3. Reads([i \in 0..1 |-> i * n], <<n>>, 1)
    BY <2>1 DEF Reads
  <2>4. NumberOf(<<n>>) = [i \in 0..1 |-> i * n][1]
    BY <2>2, <2>3, NumberIsRead
  <2>5. [i \in 0..1 |-> i * n][1] = n
    BY <2>1
  <2>6. Good(n)
    BY <2>1, <2>2, <2>4, <2>5
  <2> QED
    BY <2>6
<1>3. PICK k \in Nat, r \in Int : k = n \div 10 /\ r = n % 10 /\ k < n /\ k * 10 + r = n
  BY <1>2, Tenth
<1>4. DigitsOf[n] = Append(DigitsOf[k], r)
  <2>1. n \in Nat /\ ~(n < 10)
    BY <1>2
  <2>2. DigitsOf[n] = Append(DigitsOf[n \div 10], n % 10)
    BY <2>1, DigitsOfAre
  <2> QED
    BY <1>3, <2>2
<1>5. Good(k)
  BY <1>1, <1>3
<1>6. Good(n)
  BY <1>3, <1>4, <1>5, NumberOfAppended
<1> QED
  BY <1>6

(* What Golos writes of an amount reads back as the amount. *)
LEMMA AmountReadsBack ==
    ASSUME NEW n \in Nat
    PROVE  /\ NumberOf(AmountText(n).whole) * 1000 + NumberOf(AmountText(n).fraction) = n
           /\ AmountLength(n) \in Nat
<1> DEFINE d == DigitsOf[n]
           p == Padded(d)
<1>1. d \in Seq(Int) /\ Len(d) >= 1 /\ NumberOf(d) = n
  BY NumberOfDigits
<1> HIDE DEF d
<1>2. p \in Seq(Int) /\ NumberOf(p) = n /\ Len(p) > Places
  <2>1. CASE Len(d) <= Places
    <3>1. PICK k \in Nat : k = Places - Len(d) + 1
      <4>1. Len(d) \in Nat /\ Len(d) <= 3
        BY <1>1, <2>1 DEF Places
      <4>2. 3 - Len(d) + 1 \in Nat
        BY <4>1
      <4> QED
        BY <4>2 DEF Places
    <3>2. p = Zeroes(k) \o d
      BY <2>1, <3>1 DEF Padded
    <3>3. Len(Zeroes(k)) = k /\ Zeroes(k) \in Seq(Int)
      BY DEF Zeroes
    <3>4. Len(Zeroes(k) \o d) = k + Len(d)
      BY <1>1, <3>3
    <3> QED
      BY <1>1, <3>1, <3>2, <3>4, NumberOfPadded DEF Places
  <2>2. CASE Len(d) > Places
    BY <1>1, <2>2 DEF Padded, Places
  <2> QED
    BY <1>1, <2>1, <2>2 DEF Places
<1>3. AmountText(n) = [whole |-> SubSeq(p, 1, Len(p) - Places), fraction |-> SubSeq(p, Len(p) - Places + 1, Len(p))]
  BY DEF AmountText, d
<1> HIDE DEF p
<1>4. NumberOf(AmountText(n).whole) * 1000 + NumberOf(AmountText(n).fraction) = n
  BY <1>2, <1>3, NumberOfSplit
<1>5. Len(AmountText(n).whole) \in Nat /\ Len(AmountText(n).fraction) \in Nat
  <2>1. Len(p) - Places \in Nat /\ Len(p) - Places <= Len(p) /\ Len(p) - Places + 1 >= 1
    BY <1>2 DEF Places
  <2>2. /\ SubSeq(p, 1, Len(p) - Places) \in Seq(Int)
        /\ SubSeq(p, Len(p) - Places + 1, Len(p)) \in Seq(Int)
    BY <1>2, <2>1
  <2> QED
    BY <1>3, <2>2
<1>6. AmountLength(n) = Len(AmountText(n).whole) + 1 + Len(AmountText(n).fraction)
  BY DEF AmountLength
<1>7. AmountLength(n) \in Nat
  <2>1. PICK w \in Nat, c \in Nat : w = Len(AmountText(n).whole) /\ c = Len(AmountText(n).fraction)
    BY <1>5
  <2>2. w + 1 + c \in Nat
    OBVIOUS
  <2> QED
    BY <1>6, <2>1, <2>2
<1> QED
  BY <1>4, <1>7
-----------------------------------------------------------------------------
Words == {r \in Int : r < 2^WordBits}

(* What the predicates let a caller set. *)
FieldsInv ==
    /\ source \in [added: BOOLEAN, address: PropertyOf(Payers \cup {NoAccount})]
    /\ destination \in [added: BOOLEAN, address: PropertyOf(Payees \cup {NoAccount}),
                        amount: PropertyOf(Nat)]
    /\ message \in Message
    /\ blockNum \in PropertyOf(Int)
    /\ blockRef \in PropertyOf(Words)

TransferInv == FieldsInv /\ SentIsTheTransfer

LEMMA TransferInit == Init => TransferInv
<1> SUFFICES ASSUME Init PROVE TransferInv
  OBVIOUS
<1>1. 0 \in Words
  BY TimesAssumption DEF Words
<1> QED
  BY <1>1 DEF Init, TransferInv, FieldsInv, SentIsTheTransfer, PropertyOf, Never, Nothing,
   Message

LEMMA GivenOrForgotten ==
    ASSUME NEW S, NEW p \in PropertyOf(S), NEW v \in S
    PROVE  Given(v) \in PropertyOf(S) /\ Forgotten(p) \in PropertyOf(S)
BY DEF Given, Forgotten, PropertyOf

LEMMA FieldsEdited ==
    ASSUME FieldsInv, Edit
    PROVE  FieldsInv'
<1> USE DEF FieldsInv
<1>1. CASE AddSource
  BY <1>1 DEF AddSource, Rejected, vars, parts
<1>2. CASE AddDestination
  BY <1>2 DEF AddDestination, Rejected, vars, parts
<1>3. ASSUME NEW a \in Payers, SetSource(a) PROVE FieldsInv'
  <2>1. Given(a) \in PropertyOf(Payers \cup {NoAccount})
        /\ Forgotten(source.address) \in PropertyOf(Payers \cup {NoAccount})
    BY GivenOrForgotten
  <2> QED
    BY <1>3, <2>1 DEF SetSource
<1>4. ASSUME NEW a \in Payees, SetDestination(a) PROVE FieldsInv'
  <2>1. /\ Given(a) \in PropertyOf(Payees \cup {NoAccount})
        /\ Forgotten(destination.address) \in PropertyOf(Payees \cup {NoAccount})
        /\ Forgotten(destination.amount) \in PropertyOf(Nat)
    BY GivenOrForgotten
  <2> QED
    BY <1>4, <2>1 DEF SetDestination
<1>5. ASSUME NEW v \in Amounts, SetAmount(v) PROVE FieldsInv'
  <2>1. CASE ~VerifyBiggerThan(v, IF chain = "EOS" THEN 1 ELSE 0)
    BY <1>5, <2>1 DEF SetAmount, Rejected, vars, parts
  <2>2. CASE VerifyBiggerThan(v, IF chain = "EOS" THEN 1 ELSE 0)
    <3>1. v \in Nat
      BY <2>2, NumbersAssumption DEF VerifyBiggerThan
    <3>2. Given(v) \in PropertyOf(Nat)
      BY <3>1 DEF Given, PropertyOf
    <3> QED
      BY <1>5, <2>2, <3>2 DEF SetAmount
  <2> QED
    BY <2>1, <2>2
<1>6. ASSUME NEW n \in Messages, SetMessage(n) PROVE FieldsInv'
  BY <1>6, MessagesAssumption DEF SetMessage, Rejected, vars, parts
<1>7. ASSUME NEW t \in Times, SetExpiration(t) PROVE FieldsInv'
  BY <1>7 DEF SetExpiration, Rejected, vars, parts
<1>8. CASE ResetExpiration
  BY <1>8 DEF ResetExpiration
<1>9. ASSUME NEW d \in Durations, SetDuration(d) PROVE FieldsInv'
  BY <1>9 DEF SetDuration, Rejected, vars, parts
<1>10. ASSUME NEW n \in BlockNums, NEW r \in BlockRefs, SetBlock(n, r) PROVE FieldsInv'
  <2>1. n \in Int /\ r \in Words
    BY NumbersAssumption, BlocksAssumption DEF Words
  <2>2. /\ Given(n) \in PropertyOf(Int) /\ Forgotten(blockNum) \in PropertyOf(Int)
        /\ Given(r) \in PropertyOf(Words) /\ Forgotten(blockRef) \in PropertyOf(Words)
    BY <2>1, GivenOrForgotten
  <2> QED
    BY <1>10, <2>2 DEF SetBlock
<1>11. CASE GetFee
  BY <1>11 DEF GetFee, Rejected, vars, parts
<1>12. CASE Tick
  BY <1>12 DEF Tick, parts
<1> QED
  BY <1>1, <1>2, <1>3, <1>4, <1>5, <1>6, <1>7, <1>8, <1>9, <1>10, <1>11, <1>12 DEF Edit

(* An edit forgets what was sent, or it changed nothing that is sent.      *)
LEMMA EditForgets ==
    ASSUME Edit
    PROVE  sent' = Nothing \/ UNCHANGED <<chain, source, destination, message, blockNum, blockRef, sent>>
BY DEF Edit, AddSource, AddDestination, SetSource, SetDestination, SetAmount, SetMessage, SetExpiration,
   ResetExpiration, SetDuration, SetBlock, GetFee, Tick, Modified, Rejected, vars, parts, made

LEMMA SentIsKept ==
    ASSUME SentIsTheTransfer, UNCHANGED <<chain, source, destination, message, blockNum, blockRef, sent>>
    PROVE  SentIsTheTransfer'
BY DEF SentIsTheTransfer, AmountIn, NumberIn, EosTotalSpent, GolosTotalSpent

(* The block is the one that was given, as far as it is written.           *)
LEMMA BlockIsWritten ==
    ASSUME FieldsInv, BlockIsKnown
    PROVE  /\ blockNum.isSet /\ blockRef.isSet
           /\ ((blockNum.value % 2^HalfBits) - blockNum.value) % 2^HalfBits = 0
<1>1. blockNum.isSet /\ blockRef.isSet /\ blockNum.value \in Int
  BY DEF FieldsInv, BlockIsKnown, Readable, PropertyOf
<1>2. 2^HalfBits \in Nat \ {0}
  BY BlocksAssumption
<1> QED
  BY <1>1, <1>2, WrittenIsCongruent

LEMMA EosSendsTheTransfer ==
    ASSUME FieldsInv, EosSerialize, sent' # sent
    PROVE  SentIsTheTransfer'
<1>1. /\ chain = "EOS" /\ UNCHANGED <<chain, source, destination, message, blockNum, blockRef>>
      /\ MissingPart = "ok" /\ IsEosWritable(Actions) /\ BlockIsKnown
      /\ sent' = [made |-> TRUE, content |-> EosContent(Actions), signature |-> EosSignature, at |-> clock]
  BY DEF EosSerialize, IsEosWritable, parts, made
<1>2. source.added /\ destination.added /\ source.address.isSet /\ destination.address.isSet
  BY <1>1 DEF MissingPart, Readable
<1>3. /\ sent'.content.operations = <<Transfer>>
      /\ sent'.content.blockNum = blockNum.value % 2^HalfBits
      /\ sent'.content.blockRef = Cut(blockRef.value, WordBits)
  BY <1>1 DEF EosContent, Actions, Cut
<1>4. Cut(blockRef.value, WordBits) = blockRef.value
  <2>1. blockRef.value \in Words /\ blockRef.value >= 0
    BY <1>1 DEF FieldsInv, PropertyOf, IsEosWritable
  <2>2. blockRef.value \in 0..(2^WordBits - 1) /\ 2^WordBits \in Nat
    BY <2>1, TimesAssumption DEF Words
  <2> QED
    BY <2>2, CutKeeps
<1> DEFINE op == sent'.content.operations[1]
<1>5. Len(sent'.content.operations) = 1 /\ op = Transfer
  BY <1>3
<1> HIDE DEF op
<1>6. /\ op.from = source.address.value /\ op.to = destination.address.value
      /\ op.memo = message.length /\ op.amount = destination.amount.value
  BY <1>5 DEF Transfer
<1>7. ((sent'.content.blockNum - blockNum.value) % 2^HalfBits) = 0 /\ blockNum.isSet /\ blockRef.isSet
  BY <1>1, <1>3, BlockIsWritten
<1>8. message.length \in Nat
  BY DEF FieldsInv, Message
<1>9. \A i \in DOMAIN sent'.content.operations : sent'.content.operations[i] = op
  BY <1>3, <1>5
<1> DEFINE ops == sent'.content.operations
<1> HIDE DEF ops
<1>10. /\ Len(ops) = 1 /\ ops[1].memo = message.length
       /\ \A i \in DOMAIN ops :
            /\ ops[i].from = source.address.value /\ ops[i].to = destination.address.value
            /\ ops[i].amount = destination.amount.value
            /\ ops[i].memo <= message.length
  BY <1>5, <1>6, <1>8, <1>9 DEF ops, op
<1>11. EosTotalSpent = {destination.amount.value} /\ EosTotalSpent' = EosTotalSpent
  BY <1>1, <1>2 DEF EosTotalSpent
<1>12. sent'.made /\ sent'.content.blockRef = blockRef.value
  BY <1>1, <1>3, <1>4
<1>13. chain' = "EOS" /\ UNCHANGED <<source, destination, message, blockNum, blockRef>>
  BY <1>1
<1>14. \A i \in DOMAIN ops : ops[i].amount \in EosTotalSpent'
  BY <1>10, <1>11
<1> QED
  BY <1>2, <1>7, <1>10, <1>12, <1>13, <1>14 DEF SentIsTheTransfer, AmountIn, NumberIn, ops

(* What is read of an operation: its memo as far as it is there, which is  *)
(* all of it exactly if the whole fits both buffers.                       *)
LEMMA WhatIsKept ==
    ASSUME NEW op, AmountLength(op.amount) \in Nat, op.memo \in Nat, IsFormatted(op)
    PROVE  /\ HasItsEnd(op) <=> AmountLength(op.amount) + op.memo <= Capacity
           /\ HasItsEnd(op) => Kept(op) >= BeforeMemo(op) /\ Least(op.memo, Kept(op) - BeforeMemo(op)) = op.memo
           /\ Least(op.memo, Kept(op) - BeforeMemo(op)) <= op.memo
<1> DEFINE a == AmountLength(op.amount)
           m == op.memo
<1>1. a \in Nat /\ m \in Nat
  OBVIOUS
<1>2. /\ BeforeMemo(op) = OperationHead + a
      /\ Length(op) = OperationHead + a + m + OperationTail
  BY DEF BeforeMemo, Length
<1> HIDE DEF a, m
<1>3. Length(op) \in Nat /\ BeforeMemo(op) \in Nat
  BY <1>1, <1>2, BufferAssumption
<1>4. Length(op) # BufferSize
  BY DEF IsFormatted
<1>5. CASE Length(op) < BufferSize
  <2>1. Printed(Length(op)) = Length(op)
    BY <1>5 DEF Printed
  <2>2. FrameLength(op) = FrameHead + OperationHead + a + m + OperationTail + FrameTail
    BY <1>1, <1>2, <2>1, BufferAssumption DEF FrameLength
  <2>3. HasItsEnd(op) <=> a + m <= Capacity
    BY <1>1, <2>2, BufferAssumption DEF HasItsEnd, Capacity
  <2>4. ASSUME HasItsEnd(op) PROVE Kept(op) = Length(op)
    <3>1. Printed(FrameLength(op)) - FrameHead = Length(op) + FrameTail
      BY <1>1, <1>2, <2>2, <2>4, BufferAssumption DEF HasItsEnd, Printed
    <3> QED
      BY <1>3, <2>1, <3>1, BufferAssumption DEF Kept, Least
  <2>5. ASSUME HasItsEnd(op)
        PROVE  Kept(op) >= BeforeMemo(op) /\ Least(m, Kept(op) - BeforeMemo(op)) = m
    BY <1>1, <1>2, <2>4, <2>5, BufferAssumption DEF Least
  <2>6. Kept(op) \in Int
    BY <1>3, <2>1, <2>2, <1>1, BufferAssumption DEF Kept, Least, Printed
  <2>7. Least(m, Kept(op) - BeforeMemo(op)) <= m
    BY <1>1, <1>3, <2>6 DEF Least
  <2> QED
    BY <2>3, <2>5, <2>7 DEF a, m
<1>6. CASE Length(op) > BufferSize
  <2>1. Printed(Length(op)) = BufferSize - 1
    BY <1>3, <1>6, BufferAssumption DEF Printed
  <2>2. FrameLength(op) = FrameHead + (BufferSize - 1) + FrameTail
    BY <2>1 DEF FrameLength
  <2>3. ~HasItsEnd(op)
    BY <2>2, BufferAssumption DEF HasItsEnd
  <2>4. ~(a + m <= Capacity)
    BY <1>1, <1>2, <1>6, BufferAssumption DEF Capacity
  <2>5. Kept(op) \in Int
    BY <2>1, <2>2, BufferAssumption DEF Kept, Least, Printed
  <2>6. Least(m, Kept(op) - BeforeMemo(op)) <= m
    BY <1>1, <1>3, <2>5 DEF Least
  <2> QED
    BY <2>3, <2>4, <2>6 DEF a, m
<1> QED
  BY <1>3, <1>4, <1>5, <1>6, BufferAssumption

LEMMA GolosSendsTheTransfer ==
    ASSUME FieldsInv, GolosSerialize, sent' # sent
    PROVE  SentIsTheTransfer'
<1>1. /\ chain = "Golos" /\ UNCHANGED <<chain, source, destination, message, blockNum, blockRef>>
      /\ GolosVerdict = "ok" /\ BlockIsKnown /\ IsFormatted(Operation)
  BY DEF GolosSerialize, parts, made
<1>2. source.added /\ destination.added /\ source.address.isSet /\ destination.address.isSet
  BY <1>1 DEF GolosVerdict, MissingPart, Readable
<1>3. sent' = [made |-> TRUE, at |-> clock, ends |-> HasItsEnd(Operation),
               content |-> [blockNum |-> Decimal(blockNum.value % 2^HalfBits),
                            blockRef |-> Decimal(blockRef.value),
                            expires |-> FormatTime(Expires).fields,
                            operations |-> KeptOperations(Operation)]]
  BY <1>1, HalvesAssumption DEF GolosSerialize
<1> DEFINE n == destination.amount.value
           ops == sent'.content.operations
<1>4. n \in Nat /\ message.text \in Nat
  BY DEF FieldsInv, PropertyOf, Message
<1>5. AmountLength(n) \in Nat /\ NumberOf(AmountText(n).whole) * 1000 + NumberOf(AmountText(n).fraction) = n
  BY <1>4, AmountReadsBack
<1>6. /\ Operation.from = source.address.value /\ Operation.to = destination.address.value
      /\ Operation.amount = n /\ Operation.memo = message.text
  BY DEF Operation
<1>7. /\ HasItsEnd(Operation) <=> AmountLength(n) + message.text <= Capacity
      /\ HasItsEnd(Operation) => Kept(Operation) >= BeforeMemo(Operation)
             /\ Least(message.text, Kept(Operation) - BeforeMemo(Operation)) = message.text
      /\ Least(message.text, Kept(Operation) - BeforeMemo(Operation)) <= message.text
  BY <1>1, <1>4, <1>5, <1>6, WhatIsKept
<1> DEFINE op == [from |-> source.address.value, to |-> destination.address.value, amount |-> AmountText(n),
                  memo |-> Least(message.text, Kept(Operation) - BeforeMemo(Operation))]
<1>8. [from |-> Operation.from, to |-> Operation.to, amount |-> AmountText(Operation.amount),
       memo |-> Least(Operation.memo, Kept(Operation) - BeforeMemo(Operation))] = op
  BY <1>6
<1>9. ops = <<op>> \/ (ops = <<>> /\ ~HasItsEnd(Operation))
  <2>1. ops = IF Kept(Operation) < BeforeMemo(Operation) THEN <<>> ELSE <<op>>
    BY <1>3, <1>8 DEF KeptOperations
  <2>2. Kept(Operation) >= BeforeMemo(Operation) => ~(Kept(Operation) < BeforeMemo(Operation))
    <3>1. BeforeMemo(Operation) \in Int
      BY <1>5, <1>6, BufferAssumption DEF BeforeMemo
    <3>2. Length(Operation) \in Int
      BY <1>4, <1>6, <3>1, BufferAssumption DEF Length
    <3>3. Kept(Operation) \in Int
      BY <3>2, BufferAssumption DEF Kept, Least, Printed, FrameLength
    <3> QED
      BY <3>1, <3>3
  <2> HIDE DEF ops, op
  <2> QED
    BY <1>7, <2>1, <2>2
<1>10. /\ op.from = source.address.value /\ op.to = destination.address.value
       /\ op.amount = AmountText(n) /\ op.memo <= message.text
       /\ HasItsEnd(Operation) => op.memo = message.text
  BY <1>7
<1>11. /\ sent'.made /\ sent'.ends = HasItsEnd(Operation)
       /\ sent'.content.blockNum.digits = blockNum.value % 2^HalfBits
       /\ sent'.content.blockRef.digits = blockRef.value
  BY <1>3 DEF Decimal
<1> HIDE DEF op, ops
<1>12. /\ Len(ops) <= 1 /\ \A i \in DOMAIN ops : ops[i] = op
       /\ HasItsEnd(Operation) => Len(ops) = 1 /\ ops[1] = op
  <2>1. \A x, s : s = <<x>> => Len(s) = 1 /\ s[1] = x /\ \A i \in DOMAIN s : s[i] = x
    OBVIOUS
  <2>2. Len(<<>>) = 0 /\ DOMAIN <<>> = {}
    OBVIOUS
  <2> QED
    BY <1>9, <2>1, <2>2
<1>13. ASSUME NEW i \in DOMAIN ops
       PROVE  /\ ops[i].from = source.address.value /\ ops[i].to = destination.address.value
              /\ NumberOf(ops[i].amount.whole) * 1000 + NumberOf(ops[i].amount.fraction) = n
              /\ ops[i].memo <= message.text
  BY <1>5, <1>10, <1>12
<1>14. HasItsEnd(Operation) => Len(ops) = 1 /\ ops[1].memo = message.text
  BY <1>10, <1>12
<1>15. sent'.ends \in BOOLEAN
  BY <1>11 DEF HasItsEnd
<1> QED
  BY <1>1, <1>2, <1>7, <1>11, <1>12, <1>13, <1>14, BlockIsWritten
  DEF SentIsTheTransfer, AmountIn, NumberIn, GolosTotalSpent, ops

LEMMA TransferStep ==
    ASSUME TransferInv, [Next]_vars
    PROVE  TransferInv'
<1> USE DEF TransferInv
<1>1. CASE Edit
  BY <1>1, FieldsEdited, EditForgets, SentIsKept DEF SentIsTheTransfer, Nothing
<1>2. CASE EosUpdate \/ GolosUpdate \/ UNCHANGED vars
  <2>1. UNCHANGED <<chain, source, destination, message, blockNum, blockRef, sent>>
    BY <1>2 DEF EosUpdate, GolosUpdate, parts, vars, made
  <2> QED
    BY <2>1, SentIsKept DEF FieldsInv
<1>3. CASE EosSerialize \/ GolosSerialize
  <2>1. UNCHANGED <<chain, source, destination, message, blockNum, blockRef>>
    BY <1>3 DEF EosSerialize, GolosSerialize, parts
  <2>2. FieldsInv'
    BY <2>1 DEF FieldsInv
  <2> QED
    BY <1>3, <2>1, <2>2, SentIsKept, EosSendsTheTransfer, GolosSendsTheTransfer
<1> QED
  BY <1>1, <1>2, <1>3 DEF Next

(* What is sent is the one transfer that the caller described last,        *)
(* whatever calls failed before, and its amount reads back as the number   *)
(* that was given (EosTransaction::serialize(),                            *)
(* GolosTransaction::serialize()).                                         *)
THEOREM TransferIsSent == Spec => []SentIsTheTransfer
<1>1. TransferInv => SentIsTheTransfer
  BY DEF TransferInv
<1> QED
  BY TransferInit, TransferStep, <1>1, PTL DEF Spec
=============================================================================
