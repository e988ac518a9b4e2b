----------------------------- MODULE ApiProofs -----------------------------
(***************************************************************************)
(* Theorems about what a caller of the API handles.                        *)
(*                                                                         *)
(* JsonApi: for any number of places, chains and members of a request,     *)
(* every object has one owner, refers to what is alive, and a JSON request *)
(* that is answered was carried out.                                       *)
(*                                                                         *)
(* PropertySet, for every set of names and of addresses: the properties    *)
(* that each of these objects keeps never lead to what was freed.          *)
(***************************************************************************)
EXTENDS JsonApi, PropertySet, SequenceTheorems, TLAPS

Kinds == {"empty", "value", "account", "builder", "transaction"}
Types == {"default", "segwit"}
Objects == [kind: Kinds, chain: Blockchains \cup {"none"}, type: Types, refers: SUBSET Ids]

HeapType == heap \in [Ids -> Objects]

(* An object in use refers to accounts that the same one has: what a       *)
(* wallet holds refers to what it holds.                                   *)
HeldInv ==
    /\ held \subseteq Alive
    /\ \A i \in held : heap[i].refers \subseteq held
    /\ \A i \in held : \A j \in heap[i].refers :
         heap[j].kind = "account" /\ heap[j].chain = heap[i].chain

(* A builder that was freed is not in use, and stays.                      *)
LeftInv == \A i \in Alive \ (held \cup Locals) : heap[i].kind = "builder"

(* The locals of a JSON request: nothing, its account, or its account and  *)
(* then what was made of it.                                               *)
IsAccount(i) == heap[i].kind = "account" /\ heap[i].refers = {}
MadeOf(b, a) ==
    /\ a # b
    /\ heap[b].kind # "empty"
    /\ heap[b].refers \subseteq {a}
    /\ heap[b].chain = heap[a].chain
NoLocals == json.locals = <<>>
OneLocal == \E a \in Ids \ held : json.locals = <<a>> /\ IsAccount(a)
TwoLocals == \E a, b \in Ids \ held : json.locals = <<a, b>> /\ IsAccount(a) /\ MadeOf(b, a)
BuilderLocal == TwoLocals /\ heap[json.locals[2]].kind = "builder"

LocalsInv ==
    /\ json.stage = "account" => NoLocals
    /\ json.stage = "builder" => OneLocal /\ heap[json.locals[1]].chain = json.request.chain
    /\ json.stage \in {"payload", "make"} => BuilderLocal
    /\ json.stage \in {"fee", "transaction", "encode"} => TwoLocals
    /\ json.stage = "return" => NoLocals \/ OneLocal \/ TwoLocals

(* The sections that are finished when a request is at a stage. *)
IsSet(s) == json.request.members[s] <= json.set[s]
ProgressInv ==
    /\ json.stage \in {"make", "fee", "transaction", "encode"} => IsSet("payload")
    /\ json.stage \in {"transaction", "encode"} => IsSet("fee")
    /\ json.stage = "encode" => IsSet("transaction")
    /\ json.stage = "return" /\ json.error = "none" =>
         IsSet("payload") /\ IsSet("fee") /\ IsSet("transaction")

Stages == {"account", "builder", "payload", "make", "fee", "transaction", "encode", "return"}
Errors == {"none", "PROPERTIES", "TRANSACTION", "JSON_API_TRANSACTION"}
JsonType == json \in [stage: Stages, request: Requests, locals: Seq(Ids), set: [Sections -> Nat],
                      error: Errors]

JsonInv == json = Idle \/ (JsonType /\ LocalsInv /\ ProgressInv)

IInv == HeapType /\ HeldInv /\ LeftInv /\ JsonInv
-----------------------------------------------------------------------------
(* The invariant has what is promised. *)
LEMMA InvariantImplies == IInv => EveryObjectIsOwned /\ ReferencesAreAlive /\ AnswersAreComplete
<1> SUFFICES ASSUME IInv PROVE EveryObjectIsOwned /\ ReferencesAreAlive /\ AnswersAreComplete
  OBVIOUS
<1>1. CASE json = Idle
  <2>1. Locals = {}
    BY <1>1 DEF Locals
  <2> QED
    BY <1>1, <2>1 DEF IInv, HeldInv, LeftInv, EveryObjectIsOwned, ReferencesAreAlive,
       AnswersAreComplete
<1>2. CASE json # Idle
  <2>1. JsonType /\ LocalsInv /\ ProgressInv
    BY <1>2 DEF IInv, JsonInv
  <2>2. Locals = {json.locals[k] : k \in DOMAIN json.locals}
    BY <1>2 DEF Locals, ToSet
  <2>3. NoLocals \/ OneLocal \/ TwoLocals
    BY <2>1 DEF JsonType, Stages, LocalsInv, BuilderLocal
  <2>4. /\ held \cap Locals = {} /\ Locals \subseteq Alive
        /\ \A i \in Locals : \A j \in heap[i].refers :
             heap[j].kind = "account" /\ heap[j].chain = heap[i].chain
    <3>1. CASE NoLocals
      BY <3>1, <2>2 DEF NoLocals
    <3>2. CASE OneLocal
      <4>1. PICK a \in Ids \ held : json.locals = <<a>> /\ IsAccount(a)
        BY <3>2 DEF OneLocal
      <4>2. Locals = {a}
        BY <4>1, <2>2
      <4> QED
        BY <4>1, <4>2 DEF IsAccount, Alive
    <3>3. CASE TwoLocals
      <4>1. PICK a, b \in Ids \ held : json.locals = <<a, b>> /\ IsAccount(a) /\ MadeOf(b, a)
        BY <3>3 DEF TwoLocals
      <4>2. Locals = {a, b}
        BY <4>1, <2>2
      <4> QED
        BY <4>1, <4>2 DEF IsAccount, MadeOf, Alive
    <3> QED
      BY <2>3, <3>1, <3>2, <3>3
  <2>5. AnswersAreComplete
    BY <2>1 DEF ProgressInv, IsSet, AnswersAreComplete, Sections
  <2> QED
    BY <2>4, <2>5 DEF IInv, HeldInv, LeftInv, EveryObjectIsOwned, ReferencesAreAlive
<1> QED
  BY <1>1, <1>2

(* Initially there is nothing. *)
LEMMA InitHolds == Init => IInv
<1> SUFFICES ASSUME Init PROVE IInv
  OBVIOUS
<1>1. HeapType
  BY DEF Init, Empty, HeapType, Objects, Kinds, Types
<1>2. Alive = {}
  BY DEF Init, Empty, Alive
<1> QED
  BY <1>1, <1>2 DEF Init, IInv, HeldInv, LeftInv, JsonInv
-----------------------------------------------------------------------------
(* A builder is made of an account, a transaction of an account or of a    *)
(* builder.                                                                *)
Sound(f) == /\ f.gives \in {"value", "account", "builder", "transaction", "nothing", "part"}
            /\ f.gives = "builder" => f.on = "account"
            /\ f.gives = "transaction" => f.on \in {"account", "builder"}

LEMMA FunctionsAreSound == \A f \in Functions : Sound(f)
<1>1. \A f \in AccountFunctions : Sound(f)
  BY DEF AccountFunctions, Sound, F
<1>2. \A f \in BuilderFunctions : Sound(f)
  BY DEF BuilderFunctions, Sound, F
<1>3. \A f \in TransactionFunctions : Sound(f)
  BY DEF TransactionFunctions, Sound, F
<1>4. \A f \in ResultFunctions : Sound(f)
  BY DEF ResultFunctions, Sound, F
<1>5. \A f \in PropertiesFunctions : Sound(f)
  BY DEF PropertiesFunctions, Sound, F
<1>6. \A f \in BigIntFunctions : Sound(f)
  BY DEF BigIntFunctions, Sound, F
<1>7. \A f \in ArithmeticFunctions : Sound(f)
  BY DEF ArithmeticFunctions, Sound, F
<1>8. \A f \in KeyFunctions : Sound(f)
  BY DEF KeyFunctions, Sound, F
<1>9. \A f \in MnemonicFunctions : Sound(f)
  BY DEF MnemonicFunctions, Sound, F
<1>10. \A f \in BinaryDataFunctions : Sound(f)
  BY DEF BinaryDataFunctions, Sound, F
<1>11. \A f \in Sha3Functions \cup EthereumFunctions \cup BlockchainFunctions : Sound(f)
  BY DEF Sha3Functions, EthereumFunctions, BlockchainFunctions, Sound, F
<1>12. \A f \in CommonFunctions : Sound(f)
  BY DEF CommonFunctions, Sound, F
<1> QED
  BY <1>1, <1>2, <1>3, <1>4, <1>5, <1>6, <1>7, <1>8, <1>9, <1>10, <1>11, <1>12 DEF Functions

(* Sequences of one and of two elements, which the locals of a request are.*)
LEMMA OfLengthOne ==
    ASSUME NEW S, NEW s \in Seq(S), Len(s) = 1
    PROVE  s = <<s[1]>>
<1>1. s[1] \in S
  BY ElementOfSeq
<1>2. <<s[1]>> \in Seq(S) /\ Len(<<s[1]>>) = 1 /\ \A i \in 1..Len(s) : s[i] = <<s[1]>>[i]
  BY <1>1
<1> QED
  BY <1>2, SeqEqual

LEMMA OfLengthTwo ==
    ASSUME NEW S, NEW s \in Seq(S), Len(s) = 2
    PROVE  s = <<s[1], s[2]>>
<1>1. s[1] \in S /\ s[2] \in S
  BY ElementOfSeq
<1>2. <<s[1], s[2]>> \in Seq(S) /\ Len(<<s[1], s[2]>>) = 2
  BY <1>1
<1>3. \A i \in 1..Len(s) : s[i] = <<s[1], s[2]>>[i]
  OBVIOUS
<1> QED
  BY <1>2, <1>3, SeqEqual

LEMMA OneElement ==
    ASSUME NEW a \in Ids
    PROVE  /\ ToSet(<<>>) = {} /\ ToSet(<<a>>) = {a}
           /\ <<>> \in Seq(Ids) /\ <<a>> \in Seq(Ids)
           /\ Append(<<>>, a) = <<a>> /\ Last(<<a>>) = a /\ RemoveAt(<<a>>, 1) = <<>>
<1>1. ToSet(<<>>) = {} /\ ToSet(<<a>>) = {a}
  BY DEF ToSet
<1>2. <<>> \in Seq(Ids) /\ <<a>> \in Seq(Ids) /\ Len(<<a>>) = 1
  OBVIOUS
<1>3. Append(<<>>, a) \in Seq(Ids) /\ Len(Append(<<>>, a)) = 1 /\ Append(<<>>, a)[1] = a
  OBVIOUS
<1>4. Append(<<>>, a) = <<a>>
  BY <1>3, OfLengthOne
<1>5. SubSeq(<<a>>, 1, 0) = <<>> /\ SubSeq(<<a>>, 2, 1) = <<>>
  BY SubSeqEmpty
<1>6. RemoveAt(<<a>>, 1) = <<>>
  BY <1>2, <1>5, ConcatEmptySeq DEF RemoveAt
<1> QED
  BY <1>1, <1>2, <1>4, <1>6 DEF Last

LEMMA TwoElements ==
    ASSUME NEW a \in Ids, NEW b \in Ids
    PROVE  /\ ToSet(<<a, b>>) = {a, b} /\ <<a, b>> \in Seq(Ids)
           /\ Append(<<a>>, b) = <<a, b>> /\ Last(<<a, b>>) = b
           /\ Front(<<a, b>>) = <<a>> /\ RemoveAt(<<a, b>>, 2) = <<a>>
<1>1. ToSet(<<a, b>>) = {a, b}
  BY DEF ToSet
<1>2. <<a>> \in Seq(Ids) /\ <<a, b>> \in Seq(Ids) /\ Len(<<a, b>>) = 2
  OBVIOUS
<1>3. /\ Append(<<a>>, b) \in Seq(Ids) /\ Len(Append(<<a>>, b)) = 2
      /\ Append(<<a>>, b)[1] = a /\ Append(<<a>>, b)[2] = b
  OBVIOUS
<1>4. Append(<<a>>, b) = <<a, b>>
  BY <1>3, OfLengthTwo
<1>5. /\ SubSeq(<<a, b>>, 1, 1) \in Seq(Ids) /\ Len(SubSeq(<<a, b>>, 1, 1)) = 1
      /\ SubSeq(<<a, b>>, 1, 1)[1] = a
  BY SubSeqProperties
<1>6. SubSeq(<<a, b>>, 1, 1) = <<a>> /\ SubSeq(<<a, b>>, 3, 2) = <<>>
  <2>1. SubSeq(<<a, b>>, 1, 1) = <<a>>
    BY <1>5, OfLengthOne
  <2>2. SubSeq(<<a, b>>, 3, 2) = <<>>
    BY SubSeqEmpty
  <2> QED
    BY <2>1, <2>2
<1>7. <<a>> \o <<>> = <<a>>
  BY <1>2, ConcatEmptySeq
<1>8. Front(<<a, b>>) = <<a>>
  BY <1>2, <1>6 DEF Front
<1>9. RemoveAt(<<a, b>>, 2) = SubSeq(<<a, b>>, 1, 1) \o SubSeq(<<a, b>>, 3, 2)
  BY <1>2 DEF RemoveAt
<1> QED
  BY <1>1, <1>2, <1>4, <1>6, <1>7, <1>8, <1>9 DEF Last

(* A new object is put where there was none. *)
LEMMA PlaceTaken ==
    ASSUME HeapType, NEW new \in Places, NEW o \in Objects, o.kind # "empty",
           heap' = [heap EXCEPT ![new] = o]
    PROVE  /\ HeapType'
           /\ Alive' = Alive \cup {new}
           /\ new \in Ids /\ heap[new].kind = "empty" /\ heap'[new] = o
           /\ \A i \in Ids : i # new => heap'[i] = heap[i]
<1>1. new \in Ids /\ heap[new].kind = "empty"
  BY DEF Places, Alive
<1>2. HeapType' /\ heap'[new] = o /\ \A i \in Ids : i # new => heap'[i] = heap[i]
  BY <1>1 DEF HeapType
<1> QED
  BY <1>1, <1>2 DEF Alive

(* Freeing an object empties its place, unless it is a builder. *)
LEMMA PlaceFreed ==
    ASSUME HeapType, NEW i \in Alive, heap' = Freed(i)
    PROVE  /\ HeapType'
           /\ Alive' \subseteq Alive /\ Alive \ {i} \subseteq Alive'
           /\ i \in Alive' => heap'[i].kind = "builder"
           /\ \A k \in Ids : k # i => heap'[k] = heap[k]
<1>1. i \in Ids /\ Empty \in Objects /\ Empty.kind = "empty"
  BY DEF Alive, Empty, Objects, Kinds, Types
<1>2. CASE heap[i].kind = "builder"
  BY <1>1, <1>2 DEF Freed, Outlives, Alive, HeapType
<1>3. CASE heap[i].kind # "builder"
  <2>1. heap' = [heap EXCEPT ![i] = Empty]
    BY <1>3 DEF Freed, Outlives
  <2>2. HeapType' /\ heap'[i] = Empty /\ \A k \in Ids : k # i => heap'[k] = heap[k]
    BY <1>1, <2>1 DEF HeapType
  <2> QED
    BY <1>1, <2>2 DEF Alive
<1> QED
  BY <1>2, <1>3

(* What a wallet holds is not disturbed by an object that is put somewhere,*)
(* nor by one that is freed and was not held.                              *)
LEMMA HeldUndisturbed ==
    ASSUME HeapType, HeldInv, held' = held, \A i \in held : heap'[i] = heap[i]
    PROVE  HeldInv'
BY DEF HeldInv, Alive, HeapType
-----------------------------------------------------------------------------
(* Whoever fails or gives nothing to free changes nothing but the error. *)
LEMMA UnchangedHolds == IInv /\ UNCHANGED <<heap, held, json>> => IInv'
BY DEF IInv, HeapType, HeldInv, LeftInv, JsonInv, Alive, Locals, JsonType, LocalsInv, ProgressInv,
   NoLocals, OneLocal, TwoLocals, BuilderLocal, IsAccount, MadeOf, IsSet

(* A wallet gets an object when no request is on its way, or at the end of *)
(* one that has destroyed its locals.                                      *)
LEMMA WalletGets ==
    ASSUME IInv, Locals = {}, json' = Idle,
           NEW new \in Places, NEW o \in Objects, o.kind # "empty", o.refers \subseteq held,
           \A j \in o.refers : heap[j].kind = "account" /\ heap[j].chain = o.chain,
           heap' = [heap EXCEPT ![new] = o], held' = held \cup {new}
    PROVE  IInv'
<1>1. HeapType /\ HeldInv /\ LeftInv
  BY DEF IInv
<1>2. /\ HeapType' /\ Alive' = Alive \cup {new}
      /\ new \in Ids /\ heap[new].kind = "empty" /\ heap'[new] = o
      /\ \A i \in Ids : i # new => heap'[i] = heap[i]
  BY <1>1, PlaceTaken
<1>3. held \subseteq Ids /\ new \notin held
  BY <1>1, <1>2 DEF HeldInv, Alive
<1>4. \A i \in held : heap'[i] = heap[i]
  BY <1>2, <1>3
<1>5. HeldInv'
  <2>1. held' \subseteq Alive'
    BY <1>1, <1>2 DEF HeldInv
  <2>2. \A i \in held' : heap'[i].refers \subseteq held
    BY <1>1, <1>2, <1>4 DEF HeldInv
  <2>3. ASSUME NEW i \in held', NEW j \in heap'[i].refers
        PROVE  heap'[j].kind = "account" /\ heap'[j].chain = heap'[i].chain
    BY <1>1, <1>2, <1>4, <2>2, <2>3 DEF HeldInv
  <2> QED
    BY <2>1, <2>2, <2>3 DEF HeldInv
<1>6. LeftInv'
  <2>1. Locals' = {}
    BY DEF Locals
  <2> QED
    BY <1>1, <1>2, <2>1 DEF LeftInv, Alive
<1> QED
  BY <1>2, <1>5, <1>6 DEF IInv, JsonInv

(* What a function gives refers to what the wallet holds. *)
LEMMA GivenIsAnObject ==
    ASSUME HeapType, HeldInv, NEW f \in Functions, NEW i \in Receivers(f),
           f.gives \notin {"nothing", "part"}, NEW o \in Gives(f, i)
    PROVE  /\ o \in Objects /\ o.kind # "empty" /\ o.refers \subseteq held
           /\ \A j \in o.refers : heap[j].kind = "account" /\ heap[j].chain = o.chain
<1>1. Sound(f)
  BY FunctionsAreSound
<1>2. CASE f.gives = "value"
  <2>1. o = Value
    BY <1>2 DEF Gives
  <2> QED
    BY <2>1 DEF Value, Object, Objects, Kinds, Types
<1>3. CASE f.gives = "account"
  <2>1. PICK chain \in Chains : o \in Accounts(chain)
    BY <1>3 DEF Gives
  <2>2. PICK type \in AccountTypes(chain) : o = Object("account", chain, type, {})
    BY <2>1 DEF Accounts
  <2>3. chain \in Blockchains /\ type \in Types
    BY <2>1, <2>2, ChainsAssumption DEF AccountTypes, Types
  <2> QED
    BY <2>2, <2>3 DEF Object, Objects, Kinds
<1>4. CASE f.gives = "builder"
  <2>1. i \in held /\ heap[i].kind = "account"
    BY <1>1, <1>4 DEF Sound, Receivers
  <2>2. i \in Ids /\ heap[i] \in Objects
    BY <2>1 DEF HeldInv, Alive, HeapType
  <2>3. o = Object("builder", heap[i].chain, heap[i].type, {i})
    BY <1>4 DEF Gives
  <2> QED
    BY <2>1, <2>2, <2>3 DEF Object, Objects, Kinds
<1>5. CASE f.gives = "transaction"
  <2>1. i \in held /\ heap[i].kind \in {"account", "builder"}
    BY <1>1, <1>5 DEF Sound, Receivers
  <2>2. i \in Ids /\ heap[i] \in Objects
    BY <2>1 DEF HeldInv, Alive, HeapType
  <2>3. o = TransactionOf(i)
    BY <1>5 DEF Gives, Made
  <2>4. CASE heap[i].kind = "builder"
    <3>1. o = Object("transaction", heap[i].chain, heap[i].type, heap[i].refers)
      BY <2>3, <2>4 DEF TransactionOf
    <3> QED
      BY <2>1, <2>2, <3>1 DEF Object, Objects, Kinds, HeldInv
  <2>5. CASE heap[i].kind = "account"
    <3>1. \/ o = Object("transaction", heap[i].chain, heap[i].type, {i})
          \/ o = Object("transaction", heap[i].chain, heap[i].type, {})
      BY <2>3, <2>5 DEF TransactionOf
    <3> QED
      BY <2>1, <2>2, <2>5, <3>1 DEF Object, Objects, Kinds
  <2> QED
    BY <2>1, <2>4, <2>5
<1> QED
  BY <1>1, <1>2, <1>3, <1>4, <1>5 DEF Sound

(* Any call of the C API, whether it fails or not. *)
LEMMA CallHolds == ASSUME IInv, Call PROVE IInv'
<1>1. json = Idle /\ Locals = {}
  BY DEF Call, Locals
<1>2. PICK f \in Functions, i \in held \cup {"no_object"} :
        \/ Refuse(f) \/ ThrowFrom(f) \/ GiveNull(f, i)
        \/ i \in Receivers(f) /\ Return(f, i)
  BY DEF Call
<1>3. CASE Refuse(f) \/ ThrowFrom(f) \/ GiveNull(f, i)
  BY <1>3, UnchangedHolds DEF Refuse, ThrowFrom, GiveNull, Fail
<1>4. CASE i \in Receivers(f) /\ Return(f, i)
  <2>1. CASE f.gives \in {"nothing", "part"}
    BY <1>4, <2>1, UnchangedHolds DEF Return
  <2>2. CASE f.gives \notin {"nothing", "part"}
    <3>1. PICK new \in Places, o \in Gives(f, i) :
            heap' = [heap EXCEPT ![new] = o] /\ held' = held \cup {new}
      BY <1>4, <2>2 DEF Return
    <3>2. json' = Idle
      BY <1>1, <1>4, <2>2 DEF Return
    <3>3. HeapType /\ HeldInv
      BY DEF IInv
    <3>4. /\ o \in Objects /\ o.kind # "empty" /\ o.refers \subseteq held
          /\ \A j \in o.refers : heap[j].kind = "account" /\ heap[j].chain = o.chain
      BY <1>4, <2>2, <3>1, <3>3, GivenIsAnObject
    <3> QED
      BY <1>1, <3>1, <3>2, <3>4, WalletGets
  <2> QED
    BY <2>1, <2>2
<1> QED
  BY <1>2, <1>3, <1>4

(* The wallet frees what it holds and nothing that it holds refers to. *)
LEMMA FreeObjectHolds == ASSUME IInv, FreeObject PROVE IInv'
<1>1. json = Idle /\ json' = Idle /\ Locals = {} /\ Locals' = {}
  BY DEF FreeObject, Locals
<1>2. PICK i \in held : /\ \A j \in held : i \notin heap[j].refers
                       /\ held' = held \ {i} /\ heap' = Freed(i)
  BY DEF FreeObject
<1>3. HeapType /\ HeldInv /\ LeftInv /\ i \in Alive
  BY <1>2 DEF IInv, HeldInv
<1>4. /\ HeapType' /\ Alive' \subseteq Alive /\ Alive \ {i} \subseteq Alive'
      /\ i \in Alive' => heap'[i].kind = "builder"
      /\ \A k \in Ids : k # i => heap'[k] = heap[k]
  BY <1>2, <1>3, PlaceFreed
<1>5. held \subseteq Ids
  BY <1>3 DEF HeldInv, Alive
<1>6. \A k \in held' : heap'[k] = heap[k]
  BY <1>2, <1>4, <1>5
<1>7. HeldInv'
  <2>1. held' \subseteq Alive'
    BY <1>2, <1>3, <1>4 DEF HeldInv
  <2>2. \A k \in held' : heap'[k].refers \subseteq held'
    BY <1>2, <1>3, <1>6 DEF HeldInv
  <2>3. ASSUME NEW k \in held', NEW j \in heap'[k].refers
        PROVE  heap'[j].kind = "account" /\ heap'[j].chain = heap'[k].chain
    BY <1>2, <1>3, <1>6, <2>2, <2>3 DEF HeldInv
  <2> QED
    BY <2>1, <2>2, <2>3 DEF HeldInv
<1>8. LeftInv'
  <2> SUFFICES ASSUME NEW k \in Alive', k \notin held'
               PROVE  heap'[k].kind = "builder"
    BY <1>1 DEF LeftInv
  <2>1. CASE k = i
    BY <1>4, <2>1
  <2>2. CASE k # i
    BY <1>1, <1>2, <1>3, <1>4, <2>2 DEF LeftInv, Alive
  <2> QED
    BY <2>1, <2>2
<1> QED
  BY <1>1, <1>4, <1>7, <1>8 DEF IInv, JsonInv
-----------------------------------------------------------------------------
(* A statement of a JSON request that makes and destroys nothing. *)
LEMMA JsonProceeds ==
    ASSUME IInv, json # Idle, UNCHANGED <<heap, held>>, JsonType', json'.locals = json.locals,
           LocalsInv', ProgressInv'
    PROVE  IInv'
<1>1. JsonType /\ HeapType /\ HeldInv /\ LeftInv
  BY DEF IInv, JsonInv
<1>2. json' # Idle
  BY DEF JsonType, Stages, Idle
<1>3. Locals' = Locals
  BY <1>2 DEF Locals
<1>4. LeftInv' /\ HeapType' /\ HeldInv'
  BY <1>1, <1>3 DEF LeftInv, HeapType, HeldInv, Alive
<1> QED
  BY <1>4 DEF IInv, JsonInv

(* One that makes an object, a local from now on. *)
LEMMA JsonMakes ==
    ASSUME IInv, held' = held,
           NEW new \in Places, NEW o \in Objects, o.kind # "empty",
           heap' = [heap EXCEPT ![new] = o], new \in Locals',
           \A i \in Locals \ Locals' : heap[i].kind = "builder"
    PROVE  HeapType' /\ HeldInv' /\ LeftInv'
<1>1. HeapType /\ HeldInv /\ LeftInv
  BY DEF IInv
<1>2. /\ HeapType' /\ Alive' = Alive \cup {new}
      /\ new \in Ids /\ heap[new].kind = "empty" /\ heap'[new] = o
      /\ \A i \in Ids : i # new => heap'[i] = heap[i]
  BY <1>1, PlaceTaken
<1>3. \A i \in held : heap'[i] = heap[i]
  BY <1>1, <1>2 DEF HeldInv, Alive
<1>4. HeldInv'
  <2>1. held' \subseteq Alive' /\ \A i \in held' : heap'[i].refers \subseteq held'
    BY <1>1, <1>2, <1>3 DEF HeldInv
  <2>2. ASSUME NEW i \in held', NEW j \in heap'[i].refers
        PROVE  heap'[j].kind = "account" /\ heap'[j].chain = heap'[i].chain
    BY <1>1, <1>3, <2>1, <2>2 DEF HeldInv
  <2> QED
    BY <2>1, <2>2 DEF HeldInv
<1>5. LeftInv'
  BY <1>1, <1>2 DEF LeftInv, Alive
<1> QED
  BY <1>2, <1>4, <1>5

LEMMA StartHolds == ASSUME IInv, Start PROVE IInv'
<1>1. PICK r \in Requests : json' = Running(r)
  BY DEF Start
<1>2. Locals = {} /\ UNCHANGED <<heap, held>>
  BY DEF Start, Locals
<1>3. /\ json'.stage = "account" /\ json'.locals = <<>> /\ json'.request = r
      /\ json' # Idle
  BY <1>1 DEF Running, Idle
<1>4. JsonType'
  BY <1>1 DEF Running, JsonType, Stages, Errors, NoneSet
<1>5. LocalsInv' /\ ProgressInv'
  BY <1>3 DEF LocalsInv, ProgressInv, NoLocals
<1>6. Locals' = {}
  BY <1>3 DEF Locals, ToSet
<1>7. LeftInv' /\ HeapType' /\ HeldInv'
  BY <1>2, <1>6 DEF IInv, LeftInv, HeapType, HeldInv, Alive
<1> QED
  BY <1>4, <1>5, <1>7 DEF IInv, JsonInv

LEMMA ThrowHolds == ASSUME IInv, json # Idle, Throw PROVE IInv'
<1>1. JsonType /\ LocalsInv /\ json.stage # "return"
  BY DEF IInv, JsonInv, Throw
<1>2. PICK thrown \in {"none", "PROPERTIES", "TRANSACTION"} :
        json' = [json EXCEPT !.stage = "return", !.error = Scoped("JSON_API_TRANSACTION", thrown)]
  BY DEF Throw
<1>3. Scoped("JSON_API_TRANSACTION", thrown) \in Errors \ {"none"}
  BY DEF Scoped, Errors
<1>4. /\ JsonType' /\ json'.locals = json.locals /\ json'.stage = "return"
      /\ json'.error # "none" /\ UNCHANGED <<heap, held>>
  BY <1>1, <1>2, <1>3 DEF JsonType, Stages, Throw
<1>5. NoLocals \/ OneLocal \/ TwoLocals
  BY <1>1 DEF JsonType, Stages, LocalsInv, BuilderLocal
<1>6. (NoLocals \/ OneLocal \/ TwoLocals)'
  BY <1>4, <1>5 DEF NoLocals, OneLocal, TwoLocals, IsAccount, MadeOf
<1>7. LocalsInv' /\ ProgressInv'
  BY <1>4, <1>6 DEF LocalsInv, ProgressInv
<1> QED
  BY <1>4, <1>7, JsonProceeds

(* set_properties() of any of the three sections. *)
LEMMA SetNextHolds ==
    ASSUME IInv, json # Idle, NEW section \in Sections, NEW next \in Stages,
           SetNext(section, next),
           \/ section = "payload" /\ next = "make"
           \/ section = "fee" /\ next = "transaction"
           \/ section = "transaction" /\ next = "encode"
    PROVE  IInv'
<1>1. JsonType /\ LocalsInv /\ ProgressInv
  BY DEF IInv, JsonInv
<1>2. json.stage = section /\ UNCHANGED <<heap, held>>
  BY DEF SetNext, Proceed
<1>3. /\ json.request.members \in [Sections -> Int]
      /\ json.set \in [Sections -> Nat]
  BY <1>1, PropertiesAssumption DEF JsonType, Requests, Absent
<1>4. CASE MembersLeft(section)
  <2>1. json' = [json EXCEPT !.set[section] = @ + 1]
    BY <1>4 DEF SetNext
  <2>2. /\ JsonType' /\ json'.locals = json.locals /\ json'.stage = section
        /\ json'.request = json.request
        /\ \A s \in Sections : s # section => json'.set[s] = json.set[s]
    <3> DEFINE after == [json.set EXCEPT ![section] = @ + 1]
    <3>1. after \in [Sections -> Nat] /\ \A s \in Sections : s # section => after[s] = json.set[s]
      BY <1>3
    <3>2. json' = [json EXCEPT !.set = after]
      BY <2>1
    <3> HIDE DEF after
    <3> QED
      BY <1>1, <1>2, <3>1, <3>2 DEF JsonType
  <2>3. LocalsInv'
    BY <1>1, <1>2, <2>2 DEF LocalsInv, NoLocals, OneLocal, TwoLocals, BuilderLocal, IsAccount, MadeOf
  <2>4. ProgressInv'
    BY <1>1, <1>2, <2>2 DEF ProgressInv, IsSet, Sections
  <2> QED
    BY <1>2, <2>2, <2>3, <2>4, JsonProceeds
<1>5. CASE ~MembersLeft(section)
  <2>1. json' = [json EXCEPT !.stage = next]
    BY <1>5 DEF SetNext, Proceed
  <2>2. /\ JsonType' /\ json'.locals = json.locals /\ json'.stage = next
        /\ json'.request = json.request /\ json'.set = json.set
    BY <1>1, <2>1 DEF JsonType
  <2>3. IsSet(section)
    BY <1>3, <1>5 DEF MembersLeft, IsSet
  <2>4. LocalsInv'
    BY <1>1, <1>2, <2>2 DEF LocalsInv, NoLocals, OneLocal, TwoLocals, BuilderLocal, IsAccount, MadeOf
  <2>5. ProgressInv'
    BY <1>1, <1>2, <2>2, <2>3 DEF ProgressInv, IsSet
  <2> QED
    BY <1>2, <2>2, <2>4, <2>5, JsonProceeds
<1> QED
  BY <1>4, <1>5

LEMMA EncodeHolds == ASSUME IInv, json # Idle, Encode PROVE IInv'
<1>1. JsonType /\ LocalsInv /\ ProgressInv /\ json.stage = "encode"
  BY DEF IInv, JsonInv, Encode
<1>2. /\ JsonType' /\ json'.locals = json.locals /\ json'.stage = "return"
      /\ json'.request = json.request /\ json'.set = json.set /\ UNCHANGED <<heap, held>>
  BY <1>1 DEF Encode, Proceed, JsonType, Stages
<1>3. LocalsInv'
  BY <1>1, <1>2 DEF LocalsInv, TwoLocals, IsAccount, MadeOf
<1>4. ProgressInv'
  BY <1>1, <1>2 DEF ProgressInv, IsSet
<1> QED
  BY <1>2, <1>3, <1>4, JsonProceeds

LEMMA MakeAccountHolds == ASSUME IInv, json # Idle, MakeAccount PROVE IInv'
<1>1. JsonType /\ NoLocals /\ HeapType /\ json.stage = "account" /\ json.request \in Requests
  BY DEF IInv, JsonInv, LocalsInv, MakeAccount, JsonType
<1>2. PICK account \in Accounts(json.request.chain) : Make(account, "builder")
  BY DEF MakeAccount
<1>3. PICK new \in Places :
        /\ heap' = [heap EXCEPT ![new] = account]
        /\ json' = [json EXCEPT !.stage = "builder", !.locals = Append(@, new)]
        /\ held' = held
  BY <1>2 DEF Make
<1>4. PICK type \in AccountTypes(json.request.chain) :
        account = Object("account", json.request.chain, type, {})
  BY <1>2 DEF Accounts
<1>5. json.request.chain \in Blockchains /\ type \in Types
  BY <1>1, <1>4, ChainsAssumption DEF Requests, AccountTypes, Types
<1>6. /\ account \in Objects /\ account.kind = "account" /\ account.refers = {}
      /\ account.chain = json.request.chain
  BY <1>4, <1>5 DEF Object, Objects, Kinds
<1>7. /\ HeapType' /\ new \in Ids /\ heap'[new] = account /\ heap[new].kind = "empty"
  BY <1>1, <1>3, <1>6, PlaceTaken
<1>8. /\ json'.stage = "builder" /\ json'.request = json.request /\ json'.locals = <<new>>
      /\ JsonType' /\ json' # Idle
  <2>1. Append(<<>>, new) = <<new>> /\ <<new>> \in Seq(Ids)
    BY <1>7, OneElement, TwoElements
  <2> QED
    BY <1>1, <1>3, <2>1 DEF JsonType, Stages, NoLocals, Idle
<1>9. Locals = {} /\ new \in Locals'
  <2>1. ToSet(<<>>) = {} /\ ToSet(<<new>>) = {new}
    BY <1>7, OneElement, TwoElements
  <2> QED
    BY <1>1, <1>8, <2>1 DEF Locals, NoLocals
<1>10. HeapType' /\ HeldInv' /\ LeftInv'
  BY <1>3, <1>6, <1>9, JsonMakes
<1>11. new \notin held
  BY <1>7 DEF IInv, HeldInv, Alive
<1>12. LocalsInv' /\ ProgressInv'
  BY <1>3, <1>6, <1>7, <1>8, <1>11 DEF LocalsInv, ProgressInv, OneLocal, IsAccount
<1> QED
  BY <1>8, <1>10, <1>12 DEF IInv, JsonInv

LEMMA MakeBuilderHolds == ASSUME IInv, json # Idle, MakeBuilder PROVE IInv'
<1>1. /\ JsonType /\ OneLocal /\ heap[json.locals[1]].chain = json.request.chain
      /\ HeapType /\ json.stage = "builder" /\ json.request \in Requests
  BY DEF IInv, JsonInv, LocalsInv, MakeBuilder, JsonType
<1>2. PICK a \in Ids \ held : json.locals = <<a>> /\ IsAccount(a)
  BY <1>1 DEF OneLocal
<1>3. Last(json.locals) = a /\ heap[a].chain = json.request.chain
  <2>1. Last(<<a>>) = a
    BY OneElement
  <2> QED
    BY <1>1, <1>2, <2>1
<1> DEFINE builder == Object("builder", json.request.chain, json.request.type, {a})
<1>4. PICK new \in Places :
        /\ heap' = [heap EXCEPT ![new] = builder]
        /\ json' = [json EXCEPT !.stage = "payload", !.locals = Append(@, new)]
        /\ held' = held
  BY <1>3 DEF MakeBuilder, Make
<1>5. /\ builder \in Objects /\ builder.kind = "builder" /\ builder.refers = {a}
      /\ builder.chain = heap[a].chain
  BY <1>1, <1>2, <1>3, ChainsAssumption DEF Object, Objects, Kinds, Types, Requests
<1> HIDE DEF builder
<1>6. /\ new \in Ids /\ heap'[new] = builder /\ heap[new].kind = "empty"
      /\ \A i \in Ids : i # new => heap'[i] = heap[i]
  BY <1>1, <1>4, <1>5, PlaceTaken
<1>7. new # a /\ heap'[a] = heap[a]
  BY <1>2, <1>6 DEF IsAccount
<1>8. /\ json'.stage = "payload" /\ json'.request = json.request /\ json'.locals = <<a, new>>
      /\ JsonType' /\ json' # Idle
  <2>1. Append(<<a>>, new) = <<a, new>> /\ <<a, new>> \in Seq(Ids)
    BY <1>2, <1>6, OneElement, TwoElements
  <2> QED
    BY <1>1, <1>2, <1>4, <2>1 DEF JsonType, Stages, Idle
<1>9. Locals = {a} /\ Locals' = {a, new}
  <2>1. ToSet(<<a>>) = {a} /\ ToSet(<<a, new>>) = {a, new}
    BY <1>2, <1>6, OneElement, TwoElements
  <2> QED
    BY <1>2, <1>8, <2>1 DEF Locals
<1>10. HeapType' /\ HeldInv' /\ LeftInv'
  BY <1>4, <1>5, <1>9, JsonMakes
<1>11. new \notin held
  BY <1>6 DEF IInv, HeldInv, Alive
<1>12. BuilderLocal'
  BY <1>2, <1>4, <1>5, <1>6, <1>7, <1>8, <1>11 DEF BuilderLocal, TwoLocals, IsAccount, MadeOf
<1>13. LocalsInv' /\ ProgressInv'
  BY <1>8, <1>12 DEF LocalsInv, ProgressInv
<1> QED
  BY <1>8, <1>10, <1>13 DEF IInv, JsonInv

(* The builder is left where it was; the transaction takes its place among *)
(* the locals.                                                             *)
LEMMA MakeTransactionHolds == ASSUME IInv, json # Idle, MakeTransaction PROVE IInv'
<1>1. /\ JsonType /\ BuilderLocal /\ ProgressInv
      /\ HeapType /\ json.stage = "make" /\ json.request \in Requests
  BY DEF IInv, JsonInv, LocalsInv, MakeTransaction, JsonType
<1>2. PICK a, b \in Ids \ held : json.locals = <<a, b>> /\ IsAccount(a) /\ MadeOf(b, a)
  BY <1>1 DEF BuilderLocal, TwoLocals
<1>3. Last(json.locals) = b /\ Front(json.locals) = <<a>> /\ heap[b].kind = "builder"
  <2>1. Last(<<a, b>>) = b /\ Front(<<a, b>>) = <<a>>
    BY TwoElements
  <2> QED
    BY <1>1, <1>2, <2>1 DEF BuilderLocal
<1>4. Freed(b) = heap
  BY <1>3 DEF Freed, Outlives
<1>5. PICK new \in Places, o \in Made(b) :
        /\ heap' = [heap EXCEPT ![new] = o]
        /\ json' = [json EXCEPT !.stage = "fee", !.locals = Append(Front(@), new)]
        /\ held' = held
  BY <1>3, <1>4 DEF MakeTransaction
<1>6. o = Object("transaction", heap[b].chain, heap[b].type, heap[b].refers)
  BY <1>3, <1>5 DEF Made, TransactionOf
<1>7. /\ o \in Objects /\ o.kind = "transaction" /\ o.refers \subseteq {a}
      /\ o.chain = heap[a].chain
  BY <1>1, <1>2, <1>6 DEF MadeOf, Object, Objects, Kinds, HeapType
<1>8. /\ new \in Ids /\ heap'[new] = o /\ heap[new].kind = "empty"
      /\ \A i \in Ids : i # new => heap'[i] = heap[i]
  BY <1>1, <1>5, <1>7, PlaceTaken
<1>9. new # a /\ heap'[a] = heap[a]
  BY <1>2, <1>8 DEF IsAccount
<1>10. /\ json'.stage = "fee" /\ json'.request = json.request /\ json'.set = json.set
       /\ json'.locals = <<a, new>> /\ JsonType' /\ json' # Idle
  <2>1. Append(<<a>>, new) = <<a, new>> /\ <<a, new>> \in Seq(Ids)
    BY <1>2, <1>8, OneElement, TwoElements
  <2> QED
    BY <1>1, <1>3, <1>5, <2>1 DEF JsonType, Stages, Idle
<1>11. Locals = {a, b} /\ Locals' = {a, new}
  <2>1. ToSet(<<a, b>>) = {a, b} /\ ToSet(<<a, new>>) = {a, new}
    BY <1>2, <1>8, OneElement, TwoElements
  <2> QED
    BY <1>2, <1>10, <2>1 DEF Locals
<1>12. HeapType' /\ HeldInv' /\ LeftInv'
  BY <1>3, <1>5, <1>7, <1>11, JsonMakes
<1>13. new \notin held
  BY <1>8 DEF IInv, HeldInv, Alive
<1>14. TwoLocals'
  BY <1>2, <1>5, <1>7, <1>8, <1>9, <1>10, <1>13 DEF TwoLocals, IsAccount, MadeOf
<1>15. LocalsInv' /\ ProgressInv'
  BY <1>1, <1>10, <1>14 DEF LocalsInv, ProgressInv, IsSet
<1> QED
  BY <1>10, <1>12, <1>15 DEF IInv, JsonInv

(* The last of the locals is destroyed: nothing that is left refers to it. *)
LEMMA DropHolds == ASSUME IInv, json # Idle, Drop PROVE IInv'
<1>1. /\ JsonType /\ LocalsInv /\ ProgressInv /\ HeapType /\ HeldInv /\ LeftInv
      /\ json.stage = "return" /\ json.locals # <<>> /\ held' = held
  BY DEF IInv, JsonInv, Drop
<1>2. PICK i \in Ids \ held :
        /\ i \in Alive /\ heap' = Freed(i) /\ i \in Locals /\ Locals' = Locals \ {i}
        /\ json'.stage = "return" /\ json'.request = json.request /\ json'.set = json.set
        /\ json'.error = json.error /\ JsonType' /\ json' # Idle
        /\ \/ json'.locals = <<>>
           \/ \E a \in Ids \ held : a # i /\ json'.locals = <<a>> /\ IsAccount(a)
  <2>1. CASE OneLocal
    <3>1. PICK a \in Ids \ held : json.locals = <<a>> /\ IsAccount(a)
      BY <2>1 DEF OneLocal
    <3>2. /\ RemoveAt(<<a>>, 1) = <<>> /\ <<>> \in Seq(Ids)
          /\ ToSet(<<>>) = {} /\ ToSet(<<a>>) = {a}
      BY <3>1, OneElement, TwoElements
    <3>3. heap' = Freed(a) /\ json' = [json EXCEPT !.locals = <<>>]
      BY <3>1, <3>2 DEF Drop, NextDropped
    <3>4. /\ json'.stage = "return" /\ json'.request = json.request /\ json'.set = json.set
          /\ json'.error = json.error /\ JsonType' /\ json' # Idle /\ json'.locals = <<>>
      BY <1>1, <3>2, <3>3 DEF JsonType, Idle
    <3>5. Locals = {a} /\ Locals' = {}
      BY <3>1, <3>2, <3>4 DEF Locals
    <3> QED
      BY <3>1, <3>3, <3>4, <3>5 DEF IsAccount, Alive
  <2>2. CASE TwoLocals
    <3>1. PICK a, b \in Ids \ held : json.locals = <<a, b>> /\ IsAccount(a) /\ MadeOf(b, a)
      BY <2>2 DEF TwoLocals
    <3>2. /\ RemoveAt(<<a, b>>, 2) = <<a>> /\ <<a>> \in Seq(Ids)
          /\ ToSet(<<a, b>>) = {a, b} /\ ToSet(<<a>>) = {a}
      BY <3>1, OneElement, TwoElements
    <3>3. heap' = Freed(b) /\ json' = [json EXCEPT !.locals = <<a>>]
      BY <3>1, <3>2 DEF Drop, NextDropped
    <3>4. /\ json'.stage = "return" /\ json'.request = json.request /\ json'.set = json.set
          /\ json'.error = json.error /\ JsonType' /\ json' # Idle /\ json'.locals = <<a>>
      BY <1>1, <3>2, <3>3 DEF JsonType, Idle
    <3>5. Locals = {a, b} /\ Locals' = {a} /\ a # b
      BY <3>1, <3>2, <3>4 DEF Locals, MadeOf
    <3> QED
      BY <3>1, <3>3, <3>4, <3>5 DEF MadeOf, Alive
  <2> QED
    BY <1>1, <2>1, <2>2 DEF LocalsInv, NoLocals
<1>3. /\ HeapType' /\ Alive' \subseteq Alive
      /\ i \in Alive' => heap'[i].kind = "builder"
      /\ \A k \in Ids : k # i => heap'[k] = heap[k]
  BY <1>1, <1>2, PlaceFreed
<1>4. \A k \in held : heap'[k] = heap[k]
  BY <1>1, <1>2, <1>3 DEF HeldInv, Alive
<1>5. HeldInv'
  BY <1>1, <1>4, HeldUndisturbed
<1>6. LeftInv'
  <2> SUFFICES ASSUME NEW k \in Alive', k \notin held' \cup Locals'
               PROVE  heap'[k].kind = "builder"
    BY DEF LeftInv
  <2>1. CASE k = i
    BY <1>3, <2>1
  <2>2. CASE k # i
    BY <1>1, <1>2, <1>3, <2>2 DEF LeftInv, Alive
  <2> QED
    BY <2>1, <2>2
<1>7. (NoLocals \/ OneLocal)'
  BY <1>1, <1>2, <1>3 DEF NoLocals, OneLocal, IsAccount
<1>8. LocalsInv' /\ ProgressInv'
  BY <1>1, <1>2, <1>7 DEF LocalsInv, ProgressInv, IsSet
<1> QED
  BY <1>2, <1>3, <1>5, <1>6, <1>8 DEF IInv, JsonInv

LEMMA FinishHolds == ASSUME IInv, json # Idle, Finish PROVE IInv'
<1>1. json.locals = <<>> /\ json' = Idle
  BY DEF Finish
<1>2. Locals = {}
  BY <1>1 DEF Locals, ToSet
<1>3. CASE UNCHANGED <<heap, held>>
  <2>1. Locals' = {}
    BY <1>1 DEF Locals
  <2> QED
    BY <1>1, <1>2, <1>3, <2>1 DEF IInv, JsonInv, LeftInv, HeapType, HeldInv, Alive
<1>4. CASE \E new \in Places : heap' = [heap EXCEPT ![new] = Value] /\ held' = held \cup {new}
  <2>1. Value \in Objects /\ Value.kind # "empty" /\ Value.refers = {}
    BY DEF Value, Object, Objects, Kinds, Types
  <2> QED
    BY <1>1, <1>2, <1>4, <2>1, WalletGets
<1> QED
  BY <1>3, <1>4 DEF Finish
-----------------------------------------------------------------------------
(* Whatever the wallet calls and whatever fails, the invariant holds. *)
THEOREM ApiInvariance == Spec => []IInv
<1>1. Init => IInv
  BY InitHolds
<1>2. IInv /\ [Next]_vars => IInv'
  <2> SUFFICES ASSUME IInv, [Next]_vars PROVE IInv'
    OBVIOUS
  <2>1. CASE Call
    BY <2>1, CallHolds
  <2>2. CASE FreeObject
    BY <2>2, FreeObjectHolds
  <2>3. CASE Start
    BY <2>3, StartHolds
  <2>4. CASE json # Idle /\ Step
    <3>1. CASE Throw
      BY <2>4, <3>1, ThrowHolds
    <3>2. CASE MakeAccount
      BY <2>4, <3>2, MakeAccountHolds
    <3>3. CASE MakeBuilder
      BY <2>4, <3>3, MakeBuilderHolds
    <3>4. CASE SetPayload
      BY <2>4, <3>4, SetNextHolds DEF SetPayload, Sections, Stages
    <3>5. CASE MakeTransaction
      BY <2>4, <3>5, MakeTransactionHolds
    <3>6. CASE SetFee
      BY <2>4, <3>6, SetNextHolds DEF SetFee, Sections, Stages
    <3>7. CASE SetTransaction
      BY <2>4, <3>7, SetNextHolds DEF SetTransaction, Sections, Stages
    <3>8. CASE Encode
      BY <2>4, <3>8, EncodeHolds
    <3>9. CASE Drop
      BY <2>4, <3>9, DropHolds
    <3>10. CASE Finish
      BY <2>4, <3>10, FinishHolds
    <3> QED
      BY <2>4, <3>1, <3>2, <3>3, <3>4, <3>5, <3>6, <3>7, <3>8, <3>9, <3>10 DEF Step
  <2>5. CASE UNCHANGED vars
    BY <2>5, UnchangedHolds DEF vars
  <2> QED
    BY <2>1, <2>2, <2>3, <2>4, <2>5 DEF Next
<1> QED
  BY <1>1, <1>2, PTL DEF Spec

(* Every object has exactly one owner, whatever fails (multy_core/src/api  *)
(* and json_api_impl.cpp): nothing is freed twice or lost but builders.    *)
THEOREM ObjectsAreOwned == Spec => []EveryObjectIsOwned
BY ApiInvariance, InvariantImplies, PTL

(* No object in use refers to an account that was freed (the references of *)
(* ethereum_transaction.cpp and the builders).                             *)
THEOREM NoReferenceDangles == Spec => []ReferencesAreAlive
BY ApiInvariance, InvariantImplies, PTL

(* A JSON request is answered only after every member of it was set.       *)
THEOREM AnsweredIsComplete == Spec => []AnswersAreComplete
BY ApiInvariance, InvariantImplies, PTL
-----------------------------------------------------------------------------
(* Properties: binding a free name to a free address. *)
LEMMA BindStep ==
    ASSUME TypeOK, MapsAreInverse,
           NEW n \in Names, NEW a \in Addresses, NEW t \in Traits, NEW f \in BOOLEAN,
           CanBind(n, a), DoBind(n, a, t, f)
    PROVE  /\ IsMapInto(properties', Names, Binder)
           /\ IsMapInto(nameByValue', Addresses, Names)
           /\ MapsAreInverse'
           /\ DOMAIN properties' = DOMAIN properties \cup {n}
           /\ properties'[n].value = a
           /\ \A m \in DOMAIN properties : properties'[m] = properties[m]
<1>1. NewBinder(a, t, f) \in Binder /\ NewBinder(a, t, f).value = a
  BY DEF NewBinder, Binder
<1>2. /\ IsMapInto(properties', Names, Binder)
      /\ DOMAIN properties' = DOMAIN properties \cup {n}
      /\ properties'[n] = NewBinder(a, t, f)
      /\ \A m \in DOMAIN properties \ {n} : properties'[m] = properties[m]
  BY <1>1 DEF TypeOK, DoBind, IsMapInto, With
<1>3. /\ IsMapInto(nameByValue', Addresses, Names)
      /\ DOMAIN nameByValue' = DOMAIN nameByValue \cup {a}
      /\ nameByValue'[a] = n
      /\ \A b \in DOMAIN nameByValue \ {a} : nameByValue'[b] = nameByValue[b]
  BY DEF TypeOK, DoBind, IsMapInto, With
<1>4. n \notin DOMAIN properties /\ a \notin DOMAIN nameByValue
  BY DEF CanBind
<1>5. MapsAreInverse'
  BY <1>1, <1>2, <1>3, <1>4 DEF MapsAreInverse
<1> QED
  BY <1>1, <1>2, <1>3, <1>4, <1>5

(* Taking a name and the address it is bound to out of both maps. *)
LEMMA UnbindStep ==
    ASSUME TypeOK, MapsAreInverse, NEW n \in DOMAIN properties,
           properties' = Without(properties, n),
           nameByValue' = Without(nameByValue, properties[n].value)
    PROVE  /\ IsMapInto(properties', Names, Binder)
           /\ IsMapInto(nameByValue', Addresses, Names)
           /\ MapsAreInverse'
           /\ DOMAIN properties' = DOMAIN properties \ {n}
           /\ \A m \in DOMAIN properties' :
                properties'[m] = properties[m] /\ properties[m].value # properties[n].value
<1>1. /\ IsMapInto(properties', Names, Binder)
      /\ DOMAIN properties' = DOMAIN properties \ {n}
      /\ \A m \in DOMAIN properties \ {n} : properties'[m] = properties[m]
  BY DEF TypeOK, IsMapInto, Without, Restrict
<1>2. /\ IsMapInto(nameByValue', Addresses, Names)
      /\ DOMAIN nameByValue' = DOMAIN nameByValue \ {properties[n].value}
      /\ \A b \in DOMAIN nameByValue \ {properties[n].value} : nameByValue'[b] = nameByValue[b]
  BY DEF TypeOK, IsMapInto, Without, Restrict
<1>3. \A m \in DOMAIN properties \ {n} : properties[m].value # properties[n].value
  BY DEF MapsAreInverse
<1>4. MapsAreInverse'
  BY <1>1, <1>2, <1>3 DEF MapsAreInverse
<1> QED
  BY <1>1, <1>2, <1>3, <1>4
-----------------------------------------------------------------------------
(* Its inductive invariant: the three facts support each other, the fate of *)
(* a variable being known only through the map that leads to it.            *)
PropertiesInv == TypeOK /\ MapsAreInverse /\ BoundIsAlive /\ CleanKeepsChecked

(* Unbinding by address takes out exactly the binding of that address, and  *)
(* nothing when there is none.                                              *)
LEMMA UnbindByValueStep ==
    ASSUME PropertiesInv, NEW a \in Addresses, DoUnbindByValue(a)
    PROVE  /\ IsMapInto(properties', Names, Binder)
           /\ IsMapInto(nameByValue', Addresses, Names)
           /\ MapsAreInverse'
           /\ \A m \in DOMAIN properties' :
                /\ m \in DOMAIN properties /\ properties'[m] = properties[m]
                /\ properties[m].value # a
           /\ checked' \subseteq checked
           /\ \A m \in checked' : m \in DOMAIN properties => m \in DOMAIN properties'
           /\ a \notin DOMAIN nameByValue => UNCHANGED maps
<1>1. CASE a \in DOMAIN nameByValue
  <2>1. /\ nameByValue[a] \in DOMAIN properties
        /\ properties[nameByValue[a]].value = a
    BY <1>1 DEF PropertiesInv, MapsAreInverse
  <2>2. /\ properties' = Without(properties, nameByValue[a])
        /\ nameByValue' = Without(nameByValue, a)
        /\ checked' = checked \ {nameByValue[a]}
    BY <1>1 DEF DoUnbindByValue
  <2> QED
    BY <1>1, <2>1, <2>2, UnbindStep DEF PropertiesInv
<1>2. CASE a \notin DOMAIN nameByValue
  <2>1. properties' = properties /\ nameByValue' = nameByValue /\ checked' = checked
    BY <1>2 DEF DoUnbindByValue, maps
  <2>2. \A m \in DOMAIN properties : properties[m].value # a
    BY <1>2 DEF PropertiesInv, MapsAreInverse
  <2> QED
    BY <2>1, <2>2 DEF PropertiesInv, TypeOK, MapsAreInverse, maps
<1> QED
  BY <1>1, <1>2

(* An object with nothing bound satisfies it. *)
LEMMA PropertiesInitHolds == PropertiesInit => PropertiesInv
  BY DEF PropertiesInit, PropertiesInv, TypeOK, IsMapInto, MapsAreInverse, BoundIsAlive,
         CleanKeepsChecked

(* A call that binds a variable which is, or becomes, alive. *)
LEMMA BindKeepsInvariant ==
    ASSUME PropertiesInv, NEW n \in Names, NEW a \in Addresses, NEW t \in Traits, NEW f \in BOOLEAN,
           CanBind(n, a), DoBind(n, a, t, f),
           alive \subseteq alive', alive' \subseteq Addresses \ Foreign,
           a \in alive' \cup Foreign
    PROVE  PropertiesInv'
<1>1. /\ IsMapInto(properties', Names, Binder)
      /\ IsMapInto(nameByValue', Addresses, Names)
      /\ MapsAreInverse'
      /\ DOMAIN properties' = DOMAIN properties \cup {n}
      /\ properties'[n].value = a
      /\ \A m \in DOMAIN properties : properties'[m] = properties[m]
  BY BindStep DEF PropertiesInv
<1>2. isDirty' = isDirty /\ checked' = checked /\ result' = "ok"
  BY DEF DoBind
<1>3. BoundIsAlive'
  BY <1>1 DEF PropertiesInv, BoundIsAlive
<1>4. CleanKeepsChecked'
  BY <1>1, <1>2 DEF PropertiesInv, CleanKeepsChecked
<1> QED
  BY <1>1, <1>2, <1>3, <1>4 DEF PropertiesInv, TypeOK

(* A call that takes the binding of an address out, if there is one. *)
LEMMA UnbindKeepsInvariant ==
    ASSUME PropertiesInv, NEW a \in Addresses, DoUnbindByValue(a),
           alive \ {a} \subseteq alive', alive' \subseteq Addresses \ Foreign,
           isDirty' = isDirty, result' \in {"ok", "throws", "false"}
    PROVE  PropertiesInv'
<1>1. /\ IsMapInto(properties', Names, Binder)
      /\ IsMapInto(nameByValue', Addresses, Names)
      /\ MapsAreInverse'
      /\ \A m \in DOMAIN properties' :
            /\ m \in DOMAIN properties /\ properties'[m] = properties[m]
            /\ properties[m].value # a
      /\ checked' \subseteq checked
      /\ \A m \in checked' : m \in DOMAIN properties => m \in DOMAIN properties'
  BY UnbindByValueStep
<1>2. BoundIsAlive'
  BY <1>1 DEF PropertiesInv, BoundIsAlive
<1>3. CleanKeepsChecked'
  BY <1>1 DEF PropertiesInv, CleanKeepsChecked
<1> QED
  BY <1>1, <1>2, <1>3 DEF PropertiesInv, TypeOK

(* A call that only changes what a binder says of its property. *)
LEMMA AssignKeepsInvariant ==
    ASSUME PropertiesInv, NEW n \in DOMAIN properties, NEW b \in Binder,
           b.value = properties[n].value,
           properties' = [properties EXCEPT ![n] = b], nameByValue' = nameByValue,
           alive' = alive, checked' = checked, result' = "ok",
           \/ isDirty' = TRUE
           \/ isDirty' = isDirty /\ b.isSet = properties[n].isSet
    PROVE  PropertiesInv'
<1>1. /\ IsMapInto(properties', Names, Binder)
      /\ DOMAIN properties' = DOMAIN properties
      /\ \A m \in DOMAIN properties : properties'[m].value = properties[m].value
      /\ \A m \in DOMAIN properties \ {n} : properties'[m] = properties[m]
      /\ properties'[n] = b
  BY DEF PropertiesInv, TypeOK, IsMapInto
<1>2. MapsAreInverse'
  BY <1>1 DEF PropertiesInv, MapsAreInverse
<1>3. BoundIsAlive'
  BY <1>1 DEF PropertiesInv, BoundIsAlive
<1>4. CleanKeepsChecked'
  BY <1>1 DEF PropertiesInv, CleanKeepsChecked, TypeOK
<1> QED
  BY <1>1, <1>2, <1>3, <1>4 DEF PropertiesInv, TypeOK

(* A call that changes no binding. *)
LEMMA SameBindings ==
    ASSUME PropertiesInv, UNCHANGED <<maps, isDirty, alive, checked>>,
           result' \in {"ok", "throws", "false"}
    PROVE  PropertiesInv'
  BY DEF PropertiesInv, maps, TypeOK, MapsAreInverse, BoundIsAlive, CleanKeepsChecked

(* An address that holds no Property and is not foreign is bound to nothing. *)
LEMMA DeadIsUnbound ==
    ASSUME PropertiesInv, NEW a, a \notin alive \cup Foreign
    PROVE  a \notin DOMAIN nameByValue
  BY DEF PropertiesInv, BoundIsAlive, MapsAreInverse

(* Every call preserves it. *)
LEMMA PropertiesNextHolds == PropertiesInv /\ [PropertiesNext]_propertiesVars => PropertiesInv'
<1> SUFFICES ASSUME PropertiesInv, [PropertiesNext]_propertiesVars
             PROVE  PropertiesInv'
  OBVIOUS
<1>0. TypeOK
  BY DEF PropertiesInv
<1>1. ASSUME NEW n \in Names, NEW a \in Addresses, NEW t \in Traits, NEW f \in BOOLEAN,
             Bind(n, a, t, f)
      PROVE  PropertiesInv'
  <2>1. CASE CanBind(n, a)
    <3>1. DoBind(n, a, t, f) /\ alive' = alive /\ a \in Foreign
      BY <1>1, <2>1 DEF Bind
    <3> QED
      BY <2>1, <3>1, <1>0, BindKeepsInvariant DEF TypeOK
  <2>2. CASE ~CanBind(n, a)
    BY <1>1, <2>2, SameBindings DEF Bind, CallThrows
  <2> QED
    BY <2>1, <2>2
<1>2. ASSUME NEW n \in Names, NEW a \in Addresses, NEW t \in Traits, NEW f \in BOOLEAN,
             Construct(n, a, t, f)
      PROVE  PropertiesInv'
  <2>1. /\ CanBind(n, a) /\ DoBind(n, a, t, f)
        /\ alive' = alive \cup {a} /\ alive' \subseteq Addresses \ Foreign
    BY <1>0, <1>2 DEF Construct, TypeOK
  <2> QED
    BY <2>1, BindKeepsInvariant
<1>3. ASSUME NEW n \in Names, NEW a \in Addresses, ConstructThrows(n, a)
      PROVE  PropertiesInv'
  <2>1. /\ DoUnbindByValue(a) /\ alive' = alive /\ isDirty' = isDirty
        /\ result' = "throws" /\ alive \subseteq Addresses \ Foreign
    BY <1>0, <1>3 DEF ConstructThrows, TypeOK
  <2> QED
    BY <2>1, UnbindKeepsInvariant
<1>4. ASSUME NEW a \in Addresses, Destroy(a)
      PROVE  PropertiesInv'
  <2>1. /\ DoUnbindByValue(a) /\ alive' = alive \ {a} /\ isDirty' = isDirty
        /\ result' = "ok" /\ alive' \subseteq Addresses \ Foreign
    BY <1>0, <1>4 DEF Destroy, TypeOK
  <2> QED
    BY <2>1, UnbindKeepsInvariant
<1>5. ASSUME NEW n \in Names, Unbind(n)
      PROVE  PropertiesInv'
  <2>1. CASE n \in DOMAIN properties
    <3>1. /\ properties[n].value \in DOMAIN nameByValue
          /\ nameByValue[properties[n].value] = n
          /\ properties[n].value \in Addresses
      BY <2>1, <1>0 DEF PropertiesInv, MapsAreInverse, TypeOK, IsMapInto, Binder
    <3>2. /\ DoUnbindByValue(properties[n].value) /\ result' = "ok"
          /\ isDirty' = isDirty /\ alive' = alive /\ alive \subseteq Addresses \ Foreign
      BY <1>0, <1>5, <2>1, <3>1 DEF Unbind, DoUnbindByValue, TypeOK
    <3> QED
      BY <3>1, <3>2, UnbindKeepsInvariant
  <2>2. CASE n \notin DOMAIN properties
    BY <1>5, <2>2, SameBindings DEF Unbind
  <2> QED
    BY <2>1, <2>2
<1>6. ASSUME NEW n \in Names, NEW ok \in BOOLEAN, SetValue(n, ok)
      PROVE  PropertiesInv'
  <2>1. CASE ok /\ MaySet(n)
    <3> DEFINE b == [properties[n] EXCEPT !.isSet = TRUE]
    <3>1. n \in DOMAIN properties /\ b \in Binder /\ b.value = properties[n].value
      BY <2>1, <1>0 DEF MaySet, TypeOK, IsMapInto, Binder
    <3>2. /\ properties' = [properties EXCEPT ![n] = b] /\ nameByValue' = nameByValue
          /\ alive' = alive /\ checked' = checked /\ result' = "ok" /\ isDirty' = TRUE
      BY <1>6, <2>1 DEF SetValue
    <3> QED
      BY <3>1, <3>2, AssignKeepsInvariant
  <2>2. CASE ~(ok /\ MaySet(n))
    BY <1>6, <2>2, SameBindings DEF SetValue, CallThrows
  <2> QED
    BY <2>1, <2>2
<1>7. ASSUME NEW n \in Names, ResetValue(n)
      PROVE  PropertiesInv'
  <2>1. CASE n \in DOMAIN properties
    <3> DEFINE b == [properties[n] EXCEPT !.isSet = FALSE]
    <3>1. b \in Binder /\ b.value = properties[n].value
      BY <2>1, <1>0 DEF TypeOK, IsMapInto, Binder
    <3>2. /\ properties' = [properties EXCEPT ![n] = b] /\ nameByValue' = nameByValue
          /\ alive' = alive /\ checked' = checked /\ result' = "ok" /\ isDirty' = TRUE
      BY <1>7, <2>1 DEF ResetValue
    <3> QED
      BY <2>1, <3>1, <3>2, AssignKeepsInvariant
  <2>2. CASE n \notin DOMAIN properties
    BY <1>7, <2>2, SameBindings DEF ResetValue, CallThrows
  <2> QED
    BY <2>1, <2>2
<1>8. ASSUME NEW a \in Addresses, NEW t \in Traits, SetTrait(a, t)
      PROVE  PropertiesInv'
  <2>1. CASE a \in DOMAIN nameByValue
    <3> DEFINE n == nameByValue[a]
               b == [properties[n] EXCEPT !.trait = t]
    <3>1. /\ n \in DOMAIN properties /\ b \in Binder
          /\ b.value = properties[n].value /\ b.isSet = properties[n].isSet
      BY <2>1, <1>0 DEF PropertiesInv, MapsAreInverse, TypeOK, IsMapInto, Binder
    <3>2. /\ properties' = [properties EXCEPT ![n] = b] /\ nameByValue' = nameByValue
          /\ alive' = alive /\ checked' = checked /\ result' = "ok" /\ isDirty' = isDirty
      BY <1>8, <2>1, <3>1 DEF SetTrait
    <3> HIDE DEF n, b
    <3> QED
      BY <3>1, <3>2, AssignKeepsInvariant
  <2>2. CASE a \notin DOMAIN nameByValue
    BY <1>8, <2>2, SameBindings DEF SetTrait, CallThrows
  <2> QED
    BY <2>1, <2>2
<1>9. CASE Validate
  <2>1. /\ properties' = properties /\ nameByValue' = nameByValue /\ alive' = alive
        /\ isDirty' = (Unset # {}) /\ checked' = Required \ Unset
        /\ result' \in {"ok", "throws", "false"}
    BY <1>9 DEF Validate, maps
  <2>2. CleanKeepsChecked'
    BY <2>1 DEF CleanKeepsChecked, Required, Unset
  <2> QED
    BY <2>1, <2>2, <1>0
       DEF PropertiesInv, TypeOK, IsMapInto, MapsAreInverse, BoundIsAlive, Required
<1>10. CASE UNCHANGED propertiesVars
  BY <1>0, <1>10, SameBindings DEF propertiesVars, TypeOK, maps
<1> QED
  BY <1>1, <1>2, <1>3, <1>4, <1>5, <1>6, <1>7, <1>8, <1>9, <1>10 DEF PropertiesNext

(* Every reachable state satisfies the inductive invariant. *)
THEOREM PropertiesInvariance == PropertiesSpec => []PropertiesInv
  BY PropertiesInitHolds, PropertiesNextHolds, PTL DEF PropertiesSpec

(* The type invariant of a set of properties. *)
THEOREM PropertiesTypeCorrect == PropertiesSpec => []TypeOK
  BY PropertiesInvariance, PTL DEF PropertiesInv

(* The two maps of bindings always agree. *)
THEOREM MapsAgree == PropertiesSpec => []MapsAreInverse
  BY PropertiesInvariance, PTL DEF PropertiesInv

(* No name leads to a variable that was freed. *)
THEOREM NoDanglingBinding == PropertiesSpec => []BoundIsAlive
  BY PropertiesInvariance, PTL DEF PropertiesInv

(* Clean means that what was validated still holds. *)
THEOREM CleanIsStillValid == PropertiesSpec => []CleanKeepsChecked
  BY PropertiesInvariance, PTL DEF PropertiesInv

(* An exception leaves every binding as it was. *)
THEOREM ThrowingIsHarmless == PropertiesSpec => ThrowingChangesNothing
<1>1. PropertiesInv /\ [PropertiesNext]_propertiesVars
      => [result' = "throws" => UNCHANGED <<maps, isDirty, alive>>]_propertiesVars
  <2> SUFFICES ASSUME PropertiesInv, PropertiesNext, result' = "throws"
               PROVE  UNCHANGED <<maps, isDirty, alive>>
    OBVIOUS
  <2>1. ASSUME NEW n \in Names, NEW a \in Addresses, NEW t \in Traits, NEW f \in BOOLEAN,
               Bind(n, a, t, f) \/ Construct(n, a, t, f)
        PROVE  UNCHANGED <<maps, isDirty, alive>>
    BY <2>1 DEF Bind, Construct, DoBind, CallThrows
  <2>2. ASSUME NEW n \in Names, NEW a \in Addresses, ConstructThrows(n, a)
        PROVE  UNCHANGED <<maps, isDirty, alive>>
    BY <2>2, DeadIsUnbound DEF ConstructThrows, DoUnbindByValue
  <2>3. ASSUME NEW a \in Addresses, Destroy(a) \/ (\E t \in Traits : SetTrait(a, t))
        PROVE  UNCHANGED <<maps, isDirty, alive>>
    BY <2>3 DEF Destroy, SetTrait, CallThrows
  <2>4. ASSUME NEW n \in Names,
               Unbind(n) \/ ResetValue(n) \/ (\E ok \in BOOLEAN : SetValue(n, ok))
        PROVE  UNCHANGED <<maps, isDirty, alive>>
    BY <2>4 DEF Unbind, ResetValue, SetValue, CallThrows
  <2>5. CASE Validate
    BY <2>5 DEF Validate
  <2> QED
    BY <2>1, <2>2, <2>3, <2>4, <2>5 DEF PropertiesNext
<1> QED
  BY <1>1, PropertiesInvariance, PTL DEF PropertiesSpec, ThrowingChangesNothing
=============================================================================
