------------------------------ MODULE JsonApi ------------------------------
(***************************************************************************)
(* make_transaction_from_json() (multy_core/src/api/json_api_impl.cpp): an *)
(* account, a builder, the properties of the builder, the transaction, its *)
(* fee and its properties, one after the other; the first exception ends   *)
(* it.  Each may throw: which requests make it throw is left open.  Locals *)
(* are destroyed in the reverse of the order they were made in.            *)
(*                                                                         *)
(* The definitions named Wrong... are mistakes this code could have made:  *)
(* the properties are checked to notice each of them.                      *)
(***************************************************************************)
EXTENDS ApiCalls

CONSTANT MaxProperties    \* members of a section of the request

ASSUME PropertiesAssumption == MaxProperties \in Nat

(* A request: its chain, the type of its account, how it names the builder *)
(* and how many members each section has; Absent is less than none.  The   *)
(* fee is a part of the transaction.                                       *)
Absent == -1
Sections == {"payload", "fee", "transaction"}
Requests == {r \in [chain: Chains, type: {"default", "segwit"}, way: {"number", "name"},
                    members: [Sections -> Absent..MaxProperties]] :
                /\ r.members["payload"] # Absent
                /\ r.members["transaction"] = Absent => r.members["fee"] = Absent}
NoneSet == [s \in Sections |-> 0]

(* The locals are places of the heap, in the order they were made. *)
Running(r) == [stage |-> "account", request |-> r, locals |-> <<>>, set |-> NoneSet, error |-> "none"]

Start == /\ json = Idle
         /\ \E r \in Requests : json' = Running(r)
         /\ last' = Ok
         /\ UNCHANGED <<heap, held>>

(* Any statement may throw; the scope is JSON unless there was one. *)
Throw == /\ json.stage # "return"
         /\ \E thrown \in {"none", "PROPERTIES", "TRANSACTION"} :
              json' = [json EXCEPT !.stage = "return",
                                   !.error = Scoped("JSON_API_TRANSACTION", thrown)]
         /\ UNCHANGED <<heap, held, last>>

Make(o, stage) ==
    \E new \in Places :
        /\ heap' = [heap EXCEPT ![new] = o]
        /\ json' = [json EXCEPT !.stage = stage, !.locals = Append(@, new)]
        /\ UNCHANGED <<held, last>>

Proceed(stage) == json' = [json EXCEPT !.stage = stage] /\ UNCHANGED <<heap, held, last>>

(* from_string<Blockchain>() throws for a chain it cannot name. *)
MakeAccount ==
    /\ json.stage = "account"
    /\ IsNamed(json.request.chain)
    /\ \E account \in Accounts(json.request.chain) :
         account.type = json.request.type /\ Make(account, "builder")

MakeBuilder ==
    /\ json.stage = "builder"
    /\ HasBuilder(json.request.chain, json.request.way)
    /\ Make(Object("builder", json.request.chain, json.request.type, {Last(json.locals)}), "payload")

(* set_properties(): one member after the other. *)
WrongMembersLeft(section) == json.set[section] + 1 < json.request.members[section]
MembersLeft(section) == json.set[section] < json.request.members[section]
SetNext(section, next) ==
    /\ json.stage = section
    /\ IF MembersLeft(section)
       THEN json' = [json EXCEPT !.set[section] = @ + 1] /\ UNCHANGED <<heap, held, last>>
       ELSE Proceed(next)

SetPayload == SetNext("payload", "make")

(* The builder is destroyed - by free_transaction_builder() - at the end   *)
(* of the expression it is a temporary of.                                 *)
MakeTransaction ==
    LET builder == Last(json.locals) IN
    /\ json.stage = "make"
    /\ \E new \in Places, o \in Made(builder) :
         /\ heap' = [Freed(builder) EXCEPT ![new] = o]
         /\ json' = [json EXCEPT !.stage = "fee", !.locals = Append(Front(@), new)]
    /\ UNCHANGED <<held, last>>

SetFee == json.stage = "fee" /\ HasFee(json.request.chain) /\ SetNext("fee", "transaction")

SetTransaction == SetNext("transaction", "encode")

(* encode_serialized_transaction() *)
Encode == json.stage = "encode" /\ Proceed("return")

WrongNextDropped(locals) == 1
NextDropped(locals) == Len(locals)

(* The end of the function, or the unwinding of the stack. *)
Drop ==
    LET next == NextDropped(json.locals) IN
    /\ json.stage = "return" /\ json.locals # <<>>
    /\ heap' = Freed(json.locals[next])
    /\ json' = [json EXCEPT !.locals = RemoveAt(@, next)]
    /\ UNCHANGED <<held, last>>

(* The answer is a copy of the string; the copy may fail. *)
Finish ==
    /\ json.stage = "return" /\ json.locals = <<>>
    /\ json' = Idle
    /\ \/ /\ last' = ErrorOf(IF json.error = "none" THEN "JSON_API_TRANSACTION" ELSE json.error)
          /\ UNCHANGED <<heap, held>>
       \/ /\ json.error = "none"
          /\ last' = Ok
          /\ \E new \in Places : /\ heap' = [heap EXCEPT ![new] = Value]
                                /\ held' = held \cup {new}

Step == \/ Throw \/ MakeAccount \/ MakeBuilder \/ SetPayload \/ MakeTransaction
        \/ SetFee \/ SetTransaction \/ Encode \/ Drop \/ Finish

Next == Call \/ FreeObject \/ Start \/ (json # Idle /\ Step)

Spec == Init /\ [][Next]_vars
-----------------------------------------------------------------------------
Locals == IF json = Idle THEN {} ELSE ToSet(json.locals)

(* Every object is freed by exactly one: by the wallet if it holds it, or  *)
(* by the call that made it.  Whatever of it fails, a JSON request leaves  *)
(* nothing behind, and the wallet frees nothing twice; only a builder that *)
(* was "freed" is nobody's, because free_transaction_builder() does not.   *)
EveryObjectIsOwned ==
    /\ held \cap Locals = {}
    /\ held \cup Locals \subseteq Alive
    /\ \A i \in Alive \ (held \cup Locals) : heap[i].kind = "builder"

(* What make_transaction_builder() says of its object - it "has to be      *)
(* freed by caller with free_transaction_buidler()" - would make of every  *)
(* object that is left one that the wallet or a call still has.            *)
NothingIsLeaked == Alive \subseteq held \cup Locals

(* What a builder or a transaction in use refers to is still there, and is *)
(* an account of its chain: in the wallet, that frees accounts last, and   *)
(* at any moment of a JSON request, during the unwinding of its stack too. *)
ReferencesAreAlive ==
    \A i \in held \cup Locals : \A j \in heap[i].refers :
        heap[j].kind = "account" /\ heap[j].chain = heap[i].chain

(* A JSON request is answered only when every member of its payload, its  *)
(* fee and its properties was set: an error in any of them is never left   *)
(* behind on the way to the answer.                                        *)
AnswersAreComplete ==
    (json # Idle /\ json.stage = "return" /\ json.error = "none") =>
        \A s \in Sections : json.request.members[s] <= json.set[s]
=============================================================================
