------------------------------ MODULE ApiCalls ------------------------------
(***************************************************************************)
(* A wallet that calls the C API: who owns each object, what each refers   *)
(* to, and how a call ends.  make_transaction_from_json() is the module    *)
(* JsonApi; it makes and destroys objects of the same kinds.               *)
(*                                                                         *)
(* An object that refers to another does so by a C++ reference.  What is   *)
(* not written in the headers and assumed of the wallet: it passes objects *)
(* that it holds, and frees an account after what refers to it.            *)
(*                                                                         *)
(* The definitions named Wrong... are mistakes this code could have made:  *)
(* the properties are checked to notice each of them.                      *)
(***************************************************************************)
EXTENDS Integers, FiniteSets, SequencesExt, ApiFunctions, Facades

CONSTANTS Ids,       \* places for objects
          Chains     \* the blockchains built in

ASSUME ChainsAssumption == Chains \subseteq Blockchains

VARIABLES
    heap,    \* each place: the kind of the object in it, its chain and type, what it refers to
    held,    \* the objects the wallet has to free
    last,    \* how the last call ended
    json     \* a call of make_transaction_from_json()

vars == <<heap, held, last, json>>

Empty == [kind |-> "empty", chain |-> "none", type |-> "default", refers |-> {}]
Alive == {i \in Ids : heap[i].kind # "empty"}
Places == Ids \ Alive
Object(kind, chain, type, refers) == [kind |-> kind, chain |-> chain, type |-> type, refers |-> refers]
Value == Object("value", "none", "default", {})
Accounts(chain) == {Object("account", chain, type, {}) : type \in AccountTypes(chain)}
Ok == [ok |-> TRUE, scope |-> "none"]
ErrorOf(scope) == [ok |-> FALSE, scope |-> scope]
Idle == [stage |-> "idle"]

(* set_error_scope(): a scope that the error has is kept, and GENERIC sets *)
(* none.                                                                   *)
Scoped(scope, thrown) ==
    IF thrown # "none" THEN thrown ELSE IF scope = "GENERIC" THEN "none" ELSE scope

Init == /\ heap = [i \in Ids |-> Empty]
        /\ held = {}
        /\ last = Ok
        /\ json = Idle
-----------------------------------------------------------------------------
(* A transaction refers to the account, not to the builder that made it.   *)
TransactionOf(i) ==
    Object("transaction", heap[i].chain, heap[i].type,
           IF heap[i].kind = "builder" THEN heap[i].refers
           ELSE IF KeepsAccount(heap[i].chain) THEN {i} ELSE {})

(* What make_transaction() on i gives; that of the builder of EOS gives a  *)
(* null pointer.                                                           *)
Made(i) == IF heap[i].kind = "builder" /\ heap[i].chain = "EOS" THEN {} ELSE {TransactionOf(i)}

(* What a call on i gives. *)
Gives(f, i) ==
    CASE f.gives = "value" -> {Value}
      [] f.gives = "account" -> UNION {Accounts(chain) : chain \in Chains}
      [] f.gives = "builder" -> {Object("builder", heap[i].chain, heap[i].type, {i})}
      [] f.gives = "transaction" -> Made(i)

(* The objects of the wallet that a function may be called on. *)
Receivers(f) ==
    IF f.on = "none" THEN {"no_object"}
    ELSE {i \in held : heap[i].kind \in (IF f.on = "part" THEN {"transaction", "builder"} ELSE {f.on})}

Fail(scope) == last' = ErrorOf(scope) /\ UNCHANGED <<heap, held, json>>

(* An argument that is missing or is not valid: ARG_CHECK, ARG_CHECK_OBJECT. *)
Refuse(f) == f.checks # <<>> /\ Fail("API")

(* The body throws: CATCH_EXCEPTION_RETURN_ERROR. *)
ThrowFrom(f) == \E thrown \in {"none", "PROPERTIES", "TRANSACTION"} : Fail(Scoped(f.scope, thrown))

Return(f, i) ==
    \/ /\ f.gives \in {"nothing", "part"}
       /\ last' = Ok
       /\ UNCHANGED <<heap, held, json>>
    \/ /\ f.gives \notin {"nothing", "part"}
       /\ \E new \in Places, o \in Gives(f, i) :
             /\ heap' = [heap EXCEPT ![new] = o]
             /\ held' = held \cup {new}
       /\ last' = Ok
       /\ UNCHANGED json

(* OUT_CHECK_OBJECT finds the null pointer that the body gave. *)
GiveNull(f, i) == f.gives = "transaction" /\ Made(i) = {} /\ Fail("API")

Call ==
    /\ json = Idle
    /\ \E f \in Functions, i \in held \cup {"no_object"} :
         \/ Refuse(f)
         \/ i \in Receivers(f) /\ (ThrowFrom(f) \/ GiveNull(f, i))
         \/ /\ i \in Receivers(f)
            /\ i \in Ids => f.name \notin Unsupported(heap[i].chain, heap[i].type)
            /\ Return(f, i)

(* The functions free_...(): that of a builder only looks at it.           *)
WrongOutlives(kind) == kind \in {"builder", "transaction"}
Outlives(kind) == kind = "builder"
Freed(i) == IF Outlives(heap[i].kind) THEN heap ELSE [heap EXCEPT ![i] = Empty]

FreeObject ==
    /\ json = Idle
    /\ \E i \in held :
         /\ \A j \in held : i \notin heap[j].refers
         /\ held' = held \ {i}
         /\ heap' = Freed(i)
    /\ last' = Ok
    /\ UNCHANGED json
=============================================================================
