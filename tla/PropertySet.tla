---------------------------- MODULE PropertySet ----------------------------
(***************************************************************************)
(* A Properties object and the variables bound to its names                *)
(* (multy_core/src/api/properties_impl.h and properties_impl.cpp).  Every  *)
(* source, destination, fee, transaction and builder of the library keeps  *)
(* what its caller sets in one of these.                                   *)
(*                                                                         *)
(* Two maps describe the same bindings: from a name to its Binder, which   *)
(* knows the address of the variable, and from an address to its name.     *)
(* They are updated one after the other by several functions, some of      *)
(* which throw in between.  A variable is a member of a Property object,   *)
(* whose destructor unbinds it, or belongs to the caller of bind_property, *)
(* who keeps it alive.  The values themselves are left out: a value that   *)
(* is set is one that the binder accepts or one that it refuses (its type, *)
(* its predicate or its writer throws).                                    *)
(*                                                                         *)
(* The definitions named Wrong... are mistakes this code could have made:  *)
(* the properties are checked to notice each of them.                      *)
(***************************************************************************)
EXTENDS Functions

CONSTANTS
    Names,       \* names of properties
    Addresses,   \* addresses of variables
    Foreign      \* the addresses that do not belong to a Property object

ASSUME ForeignAssumption == Foreign \subseteq Addresses

Traits == {"OPTIONAL", "REQUIRED", "READONLY"}

Binder == [value: Addresses, trait: Traits, functional: BOOLEAN, isSet: BOOLEAN]

VARIABLES
    properties,   \* m_properties: name -> Binder
    nameByValue,  \* m_property_name_by_value: address -> name
    isDirty,      \* m_is_dirty
    alive,        \* the addresses that hold a Property object now
    checked,      \* the names found REQUIRED and set by the last validation
    result        \* how the last call ended

maps == <<properties, nameByValue>>
propertiesVars == <<properties, nameByValue, isDirty, alive, checked, result>>

With(f, x, y) == [z \in DOMAIN f \cup {x} |-> IF z = x THEN y ELSE f[z]]
Without(f, x) == Restrict(f, DOMAIN f \ {x})
-----------------------------------------------------------------------------
PropertiesInit ==
    /\ properties = [n \in {} |-> n]
    /\ nameByValue = [a \in {} |-> a]
    /\ isDirty = TRUE
    /\ alive = {}
    /\ checked = {}
    /\ result = "ok"

CallThrows == result' = "throws" /\ UNCHANGED <<isDirty, checked>>

(* make_property(): the name is inserted, then the address; an address that *)
(* is bound already takes the name out again.                               *)
CanBind(n, a) == n \notin DOMAIN properties /\ a \notin DOMAIN nameByValue

NewBinder(a, trait, functional) ==
    [value |-> a, trait |-> trait, functional |-> functional, isSet |-> FALSE]

WrongDoBind(n, a, trait, functional) ==
    /\ properties' = With(properties, n, NewBinder(a, trait, functional))
    /\ nameByValue' = With(nameByValue, n, a)
    /\ result' = "ok"
    /\ UNCHANGED <<isDirty, checked>>

DoBind(n, a, trait, functional) ==
    /\ properties' = With(properties, n, NewBinder(a, trait, functional))
    /\ nameByValue' = With(nameByValue, a, n)
    /\ result' = "ok"
    /\ UNCHANGED <<isDirty, checked>>

WrongUnbindByValue(a) ==
    /\ nameByValue' = IF a \in DOMAIN nameByValue THEN Without(nameByValue, a) ELSE nameByValue
    /\ UNCHANGED <<properties, checked>>

(* unbind_property_by_value(): by the name this address is known under. *)
DoUnbindByValue(a) ==
    IF a \in DOMAIN nameByValue
    THEN /\ nameByValue' = Without(nameByValue, a)
         /\ properties' = Without(properties, nameByValue[a])
         /\ checked' = checked \ {nameByValue[a]}
    ELSE UNCHANGED <<maps, checked>>

(* bind_property() and bind_functional_property() on a variable of the caller. *)
Bind(n, a, trait, functional) ==
    /\ a \in Foreign
    /\ IF CanBind(n, a) THEN DoBind(n, a, trait, functional) ELSE CallThrows /\ UNCHANGED maps
    /\ UNCHANGED alive

(* The constructor of a PropertyT or FunctionalPropertyT binds its member. *)
Construct(n, a, trait, functional) ==
    /\ a \notin alive \cup Foreign
    /\ CanBind(n, a)
    /\ DoBind(n, a, trait, functional)
    /\ alive' = alive \cup {a}

WrongConstructThrows(n, a) ==
    /\ a \notin alive \cup Foreign
    /\ ~CanBind(n, a)
    /\ IF n \in DOMAIN properties THEN DoUnbindByValue(properties[n].value)
       ELSE UNCHANGED <<maps, checked>>
    /\ result' = "throws"
    /\ UNCHANGED <<isDirty, alive>>

(* When it throws, the destructor of the base class runs and unbinds. *)
ConstructThrows(n, a) ==
    /\ a \notin alive \cup Foreign
    /\ ~CanBind(n, a)
    /\ DoUnbindByValue(a)
    /\ result' = "throws"
    /\ UNCHANGED <<isDirty, alive>>

WrongDestroy(a) ==
    /\ a \in alive
    /\ alive' = alive \ {a}
    /\ result' = "ok"
    /\ UNCHANGED <<maps, isDirty, checked>>

(* ~Property(), while the Properties object is there. *)
Destroy(a) ==
    /\ a \in alive
    /\ DoUnbindByValue(a)
    /\ alive' = alive \ {a}
    /\ result' = "ok"
    /\ UNCHANGED isDirty

(* unbind_property(): by the address this name is bound to. *)
Unbind(n) ==
    /\ IF n \in DOMAIN properties
       THEN /\ properties' = Without(properties, n)
            /\ nameByValue' = Without(nameByValue, properties[n].value)
            /\ checked' = checked \ {n}
            /\ result' = "ok"
       ELSE result' = "false" /\ UNCHANGED <<maps, checked>>
    /\ UNCHANGED <<isDirty, alive>>

(* set_property_value(): a binder of a variable refuses when it is         *)
(* read-only, one of a writer function does not look.                      *)
MaySet(n) ==
    /\ n \in DOMAIN properties
    /\ properties[n].functional \/ properties[n].trait # "READONLY"

SetValue(n, accepted) ==
    /\ IF accepted /\ MaySet(n)
       THEN /\ properties' = [properties EXCEPT ![n].isSet = TRUE]
            /\ isDirty' = TRUE
            /\ result' = "ok"
            /\ UNCHANGED <<nameByValue, checked>>
       ELSE CallThrows /\ UNCHANGED maps
    /\ UNCHANGED alive

WrongResetValue(n) ==
    /\ IF n \in DOMAIN properties
       THEN /\ properties' = [properties EXCEPT ![n].isSet = FALSE]
            /\ result' = "ok"
            /\ UNCHANGED <<nameByValue, isDirty, checked>>
       ELSE CallThrows /\ UNCHANGED maps
    /\ UNCHANGED alive

(* reset_property(): the variable keeps its value. *)
ResetValue(n) ==
    /\ IF n \in DOMAIN properties
       THEN /\ properties' = [properties EXCEPT ![n].isSet = FALSE]
            /\ isDirty' = TRUE
            /\ result' = "ok"
            /\ UNCHANGED <<nameByValue, checked>>
       ELSE CallThrows /\ UNCHANGED maps
    /\ UNCHANGED alive

(* Property::set_trait(), through the address. *)
SetTrait(a, trait) ==
    /\ IF a \in DOMAIN nameByValue /\ nameByValue[a] \in DOMAIN properties
       THEN /\ properties' = [properties EXCEPT ![nameByValue[a]].trait = trait]
            /\ result' = "ok"
            /\ UNCHANGED <<nameByValue, isDirty, checked>>
       ELSE CallThrows /\ UNCHANGED maps
    /\ UNCHANGED alive

Required == {n \in DOMAIN properties : properties[n].trait = "REQUIRED"}
Unset == {n \in Required : ~properties[n].isSet}

(* validate(): the object is clean exactly when nothing required is unset. *)
Validate ==
    /\ isDirty' = (Unset # {})
    /\ checked' = Required \ Unset
    /\ result' = IF Unset = {} THEN "ok" ELSE "false"
    /\ UNCHANGED <<maps, alive>>

PropertiesNext ==
    \/ \E n \in Names, a \in Addresses, t \in Traits, f \in BOOLEAN :
        Bind(n, a, t, f) \/ Construct(n, a, t, f)
    \/ \E n \in Names, a \in Addresses : ConstructThrows(n, a)
    \/ \E a \in Addresses : Destroy(a) \/ (\E t \in Traits : SetTrait(a, t))
    \/ \E n \in Names : Unbind(n) \/ ResetValue(n) \/ (\E ok \in BOOLEAN : SetValue(n, ok))
    \/ Validate

PropertiesSpec == PropertiesInit /\ [][PropertiesNext]_propertiesVars
-----------------------------------------------------------------------------
IsMapInto(f, D, R) == DOMAIN f \subseteq D /\ f \in [DOMAIN f -> R]

TypeOK ==
    /\ IsMapInto(properties, Names, Binder)
    /\ IsMapInto(nameByValue, Addresses, Names)
    /\ isDirty \in BOOLEAN
    /\ alive \subseteq Addresses \ Foreign
    /\ checked \subseteq Names
    /\ result \in {"ok", "throws", "false"}

(* MapsAreInverse: the two maps always describe the same bindings: the      *)
(* "internal inconsistency" that both unbind functions provide for cannot   *)
(* happen, after any sequence of calls, failed ones included.               *)
MapsAreInverse ==
    /\ \A n \in DOMAIN properties :
        properties[n].value \in DOMAIN nameByValue /\ nameByValue[properties[n].value] = n
    /\ \A a \in DOMAIN nameByValue :
        nameByValue[a] \in DOMAIN properties /\ properties[nameByValue[a]].value = a

(* BoundIsAlive: no name leads to the variable of a Property that is gone,  *)
(* so that setting it by name cannot write to memory that was freed.        *)
BoundIsAlive == \A n \in DOMAIN properties : properties[n].value \in alive \cup Foreign

(* CleanKeepsChecked: while the object is clean, everything that its last   *)
(* validation found required is still set, unless it was unbound.  (What is *)
(* bound or made required after that validation does not make it dirty.)    *)
CleanKeepsChecked ==
    ~isDirty => \A n \in checked : n \in DOMAIN properties /\ properties[n].isSet

(* ThrowingChangesNothing: a call that throws leaves every binding as it    *)
(* was, and constructing a Property over a name that is taken leaves the    *)
(* one that has it bound.                                                   *)
ThrowingChangesNothing ==
    [][result' = "throws" => UNCHANGED <<maps, isDirty, alive>>]_propertiesVars
=============================================================================
