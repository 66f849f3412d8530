----------------------------- MODULE DshowObjects -----------------------------
(***************************************************************************)
(* The COM objects of the DirectShow filter (stubs/dshow_filter.cpp): the  *)
(* class factory, the filter and its output pin, an enumerator of pins and *)
(* one of media types.  Each counts its references and holds the DLL in    *)
(* memory while it lives; the filter and the pin enumerators refer to the  *)
(* pin, the pin refers back to the filter without a reference.  What a     *)
(* client does with the references it was given is its own business: any   *)
(* order of calls and releases is followed here, one object of each kind.  *)
(***************************************************************************)
EXTENDS Integers, FiniteSets

CONSTANT MaxRefs        \* references a client keeps to one object

ASSUME ObjectConstants == MaxRefs \in Nat \ {0}

VARIABLES
    refs,       \* ref_ of each object, 0 when it does not exist
    held,       \* of these, references the client has
    locks,      \* g_lock_count
    served,     \* LockServer(TRUE) is in force
    loaded,     \* the DLL is in memory
    touched     \* freed memory was used: no, by an orphan pin, otherwise

comVars == <<refs, held, locks, served, loaded, touched>>

Objects == {"factory", "filter", "pin", "pins", "types"}

ObjectsInit ==
    /\ refs = [o \in Objects |-> 0] /\ held = [o \in Objects |-> 0]
    /\ locks = 0 /\ served = FALSE /\ loaded = TRUE /\ touched = "no"

Lives(o) == refs[o] > 0

(* Every constructor locks the module, every destructor unlocks it. *)
Locking(born) == born

Update(r, h) ==
    /\ refs' = r /\ held' = h
    /\ locks' = locks + Cardinality(Locking({o \in Objects : refs[o] = 0 /\ r[o] > 0}))
                      - Cardinality({o \in Objects : refs[o] > 0 /\ r[o] = 0})
    /\ UNCHANGED <<served, loaded>>

Given(o) == [held EXCEPT ![o] = @ + 1]
MayHold(o) == held[o] < MaxRefs

(* The class factory; a wrong interface id frees it at once. *)
DllGetClassObject ==
    /\ loaded /\ ~Lives("factory")
    /\ Update([refs EXCEPT !["factory"] = 1], Given("factory"))
    /\ UNCHANGED touched

(* The reference of `new` is given up after QueryInterface took its own. *)
InstanceRefs == 1

CreateInstance ==
    /\ held["factory"] > 0 /\ ~Lives("filter") /\ ~Lives("pin")
    /\ Update([refs EXCEPT !["filter"] = InstanceRefs, !["pin"] = 1], Given("filter"))
    /\ UNCHANGED touched

AddRef(o) ==
    /\ held[o] > 0 /\ MayHold(o)
    /\ Update([refs EXCEPT ![o] = @ + 1], Given(o))
    /\ UNCHANGED touched

(* Release; the filter's and the enumerator's destructor release the pin. *)
Release(o) ==
    /\ held[o] > 0
    /\ LET last == refs[o] = 1
           own == [refs EXCEPT ![o] = @ - 1]
           down == last /\ o \in {"filter", "pins"}
       IN /\ Update(IF down /\ own["pin"] > 0 THEN [own EXCEPT !["pin"] = @ - 1] ELSE own,
                    [held EXCEPT ![o] = @ - 1])
          /\ touched' = IF down /\ own["pin"] = 0 THEN "freed" ELSE touched
-------------------------------------------------------------------------------
(* Calls on the filter that hand out references. *)

PinKept == [refs EXCEPT !["pin"] = @ + 1]

EnumPins ==
    /\ held["filter"] > 0 /\ ~Lives("pins")
    /\ Update([PinKept EXCEPT !["pins"] = 1], Given("pins"))
    /\ UNCHANGED touched

FindPin ==
    /\ held["filter"] > 0 /\ MayHold("pin")
    /\ Update([refs EXCEPT !["pin"] = @ + 1], Given("pin"))
    /\ UNCHANGED touched

(* IEnumPins::Next gives the pin the enumerator holds. *)
NextPin ==
    /\ held["pins"] > 0 /\ MayHold("pin")
    /\ Update([refs EXCEPT !["pin"] = @ + 1], Given("pin"))
    /\ touched' = IF Lives("pin") THEN touched ELSE "freed"
-------------------------------------------------------------------------------
(* Calls on the pin that go to parent_. *)

Parent == IF Lives("filter") THEN touched ELSE "orphan"

EnumMediaTypes ==
    /\ held["pin"] > 0 /\ ~Lives("types")
    /\ touched' = Parent
    /\ Update([refs EXCEPT !["types"] = 1], Given("types"))

QueryPinInfo ==
    /\ held["pin"] > 0 /\ MayHold("filter")
    /\ touched' = Parent
    /\ IF Lives("filter")
       THEN Update([refs EXCEPT !["filter"] = @ + 1], Given("filter"))
       ELSE UNCHANGED <<refs, held, locks, served, loaded>>
-------------------------------------------------------------------------------
LockServer ==
    /\ held["factory"] > 0
    /\ served' = ~served
    /\ locks' = IF served THEN locks - 1 ELSE locks + 1
    /\ UNCHANGED <<refs, held, loaded, touched>>

(* COM unloads the DLL when it may. *)
DllCanUnloadNow ==
    /\ loaded /\ locks = 0
    /\ loaded' = FALSE
    /\ UNCHANGED <<refs, held, locks, served, touched>>

ObjectsNext ==
    \/ DllGetClassObject \/ CreateInstance \/ EnumPins \/ FindPin \/ NextPin
    \/ EnumMediaTypes \/ QueryPinInfo \/ LockServer \/ DllCanUnloadNow
    \/ \E o \in Objects : AddRef(o) \/ Release(o)
-------------------------------------------------------------------------------
(* The DLL leaves memory only when none of its objects is left, also the
   ones a client got last and kept: DllCanUnloadNow goes by a counter. *)
UnloadedIsEmpty == ~loaded => \A o \in Objects : ~Lives(o)

(* Freed memory is reached only through a pin that outlived its filter
   (parent_ is not a reference); the reference counts themselves, over any
   order of releases, free nothing that is in use. *)
OnlyOrphansDangle == touched \in {"no", "orphan"}

(* Once the client has released everything, every object is gone and the
   module is free but for LockServer. *)
NothingLeaks ==
    (\A o \in Objects : held[o] = 0)
        => (\A o \in Objects : ~Lives(o)) /\ locks = (IF served THEN 1 ELSE 0)
===============================================================================
