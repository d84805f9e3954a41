------------------------------- MODULE Holders -------------------------------
(***************************************************************************)
(* variant and any (con_utility.h): storage that holds at most one object, *)
(* made with placement new or new, and a tag that says which: _M_anchor    *)
(* of a variant, the manager _M_m of an any.  Making an object may throw.  *)
(***************************************************************************)
EXTENDS Integers

CONSTANTS Variants, Anys,
          Alternatives,   \* the number of types, told apart by their positions
          MaxObjects

ASSUME AlternativesAssumption == Alternatives \in Nat /\ MaxObjects \in Nat
ASSUME HoldersAssumption == Variants \cap Anys = {}

HolderIds == Variants \cup Anys
Positions == 0 .. Alternatives - 1
union_npos == -1     \* of a variant that is empty, and for the null _M_m of an any

VARIABLES
  built,      \* the variants and anys that exist
  anchor,     \* anchor[h]: the type of the object in h, or union_npos
  bits,       \* bits[h]: the object whose bytes or address are in the storage of h
  made,       \* how many objects were made; object i is the i-th
  living,     \* those not destroyed yet
  twice,      \* an object was destroyed a second time
  bitwise,    \* one variant was assigned to another
  ended    \* std::terminate was called

holderVars == <<built, anchor, bits, made, living, twice, bitwise, ended>>

HoldersInit ==
  /\ built = {} /\ made = 0 /\ living = {}
  /\ anchor = [h \in HolderIds |-> union_npos]
  /\ bits = [h \in HolderIds |-> 0]
  /\ twice = FALSE /\ bitwise = FALSE /\ ended = FALSE

(* An object of type a is made in the storage of h, then the tag is set. *)
Makes(h, a) ==
  /\ made < MaxObjects
  /\ made' = made + 1
  /\ bits' = [bits EXCEPT ![h] = made + 1]
  /\ anchor' = [anchor EXCEPT ![h] = a]

Dies(h) == IF anchor[h] = union_npos THEN {} ELSE {bits[h]}

(* _M_destory(), reset(): the object that the tag names is destroyed. *)
Destroys(h) ==
  /\ living' = living \ Dies(h)
  /\ twice' = (twice \/ ~ Dies(h) \subseteq living)

-----------------------------------------------------------------------------
(* variant(), and any() *)
DefaultConstruct(h) ==
  /\ h \notin built
  /\ built' = built \cup {h}
  /\ anchor' = [anchor EXCEPT ![h] = union_npos]
  /\ UNCHANGED <<bits, made, living, twice, bitwise, ended>>

(* A variant of a value, also of the one another variant holds.  When the  *)
(* value cannot be made, or the other variant is empty, there is none.     *)
Construct(v, a) ==
  /\ v \in Variants \ built
  /\ Makes(v, a)
  /\ built' = built \cup {v}
  /\ living' = living \cup {made + 1}
  /\ UNCHANGED <<twice, bitwise, ended>>

ConvertFrom(v, w) == w \in built /\ anchor[w] # union_npos /\ Construct(v, anchor[w])

(* Mutant: the object of another type is not destroyed first. *)
AssignOver(v, a) ==
  /\ v \in Variants \cap built /\ anchor[v] # a
  /\ Makes(v, a)
  /\ living' = living \cup {made + 1}
  /\ UNCHANGED <<built, twice, bitwise, ended>>

(* operator=(T): an object of the same type is assigned to and stays.  One *)
(* of another type is destroyed, and if the new one throws while it is     *)
(* made the variant is left empty.                                         *)
Assign(v, a) ==
  /\ v \in Variants \cap built /\ anchor[v] # a
  /\ twice' = (twice \/ ~ Dies(v) \subseteq living)
  /\ \/ /\ Makes(v, a)
        /\ living' = (living \ Dies(v)) \cup {made + 1}
     \/ /\ anchor' = [anchor EXCEPT ![v] = union_npos]
        /\ living' = living \ Dies(v)
        /\ UNCHANGED <<bits, made>>
  /\ UNCHANGED <<built, bitwise, ended>>

(* v = w: the copy constructor is deleted, the assignment is not, and the  *)
(* implicit one copies the bytes and the anchor.                           *)
AssignVariant(v, w) ==
  /\ v \in Variants \cap built /\ w \in Variants \cap built /\ v # w
  /\ anchor' = [anchor EXCEPT ![v] = anchor[w]]
  /\ bits' = [bits EXCEPT ![v] = bits[w]]
  /\ bitwise' = TRUE
  /\ UNCHANGED <<built, made, living, twice, ended>>

(* any(value) is noexcept: a value that throws while it is moved in is the *)
(* end of the process.                                                     *)
AnyConstruct(h, a) ==
  /\ h \in Anys \ built
  /\ \/ /\ Makes(h, a)
        /\ built' = built \cup {h}
        /\ living' = living \cup {made + 1}
        /\ UNCHANGED ended
     \/ /\ ended' = TRUE
        /\ UNCHANGED <<anchor, bits, made, built, living>>
  /\ UNCHANGED <<twice, bitwise>>

AnyReset(h) ==
  /\ h \in Anys \cap built
  /\ Destroys(h)
  /\ anchor' = [anchor EXCEPT ![h] = union_npos]
  /\ UNCHANGED <<built, bits, made, bitwise, ended>>

(* ~variant() and ~any() *)
Destruct(h) ==
  /\ h \in built
  /\ Destroys(h)
  /\ anchor' = [anchor EXCEPT ![h] = union_npos]
  /\ built' = built \ {h}
  /\ UNCHANGED <<bits, made, bitwise, ended>>

-----------------------------------------------------------------------------
HoldersNext ==
  /\ ~ended
  /\ \E h \in HolderIds :
       \/ DefaultConstruct(h) \/ AnyReset(h) \/ Destruct(h)
       \/ \E a \in Positions : Construct(h, a) \/ Assign(h, a) \/ AnyConstruct(h, a)
       \/ \E w \in Variants : ConvertFrom(h, w) \/ AssignVariant(h, w)

HoldersSpec == HoldersInit /\ [][HoldersNext]_holderVars

-----------------------------------------------------------------------------
(* Every variable of the holders keeps its type. *)
HoldersTypeOK ==
  /\ built \subseteq HolderIds
  /\ anchor \in [HolderIds -> Positions \cup {union_npos}]
  /\ bits \in [HolderIds -> 0 .. MaxObjects]
  /\ made \in 0 .. MaxObjects /\ living \subseteq 1 .. made
  /\ twice \in BOOLEAN /\ bitwise \in BOOLEAN /\ ended \in BOOLEAN

Held(h) == h \in built /\ anchor[h] # union_npos

(* Whatever throws, an object lives exactly as long as one holder names it *)
(* as its own: none is leaked, shared or destroyed twice.  Only assigning  *)
(* one variant to another breaks it.                                       *)
OneHolderPerObject ==
  ~bitwise =>
    /\ ~twice
    /\ living = {bits[h] : h \in {g \in HolderIds : Held(g)}}
    /\ \A g, h \in HolderIds : Held(g) /\ Held(h) /\ bits[g] = bits[h] => g = h
=============================================================================
